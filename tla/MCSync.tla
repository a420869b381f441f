------------------------------- MODULE MCSync -------------------------------
(***************************************************************************)
(* A source history of N commits with a release at some of them.  Those in *)
(* Side are a line of their own that leaves the main one at commit 1.      *)
(***************************************************************************)
EXTENDS Sync, TLC

CONSTANTS N, Side, ReleasedAt

MCCommits == 1..N
MCAbove ==
    {pair \in MCCommits \X MCCommits :
        /\ pair[1] <= pair[2]
        /\ pair[1] = 1 \/ (pair[1] \in Side <=> pair[2] \in Side)}
MCReleases == 1..Cardinality(ReleasedAt)
MCAt == SetToSortSeq(ReleasedAt, <)

Symmetric == Permutations(Runs)
=============================================================================

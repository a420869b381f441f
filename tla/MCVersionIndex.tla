--------------------------- MODULE MCVersionIndex ---------------------------
(* Planning runs on one index file or on two; the first record may carry the
   mapping of an earlier commit, with its evidence reachable or not. *)
EXTENDS VersionIndex

CONSTANTS r1, r2, r3, one, two

Shared == [r \in Runs |-> one]
Apart == [r \in Runs |-> IF r = r2 THEN two ELSE one]
Earliers == {<<>>, With(<<>>, 0, 1)}
=============================================================================

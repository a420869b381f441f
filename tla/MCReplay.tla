------------------------------ MODULE MCReplay ------------------------------
(***************************************************************************)
(* Releases of four commits above the published anchor.  A module of two   *)
(* packages: version 1 of the root imports the other one.                  *)
(***************************************************************************)
EXTENDS Replay, TLC

CONSTANTS root, dep, Shapes

Tree(r, d) == (root :> r) @@ (dep :> d)
Trees == {Tree(r, d) : r, d \in {0, 1}}
Older == {Tree(0, 0), Tree(1, 1)}
MCClosure(tree) == IF tree[root] = 1 THEN {root, dep} ELSE {root}

(* The parents of commits 2 to 5. *)
Shape ==
    [line         |-> <<<<1>>, <<2>>, <<3>>, <<4>>>>,
     side         |-> <<<<1>>, <<1>>, <<2, 3>>, <<4>>>>,
     longside     |-> <<<<1>>, <<2>>, <<1, 3>>, <<4>>>>,
     fromBelow    |-> <<<<0>>, <<1>>, <<3, 2>>, <<4>>>>,
     mergedTwice  |-> <<<<1>>, <<1>>, <<2, 3>>, <<4, 3>>>>,
     octopus      |-> <<<<1>>, <<1>>, <<1>>, <<2, 3, 4>>>>,
     root         |-> <<<<>>, <<1>>, <<3, 2>>, <<4>>>>,
     anchorMerged |-> <<<<0>>, <<2, 1>>, <<3>>, <<4>>>>]

MCHistories ==
    {[parents |-> <<<<>>>> \o Shape[shape], content |-> trees] :
        shape \in Shapes,
        trees \in {1 :> Tree(0, 0) @@ 2 :> t2 @@ 3 :> t3 @@ 4 :> t4
                        @@ 5 :> Tree(0, 1) @@ 0 :> t0 : t0 \in Older, t2, t3, t4 \in Trees}}
=============================================================================

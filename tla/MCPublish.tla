----------------------------- MODULE MCPublish -----------------------------
(***************************************************************************)
(* A small destination.  c0 is the setup commit, c1 and d1 are two         *)
(* generations of the first release on it (two engines, or two inputs),    *)
(* e1 is a later one on c1, and x0 and x1 are control-plane commits an     *)
(* operator pushes on c0 and on c1.  t1, u1 and w1 are the annotated tags  *)
(* of c1, d1 and e1.  s1 and r1 are the state records of the two           *)
(* generations and s2 succeeds s1.                                         *)
(***************************************************************************)
EXTENDS Publish, TLC

CONSTANTS c0, c1, d1, e1, x0, x1, t1, u1, w1, s1, r1, s2
CONSTANTS main, state, progress, v1
CONSTANTS Asked, Moved, Lossy

MCHeadRefs == {main, state}
MCTagRefs == {v1}
MCProgressRefs == {progress}
MCObjects == {c0, c1, d1, e1, x0, x1, t1, u1, w1, s1, r1, s2}
MCTagObjects == {t1, u1, w1}

Peeled == {<<t1, c1>>, <<c1, t1>>, <<t1, x1>>, <<c0, t1>>,
           <<u1, d1>>, <<d1, u1>>, <<c0, u1>>,
           <<w1, e1>>, <<e1, w1>>, <<c0, w1>>, <<c1, w1>>, <<t1, e1>>, <<t1, w1>>}
MCAnc == {<<o, o>> : o \in MCObjects} \cup Peeled
         \cup {<<c0, c1>>, <<c0, d1>>, <<c0, x0>>, <<c0, x1>>, <<c1, x1>>,
                <<c0, e1>>, <<c1, e1>>, <<s1, s2>>}

MCDestinations ==
    {[ref \in MCHeadRefs \cup MCTagRefs \cup MCProgressRefs |->
        IF ref = main THEN c0 ELSE None]}

Branch(o) == [kind |-> "branch", new |-> o]
Tag(o) == [kind |-> "tag", new |-> o]
State(o) == [kind |-> "state", new |-> o]
Progress(o) == [kind |-> "progress", new |-> o]

Release(c, t, s) ==
    [mode |-> "sync", wants |-> (main :> Branch(c) @@ v1 :> Tag(t) @@ state :> State(s))]

(* sync.Plan for the first release, by either generation. *)
First == Release(c1, t1, s1)
Rival == Release(d1, u1, r1)
(* The release again, at a later commit and so under another tag object. *)
Retag == Release(e1, w1, s2)
(* planObservedReconciliation after the first release. *)
Reconciled ==
    [mode |-> "reconcile",
     wants |-> (main :> Branch(c1) @@ v1 :> Tag(t1) @@ state :> State(s2))]
(* ApplyCheckpoint. *)
Checkpoint ==
    [mode |-> "checkpoint", wants |-> (progress :> Progress(c1) @@ state :> State(s1))]
(* Bookkeeping named as a consumer branch, beside a consumer tag. *)
Misnamed ==
    [mode |-> "sync", wants |-> (state :> Branch(c1) @@ v1 :> Tag(t1))]

Every == [first |-> First, rival |-> Rival, retag |-> Retag, reconcile |-> Reconciled,
          checkpoint |-> Checkpoint, misnamed |-> Misnamed]

MCRequests == {Every[name] : name \in Asked}
MCOutside == IF Moved THEN {<<main, x0>>, <<main, x1>>} ELSE {}
MCStores == {MCObjects} \cup (IF Lossy THEN {MCObjects \ {c0}} ELSE {})

Symmetric == Permutations(Runs)

(* Two runs race with the two generations of the first release; every other
   request, and a store that lost its objects, is one run's alone. *)
Focused ==
    \/ /\ \A r \in Runs : request[r] \in {NoRequest, First, Rival} /\ store[r] \in {{}, MCObjects}
       /\ remote[progress] = None /\ remote[state] # s2 /\ remote[main] # e1
       /\ \A r \in Runs : approval[r] # NoPlan =>
            /\ DOMAIN approval[r] = {main, state, v1}
            /\ approval[r][state].new # s2
    \/ \E r \in Runs : \A other \in Runs \ {r} : request[other] = NoRequest
=============================================================================

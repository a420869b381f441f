--------------------------- MODULE PublishProofs ---------------------------
(***************************************************************************)
(* Proofs about Publish for any set of runs, refs, objects and requests.   *)
(***************************************************************************)
EXTENDS Publish, TLAPS

-----------------------------------------------------------------------------
(* What the operators on plans and batches return. *)

LEMMA NoPlanPartial == ASSUME NEW S PROVE Partial(NoPlan, S)
  BY DEF Partial, NoPlan

LEMMA PlannedPartial ==
    ASSUME NEW wants, NEW refs \in [Refs -> Value], Partial(wants, Want)
    PROVE  Partial(Planned(wants, refs), Action)
  BY DEF Partial, Planned, Want, Action, Value

LEMMA BatchPartial ==
    ASSUME NEW p, NEW s, Partial(p, Action)
    PROVE  Partial(Batch(p, s), Action)
  BY DEF Partial, Batch, Pending, Covered

LEMMA SentPartial ==
    ASSUME NEW batch, NEW refs \in [Refs -> Value], Partial(batch, Action)
    PROVE  Partial(P!Sent(batch, refs), Move)
  BY DEF Partial, P!Sent, P!Outstanding, Action, Move

(* Nothing is sent that does not hold its lease. *)
LEMMA SentMoves ==
    ASSUME NEW batch, NEW refs, ~P!Stale(batch, refs),
           NEW ref \in DOMAIN P!Sent(batch, refs)
    PROVE  /\ ref \in DOMAIN batch
           /\ P!Sent(batch, refs)[ref].old = batch[ref].old
           /\ P!Sent(batch, refs)[ref].new = batch[ref].new
           /\ refs[ref] = batch[ref].old /\ refs[ref] # batch[ref].new
  BY DEF P!Sent, P!Outstanding, P!Stale

LEMMA LandedType ==
    ASSUME NEW moves, NEW refs \in [Refs -> Value], Partial(moves, Move)
    PROVE  P!Landed(moves, refs) \in [Refs -> Value]
  BY DEF Partial, P!Landed, Move, Value

LEMMA OrphanedType ==
    ASSUME NEW r \in Runs, Orphaned(r), \A p \in wire : Message(p)
    PROVE  /\ \A p \in wire' : Message(p)
           /\ \A p \in wire' : \E q \in wire : p.moves = q.moves
           /\ \A p \in wire' \ wire : p.live = FALSE
           /\ \A p \in wire' : p.live => p \in wire /\ p.run # r
<1> DEFINE mine == {p \in wire : p.run = r /\ p.live}
           silenced == {[p EXCEPT !.live = FALSE] : p \in mine}
<1>1. \A p \in silenced : /\ Message(p) /\ p.live = FALSE
                          /\ \E q \in wire : p.moves = q.moves
  <2> TAKE p \in silenced
  <2>0. PICK q \in mine : p = [q EXCEPT !.live = FALSE]
    OBVIOUS
  <2>1. q = [run |-> q.run, scope |-> q.scope, live |-> q.live, moves |-> q.moves]
    BY DEF Message
  <2>2. p = [run |-> q.run, scope |-> q.scope, live |-> FALSE, moves |-> q.moves]
    BY <2>0, <2>1
  <2>3. p.run = q.run /\ p.scope = q.scope /\ p.live = FALSE /\ p.moves = q.moves
    BY <2>2
  <2> QED BY <2>2, <2>3 DEF Message
<1>2. wire' \subseteq (wire \ mine) \cup silenced
  BY DEF Orphaned
<1> QED BY <1>1, <1>2

LEMMA AdvanceType ==
    ASSUME NEW r \in Runs, TypeOK, Advance(r)
    PROVE  scope' \in [Runs -> Scopes] /\ pc' \in [Runs -> Phases]
  BY DEF Advance, TypeOK, Scopes, Phases

LEMMA SaidType ==
    ASSUME NEW r \in Runs, NEW verdict \in Verdicts, TypeOK
    PROVE  [said EXCEPT ![r][scope[r]] = verdict] \in [Runs -> [Scopes -> Verdicts]]
<1>1. scope[r] \in Scopes /\ said[r] \in [Scopes -> Verdicts]
  BY DEF TypeOK
<1>2. [said[r] EXCEPT ![scope[r]] = verdict] \in [Scopes -> Verdicts]
  BY <1>1
<1> QED BY <1>2 DEF TypeOK

-----------------------------------------------------------------------------
(* The publisher's state always has its type, whatever the destination, the
   requests and the faults: Init establishes TypeOK and every action of
   publish/apply.go and sync/apply.go preserves it. *)
THEOREM TypeCorrect == Spec => []TypeOK
<1>1. Init => TypeOK
  BY NoPlanPartial, RequestAssumption DEF Init, TypeOK, NoRequest, Phases, Verdicts, Nothing, Value, Scopes
<1>2. ASSUME TypeOK, [Next]_vars PROVE TypeOK'
  <2> USE <1>2
  <2>1. ASSUME NEW r \in Runs, Observe(r) PROVE TypeOK'
    BY <2>1, RequestAssumption DEF Observe, TypeOK, Phases, Verdicts, Nothing, Scopes
  <2>2. ASSUME NEW r \in Runs, Plan(r) PROVE TypeOK'
    <3>1. request[r] \in Requests \cup {NoRequest} /\ Partial(request[r].wants, Want)
      BY RequestAssumption, NoPlanPartial DEF TypeOK, NoRequest
    <3>2. Partial(Planned(request[r].wants, remote), Action) /\ Partial(NoPlan, Action)
      BY <3>1, PlannedPartial, NoPlanPartial DEF TypeOK
    <3>3. \A q \in Runs : Partial(plan'[q], Action)
      BY <2>2, <3>2 DEF Plan, TypeOK
    <3> QED BY <2>2, <3>3 DEF Plan, TypeOK, FirstScope, Phases, Scopes, Value
  <2>3. ASSUME NEW r \in Runs, Approve(r) PROVE TypeOK'
    BY <2>3 DEF Approve, TypeOK
  <2>4. ASSUME NEW r \in Runs, Apply(r) PROVE TypeOK'
    <3>1. PICK have \in Stores : store' = [store EXCEPT ![r] = have]
      BY <2>4 DEF Apply
    <3>2. store' \in [Runs -> SUBSET Objects]
      BY <3>1, RequestAssumption DEF TypeOK
    <3>3. \/ pc' = [pc EXCEPT ![r] = "done"] /\ scope' = scope /\ said' = said
          \/ Advance(r) /\ said' = [said EXCEPT ![r][scope[r]] = "already"]
          \/ pc' = [pc EXCEPT ![r] = "pushing"] /\ scope' = scope /\ said' = said
      BY <2>4 DEF Apply
    <3>4. scope' \in [Runs -> Scopes] /\ pc' \in [Runs -> Phases]
      BY <3>3, AdvanceType DEF TypeOK, Phases
    <3>5. "already" \in Verdicts
      BY DEF Verdicts
    <3>6. [said EXCEPT ![r][scope[r]] = "already"] \in [Runs -> [Scopes -> Verdicts]]
      BY <3>5, SaidType
    <3>7. said' \in [Runs -> [Scopes -> Verdicts]]
      BY <3>3, <3>6 DEF TypeOK
    <3> QED BY <2>4, <3>2, <3>4, <3>7 DEF Apply, TypeOK
  <2>5. ASSUME NEW r \in Runs, Connect(r) PROVE TypeOK'
    <3> DEFINE batch == Batch(plan[r], scope[r])
               message == [run |-> r, scope |-> scope[r], live |-> TRUE,
                           moves |-> P!Sent(batch, remote)]
    <3>1. Partial(P!Sent(batch, remote), Move)
      BY BatchPartial, SentPartial DEF TypeOK
    <3>2. Message(message)
      BY <3>1 DEF Message, TypeOK
    <3>3. wire' \subseteq wire \cup {message}
      BY <2>5 DEF Connect, Refused
    <3>4. \A p \in wire' : Message(p)
      BY <3>2, <3>3 DEF TypeOK
    <3> QED BY <2>5, <3>4 DEF Connect, Refused, TypeOK, Phases
  <2>6. ASSUME NEW p \in wire, ServerDecides(p) PROVE TypeOK'
    <3>1. p.run \in Runs /\ Partial(p.moves, Move)
      BY DEF TypeOK, Message
    <3>2. remote' \in [Refs -> Value]
      BY <2>6, <3>1, LandedType DEF ServerDecides, TypeOK
    <3>3. answer' \in [Runs -> {"none", "ok", "error"}]
      BY <2>6, <3>1 DEF ServerDecides, TypeOK
    <3>4. faults' \in Nat
      BY <2>6, <3>1 DEF ServerDecides, TypeOK, Fault
    <3>5. pc' \in [Runs -> Phases]
      BY <2>6, <3>1 DEF ServerDecides, TypeOK, Phases
    <3> QED BY <2>6, <3>2, <3>3, <3>4, <3>5 DEF ServerDecides, TypeOK
  <2>7. ASSUME NEW r \in Runs, Drop(r) PROVE TypeOK'
    <3>1. \A p \in wire' : Message(p)
      BY <2>7, OrphanedType DEF Drop, TypeOK
    <3> QED BY <2>7, <3>1 DEF Drop, TypeOK, Phases, Fault
  <2>8. ASSUME NEW r \in Runs, Confirm(r) PROVE TypeOK'
    <3>1. \/ /\ pc' = [pc EXCEPT ![r] = "done"] /\ scope' = scope
             /\ \/ said' = said
                \/ said' = [said EXCEPT ![r][scope[r]] = "failed"]
                \/ said' = [said EXCEPT ![r][scope[r]] = "unknown"]
          \/ Advance(r) /\ said' = [said EXCEPT ![r][scope[r]] = "published"]
      BY <2>8 DEF Confirm
    <3>2. scope' \in [Runs -> Scopes] /\ pc' \in [Runs -> Phases]
      BY <3>1, AdvanceType DEF TypeOK, Phases
    <3>3. "published" \in Verdicts /\ "failed" \in Verdicts /\ "unknown" \in Verdicts
      BY DEF Verdicts
    <3>4. /\ [said EXCEPT ![r][scope[r]] = "published"] \in [Runs -> [Scopes -> Verdicts]]
          /\ [said EXCEPT ![r][scope[r]] = "failed"] \in [Runs -> [Scopes -> Verdicts]]
          /\ [said EXCEPT ![r][scope[r]] = "unknown"] \in [Runs -> [Scopes -> Verdicts]]
      BY <3>3, SaidType
    <3>5. said' \in [Runs -> [Scopes -> Verdicts]]
      BY <3>1, <3>4 DEF TypeOK
    <3> QED BY <2>8, <3>2, <3>5 DEF Confirm, TypeOK
  <2>9. ASSUME NEW r \in Runs, Crash(r) PROVE TypeOK'
    <3>1. \A q \in Runs : Partial(plan'[q], Action)
      BY <2>9, NoPlanPartial DEF Crash, TypeOK
    <3>2. \A p \in wire' : Message(p)
      BY <2>9, OrphanedType DEF Crash, TypeOK
    <3> QED BY <2>9, <3>1, <3>2 DEF Crash, TypeOK, Fault, Phases, Verdicts, Nothing, Scopes, Value
  <2>10. CASE OutsidePush
    BY <2>10, RequestAssumption DEF OutsidePush, TypeOK, Value
  <2>11. CASE UNCHANGED vars
    BY <2>11 DEF vars, TypeOK
  <2> QED
    BY <2>1, <2>2, <2>3, <2>4, <2>5, <2>6, <2>7, <2>8, <2>9, <2>10, <2>11
    DEF Next, RunStep
<1> QED BY <1>1, <1>2, PTL DEF Spec

-----------------------------------------------------------------------------
(* Why no push can rewind a ref.  A plan holds only moves that were forward
   when they were classified; whatever is on its way to the server came out
   of such a plan, and stays forward because it lands only on the value it
   was proved from. *)

ForwardAction(ref, action) ==
    /\ NamespaceOK(ref, action.kind)
    /\ \/ action.old = None
       \/ NoOp(action)
       \/ action.kind # "tag" /\ <<action.old, action.new>> \in Anc

PlansForward == \A r \in Runs : \A ref \in DOMAIN plan[r] : ForwardAction(ref, plan[r][ref])

ForwardMoves(moves) ==
    /\ \A ref \in DOMAIN moves : A!Forward(ref, moves[ref].old, moves[ref].new)
    /\ DOMAIN moves \subseteq Bookkeeping \/ DOMAIN moves \cap Bookkeeping = {}

WireForward == \A p \in wire : ForwardMoves(p.moves)

(* What Apply checked still holds when the push starts. *)
PushChecked ==
    \A r \in Runs : pc[r] = "pushing" =>
        /\ approval[r] = plan[r]
        /\ scope[r] = "reconcile" => ~MovesConsumer(plan[r])

PushInv == PlansForward /\ WireForward /\ PushChecked

(* The audience of an action is the audience of its ref. *)
LEMMA Audience ==
    ASSUME NEW ref, NEW kind \in Kinds, NamespaceOK(ref, kind)
    PROVE  /\ Consumer(kind) => ref \notin Bookkeeping
           /\ ~Consumer(kind) => ref \in Bookkeeping
           /\ kind # "tag" => ref \notin TagRefs
  BY NamespaceAssumption DEF NamespaceOK, Kinds, Consumer, Bookkeeping

(* Publisher.Plan only ever records forward moves. *)
LEMMA PlannedForward ==
    ASSUME NEW r \in Runs, TypeOK, Plannable(r),
           NEW ref \in DOMAIN request[r].wants
    PROVE  ForwardAction(ref, Planned(request[r].wants, remote)[ref])
  BY DEF Plannable, Planned, Classified, ProvedForward, ForwardAction, NoOp

(* What a push sends is forward, and for one audience. *)
LEMMA SentForward ==
    ASSUME NEW r \in Runs, TypeOK, PushInv, pc[r] = "pushing",
           ~P!Stale(Batch(plan[r], scope[r]), remote)
    PROVE  ForwardMoves(P!Sent(Batch(plan[r], scope[r]), remote))
<1> DEFINE batch == Batch(plan[r], scope[r])
           moves == P!Sent(batch, remote)
<1>1. /\ scope[r] \in Scopes /\ plan[r] \in [DOMAIN plan[r] -> Action] /\ DOMAIN plan[r] \subseteq Refs
      /\ remote \in [Refs -> Value]
  BY DEF TypeOK, Partial
<1>2. ASSUME NEW ref \in DOMAIN moves
      PROVE  /\ ref \in Pending(plan[r], scope[r]) /\ ref \in DOMAIN plan[r]
             /\ moves[ref].old = plan[r][ref].old /\ moves[ref].new = plan[r][ref].new
             /\ ~NoOp(plan[r][ref])
  BY <1>1, <1>2 DEF P!Sent, P!Outstanding, P!Stale, Batch, Pending, Covered, NoOp
<1>3. ASSUME NEW ref \in DOMAIN moves
      PROVE  A!Forward(ref, moves[ref].old, moves[ref].new)
  <2>1. ForwardAction(ref, plan[r][ref]) /\ plan[r][ref].kind \in Kinds /\ plan[r][ref].new \in Objects
    BY <1>1, <1>2, <1>3 DEF PushInv, PlansForward, Action
  <2> QED BY <1>2, <1>3, <2>1, Audience DEF ForwardAction, A!Forward
<1>4. DOMAIN moves \subseteq Bookkeeping \/ DOMAIN moves \cap Bookkeeping = {}
  <2>1. \A ref \in DOMAIN moves : /\ NamespaceOK(ref, plan[r][ref].kind)
                                  /\ plan[r][ref].kind \in Kinds
                                  /\ Covers(scope[r], plan[r][ref])
    BY <1>1, <1>2 DEF PushInv, PlansForward, ForwardAction, Action, Pending, Covered
  <2>2. CASE scope[r] = "consumer"
    BY <2>1, <2>2, Audience DEF Covers
  <2>3. CASE scope[r] = "non-consumer"
    BY <2>1, <2>3, Audience DEF Covers
  <2>4. CASE scope[r] = "reconcile"
    <3>1. \A ref \in DOMAIN moves : ~Consumer(plan[r][ref].kind)
      BY <1>2, <2>4 DEF PushInv, PushChecked, MovesConsumer
    <3> QED BY <2>1, <3>1, Audience
  <2> QED BY <1>1, <2>2, <2>3, <2>4 DEF Scopes
<1> QED BY <1>3, <1>4 DEF ForwardMoves

THEOREM PushSafe == Spec => []PushInv
<1>1. Init => PushInv
  BY DEF Init, PushInv, PlansForward, WireForward, PushChecked, NoPlan
<1>2. ASSUME TypeOK, PushInv, [Next]_vars PROVE PushInv'
  <2> USE <1>2
  <2>1. ASSUME NEW r \in Runs, Observe(r) PROVE PushInv'
    BY <2>1 DEF Observe, PushInv, PlansForward, WireForward, PushChecked, TypeOK
  <2>2. ASSUME NEW r \in Runs, Plan(r) PROVE PushInv'
    <3>1. PlansForward'
      <4>1. CASE Plannable(r)
        <5>1. plan' = [plan EXCEPT ![r] = Planned(request[r].wants, remote)]
          BY <2>2, <4>1 DEF Plan
        <5>2. DOMAIN Planned(request[r].wants, remote) = DOMAIN request[r].wants
          BY DEF Planned
        <5> QED BY <4>1, <5>1, <5>2, PlannedForward DEF PushInv, PlansForward, TypeOK
      <4>2. CASE ~Plannable(r)
        BY <2>2, <4>2 DEF Plan, PushInv, PlansForward, NoPlan, TypeOK
      <4> QED BY <4>1, <4>2
    <3>2. WireForward' /\ PushChecked'
      BY <2>2 DEF Plan, PushInv, WireForward, PushChecked, TypeOK
    <3> QED BY <3>1, <3>2 DEF PushInv
  <2>3. ASSUME NEW r \in Runs, Approve(r) PROVE PushInv'
    BY <2>3 DEF Approve, PushInv, PlansForward, WireForward, PushChecked, TypeOK
  <2>4. ASSUME NEW r \in Runs, Apply(r) PROVE PushInv'
    <3>1. PlansForward' /\ WireForward'
      BY <2>4 DEF Apply, PushInv, PlansForward, WireForward
    <3>2. ASSUME NEW q \in Runs, pc'[q] = "pushing"
          PROVE  approval'[q] = plan'[q] /\ (scope'[q] = "reconcile" => ~MovesConsumer(plan'[q]))
      <4>1. plan' = plan /\ approval' = approval
        BY <2>4 DEF Apply
      <4>2. CASE q = r
        <5>1. \E have \in Stores : Applicable(r, have) /\ scope' = scope
          BY <2>4, <3>2, <4>2 DEF Apply, Advance, TypeOK
        <5> QED BY <4>1, <4>2, <5>1 DEF Applicable
      <4>3. CASE q # r
        <5>1. pc'[q] = pc[q] /\ scope'[q] = scope[q]
          BY <2>4, <4>3 DEF Apply, Advance, TypeOK
        <5> QED BY <3>2, <4>1, <5>1 DEF PushInv, PushChecked
      <4> QED BY <4>2, <4>3
    <3> QED BY <3>1, <3>2 DEF PushInv, PushChecked, MovesConsumer
  <2>5. ASSUME NEW r \in Runs, Connect(r) PROVE PushInv'
    <3>1. PlansForward' /\ PushChecked'
      BY <2>5 DEF Connect, Refused, PushInv, PlansForward, PushChecked, TypeOK
    <3>2. WireForward'
      <4> DEFINE moves == P!Sent(Batch(plan[r], scope[r]), remote)
      <4>1. CASE wire' = wire
        BY <4>1 DEF PushInv, WireForward
      <4>2. CASE /\ ~P!Stale(Batch(plan[r], scope[r]), remote)
                 /\ wire' = wire \cup {[run |-> r, scope |-> scope[r], live |-> TRUE, moves |-> moves]}
        <5>1. ForwardMoves(moves)
          BY <2>5, <4>2, SentForward DEF Connect, Refused
        <5> QED BY <4>2, <5>1 DEF PushInv, WireForward
      <4> QED BY <2>5, <4>1, <4>2 DEF Connect, Refused
    <3> QED BY <3>1, <3>2 DEF PushInv
  <2>6. ASSUME NEW p \in wire, ServerDecides(p) PROVE PushInv'
    <3>1. p.run \in Runs
      BY DEF TypeOK, Message
    <3> QED BY <2>6, <3>1 DEF ServerDecides, PushInv, PlansForward, WireForward, PushChecked, TypeOK
  <2>7. ASSUME NEW r \in Runs, Drop(r) PROVE PushInv'
    <3>1. WireForward'
      BY <2>7, OrphanedType DEF Drop, PushInv, WireForward, TypeOK
    <3> QED BY <2>7, <3>1 DEF Drop, PushInv, PlansForward, PushChecked, TypeOK
  <2>8. ASSUME NEW r \in Runs, Confirm(r) PROVE PushInv'
    <3>1. PlansForward' /\ WireForward'
      BY <2>8 DEF Confirm, PushInv, PlansForward, WireForward
    <3>2. PushChecked'
      BY <2>8 DEF Confirm, Advance, PushInv, PushChecked, TypeOK
    <3> QED BY <3>1, <3>2 DEF PushInv
  <2>9. ASSUME NEW r \in Runs, Crash(r) PROVE PushInv'
    <3>1. WireForward'
      BY <2>9, OrphanedType DEF Crash, PushInv, WireForward, TypeOK
    <3> QED BY <2>9, <3>1 DEF Crash, PushInv, PlansForward, PushChecked, TypeOK, NoPlan
  <2>10. CASE OutsidePush
    BY <2>10 DEF OutsidePush, PushInv, PlansForward, WireForward, PushChecked
  <2>11. CASE UNCHANGED vars
    BY <2>11 DEF vars, PushInv, PlansForward, WireForward, PushChecked
  <2> QED
    BY <2>1, <2>2, <2>3, <2>4, <2>5, <2>6, <2>7, <2>8, <2>9, <2>10, <2>11
    DEF Next, RunStep
<1> QED BY <1>1, <1>2, TypeCorrect, PTL DEF Spec

-----------------------------------------------------------------------------
(* The refinement, and the approval every move was sent under. *)

(* A push the server takes moves its refs forward, all of one audience. *)
LEMMA LandedForward ==
    ASSUME NEW p \in wire, TypeOK, PushInv, P!Lockable(p.moves, remote),
           remote' = P!Landed(p.moves, remote)
    PROVE  /\ \A ref \in A!Changed : A!Forward(ref, remote[ref], remote'[ref])
           /\ A!Changed \subseteq Bookkeeping \/ A!Changed \cap Bookkeeping = {}
<1>1. ForwardMoves(p.moves) /\ DOMAIN remote = Refs
  BY DEF PushInv, WireForward, TypeOK
<1>2. \A ref \in A!Changed : /\ ref \in DOMAIN p.moves
                             /\ remote[ref] = p.moves[ref].old
                             /\ remote'[ref] = p.moves[ref].new
  BY <1>1 DEF A!Changed, P!Lockable, P!Landed
<1> QED BY <1>1, <1>2 DEF ForwardMoves

(* Every step of the publisher is a step of AppendOnlyRefs, or leaves the
   destination alone. *)
LEMMA StepForward ==
    ASSUME TypeOK, TypeOK', PushInv, [Next]_vars
    PROVE  [A!Advance]_remote
<1>1. CASE \E p \in wire : ServerDecides(p)
  <2>1. PICK p \in wire : ServerDecides(p)
    BY <1>1
  <2>2. CASE P!Lockable(p.moves, remote)
    BY <2>1, <2>2, LandedForward DEF ServerDecides, A!Advance, A!Value, Value, TypeOK
  <2>3. CASE ~P!Lockable(p.moves, remote)
    BY <2>1, <2>3 DEF ServerDecides
  <2> QED BY <2>2, <2>3
<1>2. CASE OutsidePush
  <2>1. PICK move \in Outside :
          /\ remote[move[1]] = None \/ (move[1] \notin TagRefs /\ <<remote[move[1]], move[2]>> \in Anc)
          /\ remote' = [remote EXCEPT ![move[1]] = move[2]]
    BY <1>2 DEF OutsidePush
  <2>2. move[1] \in Refs /\ move[2] \in Objects
    BY RequestAssumption
  <2>3. A!Changed \subseteq {move[1]}
    BY <2>1, <2>2 DEF A!Changed, TypeOK
  <2>4. \A ref \in A!Changed : A!Forward(ref, remote[ref], remote'[ref])
    <3>1. remote'[move[1]] = move[2]
      BY <2>1, <2>2 DEF TypeOK
    <3>2. A!Forward(move[1], remote[move[1]], move[2])
      BY <2>1, <2>2 DEF A!Forward
    <3> QED BY <2>3, <3>1, <3>2
  <2>5. A!Changed \subseteq Bookkeeping \/ A!Changed \cap Bookkeeping = {}
    BY <2>3
  <2> QED BY <2>4, <2>5 DEF A!Advance, A!Value, Value, TypeOK
<1>3. CASE \E r \in Runs : RunStep(r)
  BY <1>3 DEF RunStep, Observe, Plan, Approve, Apply, Connect, Drop, Confirm, Crash
<1>4. CASE UNCHANGED vars
  BY <1>4 DEF vars
<1> QED BY <1>1, <1>2, <1>3, <1>4 DEF Next

(* publish/plan.go classify, gitcli assertFastForward and the lease together
   make the destination append-only: whatever the runs, faults and other
   writers, no ref is rewound or deleted, no tag moves, and bookkeeping never
   moves together with consumer refs. *)
THEOREM PublisherIsAppendOnly == Spec => AppendOnly
<1>1. Init => A!Init
  BY RequestAssumption DEF Init, A!Init, A!Value
<1>2. TypeOK /\ TypeOK' /\ PushInv /\ [Next]_vars => [A!Advance]_remote
  BY StepForward
<1> QED BY <1>1, <1>2, TypeCorrect, PushSafe, PTL DEF Spec, AppendOnly, A!Spec

(* Whatever is sent was approved as it is sent, and lands only on the values
   the approved manifest recorded (publish/apply.go, Apply). *)
THEOREM ApprovedMoves == Spec => MovesAsApproved
<1> DEFINE SentAsApproved ==
        \A p \in wire' \ wire : p.live => \A ref \in DOMAIN p.moves :
            /\ ref \in DOMAIN approval[p.run]
            /\ approval[p.run][ref].old = p.moves[ref].old
            /\ approval[p.run][ref].new = p.moves[ref].new
    LandedAsSent ==
        \A p \in wire \ wire' : \A ref \in DOMAIN p.moves :
            remote'[ref] # remote[ref] =>
                remote[ref] = p.moves[ref].old /\ remote'[ref] = p.moves[ref].new
<1>1. ASSUME TypeOK, PushInv, [Next]_vars PROVE SentAsApproved
  <2> USE <1>1
  <2>1. ASSUME NEW r \in Runs, Connect(r) PROVE SentAsApproved
    <3> SUFFICES ASSUME NEW p \in wire' \ wire, NEW ref \in DOMAIN p.moves
                 PROVE  /\ ref \in DOMAIN approval[p.run]
                        /\ approval[p.run][ref].old = p.moves[ref].old
                        /\ approval[p.run][ref].new = p.moves[ref].new
      OBVIOUS
    <3> DEFINE batch == Batch(plan[r], scope[r])
    <3>1. /\ ~P!Stale(batch, remote) /\ pc[r] = "pushing"
          /\ p.run = r /\ p.moves = P!Sent(batch, remote)
      BY <2>1 DEF Connect, Refused
    <3>2. approval[r] = plan[r]
      BY <3>1 DEF PushInv, PushChecked
    <3>3. /\ ref \in DOMAIN plan[r]
          /\ p.moves[ref].old = plan[r][ref].old /\ p.moves[ref].new = plan[r][ref].new
      BY <3>1, SentMoves DEF Batch, Pending, Covered
    <3> QED BY <3>1, <3>2, <3>3
  <2>2. ASSUME NEW r \in Runs, Drop(r) \/ Crash(r) PROVE SentAsApproved
    BY <2>2, OrphanedType DEF Drop, Crash, TypeOK
  <2>3. ASSUME wire' \subseteq wire PROVE SentAsApproved
    BY <2>3
  <2> QED BY <2>1, <2>2, <2>3
    DEF Next, RunStep, Observe, Plan, Approve, Apply, Confirm, ServerDecides, OutsidePush, vars
<1>2. ASSUME TypeOK, [Next]_vars PROVE LandedAsSent
  <2> USE <1>2
  <2>1. ASSUME NEW q \in wire, ServerDecides(q) PROVE LandedAsSent
    <3> SUFFICES ASSUME NEW ref \in DOMAIN q.moves, remote'[ref] # remote[ref]
                 PROVE  remote[ref] = q.moves[ref].old /\ remote'[ref] = q.moves[ref].new
      BY <2>1 DEF ServerDecides
    <3>1. P!Lockable(q.moves, remote) /\ remote' = P!Landed(q.moves, remote)
      BY <2>1 DEF ServerDecides
    <3>2. ref \in Refs /\ DOMAIN remote = Refs
      BY DEF TypeOK, Message, Partial
    <3> QED BY <3>1, <3>2 DEF P!Lockable, P!Landed
  <2>2. ASSUME UNCHANGED remote \/ wire' = wire PROVE LandedAsSent
    BY <2>2
  <2> QED BY <2>1, <2>2
    DEF Next, RunStep, Observe, Plan, Approve, Apply, Connect, Drop, Confirm, Crash, OutsidePush, vars
<1>3. TypeOK /\ PushInv /\ [Next]_vars => [SentAsApproved /\ LandedAsSent]_vars
  BY <1>1, <1>2
<1> QED BY <1>3, TypeCorrect, PushSafe, PTL DEF Spec, MovesAsApproved

-----------------------------------------------------------------------------
(* Why a report can be believed.  On an append-only destination what a ref
   has reached stays reached, so it is enough that a run saw its objects
   there once. *)

Busy == {"planned", "applying", "pushing", "sending", "pushed"}

(* A run that reports on a plan has not replaced it since. *)
ReportIsOfPlan == \A r \in Runs : pc[r] = "observed" => said[r] = Nothing

(* The consumer half is reached only through the other one. *)
ConsumerSecond ==
    \A r \in Runs :
        (pc[r] \in Busy /\ scope[r] = "consumer")
            => said[r]["non-consumer"] \in {"published", "already"}

(* Refs a push leaves out hold their objects already. *)
OmittedReached ==
    \A r \in Runs : pc[r] \in {"pushing", "sending", "pushed"} =>
        \A ref \in Covered(plan[r], scope[r]) \ Pending(plan[r], scope[r]) :
            Reached(ref, plan[r][ref].new)

(* A push is live while the one run that sent it waits for the verdict. *)
SenderWaits ==
    /\ \A p \in wire : p.live => pc[p.run] = "sending"
    /\ \A p, q \in wire : p.live /\ q.live /\ p.run = q.run => p = q

ReportInv == SenderWaits /\ ReportIsOfPlan /\ ConsumerSecond /\ OmittedReached /\ ReportedIsThere

LEMMA ReachedStable ==
    ASSUME TypeOK, [A!Advance]_remote, NEW ref \in Refs, NEW object \in Objects,
           Reached(ref, object)
    PROVE  Reached(ref, object)'
<1>1. CASE remote'[ref] = remote[ref]
  BY <1>1 DEF Reached
<1>2. CASE remote'[ref] # remote[ref]
  <2>1. A!Forward(ref, remote[ref], remote'[ref])
    BY <1>2 DEF A!Advance, A!Changed
  <2>2. remote[ref] \in Objects
    BY ObjectAssumption DEF Reached
  <2>3. ref \notin TagRefs /\ <<remote[ref], remote'[ref]>> \in Anc /\ remote'[ref] \in Objects
    BY <2>1, <2>2, ObjectAssumption DEF A!Forward
  <2>4. <<object, remote[ref]>> \in Anc
    BY ObjectAssumption DEF Reached
  <2>5. <<object, remote'[ref]>> \in Anc
    BY <2>2, <2>3, <2>4, ObjectAssumption
  <2> QED BY <2>3, <2>5 DEF Reached
<1> QED BY <1>1, <1>2

(* A plan the next state keeps: what it has reached stays reached. *)
LEMMA PlanReachedStable ==
    ASSUME TypeOK, [A!Advance]_remote, NEW r \in Runs, plan'[r] = plan[r],
           NEW ref \in DOMAIN plan[r], Reached(ref, plan[r][ref].new)
    PROVE  Reached(ref, plan[r][ref].new)'
<1>1. ref \in Refs /\ plan[r][ref].new \in Objects
  BY DEF TypeOK, Partial, Action
<1>2. PICK object \in Objects : object = plan[r][ref].new
  BY <1>1
<1>3. Reached(ref, object)'
  BY <1>1, <1>2, ReachedStable
<1>4. object = plan'[r][ref].new
  BY <1>2
<1> QED BY <1>3, <1>4

(* What a run reports, and what the next step of the run adds to it. *)
LEMMA ReportedStable ==
    ASSUME TypeOK, [A!Advance]_remote, ReportedIsThere, NEW r \in Runs, NEW s \in Scopes,
           plan'[r] = plan[r], said'[r][s] = said[r][s],
           said[r][s] \in {"published", "already"}
    PROVE  \A ref \in Covered(plan[r], s)' : Reached(ref, plan[r][ref].new)'
<1> TAKE ref \in Covered(plan[r], s)'
<1>1. ref \in Covered(plan[r], s) /\ ref \in DOMAIN plan[r]
  BY DEF Covered, Covers
<1>2. Reached(ref, plan[r][ref].new)
  BY <1>1 DEF ReportedIsThere
<1> QED BY <1>1, <1>2, PlanReachedStable

(* The verdict of one scope becomes v. *)
LEMMA SaidOne ==
    ASSUME TypeOK, NEW r \in Runs, NEW v, said' = [said EXCEPT ![r][scope[r]] = v]
    PROVE  /\ said'[r][scope[r]] = v
           /\ \A s \in Scopes : s # scope[r] => said'[r][s] = said[r][s]
           /\ \A q \in Runs : q # r => said'[q] = said[q]
<1>1. said \in [Runs -> [Scopes -> Verdicts]] /\ scope[r] \in Scopes
  BY DEF TypeOK
<1>2. said'[r] = [said[r] EXCEPT ![scope[r]] = v]
  BY <1>1
<1>3. said[r] \in [Scopes -> Verdicts]
  BY <1>1
<1>4. \A q \in Runs : q # r => said'[q] = said[q]
  BY <1>1
<1> QED BY <1>1, <1>2, <1>3, <1>4

(* An omitted ref that has not drifted holds its object. *)
LEMMA OmittedHolds ==
    ASSUME NEW r \in Runs, NEW have, Applicable(r, have),
           NEW ref \in Covered(plan[r], scope[r]) \ Pending(plan[r], scope[r])
    PROVE  Reached(ref, plan[r][ref].new)
  BY DEF Applicable, Drifted, Pending, NoOp, Reached

LEMMA ReportedInvariant ==
    ASSUME TypeOK, [A!Advance]_remote, ReportInv, [Next]_vars
    PROVE  ReportedIsThere'
<1> SUFFICES ASSUME NEW q \in Runs, NEW s \in Scopes, said'[q][s] \in {"published", "already"},
                    NEW ref \in Covered(plan[q], s)'
             PROVE  Reached(ref, plan[q][ref].new)'
  BY DEF ReportedIsThere
<1>1. CASE said'[q][s] = said[q][s] /\ plan'[q] = plan[q]
  BY <1>1, ReportedStable DEF ReportInv
<1>2. ASSUME NEW r \in Runs, Apply(r), said'[q][s] # said[q][s]
      PROVE  Reached(ref, plan[q][ref].new)'
  <2>1. PICK have \in Stores : Applicable(r, have)
    BY <1>2 DEF Apply
  <2>2. /\ Pending(plan[r], scope[r]) = {} /\ plan' = plan /\ remote' = remote
        /\ said' = [said EXCEPT ![r][scope[r]] = "already"]
    BY <1>2 DEF Apply
  <2>3. q = r /\ s = scope[r]
    BY <1>2, <2>2, SaidOne
  <2>4. ref \in Covered(plan[r], scope[r]) \ Pending(plan[r], scope[r])
    BY <2>2, <2>3 DEF Covered, Covers
  <2>5. Reached(ref, plan[r][ref].new)
    BY <2>1, <2>4, OmittedHolds
  <2> QED BY <2>2, <2>3, <2>5 DEF Reached
<1>3. ASSUME NEW r \in Runs, Confirm(r), said'[q][s] # said[q][s]
      PROVE  Reached(ref, plan[q][ref].new)'
  <2>1. plan' = plan /\ remote' = remote /\ pc[r] = "pushed"
    BY <1>3 DEF Confirm
  <2>2. PICK v \in {"failed", "unknown", "published"} :
            /\ said' = [said EXCEPT ![r][scope[r]] = v]
            /\ v = "published" => Holds(plan[r], scope[r], remote)
    BY <1>3 DEF Confirm
  <2>3. q = r /\ s = scope[r] /\ v = "published"
    BY <1>3, <2>2, SaidOne
  <2>4. ref \in Covered(plan[r], scope[r])
    BY <2>1, <2>3 DEF Covered, Covers
  <2>5. Reached(ref, plan[r][ref].new)
    BY <2>1, <2>2, <2>3, <2>4 DEF Holds, Reached, ReportInv, OmittedReached
  <2> QED BY <2>1, <2>3, <2>5 DEF Reached
<1>4. ASSUME NEW r \in Runs, Plan(r) PROVE said'[q][s] = said[q][s] /\ plan'[q] = plan[q]
  <2>1. CASE q = r
    <3>1. said[r] = Nothing /\ said' = said
      BY <1>4 DEF Plan, ReportInv, ReportIsOfPlan
    <3> QED BY <2>1, <3>1 DEF Nothing
  <2>2. CASE q # r
    BY <1>4, <2>2 DEF Plan, TypeOK
  <2> QED BY <2>1, <2>2
<1>5. ASSUME NEW r \in Runs, Observe(r) PROVE said'[q][s] = said[q][s] /\ plan'[q] = plan[q]
  BY <1>5 DEF Observe, Nothing, TypeOK
<1>6. ASSUME NEW r \in Runs, Crash(r) PROVE said'[q][s] = said[q][s] /\ plan'[q] = plan[q]
  BY <1>6 DEF Crash, Nothing, TypeOK
<1>7. ASSUME NEW r \in Runs, Apply(r) \/ Confirm(r) PROVE plan' = plan
  BY <1>7 DEF Apply, Confirm
<1>8. CASE said' = said /\ plan' = plan
  BY <1>1, <1>8
<1> QED BY <1>1, <1>2, <1>3, <1>4, <1>5, <1>6, <1>7, <1>8
    DEF Next, RunStep, Approve, Connect, Drop, ServerDecides, OutsidePush, vars

LEMMA OmittedInvariant ==
    ASSUME TypeOK, [A!Advance]_remote, ReportInv, [Next]_vars
    PROVE  OmittedReached'
<1> SUFFICES ASSUME NEW q \in Runs, pc'[q] \in {"pushing", "sending", "pushed"},
                    NEW ref \in (Covered(plan[q], scope[q]) \ Pending(plan[q], scope[q]))'
             PROVE  Reached(ref, plan[q][ref].new)'
  BY DEF OmittedReached
<1>1. ASSUME pc[q] \in {"pushing", "sending", "pushed"}, plan'[q] = plan[q], scope'[q] = scope[q]
      PROVE  Reached(ref, plan[q][ref].new)'
  <2>1. ref \in Covered(plan[q], scope[q]) \ Pending(plan[q], scope[q]) /\ ref \in DOMAIN plan[q]
    BY <1>1 DEF Covered, Covers, Pending, NoOp
  <2>2. Reached(ref, plan[q][ref].new)
    BY <1>1, <2>1 DEF ReportInv, OmittedReached
  <2> QED BY <1>1, <2>1, <2>2, PlanReachedStable
<1>2. ASSUME NEW r \in Runs, Apply(r) PROVE Reached(ref, plan[q][ref].new)'
  <2>1. plan' = plan /\ remote' = remote
    BY <1>2 DEF Apply
  <2>2. CASE q # r
    <3>1. pc'[q] = pc[q] /\ scope'[q] = scope[q]
      BY <1>2, <2>2 DEF Apply, Advance, TypeOK
    <3> QED BY <1>1, <2>1, <3>1
  <2>3. CASE q = r
    <3>1. PICK have \in Stores : Applicable(r, have) /\ scope' = scope
      BY <1>2, <2>3 DEF Apply, Advance, TypeOK
    <3>2. ref \in Covered(plan[r], scope[r]) \ Pending(plan[r], scope[r])
      BY <2>1, <2>3, <3>1 DEF Covered, Covers, Pending, NoOp
    <3>3. Reached(ref, plan[r][ref].new)
      BY <3>1, <3>2, OmittedHolds
    <3> QED BY <2>1, <2>3, <3>3 DEF Reached
  <2> QED BY <2>2, <2>3
<1>3. ASSUME NEW r \in Runs, Connect(r) \/ Drop(r) PROVE Reached(ref, plan[q][ref].new)'
  BY <1>1, <1>3 DEF Connect, Refused, Drop, TypeOK
<1>4. ASSUME NEW r \in Runs, Observe(r) \/ Plan(r) \/ Approve(r) \/ Confirm(r) \/ Crash(r)
      PROVE  Reached(ref, plan[q][ref].new)'
  <2>1. pc'[r] \notin {"pushing", "sending", "pushed"}
    BY <1>4 DEF Observe, Plan, Approve, Confirm, Crash, Advance, TypeOK
  <2>2. q # r /\ pc'[q] = pc[q] /\ scope'[q] = scope[q] /\ plan'[q] = plan[q]
    BY <1>4, <2>1 DEF Observe, Plan, Approve, Confirm, Crash, Advance, TypeOK
  <2> QED BY <1>1, <2>2
<1>5. ASSUME NEW p \in wire, ServerDecides(p) PROVE Reached(ref, plan[q][ref].new)'
  <2>1. p.live => pc[p.run] = "sending" /\ p.run \in Runs
    BY DEF ReportInv, SenderWaits, TypeOK, Message
  <2>2. pc[q] \in {"pushing", "sending", "pushed"} /\ plan' = plan /\ scope' = scope
    BY <1>5, <2>1 DEF ServerDecides, TypeOK
  <2> QED BY <1>1, <2>2
<1> QED BY <1>1, <1>2, <1>3, <1>4, <1>5 DEF Next, RunStep, OutsidePush, vars

LEMMA SenderInvariant ==
    ASSUME TypeOK, ReportInv, [Next]_vars
    PROVE  SenderWaits'
<1> USE DEF ReportInv
<1>1. ASSUME NEW r \in Runs, Connect(r) PROVE SenderWaits'
  <2>1. \A p \in wire : p.live => p.run # r
    BY <1>1 DEF Connect, Refused, SenderWaits
  <2>2. CASE wire' = wire
    <3>1. \A q \in Runs \ {r} : pc'[q] = pc[q]
      BY <1>1 DEF Connect, Refused, TypeOK
    <3> QED BY <2>1, <2>2, <3>1 DEF SenderWaits, TypeOK, Message
  <2>3. ASSUME NEW message, message.run = r, pc' = [pc EXCEPT ![r] = "sending"],
               wire' = wire \cup {message}
        PROVE  SenderWaits'
    <3>1. \A q \in Runs \ {r} : pc'[q] = pc[q]
      BY <2>3 DEF TypeOK
    <3>2. pc'[r] = "sending"
      BY <2>3 DEF TypeOK
    <3>3. \A p \in wire : p.live => pc'[p.run] = "sending"
      BY <2>1, <3>1 DEF SenderWaits, TypeOK, Message
    <3>4. \A p \in wire' : p.live => pc'[p.run] = "sending"
      BY <2>3, <3>2, <3>3
    <3>5. \A p, q \in wire' : p.live /\ q.live /\ p.run = q.run => p = q
      BY <2>1, <2>3 DEF SenderWaits
    <3> QED BY <3>4, <3>5 DEF SenderWaits
  <2> QED BY <1>1, <2>2, <2>3 DEF Connect, Refused
<1>2. ASSUME NEW r \in Runs, Drop(r) \/ Crash(r) PROVE SenderWaits'
  <2>1. \A p \in wire' : p.live => p \in wire /\ p.run # r
    BY <1>2, OrphanedType DEF Drop, Crash, TypeOK
  <2>2. \A q \in Runs \ {r} : pc'[q] = pc[q]
    BY <1>2 DEF Drop, Crash, TypeOK
  <2>3. \A p \in wire' : p.live => pc'[p.run] = "sending"
    BY <2>1, <2>2 DEF SenderWaits, TypeOK, Message
  <2> QED BY <2>1, <2>3 DEF SenderWaits
<1>3. ASSUME NEW p \in wire, ServerDecides(p) PROVE SenderWaits'
  <2>1. wire' = wire \ {p}
    BY <1>3 DEF ServerDecides
  <2>2. \A q \in wire' : q.live => ~(p.live /\ q.run = p.run)
    BY <2>1 DEF SenderWaits
  <2>3. \A q \in wire' : q.live => pc'[q.run] = pc[q.run]
    BY <1>3, <2>1, <2>2 DEF ServerDecides, TypeOK, Message
  <2> QED BY <2>1, <2>3 DEF SenderWaits
<1>4. ASSUME NEW r \in Runs,
             Observe(r) \/ Plan(r) \/ Approve(r) \/ Apply(r) \/ Confirm(r)
      PROVE  SenderWaits'
  <2>1. wire' = wire /\ pc[r] # "sending"
    BY <1>4 DEF Observe, Plan, Approve, Apply, Confirm
  <2>2. \A q \in Runs \ {r} : pc'[q] = pc[q]
    BY <1>4 DEF Observe, Plan, Approve, Apply, Confirm, Advance, TypeOK
  <2> QED BY <2>1, <2>2 DEF SenderWaits, TypeOK, Message
<1>5. CASE UNCHANGED <<wire, pc>>
  BY <1>5 DEF SenderWaits
<1> QED BY <1>1, <1>2, <1>3, <1>4, <1>5 DEF Next, RunStep, OutsidePush, vars

LEMMA SecondInvariant ==
    ASSUME TypeOK, ReportInv, [Next]_vars
    PROVE  ReportIsOfPlan' /\ ConsumerSecond'
<1> USE DEF ReportInv
<1>1. ASSUME NEW r \in Runs, Observe(r) PROVE ReportIsOfPlan' /\ ConsumerSecond'
  BY <1>1 DEF Observe, ReportIsOfPlan, ConsumerSecond, Busy, TypeOK
<1>2. ASSUME NEW r \in Runs, Plan(r) PROVE ReportIsOfPlan' /\ ConsumerSecond'
  BY <1>2 DEF Plan, FirstScope, ReportIsOfPlan, ConsumerSecond, Busy, TypeOK
<1>3. ASSUME NEW r \in Runs, Approve(r) \/ Connect(r) \/ Drop(r)
      PROVE  ReportIsOfPlan' /\ ConsumerSecond'
  BY <1>3 DEF Approve, Connect, Drop, ReportIsOfPlan, ConsumerSecond, Busy, TypeOK
<1>4. ASSUME NEW r \in Runs, Crash(r) PROVE ReportIsOfPlan' /\ ConsumerSecond'
  BY <1>4 DEF Crash, ReportIsOfPlan, ConsumerSecond, Busy, TypeOK
<1>5. ASSUME NEW r \in Runs, NEW v \in {"published", "already"}, Advance(r), pc[r] \in Busy,
             said' = [said EXCEPT ![r][scope[r]] = v]
      PROVE  ReportIsOfPlan' /\ ConsumerSecond'
  <2>1. \A q \in Runs \ {r} : pc'[q] = pc[q] /\ scope'[q] = scope[q] /\ said'[q] = said[q]
    BY <1>5, SaidOne DEF Advance, TypeOK
  <2>2. pc'[r] # "observed"
    BY <1>5 DEF Advance, TypeOK
  <2>3. pc'[r] \in Busy => said'[r]["non-consumer"] = v
    BY <1>5, SaidOne DEF Advance, TypeOK, Busy
  <2> QED BY <2>1, <2>2, <2>3 DEF ReportIsOfPlan, ConsumerSecond
<1>6. ASSUME NEW r \in Runs, Apply(r) PROVE ReportIsOfPlan' /\ ConsumerSecond'
  <2>1. CASE Advance(r) /\ said' = [said EXCEPT ![r][scope[r]] = "already"]
    BY <1>5, <1>6, <2>1 DEF Apply, Busy
  <2>2. CASE scope' = scope /\ said' = said
             /\ (pc' = [pc EXCEPT ![r] = "done"] \/ pc' = [pc EXCEPT ![r] = "pushing"])
    BY <1>6, <2>2 DEF Apply, ReportIsOfPlan, ConsumerSecond, Busy, TypeOK
  <2> QED BY <1>6, <2>1, <2>2 DEF Apply
<1>7. ASSUME NEW r \in Runs, Confirm(r) PROVE ReportIsOfPlan' /\ ConsumerSecond'
  <2>1. CASE Advance(r) /\ said' = [said EXCEPT ![r][scope[r]] = "published"]
    BY <1>5, <1>7, <2>1 DEF Confirm, Busy
  <2>2. ASSUME pc' = [pc EXCEPT ![r] = "done"], scope' = scope,
               \A q \in Runs \ {r} : said'[q] = said[q]
        PROVE  ReportIsOfPlan' /\ ConsumerSecond'
    BY <2>2 DEF ReportIsOfPlan, ConsumerSecond, Busy, TypeOK
  <2>3. (\E v : said' = [said EXCEPT ![r][scope[r]] = v]) => \A q \in Runs \ {r} : said'[q] = said[q]
    BY SaidOne
  <2> QED BY <1>7, <2>1, <2>2, <2>3 DEF Confirm
<1>8. ASSUME NEW p \in wire, ServerDecides(p) PROVE ReportIsOfPlan' /\ ConsumerSecond'
  <2>1. p.live => pc[p.run] = "sending" /\ p.run \in Runs
    BY DEF SenderWaits, TypeOK, Message
  <2> QED BY <1>8, <2>1 DEF ServerDecides, ReportIsOfPlan, ConsumerSecond, Busy, TypeOK
<1>9. CASE UNCHANGED <<pc, scope, said>>
  BY <1>9 DEF ReportIsOfPlan, ConsumerSecond
<1> QED BY <1>1, <1>2, <1>3, <1>4, <1>6, <1>7, <1>8, <1>9 DEF Next, RunStep, OutsidePush, vars

(* "A push that git accepted is not yet a publication that happened"
   (publish/apply.go): what a run reports as published, the destination
   holds or has moved past, for as long as the report stands. *)
THEOREM ReportsHold == Spec => []ReportInv /\ []ReportedIsThere
<1>1. Init => ReportInv
  BY DEF Init, ReportInv, SenderWaits, ReportIsOfPlan, ConsumerSecond, OmittedReached,
         ReportedIsThere, Busy, Nothing
<1>2. TypeOK /\ TypeOK' /\ PushInv /\ ReportInv /\ [Next]_vars => ReportInv'
  BY StepForward, SenderInvariant, SecondInvariant, OmittedInvariant, ReportedInvariant
  DEF ReportInv
<1>3. ReportInv => ReportedIsThere
  BY DEF ReportInv
<1> QED BY <1>1, <1>2, <1>3, TypeCorrect, PushSafe, PTL DEF Spec

(* Non-consumer refs are pushed first (sync/apply.go, Apply): no consumer
   half is sent before the destination has reached the bookkeeping of the
   same plan. *)
THEOREM BookkeepingGoesFirst == Spec => BookkeepingFirst
<1> DEFINE Earlier ==
        \A p \in wire' \ wire : (p.live /\ p.scope = "consumer") =>
            \A ref \in Covered(plan[p.run], "non-consumer") : Reached(ref, plan[p.run][ref].new)
<1>1. ASSUME TypeOK, ReportInv, [Next]_vars,
             NEW p \in wire' \ wire, p.live /\ p.scope = "consumer",
             NEW ref \in Covered(plan[p.run], "non-consumer")
      PROVE  Reached(ref, plan[p.run][ref].new)
  <2>1. PICK r \in Runs : Connect(r)
    <3>1. \A r \in Runs : ~Drop(r) /\ ~Crash(r)
      BY <1>1, OrphanedType DEF Drop, Crash, TypeOK
    <3> QED BY <1>1, <3>1
      DEF Next, RunStep, Observe, Plan, Approve, Apply, Confirm, ServerDecides, OutsidePush, vars
  <2>2. p.run = r /\ p.scope = scope[r] /\ pc[r] = "pushing"
    BY <1>1, <2>1 DEF Connect, Refused
  <2>3. said[r]["non-consumer"] \in {"published", "already"}
    BY <1>1, <2>2 DEF ReportInv, ConsumerSecond, Busy
  <2> QED BY <1>1, <2>2, <2>3 DEF ReportInv, ReportedIsThere, Scopes
<1>2. TypeOK /\ ReportInv /\ [Next]_vars => [Earlier]_vars
  BY <1>1
<1> QED BY <1>2, TypeCorrect, ReportsHold, PTL DEF Spec, BookkeepingFirst

-----------------------------------------------------------------------------
(* One winner.  A report of a published half is made when the destination
   holds what was pushed; what an earlier report spoke of has been reached by
   then, so the two are in line. *)

LEMMA PublishedNow ==
    ASSUME TypeOK, ReportInv, [Next]_vars, NEW q \in Runs, NEW s \in Scopes, said'[q][s] = "published"
    PROVE  /\ plan'[q] = plan[q]
           /\ \/ said[q][s] = "published"
              \/ Holds(plan[q], s, remote)
<1>1. ASSUME NEW r \in Runs, Confirm(r)
      PROVE  plan' = plan /\ (said'[q][s] # said[q][s] => Holds(plan[q], s, remote))
  <2>1. PICK v \in {"none", "failed", "unknown", "published"} :
            /\ v = "none" => said' = said
            /\ v # "none" => said' = [said EXCEPT ![r][scope[r]] = v]
            /\ v = "published" => Holds(plan[r], scope[r], remote)
    BY <1>1 DEF Confirm
  <2>2. said'[q][s] # said[q][s] => q = r /\ s = scope[r] /\ v = "published"
    BY <2>1, SaidOne
  <2> QED BY <1>1, <2>1, <2>2 DEF Confirm
<1>2. ASSUME NEW r \in Runs, Apply(r)
      PROVE  plan' = plan /\ said'[q][s] = said[q][s]
  <2>1. said' = said \/ said' = [said EXCEPT ![r][scope[r]] = "already"]
    BY <1>2 DEF Apply
  <2> QED BY <1>2, <2>1, SaidOne DEF Apply
<1>3. ASSUME NEW r \in Runs, Plan(r) PROVE plan'[q] = plan[q] /\ said'[q][s] = said[q][s]
  <2>1. said[r] = Nothing /\ said' = said
    BY <1>3 DEF Plan, ReportInv, ReportIsOfPlan
  <2>2. q # r
    BY <2>1 DEF Nothing
  <2> QED BY <1>3, <2>1, <2>2 DEF Plan, TypeOK
<1>4. ASSUME NEW r \in Runs, Observe(r) \/ Crash(r) PROVE plan'[q] = plan[q] /\ said'[q][s] = said[q][s]
  <2>1. q # r
    BY <1>4 DEF Observe, Crash, Nothing, TypeOK
  <2> QED BY <1>4, <2>1 DEF Observe, Crash, TypeOK
<1>5. CASE plan' = plan /\ said' = said
  BY <1>5
<1> QED BY <1>1, <1>2, <1>3, <1>4, <1>5
    DEF Next, RunStep, Approve, Connect, Drop, ServerDecides, OutsidePush, vars

(* The destination holds what one run pushed, and what another one reported
   was reached. *)
LEMMA WinnersInLine ==
    ASSUME ReportedIsThere, NEW q \in Runs, NEW r \in Runs, NEW s \in Scopes, NEW t \in Scopes,
           Holds(plan[q], s, remote), said[r][t] = "published",
           NEW ref \in Covered(plan[q], s) \cap Covered(plan[r], t), ~NoOp(plan[q][ref])
    PROVE  /\ InLine(ref, plan[q][ref].new, plan[r][ref].new)
           /\ InLine(ref, plan[r][ref].new, plan[q][ref].new)
<1>1. remote[ref] = plan[q][ref].new
  BY DEF Holds, Pending
<1>2. Reached(ref, plan[r][ref].new)
  BY DEF ReportedIsThere
<1> QED BY <1>1, <1>2 DEF Reached, InLine

(* The lease and the read that confirms a push leave one winner: two runs
   whose reports stand never moved one ref to unrelated objects, or a tag to
   two, whatever other writers did between their reports. *)
THEOREM OneWins == Spec => []OneWinner
<1>1. Init => OneWinner
  BY DEF Init, OneWinner, Nothing
<1>2. ASSUME TypeOK, ReportInv, OneWinner, [Next]_vars PROVE OneWinner'
  <2> SUFFICES ASSUME NEW r1 \in Runs, NEW r2 \in Runs, NEW s1 \in Scopes, NEW s2 \in Scopes,
                      said'[r1][s1] = "published", said'[r2][s2] = "published",
                      NEW ref \in (Covered(plan[r1], s1) \cap Covered(plan[r2], s2))',
                      ~NoOp(plan'[r1][ref]), ~NoOp(plan'[r2][ref])
               PROVE  InLine(ref, plan'[r1][ref].new, plan'[r2][ref].new)
    BY DEF OneWinner, NoOp, InLine
  <2>1. /\ said[r1][s1] = "published" \/ Holds(plan[r1], s1, remote)
        /\ said[r2][s2] = "published" \/ Holds(plan[r2], s2, remote)
    BY <1>2, PublishedNow
  <2>2. plan'[r1] = plan[r1] /\ plan'[r2] = plan[r2]
    BY <1>2, PublishedNow
  <2>3. /\ ref \in Covered(plan[r1], s1) \cap Covered(plan[r2], s2)
        /\ ~NoOp(plan[r1][ref]) /\ ~NoOp(plan[r2][ref])
    BY <2>2 DEF Covered, Covers
  <2>4. CASE said[r1][s1] = "published" /\ said[r2][s2] = "published"
    BY <1>2, <2>2, <2>3, <2>4 DEF OneWinner
  <2>5. CASE Holds(plan[r1], s1, remote) /\ said[r2][s2] = "published"
    BY <1>2, <2>2, <2>3, <2>5, WinnersInLine DEF ReportInv
  <2>6. CASE said[r1][s1] = "published" /\ Holds(plan[r2], s2, remote)
    BY <1>2, <2>2, <2>3, <2>6, WinnersInLine DEF ReportInv
  <2>7. CASE Holds(plan[r1], s1, remote) /\ Holds(plan[r2], s2, remote)
    BY <2>2, <2>3, <2>7 DEF Holds, Pending, InLine
  <2> QED BY <2>1, <2>4, <2>5, <2>6, <2>7
<1> QED BY <1>1, <1>2, TypeCorrect, ReportsHold, PTL DEF Spec

-----------------------------------------------------------------------------
(* No tag without its branch.  A plan that moves a tag has the branch too;
   the transaction carries both, or the branch is there already. *)

ContainedOn(refs, object) ==
    \E ref \in HeadRefs \ {StateRef} : <<object, refs[ref]>> \in Anc

PlansCarry ==
    \A r \in Runs : \A ref \in DOMAIN plan[r] :
        plan[r][ref].kind = "tag" => Carried(plan[r], plan[r][ref].new)

WireCarries ==
    \A p \in wire : \A tag \in DOMAIN p.moves \cap TagRefs :
        \/ ContainedOn(remote, p.moves[tag].new)
        \/ \E ref \in DOMAIN p.moves \cap (HeadRefs \ {StateRef}) :
                <<p.moves[tag].new, p.moves[ref].new>> \in Anc

CarryInv == PlansCarry /\ WireCarries /\ TagInBranch

(* A branch that contains a commit keeps containing it. *)
LEMMA ContainedStable ==
    ASSUME TypeOK, [A!Advance]_remote, NEW object \in Objects, ContainedOn(remote, object)
    PROVE  ContainedOn(remote', object)
<1>1. PICK ref \in HeadRefs \ {StateRef} : <<object, remote[ref]>> \in Anc
  BY DEF ContainedOn
<1>2. ref \in Refs /\ ref \notin TagRefs /\ remote[ref] \in Objects
  BY <1>1, NamespaceAssumption, ObjectAssumption DEF Refs
<1>3. PICK held \in Objects : held = remote[ref]
  BY <1>2
<1>4. Reached(ref, held)
  BY <1>3 DEF Reached
<1>5. Reached(ref, held)'
  BY <1>2, <1>4, ReachedStable
<1>6. <<held, remote'[ref]>> \in Anc
  BY <1>5, ObjectAssumption DEF Reached
<1>7. <<object, remote'[ref]>> \in Anc
  BY <1>1, <1>3, <1>6, ObjectAssumption
<1> QED BY <1>1, <1>7 DEF ContainedOn

(* What a push sends of a plan that carries its tags. *)
LEMMA SentCarries ==
    ASSUME NEW r \in Runs, TypeOK, PushInv, ReportInv, PlansCarry, pc[r] = "pushing",
           ~P!Stale(Batch(plan[r], scope[r]), remote),
           NEW tag \in DOMAIN P!Sent(Batch(plan[r], scope[r]), remote) \cap TagRefs
    PROVE  LET moves == P!Sent(Batch(plan[r], scope[r]), remote)
           IN  \/ ContainedOn(remote, moves[tag].new)
               \/ \E ref \in DOMAIN moves \cap (HeadRefs \ {StateRef}) :
                       <<moves[tag].new, moves[ref].new>> \in Anc
<1> DEFINE batch == Batch(plan[r], scope[r])
           moves == P!Sent(batch, remote)
<1>1. /\ tag \in Pending(plan[r], scope[r]) /\ tag \in DOMAIN plan[r]
      /\ moves[tag].new = plan[r][tag].new
  BY SentMoves DEF Batch, Pending, Covered
<1>2. /\ plan[r][tag].kind \in Kinds /\ plan[r][tag].new \in Objects
      /\ NamespaceOK(tag, plan[r][tag].kind)
  BY <1>1 DEF TypeOK, Partial, Action, PushInv, PlansForward, ForwardAction
<1>3. plan[r][tag].kind = "tag"
  BY <1>2, NamespaceAssumption DEF NamespaceOK, Kinds
<1>4. PICK ref \in DOMAIN plan[r] :
          plan[r][ref].kind = "branch" /\ <<plan[r][tag].new, plan[r][ref].new>> \in Anc
  BY <1>1, <1>3 DEF PlansCarry, Carried
<1>5. ref \in HeadRefs \ {StateRef} /\ plan[r][ref].new \in Objects
  BY <1>4 DEF TypeOK, Partial, Action, PushInv, PlansForward, ForwardAction, NamespaceOK
<1>6. ref \in Covered(plan[r], scope[r])
  <2>1. scope[r] # "non-consumer"
    BY <1>1, <1>3 DEF Pending, Covered, Covers, Consumer
  <2>2. Covers(scope[r], plan[r][ref])
    BY <1>4, <2>1 DEF TypeOK, Scopes, Covers, Consumer
  <2> QED BY <1>4, <2>2 DEF Covered
<1>7. CASE ref \in DOMAIN moves
  BY <1>1, <1>4, <1>5, <1>7, SentMoves DEF Batch
<1>8. CASE ref \notin DOMAIN moves
  <2>1. Reached(ref, plan[r][ref].new)
    <3>1. CASE ref \in Pending(plan[r], scope[r])
      BY <1>8, <3>1 DEF P!Sent, P!Outstanding, Batch, Reached
    <3>2. CASE ref \notin Pending(plan[r], scope[r])
      BY <1>6, <3>2 DEF ReportInv, OmittedReached
    <3> QED BY <3>1, <3>2
  <2>2. <<plan[r][ref].new, remote[ref]>> \in Anc
    BY <1>5, <2>1, ObjectAssumption DEF Reached
  <2>3. <<plan[r][tag].new, remote[ref]>> \in Anc
    BY <1>2, <1>4, <1>5, <2>2, ObjectAssumption
  <2> QED BY <1>1, <1>5, <2>3 DEF ContainedOn
<1> QED BY <1>7, <1>8

LEMMA PlansStayCarried ==
    ASSUME TypeOK, PlansCarry, [Next]_vars PROVE PlansCarry'
<1>1. ASSUME NEW r \in Runs, Plan(r) PROVE PlansCarry'
  <2> DEFINE wants == request[r].wants
  <2>1. \A ref \in DOMAIN wants : wants[ref].kind = "tag" => Carried(wants, wants[ref].new)
    <3>1. CASE request[r] \in Requests
      BY <3>1, ReleaseAssumption
    <3>2. CASE request[r] = NoRequest
      BY <3>2 DEF NoRequest, NoPlan
    <3> QED BY <3>1, <3>2 DEF TypeOK
  <2>2. \A ref \in DOMAIN wants :
            Planned(wants, remote)[ref].kind = "tag" => Carried(Planned(wants, remote), Planned(wants, remote)[ref].new)
    BY <2>1 DEF Planned, Carried
  <2>3. DOMAIN Planned(wants, remote) = DOMAIN wants /\ DOMAIN NoPlan = {}
    BY DEF Planned, NoPlan
  <2>4. \A ref \in DOMAIN plan'[r] : plan'[r][ref].kind = "tag" => Carried(plan'[r], plan'[r][ref].new)
    <3>1. plan'[r] = Planned(wants, remote) \/ plan'[r] = NoPlan
      BY <1>1 DEF Plan, TypeOK
    <3> HIDE DEF wants
    <3> QED BY <2>2, <2>3, <3>1
  <2>5. \A q \in Runs \ {r} : plan'[q] = plan[q]
    BY <1>1 DEF Plan, TypeOK
  <2> QED BY <2>4, <2>5 DEF PlansCarry, Carried
<1>2. ASSUME NEW r \in Runs, Crash(r) PROVE PlansCarry'
  <2>1. plan'[r] = NoPlan /\ \A q \in Runs \ {r} : plan'[q] = plan[q]
    BY <1>2 DEF Crash, TypeOK
  <2> QED BY <2>1 DEF PlansCarry, Carried, NoPlan
<1>3. CASE plan' = plan
  BY <1>3 DEF PlansCarry, Carried
<1> QED BY <1>1, <1>2, <1>3
    DEF Next, RunStep, Observe, Approve, Apply, Connect, Drop, Confirm, ServerDecides, OutsidePush, vars

LEMMA WireStaysCarried ==
    ASSUME TypeOK, [A!Advance]_remote, PushInv, ReportInv, PlansCarry, WireCarries, [Next]_vars
    PROVE  WireCarries'
<1>1. ASSUME NEW p, NEW q \in wire, p.moves = q.moves, NEW tag \in DOMAIN p.moves \cap TagRefs
      PROVE  \/ ContainedOn(remote', p.moves[tag].new)
             \/ \E ref \in DOMAIN p.moves \cap (HeadRefs \ {StateRef}) :
                    <<p.moves[tag].new, p.moves[ref].new>> \in Anc
  <2>1. q.moves[tag].new \in Objects
    BY <1>1 DEF TypeOK, Message, Partial, Move
  <2>2. PICK object \in Objects : object = q.moves[tag].new
    BY <2>1
  <2>3. ContainedOn(remote, object) => ContainedOn(remote', object)
    BY ContainedStable
  <2> QED BY <1>1, <2>2, <2>3 DEF WireCarries
<1>2. CASE \A p \in wire' : \E q \in wire : p.moves = q.moves
  BY <1>1, <1>2 DEF WireCarries, ContainedOn
<1>3. ASSUME NEW r \in Runs, Connect(r) PROVE WireCarries'
  <2> DEFINE moves == P!Sent(Batch(plan[r], scope[r]), remote)
             message == [run |-> r, scope |-> scope[r], live |-> TRUE, moves |-> moves]
  <2>1. CASE wire' = wire
    BY <1>2, <2>1
  <2>2. CASE ~P!Stale(Batch(plan[r], scope[r]), remote) /\ wire' = wire \cup {message}
    <3>1. remote' = remote /\ message.moves = moves
      BY <1>3 DEF Connect
    <3>2. \A tag \in DOMAIN moves \cap TagRefs :
              \/ ContainedOn(remote, moves[tag].new)
              \/ \E ref \in DOMAIN moves \cap (HeadRefs \ {StateRef}) :
                      <<moves[tag].new, moves[ref].new>> \in Anc
      BY <1>3, <2>2, SentCarries DEF Connect
    <3> HIDE DEF moves
    <3> QED BY <2>2, <3>1, <3>2 DEF WireCarries, ContainedOn
  <2> QED BY <1>3, <2>1, <2>2 DEF Connect, Refused
<1>4. ASSUME NEW r \in Runs, Drop(r) \/ Crash(r) PROVE WireCarries'
  BY <1>2, <1>4, OrphanedType DEF Drop, Crash, TypeOK
<1>5. CASE wire' \subseteq wire
  BY <1>2, <1>5
<1> QED BY <1>3, <1>4, <1>5
    DEF Next, RunStep, Observe, Plan, Approve, Apply, Confirm, ServerDecides, OutsidePush, vars

LEMMA TagsStayInBranch ==
    ASSUME TypeOK, TypeOK', [A!Advance]_remote, WireCarries, TagInBranch, [Next]_vars
    PROVE  TagInBranch'
<1> SUFFICES ASSUME NEW tag \in TagRefs, remote'[tag] # None
             PROVE  ContainedOn(remote', remote'[tag])
  BY DEF TagInBranch, ContainedOn
<1>1. CASE remote'[tag] = remote[tag]
  <2>1. remote[tag] \in Objects /\ ContainedOn(remote, remote[tag])
    BY <1>1 DEF TypeOK, Value, Refs, TagInBranch, ContainedOn
  <2>2. PICK object \in Objects : object = remote[tag]
    BY <2>1
  <2> QED BY <1>1, <2>1, <2>2, ContainedStable
<1>2. CASE remote'[tag] # remote[tag]
  <2>1. PICK p \in wire : ServerDecides(p)
    <3>1. ~OutsidePush
      BY <1>2, ReleaseAssumption, RequestAssumption DEF OutsidePush, TypeOK, Refs
    <3> QED BY <1>2, <3>1
      DEF Next, RunStep, Observe, Plan, Approve, Apply, Connect, Drop, Confirm, Crash, vars
  <2>2. /\ P!Lockable(p.moves, remote) /\ remote' = P!Landed(p.moves, remote)
        /\ tag \in DOMAIN p.moves /\ DOMAIN remote = Refs
    BY <1>2, <2>1 DEF ServerDecides, P!Landed, TypeOK, Refs
  <2>3. remote'[tag] = p.moves[tag].new /\ p.moves[tag].new \in Objects
    BY <2>2 DEF P!Landed, TypeOK, Message, Partial, Move, Refs
  <2>4. CASE ContainedOn(remote, p.moves[tag].new)
    <3>1. PICK object \in Objects : object = p.moves[tag].new
      BY <2>3
    <3> QED BY <2>3, <2>4, <3>1, ContainedStable
  <2>5. CASE \E ref \in DOMAIN p.moves \cap (HeadRefs \ {StateRef}) :
                <<p.moves[tag].new, p.moves[ref].new>> \in Anc
    <3>1. PICK ref \in DOMAIN p.moves \cap (HeadRefs \ {StateRef}) :
              <<p.moves[tag].new, p.moves[ref].new>> \in Anc
      BY <2>5
    <3>2. remote'[ref] = p.moves[ref].new
      BY <2>2, <3>1 DEF P!Landed, Refs
    <3> QED BY <2>3, <3>1, <3>2 DEF ContainedOn
  <2> QED BY <2>2, <2>4, <2>5 DEF WireCarries
<1> QED BY <1>1, <1>2

(* The consumer half is one transaction (sync/apply.go): at no moment, of any
   number of runs, deaths and late verdicts, is there a release tag without a
   consumer branch that contains its commit. *)
THEOREM TagsInBranches == Spec => []TagInBranch
<1>1. Init => CarryInv
  BY ReleaseAssumption DEF Init, CarryInv, PlansCarry, WireCarries, TagInBranch, NoPlan
<1>2. ASSUME TypeOK, TypeOK', PushInv, ReportInv, CarryInv, [Next]_vars PROVE CarryInv'
  <2>1. [A!Advance]_remote
    BY <1>2, StepForward
  <2> QED BY <1>2, <2>1, PlansStayCarried, WireStaysCarried, TagsStayInBranch DEF CarryInv
<1>3. CarryInv => TagInBranch
  BY DEF CarryInv
<1> QED BY <1>1, <1>2, <1>3, TypeCorrect, PushSafe, ReportsHold, PTL DEF Spec
=============================================================================

------------------------------ MODULE Publish ------------------------------
(***************************************************************************)
(* The append-only publisher (tools/internal/publish), driven through the  *)
(* two scopes of sync.Apply, by any number of runs against one destination *)
(* that other writers move as well.                                        *)
(*                                                                         *)
(* A run observes the destination, asks for a set of updates, has them     *)
(* planned against a second read, waits for the plan's hash to be          *)
(* approved, and applies it scope by scope: drift check, recheck of the    *)
(* local objects, leased atomic push, and a read that confirms it.  A run  *)
(* may die at any point, its connection may drop before or after the       *)
(* server commits, and a push it gave up on may still commit later.        *)
(***************************************************************************)
EXTENDS Naturals, FiniteSets

CONSTANTS Runs,         \* invocations of the engine
          HeadRefs,     \* refs under refs/heads/, the state ref included
          TagRefs,      \* refs under refs/tags/
          ProgressRefs, \* refs under the progress prefix
          StateRef,     \* destination.stateRef
          Objects,      \* commits and annotated tag objects
          TagObjects,   \* the annotated tag objects among them
          None,         \* no object: an absent ref
          Anc,          \* git merge-base --is-ancestor, tags peeled
          Destinations, \* what the destination may hold at first
          Requests,     \* what the synchronization layer may ask for
          Stores,       \* what a local repository may hold
          Outside,      \* <<ref, object>>: a move another writer may make
          MaxFaults     \* bound on deaths and dropped connections

Refs == HeadRefs \cup TagRefs \cup ProgressRefs
Kinds == {"branch", "tag", "state", "progress"}
Scopes == {"non-consumer", "consumer", "reconcile"}
Modes == {"sync", "checkpoint", "reconcile"}
Phases == {"idle", "observed", "planned", "applying", "pushing", "sending", "pushed", "done"}
Verdicts == {"none", "already", "published", "failed", "unknown"}

(* Refs under different prefixes are different refs, and the profile keeps
   the state ref under refs/heads/ and the progress refs away from both. *)
ASSUME NamespaceAssumption ==
    /\ HeadRefs \cap TagRefs = {}
    /\ ProgressRefs \cap (HeadRefs \cup TagRefs) = {}
    /\ StateRef \in HeadRefs

ASSUME ObjectAssumption ==
    /\ TagObjects \subseteq Objects
    /\ None \notin Objects
    /\ Anc \subseteq Objects \X Objects
    /\ \A o \in Objects : <<o, o>> \in Anc
    /\ \A a, b, c \in Objects : <<a, b>> \in Anc /\ <<b, c>> \in Anc => <<a, c>> \in Anc

Want == [kind : Kinds, new : Objects]

(* A function from some of the refs to S. *)
Partial(p, S) == DOMAIN p \subseteq Refs /\ p \in [DOMAIN p -> S]

ASSUME RequestAssumption ==
    /\ \A q \in Requests : q.mode \in Modes /\ Partial(q.wants, Want)
    /\ Destinations \subseteq [Refs -> Objects \cup {None}]
    /\ Stores \subseteq SUBSET Objects
    /\ Outside \subseteq Refs \X Objects
    /\ MaxFaults \in Nat

(* The branch of these wants, or of this plan, that contains the object. *)
Carried(wants, object) ==
    \E ref \in DOMAIN wants : wants[ref].kind = "branch" /\ <<object, wants[ref].new>> \in Anc

(* sync/finalize.go asks for a release's tag together with the branch that
   contains its commit, and nobody else creates release tags. *)
ASSUME ReleaseAssumption ==
    /\ \A q \in Requests : \A ref \in DOMAIN q.wants :
            q.wants[ref].kind = "tag" => Carried(q.wants, q.wants[ref].new)
    /\ \A move \in Outside : move[1] \notin TagRefs
    /\ \A refs \in Destinations : \A tag \in TagRefs :
            refs[tag] # None => \E ref \in HeadRefs \ {StateRef} : <<refs[tag], refs[ref]>> \in Anc

Value == Objects \cup {None}
Bookkeeping == ProgressRefs \cup {StateRef}
Action == [kind : Kinds, old : Value, new : Objects]
Move == [old : Value, new : Objects]
NoPlan == [ref \in {} |-> None]
NoRequest == [mode |-> "sync", wants |-> NoPlan]

VARIABLES
    remote,   \* the destination: the object each ref holds
    wire,     \* pushes the server has accepted and not yet decided
    pc,       \* where each run is
    request,  \* the updates it asked for
    seen,     \* what it observed before it planned
    store,    \* the objects of its local repository
    plan,     \* its publication plan: the actions of the manifest
    approval, \* the manifest whose hash was last approved for it
    scope,    \* the half of the plan it is applying
    answer,   \* what its push reported
    said,     \* the outcome it reports for each scope
    faults    \* deaths and dropped connections so far

vars == <<remote, wire, pc, request, seen, store, plan, approval, scope, answer, said, faults>>

P == INSTANCE GitPush

-----------------------------------------------------------------------------
(* Plans. *)

(* Mutant: a tag travels with the bookkeeping. *)
ConsumerBranchOnly(kind) == kind = "branch"

Consumer(kind) == kind \in {"branch", "tag"}

(* checkNamespace, with the state ref refused as a consumer branch. *)
NamespaceOK(ref, kind) ==
    CASE kind = "branch"   -> ref \in HeadRefs /\ ref # StateRef
      [] kind = "tag"      -> ref \in TagRefs
      [] kind = "state"    -> ref = StateRef
      [] kind = "progress" -> ref \in ProgressRefs

(* The object is in the local repository and is what the kind points at. *)
HasType(object, kind, have) ==
    object \in have /\ (object \in TagObjects <=> kind = "tag")

(* IsAncestor needs both ends locally to prove anything. *)
ProvedForward(old, new, have) == old \in have /\ <<old, new>> \in Anc

(* Mutant: a tag may fast forward like any other ref. *)
ClassifiedTagsMove(want, expected, old, have) ==
    /\ HasType(want.new, want.kind, have)
    /\ expected = old
    /\ \/ old = None
       \/ old = want.new
       \/ ProvedForward(old, want.new, have)

(* classify: what was observed must still hold, an existing tag must already
   be the planned one, and anything else must fast forward. *)
Classified(want, expected, old, have) ==
    /\ HasType(want.new, want.kind, have)
    /\ expected = old
    /\ \/ old = None
       \/ old = want.new
       \/ want.kind # "tag" /\ ProvedForward(old, want.new, have)

Planned(wants, refs) ==
    [ref \in DOMAIN wants |->
        [kind |-> wants[ref].kind, old |-> refs[ref], new |-> wants[ref].new]]

(* Mutant: a ref that exists counts as already published. *)
NoOpIfPresent(action) == action.old # None

NoOp(action) == action.old = action.new

Covers(s, action) ==
    CASE s = "consumer"     -> Consumer(action.kind)
      [] s = "non-consumer" -> ~Consumer(action.kind)
      [] s = "reconcile"    -> TRUE

Covered(p, s) == {ref \in DOMAIN p : Covers(s, p[ref])}

Drifted(p, s, refs) == \E ref \in Covered(p, s) : refs[ref] # p[ref].old

(* Reconciliation sends its no-op actions too, for the sake of their leases. *)
Pending(p, s) == {ref \in Covered(p, s) : NoOp(p[ref]) => s = "reconcile"}

Rechecked(p, s, have) ==
    \A ref \in Pending(p, s) :
        /\ HasType(p[ref].new, p[ref].kind, have)
        /\ \/ p[ref].old = None
           \/ NoOp(p[ref])
           \/ ProvedForward(p[ref].old, p[ref].new, have)

MovesConsumer(p) == \E ref \in DOMAIN p : Consumer(p[ref].kind) /\ ~NoOp(p[ref])

Batch(p, s) == [ref \in Pending(p, s) |-> p[ref]]

(* assertFastForward, the rule a lease would otherwise replace. *)
Forwardable(batch, have) ==
    \A ref \in DOMAIN batch :
        batch[ref].old = None \/ ProvedForward(batch[ref].old, batch[ref].new, have)

(* Mutant: the leases are not passed to git. *)
RefusedUnleased(batch, have, refs) == ~Forwardable(batch, have)

(* PushAtomic refuses before it asks git, or git does for a lease that fails. *)
Refused(batch, have, refs) == ~Forwardable(batch, have) \/ P!Stale(batch, refs)

(* Mutant: the consumer half goes first. *)
FirstScopeConsumer(mode) == IF mode = "reconcile" THEN "reconcile" ELSE "consumer"

FirstScope(mode) == IF mode = "reconcile" THEN "reconcile" ELSE "non-consumer"

Nothing == [s \in Scopes |-> "none"]
-----------------------------------------------------------------------------
Init ==
    /\ remote \in Destinations
    /\ wire = {}
    /\ pc = [r \in Runs |-> "idle"]
    /\ request = [r \in Runs |-> NoRequest]
    /\ seen = [r \in Runs |-> [ref \in Refs |-> None]]
    /\ store = [r \in Runs |-> {}]
    /\ plan = [r \in Runs |-> NoPlan]
    /\ approval = [r \in Runs |-> NoPlan]
    /\ scope = [r \in Runs |-> "non-consumer"]
    /\ answer = [r \in Runs |-> "none"]
    /\ said = [r \in Runs |-> Nothing]
    /\ faults = 0

(* A run begins: it reads the destination and decides what it wants there. *)
Observe(r) ==
    /\ pc[r] \in {"idle", "done"}
    /\ \E q \in Requests, have \in Stores :
        /\ request' = [request EXCEPT ![r] = q]
        /\ store' = [store EXCEPT ![r] = have]
    /\ seen' = [seen EXCEPT ![r] = remote]
    /\ said' = [said EXCEPT ![r] = Nothing]
    /\ pc' = [pc EXCEPT ![r] = "observed"]
    /\ UNCHANGED <<remote, wire, plan, approval, scope, answer, faults>>

Plannable(r) ==
    LET wants == request[r].wants IN
    \A ref \in DOMAIN wants :
        /\ NamespaceOK(ref, wants[ref].kind)
        /\ Classified(wants[ref], seen[r][ref], remote[ref], store[r])

(* Publisher.Plan reads the destination again and refuses the whole request
   if any update of it is refused. *)
Plan(r) ==
    /\ pc[r] = "observed"
    /\ IF Plannable(r)
       THEN /\ plan' = [plan EXCEPT ![r] = Planned(request[r].wants, remote)]
            /\ pc' = [pc EXCEPT ![r] = "planned"]
       ELSE /\ plan' = [plan EXCEPT ![r] = NoPlan]
            /\ pc' = [pc EXCEPT ![r] = "done"]
    /\ scope' = [scope EXCEPT ![r] = FirstScope(request[r].mode)]
    /\ seen' = [seen EXCEPT ![r] = [ref \in Refs |-> None]]
    /\ UNCHANGED <<remote, wire, request, store, approval, answer, said, faults>>

(* Somebody reads the manifest and quotes its hash: an operator, or an
   unattended run approving itself.  The hash outlives the run. *)
Approve(r) ==
    /\ pc[r] = "planned"
    /\ approval' = [approval EXCEPT ![r] = plan[r]]
    /\ UNCHANGED <<remote, wire, pc, request, seen, store, plan, scope, answer, said, faults>>

(* The scope that follows in sync.Apply, or the end of the run. *)
Advance(r) ==
    IF request[r].mode = "sync" /\ scope[r] = "non-consumer"
    THEN /\ scope' = [scope EXCEPT ![r] = "consumer"]
         /\ pc' = [pc EXCEPT ![r] = "applying"]
    ELSE /\ pc' = [pc EXCEPT ![r] = "done"]
         /\ UNCHANGED scope

(* Mutant: the approved hash is not compared with the plan's. *)
ApplicableUnapproved(r, have) ==
    /\ scope[r] = "reconcile" => ~MovesConsumer(plan[r])
    /\ ~Drifted(plan[r], scope[r], remote)
    /\ Rechecked(plan[r], scope[r], have)

Applicable(r, have) ==
    /\ approval[r] = plan[r]
    /\ scope[r] = "reconcile" => ~MovesConsumer(plan[r])
    /\ ~Drifted(plan[r], scope[r], remote)
    /\ Rechecked(plan[r], scope[r], have)

(* Publisher.Apply up to the push.  The local repository may have lost
   objects since the plan was made. *)
Apply(r) ==
    /\ pc[r] \in {"planned", "applying"}
    /\ \E have \in Stores :
        /\ have \subseteq store[r]
        /\ store' = [store EXCEPT ![r] = have]
        /\ \/ /\ ~Applicable(r, have)
              /\ pc' = [pc EXCEPT ![r] = "done"]
              /\ UNCHANGED <<scope, said>>
           \/ /\ Applicable(r, have)
              /\ Pending(plan[r], scope[r]) = {}
              /\ said' = [said EXCEPT ![r][scope[r]] = "already"]
              /\ Advance(r)
           \/ /\ Applicable(r, have)
              /\ Pending(plan[r], scope[r]) # {}
              /\ pc' = [pc EXCEPT ![r] = "pushing"]
              /\ UNCHANGED <<scope, said>>
    /\ UNCHANGED <<remote, wire, request, seen, plan, approval, answer, faults>>

Fault == faults < MaxFaults /\ faults' = faults + 1

(* PushAtomic up to the request: the fast forwards are proved, git reads the
   advertisement, and the outstanding refs are sent. *)
Connect(r) ==
    /\ pc[r] = "pushing"
    /\ LET batch == Batch(plan[r], scope[r]) IN
       \/ /\ Refused(batch, store[r], remote)
          /\ answer' = [answer EXCEPT ![r] = "error"]
          /\ pc' = [pc EXCEPT ![r] = "pushed"]
          /\ UNCHANGED wire
       \/ /\ ~Refused(batch, store[r], remote)
          /\ IF P!Outstanding(batch, remote) = {}
             THEN /\ answer' = [answer EXCEPT ![r] = "ok"]
                  /\ pc' = [pc EXCEPT ![r] = "pushed"]
                  /\ UNCHANGED wire
             ELSE /\ wire' = wire \cup {[run |-> r, scope |-> scope[r], live |-> TRUE,
                                          moves |-> P!Sent(batch, remote)]}
                  /\ pc' = [pc EXCEPT ![r] = "sending"]
                  /\ UNCHANGED answer
    /\ UNCHANGED <<remote, request, seen, store, plan, approval, scope, said, faults>>

(* The server decides one push.  The run that still waits for it learns the
   verdict, or loses the connection after a commit and learns an error. *)
ServerDecides(p) ==
    /\ p \in wire
    /\ wire' = wire \ {p}
    /\ IF P!Lockable(p.moves, remote)
       THEN remote' = P!Landed(p.moves, remote)
       ELSE UNCHANGED remote
    /\ IF p.live
       THEN /\ pc' = [pc EXCEPT ![p.run] = "pushed"]
            /\ \/ /\ answer' = [answer EXCEPT ![p.run] =
                        IF P!Lockable(p.moves, remote) THEN "ok" ELSE "error"]
                  /\ UNCHANGED faults
               \/ /\ P!Lockable(p.moves, remote)
                  /\ answer' = [answer EXCEPT ![p.run] = "error"]
                  /\ Fault
       ELSE UNCHANGED <<pc, answer, faults>>
    /\ UNCHANGED <<request, seen, store, plan, approval, scope, said>>

(* Pushes the run no longer waits for: the server may decide them later, or
   never have received them. *)
Orphaned(r) ==
    LET mine == {p \in wire : p.run = r /\ p.live} IN
    \/ wire' = wire \ mine
    \/ wire' = (wire \ mine) \cup {[p EXCEPT !.live = FALSE] : p \in mine}

(* The connection drops before the verdict arrives. *)
Drop(r) ==
    /\ pc[r] = "sending"
    /\ Orphaned(r)
    /\ answer' = [answer EXCEPT ![r] = "error"]
    /\ pc' = [pc EXCEPT ![r] = "pushed"]
    /\ Fault
    /\ UNCHANGED <<remote, request, seen, store, plan, approval, scope, said>>

Holds(p, s, refs) == \A ref \in Pending(p, s) : refs[ref] = p[ref].new

(* push reads the destination after the push either way.  The read may fail.
   Only a failed push is reported as a PushError; a push that git accepted
   and the read does not confirm is a plain error, and sync.outcome turns a
   plain error into no outcome at all. *)
Confirm(r) ==
    /\ pc[r] = "pushed"
    /\ answer' = [answer EXCEPT ![r] = "none"]
    /\ \E readable \in BOOLEAN :
        \/ /\ answer[r] = "error"
           /\ said' = [said EXCEPT ![r][scope[r]] = IF readable THEN "failed" ELSE "unknown"]
           /\ pc' = [pc EXCEPT ![r] = "done"]
           /\ UNCHANGED scope
        \/ /\ answer[r] = "ok"
           /\ readable /\ Holds(plan[r], scope[r], remote)
           /\ said' = [said EXCEPT ![r][scope[r]] = "published"]
           /\ Advance(r)
        \/ /\ answer[r] = "ok"
           /\ ~(readable /\ Holds(plan[r], scope[r], remote))
           /\ pc' = [pc EXCEPT ![r] = "done"]
           /\ UNCHANGED <<scope, said>>
    /\ UNCHANGED <<remote, wire, request, seen, store, plan, approval, faults>>

(* The process dies.  What it approved and what it sent outlive it. *)
Crash(r) ==
    /\ pc[r] \notin {"idle", "done"}
    /\ Orphaned(r)
    /\ pc' = [pc EXCEPT ![r] = "idle"]
    /\ plan' = [plan EXCEPT ![r] = NoPlan]
    /\ seen' = [seen EXCEPT ![r] = [ref \in Refs |-> None]]
    /\ answer' = [answer EXCEPT ![r] = "none"]
    /\ said' = [said EXCEPT ![r] = Nothing]
    /\ Fault
    /\ UNCHANGED <<remote, request, store, approval, scope>>

(* Another writer.  The destination forbids force pushes and deletions to
   everyone, so it too only creates refs and fast forwards branches. *)
OutsidePush ==
    \E move \in Outside :
        LET ref == move[1] new == move[2] IN
        /\ remote[ref] # new
        /\ remote[ref] = None \/ (ref \notin TagRefs /\ <<remote[ref], new>> \in Anc)
        /\ remote' = [remote EXCEPT ![ref] = new]
        /\ UNCHANGED <<wire, pc, request, seen, store, plan, approval, scope, answer, said, faults>>

RunStep(r) ==
    \/ Observe(r) \/ Plan(r) \/ Approve(r) \/ Apply(r) \/ Connect(r)
    \/ Drop(r) \/ Confirm(r) \/ Crash(r)

Next ==
    \/ \E r \in Runs : RunStep(r)
    \/ \E p \in wire : ServerDecides(p)
    \/ OutsidePush

Spec == Init /\ [][Next]_vars
-----------------------------------------------------------------------------
(* Properties. *)

(* A push on its way: whose it is, which half, and what it moves. *)
Message(p) ==
    /\ p = [run |-> p.run, scope |-> p.scope, live |-> p.live, moves |-> p.moves]
    /\ p.run \in Runs /\ p.scope \in Scopes /\ p.live \in BOOLEAN
    /\ Partial(p.moves, Move)

(* Type correctness of the publisher's state, of pushes in flight included. *)
TypeOK ==
    /\ remote \in [Refs -> Value]
    /\ \A p \in wire : Message(p)
    /\ pc \in [Runs -> Phases]
    /\ request \in [Runs -> Requests \cup {NoRequest}]
    /\ seen \in [Runs -> [Refs -> Value]]
    /\ store \in [Runs -> SUBSET Objects]
    /\ plan = [r \in Runs |-> plan[r]] /\ \A r \in Runs : Partial(plan[r], Action)
    /\ approval = [r \in Runs |-> approval[r]] /\ \A r \in Runs : Partial(approval[r], Action)
    /\ scope \in [Runs -> Scopes]
    /\ answer \in [Runs -> {"none", "ok", "error"}]
    /\ said \in [Runs -> [Scopes -> Verdicts]]
    /\ faults \in Nat

(* The ref holds the object, or has moved forward from it. *)
Reached(ref, object) ==
    \/ remote[ref] = object
    \/ ref \notin TagRefs /\ <<object, remote[ref]>> \in Anc

(* One ref may have held both. *)
InLine(ref, a, b) ==
    a = b \/ (ref \notin TagRefs /\ (<<a, b>> \in Anc \/ <<b, a>> \in Anc))

(* The publisher implements the append-only destination: whatever the runs,
   the faults and the other writers do, no ref is rewound or deleted, no tag
   moves, and no transaction mixes consumer refs with bookkeeping
   (publish/plan.go classify, gitcli assertFastForward, Scope.covers). *)
A == INSTANCE AppendOnlyRefs WITH refs <- remote
AppendOnly == A!Spec

(* "Publishing an approved plan onto a remote that has moved would publish
   something nobody approved" (publish/apply.go, Apply).  A push carries
   exactly moves of the approved manifest, and one that lands takes each ref
   from the value the manifest recorded to the object it recorded, however
   late it lands. *)
MovesAsApproved ==
    [][/\ \A p \in wire' \ wire :
            p.live => \A ref \in DOMAIN p.moves :
                        /\ ref \in DOMAIN approval[p.run]
                        /\ approval[p.run][ref].old = p.moves[ref].old
                        /\ approval[p.run][ref].new = p.moves[ref].new
       /\ \A p \in wire \ wire' : \A ref \in DOMAIN p.moves :
            remote'[ref] # remote[ref] =>
                remote[ref] = p.moves[ref].old /\ remote'[ref] = p.moves[ref].new]_vars

(* Non-consumer refs are pushed first (sync/apply.go, Apply): when a run
   sends its consumer half, the destination already holds, or has moved past,
   every bookkeeping object of the same plan. *)
BookkeepingFirst ==
    [][\A p \in wire' \ wire :
         (p.live /\ p.scope = "consumer") =>
            \A ref \in Covered(plan[p.run], "non-consumer") :
                Reached(ref, plan[p.run][ref].new)]_vars

(* "A push that git accepted is not yet a publication that happened"
   (publish/apply.go, Result.Verified).  What a run reports as published, or
   as already published, the destination holds or has moved past, even for
   refs the push itself found up to date. *)
ReportedIsThere ==
    \A r \in Runs, s \in Scopes :
        said[r][s] \in {"published", "already"} =>
            \A ref \in Covered(plan[r], s) : Reached(ref, plan[r][ref].new)

(* The compare and swap has one winner: of two runs that report to have moved
   one ref to unrelated objects, or one tag at all to different ones, one did
   not.  (A run may well report a move that another run made or went beyond.) *)
OneWinner ==
    \A r1, r2 \in Runs : \A s1, s2 \in Scopes :
        (said[r1][s1] = "published" /\ said[r2][s2] = "published") =>
            \A ref \in Covered(plan[r1], s1) \cap Covered(plan[r2], s2) :
                (~NoOp(plan[r1][ref]) /\ ~NoOp(plan[r2][ref])) =>
                    InLine(ref, plan[r1][ref].new, plan[r2][ref].new)

(* The consumer half is one transaction: a release tag never exists without
   a consumer branch that contains the commit it names. *)
TagInBranch ==
    \A tag \in TagRefs :
        remote[tag] # None =>
            \E ref \in HeadRefs \ {StateRef} : <<remote[tag], remote[ref]>> \in Anc

(* Claimed by docs/conflict-runbook.md of the report a failed -apply prints:
   "refs were not attempted" means "that half never ran". *)
AttemptIsReported ==
    [][\A r \in Runs :
         (request[r].mode = "sync" /\ pc[r] = "pushed" /\ pc'[r] \in {"applying", "done"})
            => said'[r][scope[r]] # "none"]_vars
=============================================================================

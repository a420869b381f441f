-------------------------------- MODULE Sync --------------------------------
(***************************************************************************)
(* Unattended synchronization (tools/internal/sync, Reconcile): runs that  *)
(* discover what a destination holds, replay pending upstream releases     *)
(* chunk by chunk onto a progress ref, publish a completed release, and    *)
(* record what they observe, until there is nothing left to do.            *)
(*                                                                         *)
(* A commit of the destination is the sequence of what its linear history  *)
(* is made of: the setup commit, operator commits, and the images of       *)
(* source commits.  Generation is deterministic, so the same replay yields *)
(* the same commit.  A state commit is the sequence of the records that    *)
(* lead to it.  An annotated tag is the commit it names.                   *)
(*                                                                         *)
(* A run plans against one read of the destination.  The publisher's own   *)
(* reads, between planning and the push, are one step here: module Publish *)
(* has them apart.                                                         *)
(***************************************************************************)
EXTENDS Integers, Sequences, FiniteSets, SequencesExt

CONSTANTS Runs,       \* invocations of the engine, side by side
          Commits,    \* source commits, numbered so that parents come first
          Above,      \* <<a, b>>: source commit a is an ancestor of b, or b
          Relevant,   \* source commits that change a watched path
          Contextual, \* those that generate differently for another release
          Releases,   \* upstream releases, numbered in semver order
          At,         \* the source commit of each release
          ChunkSize,  \* determinism.chunkSize
          AtFirst,    \* what the destination holds at first
          FirstTags,  \* what upstream has released at first
          Backports,  \* whether upstream tags a lower release after a higher
          MidTrack,   \* whether operators push while there is work to do
          MaxCrashes, \* bound on runs that die
          MaxOperator \* bound on commits operators push

None == <<>>
(* What a destination commit can be: <<n, k>> is the image of source commit n
   as it is generated for release k. *)
Setup == <<0, 0>>
Operator == <<-1, 0>>
Image(n, k) == IF n \in Contextual THEN <<n, k>> ELSE <<n, 0>>

Main == <<"main", 0>>
State == <<"state", 0>>
Tag(k) == <<"tag", k>>
Progress(k) == <<"progress", k>>
TagRefs == {Tag(k) : k \in Releases}
Refs == {Main, State} \cup TagRefs \cup {Progress(k) : k \in Releases}

ASSUME SourceAssumption ==
    /\ Cardinality(Commits) \in Nat /\ Commits = 1..Cardinality(Commits)
    /\ Relevant \subseteq Commits /\ Contextual \subseteq Commits
    /\ Cardinality(Releases) \in Nat /\ Releases = 1..Cardinality(Releases)
    /\ At \in [Releases -> Commits]
    /\ \A j, k \in Releases : At[j] = At[k] => j = k
    /\ Above \subseteq Commits \X Commits
    /\ \A a \in Commits : <<a, a>> \in Above
    /\ \A pair \in Above : pair[1] <= pair[2]
    /\ \A a, b, c \in Commits : <<a, b>> \in Above /\ <<b, c>> \in Above => <<a, c>> \in Above
    (* No merges: what leads to a commit is one line (module Replay has the rest). *)
    /\ \A a, b, c \in Commits :
        <<a, c>> \in Above /\ <<b, c>> \in Above /\ a <= b => <<a, b>> \in Above
    /\ ChunkSize \in Nat \ {0}
    /\ Backports \in BOOLEAN /\ MidTrack \in BOOLEAN
    /\ MaxCrashes \in Nat /\ MaxOperator \in Nat
    /\ FirstTags \subseteq Releases /\ 1 \in FirstTags
    /\ AtFirst \in {"setup", "first release", "recorded"}

VARIABLES
    remote,   \* the destination: the object each ref holds
    wire,     \* pushes the server has accepted and not yet decided
    released, \* the releases upstream has tagged
    pc,       \* where each run is
    head,     \* the commit it has checked out
    seen,     \* the state commits it has discovered
    job,      \* the publication it has planned
    crashes,  \* runs that died so far
    operated  \* commits operators pushed so far

vars == <<remote, wire, released, pc, head, seen, job, crashes, operated>>

P == INSTANCE GitPush
-----------------------------------------------------------------------------
(* The state record. *)

NoBranch == [object |-> None, rel |-> 0]
Unrecorded == [cursors |-> <<>>, branch |-> NoBranch, tags |-> <<>>, tracks |-> <<>>]

Document(history) == IF history = None THEN Unrecorded ELSE Last(history)
Doc(refs) == Document(refs[State])

(* Tracks that have done what they were to do, and those of them that stand at
   their release's own commit. *)
Completed(d) == {k \in DOMAIN d.tracks : d.tracks[k].done = d.tracks[k].total}
Finished(d) == {k \in Completed(d) : d.tracks[k].source = At[k]}

Put(f, k, v) == [j \in DOMAIN f \cup {k} |-> IF j = k THEN v ELSE f[j]]
Drop(f, k) == [j \in DOMAIN f \ {k} |-> f[j]]

(* The source to destination claims of a record: one source, one image. *)
Images(d) ==
    {<<At[k], d.cursors[k]>> : k \in DOMAIN d.cursors}
    \cup {<<d.tracks[k].source, d.tracks[k].dest>> : k \in DOMAIN d.tracks}
    \cup {<<At[k], d.branch.object>> : k \in {d.branch.rel} \ {0}}

Corresponds(d) ==
    /\ \A i, j \in Images(d) : i[1] = j[1] <=> i[2] = j[2]
    /\ IsInjective(d.tags)

(* state.MergeWith, within one profile: what a successor may not forget or
   rewind. *)
Merges(d, next) ==
    /\ Corresponds(next)
    /\ \A k \in DOMAIN d.cursors :
        k \in DOMAIN next.cursors /\ IsPrefix(d.cursors[k], next.cursors[k])
    /\ \A k \in DOMAIN d.tracks \ DOMAIN next.tracks : k \in Completed(d)
    /\ \A k \in DOMAIN d.tracks \cap DOMAIN next.tracks :
        LET old == d.tracks[k] new == next.tracks[k] IN
        /\ old.done <= new.done /\ old.total <= new.total
        /\ <<old.source, new.source>> \in Above
        /\ IsPrefix(old.dest, new.dest)
    /\ \A k \in DOMAIN d.tags : k \in DOMAIN next.tags /\ next.tags[k] = d.tags[k]
    /\ d.branch.rel # 0 =>
        /\ next.branch.rel # 0
        /\ IsPrefix(d.branch.object, next.branch.object)
        /\ <<At[d.branch.rel], At[next.branch.rel]>> \in Above
-----------------------------------------------------------------------------
(* Discovery. *)

(* Completed tracks that end where the branch is. *)
Ends(refs) == {k \in Completed(Doc(refs)) : Doc(refs).tracks[k].dest = refs[Main]}

(* The branch is where the record says it is, or there is no record. *)
Recognised(refs) == refs[State] = None \/ Doc(refs).branch.object = refs[Main]

(* The branch is ahead of the record, where a completed track or the first
   release's cursor ends: a consumer push that was never recorded. *)
AdoptedBranch(refs) ==
    /\ ~Recognised(refs)
    /\ IF Doc(refs).branch.rel # 0
       THEN Cardinality(Ends(refs)) = 1
       ELSE 1 \in DOMAIN Doc(refs).cursors /\ Doc(refs).cursors[1] = refs[Main]

(* verifyControlPlaneBranch: only operator commits lie above the recorded
   one. *)
ControlPlane(refs) ==
    LET base == Doc(refs).branch.object IN
    /\ ~Recognised(refs)
    /\ Doc(refs).branch.rel # 0
    /\ Ends(refs) = {}
    /\ IsPrefix(base, refs[Main])
    /\ \A i \in Len(base) + 1 .. Len(refs[Main]) : refs[Main][i] = Operator

BranchVerified(refs, checkout) ==
    /\ checkout = refs[Main]
    /\ Recognised(refs) \/ AdoptedBranch(refs) \/ ControlPlane(refs)

Tagged(refs) == {k \in Releases : refs[Tag(k)] # None}
Adopted(refs) == Tagged(refs) \ DOMAIN Doc(refs).tags

(* adoptTrackedTag: the tag, the branch and the progress ref are all where
   the finished track ends. *)
TrackedTag(refs, k) ==
    /\ k \in Finished(Doc(refs))
    /\ \A ref \in {Tag(k), Main, Progress(k)} : refs[ref] = Doc(refs).tracks[k].dest

(* adoptLegacyTag: the first release's tag names the recorded branch or
   cursor, or a child of it, and an image of the release commit. *)
LegacyTag(refs, k) ==
    LET d == Doc(refs) tag == refs[Tag(k)] IN
    /\ k = 1 /\ k \notin Finished(d)
    /\ \E base \in {d.branch.object} \cup {d.cursors[j] : j \in DOMAIN d.cursors \cap {1}} :
        /\ base # None
        /\ base # d.branch.object => d.branch.object = None
        /\ base \in {tag, Front(tag)}
    /\ Last(tag) = Image(At[k], k)

(* computePending's refusals. *)
TagsAgree(refs) ==
    /\ \A k \in DOMAIN Doc(refs).tags : refs[Tag(k)] = Doc(refs).tags[k]
    /\ Cardinality(Adopted(refs)) <= 1
    /\ \A k \in Adopted(refs) : TrackedTag(refs, k) \/ LegacyTag(refs, k)

Pending(refs) == {k \in released : k \notin Tagged(refs)}
NextRelease(refs) == CHOOSE k \in Pending(refs) : \A j \in Pending(refs) : k <= j

FixedPoint(refs) == Adopted(refs) = {} /\ Pending(refs) = {} /\ ~AdoptedBranch(refs)
-----------------------------------------------------------------------------
(* Replay. *)

(* The source commits between a recorded position and a release. *)
Between(from, to) == {n \in Commits : <<n, to>> \in Above /\ <<n, from>> \notin Above}
UpTo(segment, n) == {m \in segment : m <= n}

(* The images of some source commits for release k, in their order. *)
ImagesUpTo(segment, k) ==
    LET images[n \in 0 .. Cardinality(Commits)] ==
            IF n = 0 THEN <<>>
            ELSE IF n \in segment THEN Append(images[n - 1], Image(n, k)) ELSE images[n - 1]
    IN images
ImagesOf(segment, k) == ImagesUpTo(segment, k)[Cardinality(Commits)]

(* Mutant: a release boundary is no reason to write a commit. *)
WrittenIfWatched(segment, k) == ImagesOf(segment \cap Relevant, k)

(* What a segment of them becomes for release k: its own commit is always
   written, another one only when it touches a watched path. *)
Written(segment, k) == ImagesOf(segment \cap (Relevant \cup {At[k]}), k)

(* The generated commit the record knows the branch by. *)
Generated(refs) ==
    IF ControlPlane(refs) THEN Doc(refs).branch.object ELSE refs[Main]

(* consumerChunkBase: the branch is where a release cursor ends, or only
   operator commits are above it. *)
Based(refs) ==
    LET d == Doc(refs) k == IF d.branch.rel # 0 THEN d.branch.rel ELSE 1 IN
    /\ d.branch.rel # 0 => ~AdoptedBranch(refs)
    /\ k \in DOMAIN d.cursors /\ d.cursors[k] = Generated(refs)

(* chunkStart: where the track stands, or the branch if there is none. *)
ChunkStart(refs, k) ==
    LET d == Doc(refs) b == IF d.branch.rel # 0 THEN d.branch.rel ELSE 1 IN
    IF k \in DOMAIN d.tracks
    THEN d.tracks[k]
    ELSE [source |-> At[b], dest |-> refs[Main], done |-> 0,
          total |-> Cardinality(Between(At[b], At[k]))]

(* The progress ref is where the track ends, and absent without a track. *)
ProgressAgrees(refs, k) ==
    refs[Progress(k)] = IF k \in DOMAIN Doc(refs).tracks
                        THEN Doc(refs).tracks[k].dest ELSE None

Chunkable(refs, k) ==
    LET start == ChunkStart(refs, k) rest == Between(start.source, At[k]) IN
    /\ Based(refs) /\ ProgressAgrees(refs, k)
    /\ rest # {} /\ <<start.source, At[k]>> \in Above
    /\ start.done + Cardinality(rest) = start.total

(* Mutant: a new track may end before it has written anything. *)
EnoughUnfolded(segment, rest, k, fresh) == segment = rest \/ Cardinality(segment) >= ChunkSize

(* Whether a checkpoint may end here: ChunkSize commits on, or as far as it
   takes for a new track to write its first commit. *)
Enough(segment, rest, k, fresh) ==
    \/ segment = rest
    \/ /\ Cardinality(segment) >= ChunkSize
       /\ fresh => Written(segment, k) # <<>>

(* What a checkpoint of release k covers: as little as is enough. *)
Stretches(refs, k) ==
    LET rest == Between(ChunkStart(refs, k).source, At[k])
        enough == {segment \in {UpTo(rest, n) : n \in rest} :
                    Enough(segment, rest, k, k \notin DOMAIN Doc(refs).tracks)}
    IN {segment \in enough : \A other \in enough : segment \subseteq other}

(* The track the checkpoint leaves behind. *)
Advanced(refs, k, segment) ==
    LET start == ChunkStart(refs, k)
    IN [source |-> Max(segment),
        dest |-> start.dest \o Written(segment, k),
        done |-> start.done + Cardinality(segment),
        total |-> start.total]

(* PlanFinal's refusals beside the publisher's own. *)
Finalizable(refs, k) ==
    /\ refs[Progress(k)] = Doc(refs).tracks[k].dest
    /\ ~AdoptedBranch(refs)

(* planObservedReconciliation: a completed track, or for an adopted first
   release the record itself, proves that commit is what the release became. *)
Proved(d, refs, k, commit, legacy) ==
    IF k \in Finished(d)
    THEN d.tracks[k].dest = commit /\ refs[Progress(k)] = commit
    ELSE /\ legacy
         /\ \/ d.branch = [object |-> commit, rel |-> k]
            \/ k \in DOMAIN d.cursors /\ d.cursors[k] = commit

(* The record that accounts for release k at that commit. *)
Accounted(d, refs, k, commit) ==
    [cursors |-> Put(d.cursors, k, commit),
     branch |-> [object |-> commit, rel |-> k],
     tags |-> Put(d.tags, k, refs[Tag(k)]),
     tracks |-> IF k \in Finished(d) THEN Drop(d.tracks, k) ELSE d.tracks]
-----------------------------------------------------------------------------
(* Publications: the refs a plan covers, and the half it is at. *)

Idle == [kind |-> "none", half |-> "none", rel |-> 0, moves |-> <<>>]

Move(old, new) == [old |-> old, new |-> new]
Stays(refs, ref) == Move(refs[ref], refs[ref])

(* Mutant: progress refs travel with the branch. *)
ConsumerButState(ref) == ref # State

Consumer(ref) == ref = Main \/ ref \in TagRefs

Half(j) ==
    {ref \in DOMAIN j.moves :
        \/ j.half = "reconcile"
        \/ j.half = "consumer" /\ Consumer(ref)
        \/ j.half = "non-consumer" /\ ~Consumer(ref)}

Batch(j) == [ref \in Half(j) |-> j.moves[ref]]

Forward(ref, move) ==
    \/ move.old = None
    \/ move.old = move.new
    \/ ref \notin TagRefs /\ IsPrefix(move.old, move.new)

(* Every move is one the publisher may make and starts where the ref is; the
   second half of a release looks at its own refs only. *)
Publishable(j) ==
    /\ \A ref \in DOMAIN j.moves : Forward(ref, j.moves[ref])
    /\ \A ref \in IF j.kind = "initial" /\ j.half = "consumer" THEN Half(j) ELSE DOMAIN j.moves :
        remote[ref] = j.moves[ref].old

NextState(refs, d) == Append(refs[State], d)

FirstRecord(k, commit) == [Unrecorded EXCEPT !.cursors = Put(@, k, commit)]
FirstMoves(refs, k, record) ==
    [ref \in {State, Main, Tag(k)} |->
        IF ref = State THEN Move(None, NextState(refs, record))
        ELSE Move(IF ref = Main THEN refs[Main] ELSE None, Append(refs[Main], Image(At[k], k)))]

(* Mutant: the consumer half goes first. *)
InitialConsumerFirst(refs, k) ==
    [kind |-> "initial", half |-> "consumer", rel |-> k,
     moves |-> FirstMoves(refs, k, FirstRecord(k, Append(refs[Main], Image(At[k], k))))]

(* Mutant: the record lists the tag the run intends to create. *)
InitialClaimsTag(refs, k) ==
    LET commit == Append(refs[Main], Image(At[k], k)) IN
    [kind |-> "initial", half |-> "non-consumer", rel |-> k,
     moves |-> FirstMoves(refs, k, [FirstRecord(k, commit) EXCEPT !.tags = Put(@, k, commit)])]

(* The first release, whose record has a cursor and nothing else. *)
Initial(refs, k) ==
    [kind |-> "initial", half |-> "non-consumer", rel |-> k,
     moves |-> FirstMoves(refs, k, FirstRecord(k, Append(refs[Main], Image(At[k], k))))]

Checkpoint(refs, k, segment) ==
    LET track == Advanced(refs, k, segment)
        next == [Doc(refs) EXCEPT !.tracks = Put(@, k, track)]
    IN [kind |-> "checkpoint", half |-> "non-consumer", rel |-> k,
        moves |-> [ref \in {State, Progress(k)} |->
            IF ref = State THEN Move(refs[State], NextState(refs, next))
            ELSE Move(refs[Progress(k)], track.dest)]]

Final(refs, k) ==
    LET commit == Doc(refs).tracks[k].dest IN
    [kind |-> "release", half |-> "consumer", rel |-> k,
     moves |-> [ref \in {State, Main, Tag(k)} |->
        CASE ref = State -> Stays(refs, State)
          [] ref = Main -> Move(refs[Main], commit)
          [] OTHER -> Move(None, commit)]]

(* The state moves; what it claims is sent along unchanged. *)
Reconciliation(kind, d, refs, k, commit) ==
    [kind |-> kind, half |-> "reconcile", rel |-> k,
     moves |-> [ref \in {State, Main, Tag(k)} \cup {Progress(j) : j \in Finished(d) \cap {k}} |->
        IF ref = State THEN Move(refs[State], NextState(refs, Accounted(d, refs, k, commit)))
        ELSE Stays(refs, ref)]]

Verification(refs) ==
    [kind |-> "verify", half |-> "reconcile", rel |-> 0,
     moves |-> [ref \in {Main} |-> Stays(refs, Main)]]

Due(refs) == IF Adopted(refs) = {} /\ Pending(refs) # {} THEN {NextRelease(refs)} ELSE {}

(* What Reconcile does about what it reads: at most one of these, and it
   refuses when there is none. *)
Decisions(refs) ==
    LET d == Doc(refs) started == {k \in Due(refs) : refs[State] # None} IN
    {Reconciliation("adoption", d, refs, k, Generated(refs)) :
        k \in {j \in Adopted(refs) : Proved(d, refs, j, Generated(refs), TRUE)}}
    \cup {Verification(refs) : x \in {0} \cap {IF FixedPoint(refs) THEN 0 ELSE 1}}
    \cup {Initial(refs, k) : k \in Due(refs) \ started}
    \cup {Final(refs, k) : k \in {j \in started \cap Finished(d) : Finalizable(refs, j)}}
    \cup UNION {{Checkpoint(refs, k, segment) : segment \in Stretches(refs, k)} :
            k \in {j \in started \ Finished(d) : Chunkable(refs, j)}}
-----------------------------------------------------------------------------
Empty == [ref \in Refs |-> IF ref = Main THEN <<Setup>> ELSE None]

Landed(refs, j) ==
    [ref \in Refs |-> IF ref \in DOMAIN j.moves THEN j.moves[ref].new ELSE refs[ref]]

(* The first release landed; then a run recorded it. *)
FirstReleased == Landed(Empty, Initial(Empty, 1))
Recorded ==
    Landed(FirstReleased, Reconciliation("adoption", Doc(FirstReleased), FirstReleased, 1, FirstReleased[Main]))

Init ==
    /\ remote = CASE AtFirst = "setup" -> Empty
                  [] AtFirst = "first release" -> FirstReleased
                  [] AtFirst = "recorded" -> Recorded
    /\ wire = {}
    /\ released = FirstTags
    /\ pc = [r \in Runs |-> "idle"]
    /\ head = [r \in Runs |-> None]
    /\ seen = [r \in Runs |-> {}]
    /\ job = [r \in Runs |-> Idle]
    /\ crashes = 0
    /\ operated = 0

(* A workflow checks the branch out, or an operator starts the engine. *)
Start(r) ==
    /\ pc[r] \in {"idle", "done", "refused", "broken"}
    /\ head' = [head EXCEPT ![r] = remote[Main]]
    /\ seen' = [seen EXCEPT ![r] = {}]
    /\ job' = [job EXCEPT ![r] = Idle]
    /\ pc' = [pc EXCEPT ![r] = "started"]
    /\ UNCHANGED <<remote, wire, released, crashes, operated>>

Discovered(r) ==
    /\ BranchVerified(remote, head[r])
    /\ TagsAgree(remote)
    /\ remote[State] \notin seen[r]

(* A record that succeeds the one discovered is merged with it first. *)
Successor(j) == j.kind \in {"checkpoint", "adoption", "observation"}
Breaks(d, j) == Successor(j) /\ ~Merges(d, Last(j.moves[State].new))

(* One pass of Reconcile: refuse, run out of budget for another checkpoint,
   or plan the one publication that is due. *)
Discover(r) ==
    /\ pc[r] = "started"
    /\ \/ /\ ~Discovered(r) \/ Decisions(remote) = {}
          /\ pc' = [pc EXCEPT ![r] = "refused"]
          /\ UNCHANGED <<seen, job>>
       \/ \E j \in Decisions(remote) :
          /\ Discovered(r)
          /\ j.kind = "checkpoint" /\ seen[r] # {}
          /\ pc' = [pc EXCEPT ![r] = "done"]
          /\ UNCHANGED <<seen, job>>
       \/ \E j \in Decisions(remote) :
          /\ Discovered(r)
          /\ seen' = [seen EXCEPT ![r] = @ \cup ({remote[State]} \ {None})]
          /\ job' = [job EXCEPT ![r] = j]
          /\ pc' = [pc EXCEPT ![r] = IF Breaks(Doc(remote), j) THEN "broken" ELSE "planned"]
    /\ UNCHANGED <<remote, wire, released, head, crashes, operated>>

(* Publisher.Plan and Apply for the half the plan is at, up to what git
   sends. *)
Send(r) ==
    /\ pc[r] = "planned"
    /\ LET batch == Batch(job[r]) IN
       \/ /\ ~Publishable(job[r])
          /\ pc' = [pc EXCEPT ![r] = "refused"]
          /\ UNCHANGED wire
       \/ /\ Publishable(job[r])
          /\ P!Outstanding(batch, remote) = {}
          /\ pc' = [pc EXCEPT ![r] = "pushed"]
          /\ UNCHANGED wire
       \/ /\ Publishable(job[r])
          /\ P!Outstanding(batch, remote) # {}
          /\ wire' = wire \cup {[run |-> r, live |-> TRUE, moves |-> P!Sent(batch, remote)]}
          /\ pc' = [pc EXCEPT ![r] = "sending"]
    /\ UNCHANGED <<remote, released, head, seen, job, crashes, operated>>

(* The server decides a push; the run that waits for it learns the verdict. *)
ServerDecides(p) ==
    /\ p \in wire
    /\ wire' = wire \ {p}
    /\ remote' = IF P!Lockable(p.moves, remote) THEN P!Landed(p.moves, remote) ELSE remote
    /\ pc' = IF p.live
             THEN [pc EXCEPT ![p.run] = IF P!Lockable(p.moves, remote) THEN "pushed" ELSE "refused"]
             ELSE pc
    /\ UNCHANGED <<released, head, seen, job, crashes, operated>>

Confirmed(r) == \A ref \in Half(job[r]) : remote[ref] = job[r].moves[ref].new

(* ApplyTrusted, between publishing a release and recording it. *)
Observation(j) ==
    Reconciliation("observation", Last(j.moves[State].new), remote, j.rel, j.moves[Main].new)

Observable(j) ==
    /\ remote[State] = j.moves[State].new
    /\ Proved(Last(j.moves[State].new), remote, j.rel, j.moves[Main].new, FALSE)

(* The read that confirms a push, and what the run does next. *)
Settle(r) ==
    /\ pc[r] = "pushed"
    /\ \/ /\ ~Confirmed(r) \/ (job[r].kind = "release" /\ ~Observable(job[r]))
          /\ pc' = [pc EXCEPT ![r] = "refused"]
          /\ UNCHANGED job
       \/ /\ Confirmed(r) /\ job[r].kind \in {"checkpoint", "adoption"}
          /\ pc' = [pc EXCEPT ![r] = "started"]
          /\ UNCHANGED job
       \/ /\ Confirmed(r) /\ job[r].kind = "initial" /\ job[r].half = "non-consumer"
          /\ job' = [job EXCEPT ![r].half = "consumer"]
          /\ pc' = [pc EXCEPT ![r] = "planned"]
       \/ /\ Confirmed(r) /\ job[r].kind = "release" /\ Observable(job[r])
          /\ job' = [job EXCEPT ![r] = Observation(job[r])]
          /\ pc' = [pc EXCEPT ![r] =
                IF Breaks(Last(job[r].moves[State].new), Observation(job[r])) THEN "broken" ELSE "planned"]
       \/ /\ Confirmed(r)
          /\ \/ job[r].kind \in {"verify", "observation"}
             \/ job[r].kind = "initial" /\ job[r].half = "consumer"
          /\ pc' = [pc EXCEPT ![r] = "done"]
          /\ UNCHANGED job
    /\ UNCHANGED <<remote, wire, released, head, seen, crashes, operated>>

(* A run dies or loses its connection.  What it sent may be lost, or may be
   decided later. *)
Crash(r) ==
    /\ pc[r] \in {"started", "planned", "sending", "pushed"}
    /\ crashes < MaxCrashes
    /\ crashes' = crashes + 1
    /\ pc' = [pc EXCEPT ![r] = "idle"]
    /\ LET mine == {p \in wire : p.run = r /\ p.live} IN
       \/ wire' = wire \ mine
       \/ wire' = (wire \ mine) \cup {[p EXCEPT !.live = FALSE] : p \in mine}
    /\ UNCHANGED <<remote, released, head, seen, job, operated>>

Settled == FixedPoint(remote) /\ TagsAgree(remote) /\ BranchVerified(remote, remote[Main])

(* An operator pushes a control-plane commit: whenever they like, or only
   while nothing is due and no run is at work. *)
OperatorPush ==
    /\ operated < MaxOperator
    /\ operated' = operated + 1
    /\ MidTrack \/ (Settled /\ wire = {} /\ \A r \in Runs : pc[r] \in {"idle", "done", "refused"})
    /\ remote' = [remote EXCEPT ![Main] = Append(@, Operator)]
    /\ UNCHANGED <<wire, released, pc, head, seen, job, crashes>>

Upstream ==
    \E k \in Releases \ released :
        /\ Backports \/ \A j \in released : j < k
        /\ released' = released \cup {k}
        /\ UNCHANGED <<remote, wire, pc, head, seen, job, crashes, operated>>

RunStep(r) == Start(r) \/ Discover(r) \/ Send(r) \/ Settle(r) \/ Crash(r)

Next ==
    \/ \E r \in Runs : RunStep(r)
    \/ \E p \in wire : ServerDecides(p)
    \/ OperatorPush
    \/ Upstream

Spec == Init /\ [][Next]_vars

Answered(r) == \E p \in wire : p.run = r /\ p.live /\ ServerDecides(p)

(* Workflows are scheduled again and again, a run that can go on does, and
   the server answers a client that waits. *)
Fairness ==
    \A r \in Runs :
        /\ WF_vars(Start(r)) /\ WF_vars(Discover(r)) /\ WF_vars(Send(r))
        /\ WF_vars(Settle(r)) /\ WF_vars(Answered(r))

FairSpec == Spec /\ Fairness
-----------------------------------------------------------------------------
(* Properties. *)

(* What the refs hold, and what a record says of each release it mentions. *)
Part == {Setup, Operator} \cup (Commits \X (Releases \cup {0}))
Commit == Seq(Part)
Track == [source : Commits, dest : Commit, done : Nat, total : Nat]
Mentions(f, S) == DOMAIN f \subseteq Releases /\ f \in [DOMAIN f -> S]
IsRecord(d) ==
    /\ d = [cursors |-> d.cursors, branch |-> d.branch, tags |-> d.tags, tracks |-> d.tracks]
    /\ Mentions(d.cursors, Commit) /\ Mentions(d.tags, Commit) /\ Mentions(d.tracks, Track)
    /\ d.branch \in [object : Commit, rel : Releases \cup {0}]
IsHistory(h) == h \in Seq(Range(h)) /\ \A i \in DOMAIN h : IsRecord(h[i])
Holds(ref, value) == IF ref = State THEN IsHistory(value) ELSE value \in Commit
IsDestination(refs) == DOMAIN refs = Refs /\ \A ref \in Refs : Holds(ref, refs[ref])
WellTyped(moves) ==
    /\ DOMAIN moves \subseteq Refs
    /\ \A ref \in DOMAIN moves :
        /\ moves[ref] = [old |-> moves[ref].old, new |-> moves[ref].new]
        /\ Holds(ref, moves[ref].old) /\ Holds(ref, moves[ref].new)
IsPush(p) ==
    /\ p = [run |-> p.run, live |-> p.live, moves |-> p.moves]
    /\ p.run \in Runs /\ p.live \in BOOLEAN /\ WellTyped(p.moves)
IsJob(j) ==
    /\ j = [kind |-> j.kind, half |-> j.half, rel |-> j.rel, moves |-> j.moves]
    /\ j.kind \in {"none", "initial", "checkpoint", "release", "observation", "adoption", "verify"}
    /\ j.half \in {"none", "consumer", "non-consumer", "reconcile"}
    /\ j.rel \in Releases \cup {0} /\ WellTyped(j.moves)

(* Type correctness of the destination, its records and the runs. *)
TypeOK ==
    /\ IsDestination(remote)
    /\ \A p \in wire : IsPush(p)
    /\ released \subseteq Releases
    /\ pc \in [Runs -> {"idle", "started", "planned", "sending", "pushed", "done", "refused", "broken"}]
    /\ head \in [Runs -> Commit]
    /\ DOMAIN seen = Runs /\ \A r \in Runs : \A history \in seen[r] : IsHistory(history)
    /\ DOMAIN job = Runs /\ \A r \in Runs : IsJob(job[r])
    /\ crashes \in 0..MaxCrashes /\ operated \in 0..MaxOperator

(* The places of a destination commit's history that are images of source
   commits. *)
ImagesIn(commit) == {i \in DOMAIN commit : commit[i] \notin {Setup, Operator}}

(* The images of source commit n's history, from the first release on: of every
   relevant commit of it, in order, none twice, none of another line. *)
IsReplay(commit, n) ==
    LET source(i) == commit[i][1] places == ImagesIn(commit) IN
    /\ \E i \in places : source(i) = At[1]
    /\ \A i \in places : At[1] <= source(i) /\ <<source(i), n>> \in Above
    /\ \A i, j \in places : i < j => source(i) < source(j)
    /\ \A m \in Relevant :
        <<At[1], m>> \in Above /\ <<m, n>> \in Above => \E i \in places : source(i) = m

(* "The mapping is many-to-one and never remaps" (docs/replay-model.md): what
   a release tag names is the replay of exactly that release, and ends with its
   own commit, whatever chunks, restarts and runs produced it. *)
TagsAreReplays ==
    \A k \in Tagged(remote) :
        IsReplay(remote[Tag(k)], At[k]) /\ Last(remote[Tag(k)]) = Image(At[k], k)

(* "A record listing the refs this run intends to create ... would leave a
   record asserting that a release landed when it did not" (sync.go, record):
   the record claims only what the destination holds. *)
RecordIsTrue ==
    LET d == Doc(remote) IN
    /\ d.branch.rel # 0 => IsPrefix(d.branch.object, remote[Main])
    /\ \A k \in DOMAIN d.tags :
        remote[Tag(k)] = d.tags[k] /\ k \in DOMAIN d.cursors /\ d.cursors[k] = d.tags[k]
    /\ \A k \in DOMAIN d.tracks : remote[Progress(k)] = d.tracks[k].dest

(* "A failure between the two halves leaves a resumable state rather than an
   unaccounted release" (docs/replay-model.md): the record accounts for every
   tag of the destination, by a cursor or by a completed track that ends
   there. *)
NothingUnaccounted ==
    LET d == Doc(remote)
        Accounts(k) == {d.tracks[j].dest : j \in Completed(d) \cap {k}}
                       \cup {d.cursors[j] : j \in DOMAIN d.cursors \cap {k}}
    IN \A k \in Tagged(remote) : remote[Tag(k)] \in Accounts(k)

(* The engine never builds a record its own merge refuses, as long as releases
   are tagged in their order (a lower one can overtake a track whose images it
   shares, and is then refused). *)
NeverBroken == \A r \in Runs : pc[r] # "broken"

(* Synchronization implements ReleaseLine: the destination's tags, and the
   tags its record claims. *)
L == INSTANCE ReleaseLine WITH
        tags <- [k \in Releases |-> remote[Tag(k)]],
        recorded <- [k \in Releases |->
            IF k \in DOMAIN Doc(remote).tags THEN Doc(remote).tags[k] ELSE None]
OneReleaseAtATime == L!Spec

(* "Repeated runs converge to no generation or ref movement"
   (docs/replay-model.md, crash reconciliation and fixed points). *)
Converges == <>[]Settled
=============================================================================

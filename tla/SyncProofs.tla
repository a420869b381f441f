----------------------------- MODULE SyncProofs -----------------------------
(***************************************************************************)
(* Proofs about Sync: that the record is true, that it accounts for every  *)
(* tag, that releases go one at a time, that what a tag names is a replay  *)
(* of its source, and that no run builds a record its merge refuses, for   *)
(* any runs, histories, releases, chunk sizes, crashes and operator        *)
(* commits.                                                                *)
(*                                                                         *)
(* Nothing is written together with what it records, and a push compares   *)
(* only the refs it moves.  What carries the properties is that the state  *)
(* is a history that only grows, so that its lease tells whether anything  *)
(* was recorded meanwhile, and that whoever publishes a release moves the  *)
(* branch.  What a tag names is a replay because every step that names a   *)
(* commit read where the last replay ended from the record it extends.     *)
(***************************************************************************)
EXTENDS Sync, SequenceTheorems, FiniteSetTheorems, WellFoundedInduction, TLAPS

-----------------------------------------------------------------------------
(* What a record looks like by itself: its tags have cursors, the branch is at one
   of them, tracks are of releases that are not recorded yet, and the first release
   comes first. *)
Coherent(d) ==
    /\ 1 \in DOMAIN d.cursors
    /\ DOMAIN d.cursors \subseteq {1} \cup DOMAIN d.tags
    /\ \A k \in DOMAIN d.cursors : d.cursors[k] # None
    /\ \A k \in DOMAIN d.tags : k \in DOMAIN d.cursors /\ d.cursors[k] = d.tags[k]
    /\ DOMAIN d.tags # {} => 1 \in DOMAIN d.tags
    /\ \A k \in DOMAIN d.tracks : 1 \in DOMAIN d.tags /\ k \notin DOMAIN d.tags /\ d.tracks[k].dest # None
    /\ IF d.branch.rel = 0 THEN d.branch.object = None ELSE d.branch.rel \in DOMAIN d.tags
    /\ \A k \in Finished(d) : d.tracks[k].dest # d.branch.object

(* A successor keeps cursors, tags and finished tracks, but for the track of a
   release that it records. *)
Keeps(f, g) == \A k \in DOMAIN f : k \in DOMAIN g /\ g[k] = f[k]
Succeeds(d, next) ==
    /\ Keeps(d.cursors, next.cursors)
    /\ Keeps(d.tags, next.tags)
    /\ \A k \in Finished(d) :
        \/ k \in Finished(next) /\ next.tracks[k].dest = d.tracks[k].dest
        \/ k \in DOMAIN next.cursors /\ next.cursors[k] = d.tracks[k].dest

(* What a record claims of refs that never go back, and of progress refs. *)
Claims(d, refs) ==
    /\ d.branch.rel # 0 => IsPrefix(d.branch.object, refs[Main])
    /\ \A k \in DOMAIN d.tags : refs[Tag(k)] = d.tags[k]
TracksAre(d, refs) == \A k \in DOMAIN d.tracks : refs[Progress(k)] = d.tracks[k].dest

(* The record accounts for a release at a commit. *)
Accounts(d, k, commit) ==
    \/ k \in Finished(d) /\ d.tracks[k].dest = commit
    \/ k \in DOMAIN d.cursors /\ d.cursors[k] = commit

(* The destination. *)
RemoteInv ==
    /\ 1 \in released
    /\ remote[Main] # None
    /\ \A i \in DOMAIN remote[State] : Coherent(remote[State][i])
    /\ Claims(Doc(remote), remote)
    /\ TracksAre(Doc(remote), remote)
    /\ \A k \in Tagged(remote) : Accounts(Doc(remote), k, remote[Tag(k)])
    /\ \A j, k \in Adopted(remote) : j = k

(* A plan made when the branch was there, and nothing was left to record. *)
Since(branch) ==
    /\ Len(branch) <= Len(remote[Main])
    /\ remote[Main] = branch => Adopted(remote) = {}

(* A move of the state: to a coherent successor. *)
Extends(move) ==
    /\ move.new # None
    /\ move.new = Append(move.old, Last(move.new))
    /\ Coherent(Last(move.new))
    /\ Succeeds(Document(move.old), Last(move.new))

(* Where a move of the state to a record with one more tag comes from. *)
Records(move, k) ==
    /\ k \notin DOMAIN Document(move.old).tags
    /\ DOMAIN Last(move.new).tags = {k} \cup DOMAIN Document(move.old).tags

(* A push in flight moves the state, and with it at most a progress ref, or else a
   branch and a release's tag. *)
StatePush(moves) ==
    /\ \A ref \in DOMAIN moves : ref = State \/ \E k \in Releases : ref = Progress(k)
    /\ Extends(moves[State]) /\ Len(moves[State].old) <= Len(remote[State])
    /\ Claims(Last(moves[State].new), remote)
    /\ remote[State] = moves[State].old =>
        \A k \in DOMAIN Last(moves[State].new).tracks :
            Last(moves[State].new).tracks[k].dest =
                IF Progress(k) \in DOMAIN moves THEN moves[Progress(k)].new ELSE remote[Progress(k)]
    /\ \/ DOMAIN Last(moves[State].new).tags = DOMAIN Document(moves[State].old).tags
       \/ \E k \in Releases : Records(moves[State], k)
ReleasePush(moves) ==
    \E k \in Releases :
        /\ DOMAIN moves = {Main, Tag(k)}
        /\ moves[Tag(k)].old = None /\ moves[Tag(k)].new # None
        /\ moves[Main].new = moves[Tag(k)].new
        /\ IsPrefix(moves[Main].old, moves[Main].new) /\ moves[Main].new # moves[Main].old
        /\ Accounts(Doc(remote), k, moves[Tag(k)].new)
        /\ Since(moves[Main].old)
WireInv ==
    \A p \in wire :
        /\ IF State \in DOMAIN p.moves THEN StatePush(p.moves) ELSE ReleasePush(p.moves)
        /\ p.live => pc[p.run] = "sending" /\ \A q \in wire : q.live /\ q.run = p.run => q = p

(* A planned publication, by its kind. *)
Releasing(moves, k) ==
    /\ DOMAIN moves = {State, Main, Tag(k)}
    /\ moves[Tag(k)].old = None /\ moves[Tag(k)].new # None
    /\ moves[Main].new = moves[Tag(k)].new
    /\ moves[Main].new # moves[Main].old
    /\ Since(moves[Main].old)
FirstPlan(j) ==
    /\ j.rel = 1 /\ Releasing(j.moves, 1)
    /\ j.moves[State].old = None /\ Extends(j.moves[State])
    /\ LET d == Last(j.moves[State].new)
       IN  d.tags = <<>> /\ d.tracks = <<>> /\ d.branch = NoBranch /\ d.cursors[1] = j.moves[Main].new
    /\ j.half \in {"consumer", "non-consumer"}
    /\ j.half = "consumer" => Accounts(Doc(remote), 1, j.moves[Main].new)
ReleasePlan(j) ==
    /\ j.rel \in Releases /\ Releasing(j.moves, j.rel)
    /\ j.half = "consumer"
    /\ j.moves[State].old # None /\ j.moves[State].new = j.moves[State].old
    /\ LET d == Last(j.moves[State].new)
       IN  j.rel \in Finished(d) /\ d.tracks[j.rel].dest = j.moves[Main].new
CheckpointPlan(j) ==
    /\ j.rel \in Releases /\ j.half = "non-consumer"
    /\ DOMAIN j.moves = {State, Progress(j.rel)}
    /\ Extends(j.moves[State])
    /\ LET d == Document(j.moves[State].old)
           next == Last(j.moves[State].new)
       IN  /\ next.tags = d.tags /\ next.branch = d.branch
           /\ \A k \in DOMAIN next.tracks :
                IF k = j.rel THEN next.tracks[k].dest = j.moves[Progress(k)].new
                ELSE k \in DOMAIN d.tracks /\ next.tracks[k] = d.tracks[k]
ReconcilePlan(j) ==
    /\ j.rel \in Releases /\ j.half = "reconcile"
    /\ {State, Main, Tag(j.rel)} \subseteq DOMAIN j.moves
    /\ \A ref \in DOMAIN j.moves \ {State} : j.moves[ref].new = j.moves[ref].old
    /\ Extends(j.moves[State])
    /\ LET d == Document(j.moves[State].old)
           next == Last(j.moves[State].new)
       IN  /\ Records(j.moves[State], j.rel)
           /\ next.tags[j.rel] = j.moves[Tag(j.rel)].old
           /\ IsPrefix(next.branch.object, j.moves[Main].old)
           /\ Keeps(next.tracks, d.tracks)
PlanInv(j) ==
    \/ j.kind = "initial" /\ FirstPlan(j)
    \/ j.kind = "release" /\ ReleasePlan(j)
    \/ j.kind = "checkpoint" /\ CheckpointPlan(j)
    \/ j.kind \in {"adoption", "observation"} /\ ReconcilePlan(j)
    \/ /\ j.kind = "verify" /\ j.half = "reconcile" /\ DOMAIN j.moves = {Main}
       /\ j.moves[Main].new = j.moves[Main].old
JobInv == \A r \in Runs : pc[r] \in {"planned", "sending", "pushed"} => PlanInv(job[r])

SyncInv == TypeOK /\ RemoteInv /\ WireInv /\ JobInv
(* What a step may do to the destination: record, or publish and push. *)
ForwardRefs == {Main} \cup TagRefs
Recording ==
    /\ \A ref \in ForwardRefs : remote'[ref] = remote[ref]
    /\ Len(remote[State]) < Len(remote'[State])
    /\ Succeeds(Doc(remote), Doc(remote'))
    /\ Adopted(remote') \subseteq Adopted(remote)
Publishing ==
    /\ \A ref \in Refs \ ForwardRefs : remote'[ref] = remote[ref]
    /\ IsPrefix(remote[Main], remote'[Main]) /\ remote'[Main] # remote[Main]
    /\ \A ref \in TagRefs : remote[ref] \in {None, remote'[ref]}
Evolves == remote' = remote \/ Recording \/ Publishing

-----------------------------------------------------------------------------
(* Refs, commits and histories. *)

LEMMA RefsApart ==
    /\ Main \in Refs /\ State \in Refs /\ Main # State /\ Main \notin TagRefs /\ State \notin TagRefs
    /\ \A k \in Releases :
        /\ Tag(k) \in Refs /\ Progress(k) \in Refs /\ Tag(k) \in TagRefs
        /\ Tag(k) # Main /\ Tag(k) # State /\ Progress(k) # Main /\ Progress(k) # State
        /\ Progress(k) \notin TagRefs
        /\ \A j \in Releases :
            /\ Tag(k) # Progress(j)
            /\ j # k => Tag(j) # Tag(k) /\ Progress(j) # Progress(k)
  BY DEF Main, State, Tag, Progress, Refs, TagRefs

LEMMA RefCases ==
    ASSUME NEW ref \in Refs
    PROVE  \/ ref = Main \/ ref = State
           \/ \E k \in Releases : ref = Tag(k) \/ ref = Progress(k)
  BY DEF Refs, TagRefs

LEMMA NoCommit == None \in Commit /\ Len(None) = 0 /\ DOMAIN None = {}
  BY EmptySeq DEF None, Commit

LEMMA PrefixLaws ==
    ASSUME NEW a \in Commit, NEW b \in Commit
    PROVE  /\ IsPrefix(a, a)
           /\ IsPrefix(a, b) => Len(a) <= Len(b)
           /\ IsPrefix(a, b) /\ a # b => Len(a) < Len(b)
           /\ Len(a) \in Nat
<1>1. IsPrefix(a, a)
  BY DEF IsPrefix, Commit
<1>2. IsPrefix(a, b) => Len(a) <= Len(b)
  BY DEF IsPrefix
<1>3. ASSUME IsPrefix(a, b), Len(a) = Len(b) PROVE a = b
  BY <1>3 DEF IsPrefix, Commit
<1>4. Len(a) \in Nat /\ Len(b) \in Nat
  BY DEF Commit
<1>5. IsPrefix(a, b) /\ a # b => Len(a) < Len(b)
  BY <1>2, <1>3, <1>4
<1> QED BY <1>1, <1>2, <1>4, <1>5

LEMMA PrefixTransitive ==
    ASSUME NEW a \in Commit, NEW b \in Commit, NEW c \in Commit, IsPrefix(a, b), IsPrefix(b, c)
    PROVE  IsPrefix(a, c)
  BY DEF IsPrefix, Commit

LEMMA Appended ==
    ASSUME NEW a \in Commit, NEW x \in Part
    PROVE  /\ Append(a, x) \in Commit /\ Len(Append(a, x)) = Len(a) + 1
           /\ IsPrefix(a, Append(a, x)) /\ Append(a, x) # a /\ Append(a, x) # None
  BY DEF IsPrefix, None, Commit

LEMMA NoHistory == IsHistory(None)
  BY EmptySeq DEF None, IsHistory

LEMMA RecordOf ==
    ASSUME NEW h, IsHistory(h)
    PROVE  /\ Len(h) \in Nat /\ DOMAIN h = 1 .. Len(h)
           /\ h # None => Len(h) \in DOMAIN h /\ Last(h) = h[Len(h)] /\ IsRecord(Last(h))
  BY DEF IsHistory, None, Last

LEMMA Grown ==
    ASSUME NEW h, IsHistory(h), NEW d, IsRecord(d)
    PROVE  /\ IsHistory(Append(h, d)) /\ Append(h, d) # None /\ Append(h, d) # h
           /\ Last(Append(h, d)) = d /\ Len(Append(h, d)) = Len(h) + 1
           /\ \A i \in DOMAIN Append(h, d) : Append(h, d)[i] = d \/ (i \in DOMAIN h /\ Append(h, d)[i] = h[i])
<1> DEFINE S == Range(h) \cup {d}
           g == Append(h, d)
<1>1. h \in Seq(S)
  BY SeqMonotonic DEF IsHistory
<1>2. g \in Seq(S) /\ g # << >> /\ Len(g) = Len(h) + 1
      /\ (\A i \in 1 .. Len(h) : g[i] = h[i]) /\ g[Len(h) + 1] = d
  BY <1>1, AppendProperties
<1>3. Len(h) \in Nat /\ DOMAIN h = 1 .. Len(h) /\ DOMAIN g = 1 .. Len(g)
  BY <1>1, <1>2
<1>0. Append(h, d) = g
  OBVIOUS
<1> HIDE DEF g
<1>8. \A i \in DOMAIN g : i \in 1 .. Len(h) \/ i = Len(h) + 1
  BY <1>2, <1>3
<1>4. \A i \in DOMAIN g : g[i] = d \/ (i \in DOMAIN h /\ g[i] = h[i])
  BY <1>2, <1>3, <1>8
<1>5. \A i \in DOMAIN g : IsRecord(g[i])
  BY <1>4 DEF IsHistory
<1>6. g \in Seq(Range(g))
  <2>1. \A i \in 1 .. Len(g) : g[i] \in Range(g)
    BY <1>3 DEF Range
  <2> QED BY <1>2, <1>3, <2>1
<1>7. g # h /\ g # None
  BY <1>2, <1>3 DEF None
<1> QED BY <1>0, <1>2, <1>3, <1>4, <1>5, <1>6, <1>7 DEF IsHistory, Last

LEMMA PutIs ==
    ASSUME NEW f, NEW k, NEW v
    PROVE  /\ \A j : j \in DOMAIN Put(f, k, v) <=> j = k \/ j \in DOMAIN f
           /\ Put(f, k, v)[k] = v
           /\ \A j \in DOMAIN f : j # k => Put(f, k, v)[j] = f[j]
  BY DEF Put

LEMMA PutMentions ==
    ASSUME NEW S, NEW f, Mentions(f, S), NEW k \in Releases, NEW v \in S
    PROVE  Mentions(Put(f, k, v), S)
  BY DEF Put, Mentions

LEMMA DropIs ==
    ASSUME NEW f, NEW k
    PROVE  /\ \A j : j \in DOMAIN Drop(f, k) <=> j # k /\ j \in DOMAIN f
           /\ \A j \in DOMAIN f : j # k => Drop(f, k)[j] = f[j]
  BY DEF Drop

LEMMA DropMentions ==
    ASSUME NEW S, NEW f, Mentions(f, S), NEW k
    PROVE  Mentions(Drop(f, k), S)
  BY DEF Drop, Mentions

LEMMA EmptyMentions == ASSUME NEW S PROVE DOMAIN <<>> = {} /\ Mentions(<<>>, S)
  BY DEF Mentions

LEMMA UnrecordedType == IsRecord(Unrecorded) /\ DOMAIN Unrecorded.cursors = {}
    /\ DOMAIN Unrecorded.tags = {} /\ DOMAIN Unrecorded.tracks = {} /\ Unrecorded.branch = NoBranch
<1>1. NoBranch \in [object : Commit, rel : Releases \cup {0}]
  BY NoCommit DEF NoBranch
<1> QED BY <1>1, EmptyMentions DEF IsRecord, Unrecorded

LEMMA DocumentType == ASSUME NEW h, IsHistory(h) PROVE IsRecord(Document(h))
  BY UnrecordedType, RecordOf DEF Document

-----------------------------------------------------------------------------
(* What plans and pushes say survives what other runs and operators do. *)

LEMMA RemoteTypes ==
    ASSUME NEW refs, IsDestination(refs)
    PROVE  /\ IsHistory(refs[State]) /\ IsRecord(Doc(refs))
           /\ \A ref \in ForwardRefs : refs[ref] \in Commit
           /\ refs[Main] \in Commit
           /\ \A k \in Releases : refs[Tag(k)] \in Commit /\ refs[Progress(k)] \in Commit
<1>1. \A ref \in Refs : Holds(ref, refs[ref])
  BY DEF IsDestination
<1>2. State \in Refs /\ IsHistory(refs[State])
  BY <1>1, RefsApart DEF Holds
<1>3. \A ref \in ForwardRefs : ref \in Refs /\ ref # State
  BY RefsApart DEF ForwardRefs, TagRefs
<1>4. \A k \in Releases : Progress(k) \in Refs /\ Progress(k) # State
                          /\ Tag(k) \in ForwardRefs
  BY RefsApart DEF ForwardRefs
<1>5. Main \in ForwardRefs
  BY DEF ForwardRefs
<1> QED BY <1>1, <1>2, <1>3, <1>4, <1>5, DocumentType DEF Holds, Doc

LEMMA MoveTypes ==
    ASSUME NEW moves, WellTyped(moves)
    PROVE  /\ \A ref \in DOMAIN moves :
                ref \in Refs /\ (ref # State => moves[ref].old \in Commit /\ moves[ref].new \in Commit)
           /\ State \in DOMAIN moves =>
                /\ IsHistory(moves[State].old) /\ IsHistory(moves[State].new)
                /\ IsRecord(Document(moves[State].old))
                /\ moves[State].new # None => IsRecord(Last(moves[State].new))
<1>1. \A ref \in DOMAIN moves : ref \in Refs /\ Holds(ref, moves[ref].old) /\ Holds(ref, moves[ref].new)
  BY DEF WellTyped
<1>2. State \in DOMAIN moves => IsHistory(moves[State].old) /\ IsHistory(moves[State].new)
  BY <1>1 DEF Holds
<1>3. State \in DOMAIN moves => IsRecord(Document(moves[State].old))
  BY <1>2, DocumentType
<1>4. State \in DOMAIN moves /\ moves[State].new # None => IsRecord(Last(moves[State].new))
  BY <1>2, RecordOf
<1> QED BY <1>1, <1>2, <1>3, <1>4 DEF Holds

LEMMA RecordFields ==
    ASSUME NEW d, IsRecord(d)
    PROVE  /\ DOMAIN d.tags \subseteq Releases /\ DOMAIN d.cursors \subseteq Releases
           /\ DOMAIN d.tracks \subseteq Releases /\ Finished(d) \subseteq DOMAIN d.tracks
           /\ \A k \in DOMAIN d.tags : d.tags[k] \in Commit
           /\ \A k \in DOMAIN d.cursors : d.cursors[k] \in Commit
           /\ \A k \in DOMAIN d.tracks : d.tracks[k] \in Track /\ d.tracks[k].dest \in Commit
           /\ d.branch.object \in Commit /\ d.branch.rel \in Releases \cup {0}
  BY DEF IsRecord, Mentions, Track, Finished, Completed

LEMMA AccountsStay ==
    ASSUME NEW d, NEW next, Succeeds(d, next), NEW k, NEW commit, Accounts(d, k, commit)
    PROVE  Accounts(next, k, commit)
  BY DEF Succeeds, Accounts, Keeps

LEMMA AccountedStays ==
    ASSUME Evolves, NEW k, NEW commit, Accounts(Doc(remote), k, commit)
    PROVE  Accounts(Doc(remote'), k, commit)
<1>1. CASE Publishing
  BY <1>1, RefsApart DEF Publishing, Doc, ForwardRefs
<1>2. CASE Recording
  BY <1>2, AccountsStay DEF Recording
<1> QED BY <1>1, <1>2 DEF Evolves

LEMMA SinceStays ==
    ASSUME TypeOK, TypeOK', Evolves, NEW branch \in Commit, Since(branch)
    PROVE  Since(branch)'
<1>0. remote[Main] \in Commit /\ remote'[Main] \in Commit /\ Len(branch) \in Nat
  BY RemoteTypes, PrefixLaws DEF TypeOK
<1>1. CASE Publishing
  <2>1. Len(remote[Main]) \in Nat /\ Len(remote'[Main]) \in Nat /\ Len(remote[Main]) < Len(remote'[Main])
    BY <1>0, <1>1, PrefixLaws DEF Publishing
  <2> QED BY <1>0, <2>1 DEF Since
<1>2. CASE Recording
  BY <1>2 DEF Recording, Since, ForwardRefs
<1> QED BY <1>1, <1>2 DEF Evolves, Since

LEMMA ClaimsStay ==
    ASSUME TypeOK, TypeOK', Evolves, NEW d, IsRecord(d), Coherent(d), Claims(d, remote)
    PROVE  Claims(d, remote')
<1>0. /\ remote[Main] \in Commit /\ remote'[Main] \in Commit /\ d.branch.object \in Commit
      /\ DOMAIN d.tags \subseteq Releases
  BY RemoteTypes, RecordFields DEF TypeOK
<1>1. CASE Publishing
  <2>1. ASSUME NEW k \in DOMAIN d.tags PROVE remote'[Tag(k)] = d.tags[k]
    <3>1. d.tags[k] # None
      BY DEF Coherent
    <3>2. Tag(k) \in TagRefs
      BY <1>0, RefsApart
    <3> QED BY <3>1, <3>2, <1>1 DEF Claims, Publishing
  <2>2. d.branch.rel # 0 => IsPrefix(d.branch.object, remote'[Main])
    BY <1>0, <1>1, PrefixTransitive DEF Claims, Publishing
  <2> QED BY <2>1, <2>2 DEF Claims
<1>2. CASE Recording
  <2>1. \A k \in DOMAIN d.tags : remote'[Tag(k)] = remote[Tag(k)]
    BY <1>0, <1>2, RefsApart DEF Recording, ForwardRefs
  <2>2. remote'[Main] = remote[Main]
    BY <1>2 DEF Recording, ForwardRefs
  <2> QED BY <2>1, <2>2 DEF Claims
<1> QED BY <1>1, <1>2 DEF Evolves

LEMMA HistoryLength == ASSUME NEW h, IsHistory(h) PROVE Len(h) \in Nat
  BY RecordOf

LEMMA StatePushStays ==
    ASSUME TypeOK, TypeOK', Evolves, NEW moves, WellTyped(moves), State \in DOMAIN moves, StatePush(moves)
    PROVE  StatePush(moves)'
<1> DEFINE next == Last(moves[State].new)
<1>0. IsRecord(next) /\ Coherent(next) /\ DOMAIN next.tracks \subseteq Releases
      /\ IsHistory(moves[State].old)
  BY MoveTypes, RecordFields DEF StatePush, Extends
<1>1. Claims(next, remote')
  BY <1>0, ClaimsStay DEF StatePush
<1>2. Len(moves[State].old) \in Nat /\ Len(remote[State]) \in Nat /\ Len(remote'[State]) \in Nat
  BY <1>0, RemoteTypes, HistoryLength DEF TypeOK
<1>3. CASE Publishing
  <2>1. remote'[State] = remote[State]
    BY <1>3, RefsApart DEF Publishing, ForwardRefs
  <2>2. \A k \in Releases : remote'[Progress(k)] = remote[Progress(k)]
    BY <1>3, RefsApart DEF Publishing, ForwardRefs
  <2>3. remote[State] = moves[State].old =>
            \A k \in DOMAIN next.tracks :
                next.tracks[k].dest =
                    IF Progress(k) \in DOMAIN moves THEN moves[Progress(k)].new ELSE remote'[Progress(k)]
    BY <1>0, <2>2 DEF StatePush
  <2> QED BY <1>1, <2>1, <2>3 DEF StatePush
<1>4. CASE Recording
  <2>1. Len(moves[State].old) < Len(remote'[State])
    BY <1>2, <1>4 DEF StatePush, Recording
  <2>2. remote'[State] # moves[State].old /\ Len(moves[State].old) <= Len(remote'[State])
    BY <1>2, <2>1
  <2> QED BY <1>1, <2>2 DEF StatePush
<1>5. CASE remote' = remote
  BY <1>5 DEF StatePush
<1> QED BY <1>3, <1>4, <1>5 DEF Evolves

LEMMA ReleasePushStays ==
    ASSUME TypeOK, TypeOK', Evolves, NEW moves, WellTyped(moves), ReleasePush(moves)
    PROVE  ReleasePush(moves)'
<1>1. PICK k \in Releases :
        /\ DOMAIN moves = {Main, Tag(k)}
        /\ moves[Tag(k)].old = None /\ moves[Tag(k)].new # None
        /\ moves[Main].new = moves[Tag(k)].new
        /\ IsPrefix(moves[Main].old, moves[Main].new) /\ moves[Main].new # moves[Main].old
        /\ Accounts(Doc(remote), k, moves[Tag(k)].new)
        /\ Since(moves[Main].old)
  BY DEF ReleasePush
<1>2. moves[Main].old \in Commit
  BY <1>1, MoveTypes, RefsApart
<1>3. Since(moves[Main].old)'
  BY <1>1, <1>2, SinceStays
<1>4. Accounts(Doc(remote'), k, moves[Tag(k)].new)
  BY <1>1, AccountedStays
<1> QED BY <1>1, <1>3, <1>4 DEF ReleasePush

LEMMA PlanStays ==
    ASSUME TypeOK, TypeOK', Evolves, NEW j, IsJob(j), PlanInv(j)
    PROVE  PlanInv(j)'
<1>0. WellTyped(j.moves)
  BY DEF IsJob
<1>1. ASSUME NEW k \in Releases, Releasing(j.moves, k) PROVE Releasing(j.moves, k)'
  <2>1. j.moves[Main].old \in Commit
    BY <1>0, <1>1, MoveTypes, RefsApart DEF Releasing
  <2> QED BY <1>1, <2>1, SinceStays DEF Releasing
<1>2. CASE j.kind = "initial" /\ FirstPlan(j)
  <2>1. 1 \in Releases
    BY SourceAssumption
  <2>2. Releasing(j.moves, 1)'
    BY <1>1, <1>2, <2>1 DEF FirstPlan
  <2>3. j.half = "consumer" => Accounts(Doc(remote'), 1, j.moves[Main].new)
    BY <1>2, AccountedStays DEF FirstPlan
  <2> QED BY <1>2, <2>2, <2>3 DEF FirstPlan, PlanInv
<1>3. CASE j.kind = "release" /\ ReleasePlan(j)
  BY <1>1, <1>3 DEF ReleasePlan, PlanInv
<1>4. CASE j.kind = "checkpoint" /\ CheckpointPlan(j)
  BY <1>4 DEF PlanInv, CheckpointPlan
<1>5. CASE j.kind \in {"adoption", "observation"} /\ ReconcilePlan(j)
  BY <1>5 DEF PlanInv, ReconcilePlan
<1>6. CASE j.kind = "verify" /\ j.half = "reconcile" /\ DOMAIN j.moves = {Main}
           /\ j.moves[Main].new = j.moves[Main].old
  BY <1>6 DEF PlanInv
<1> QED BY <1>2, <1>3, <1>4, <1>5, <1>6 DEF PlanInv

(* What a plan or push says after a step that leaves it alone. *)
LEMMA PlansStay ==
    ASSUME TypeOK, TypeOK', Evolves, NEW r \in Runs, job'[r] = job[r], PlanInv(job[r])
    PROVE  PlanInv(job[r])'
<1>1. PICK j : j = job[r]
  OBVIOUS
<1>2. IsJob(j)
  BY <1>1 DEF TypeOK
<1>3. PlanInv(j)
  BY <1>1
<1>4. PlanInv(j)'
  BY <1>2, <1>3, PlanStays
<1>5. j = job[r]'
  BY <1>1
<1> QED BY <1>4, <1>5

LEMMA PushesStay ==
    ASSUME TypeOK, TypeOK', WireInv, Evolves
    PROVE  \A p \in wire : IF State \in DOMAIN p.moves THEN StatePush(p.moves)' ELSE ReleasePush(p.moves)'
<1> TAKE p \in wire
<1>1. WellTyped(p.moves)
  BY DEF TypeOK, IsPush
<1>2. CASE State \in DOMAIN p.moves
  BY <1>1, <1>2, StatePushStays DEF WireInv
<1>3. CASE State \notin DOMAIN p.moves
  BY <1>1, <1>3, ReleasePushStays DEF WireInv
<1> QED BY <1>2, <1>3

-----------------------------------------------------------------------------
(* What the server does to the destination. *)

LEMMA LandedType ==
    ASSUME NEW refs, IsDestination(refs), NEW moves, WellTyped(moves)
    PROVE  IsDestination(P!Landed(moves, refs))
  BY DEF IsDestination, WellTyped, P!Landed

(* A record lands: it succeeds the one that was there. *)
LEMMA RecordLands ==
    ASSUME TypeOK, TypeOK', RemoteInv, NEW moves, WellTyped(moves), State \in DOMAIN moves,
           StatePush(moves), P!Lockable(moves, remote), remote' = P!Landed(moves, remote),
           released' = released
    PROVE  RemoteInv' /\ Recording
<1> DEFINE next == Last(moves[State].new)
<1>1. /\ moves[State].old = remote[State] /\ Doc(remote) = Document(moves[State].old)
      /\ remote'[State] = moves[State].new
  BY RefsApart DEF P!Lockable, P!Landed, TypeOK, IsDestination, Doc
<1>2. \A ref \in Refs : remote'[ref] = IF ref \in DOMAIN moves THEN moves[ref].new ELSE remote[ref]
  BY DEF P!Landed, TypeOK, IsDestination
<1>3. /\ moves[State].new # None /\ moves[State].new = Append(moves[State].old, next)
      /\ Coherent(next) /\ Succeeds(Doc(remote), next) /\ Claims(next, remote)
      /\ Doc(remote') = next
  BY <1>1 DEF StatePush, Extends, Doc, Document
<1>4. IsRecord(next) /\ IsHistory(remote[State])
  BY <1>1, <1>3, MoveTypes
<1>5. /\ Len(remote'[State]) = Len(remote[State]) + 1 /\ Len(remote[State]) \in Nat
      /\ \A i \in DOMAIN remote'[State] :
            remote'[State][i] = next \/ (i \in DOMAIN remote[State] /\ remote'[State][i] = remote[State][i])
  <2>1. remote'[State] = Append(remote[State], next)
    BY <1>1, <1>3
  <2> HIDE DEF next
  <2> QED BY <2>1, <1>4, Grown, HistoryLength
<1>6. \A ref \in ForwardRefs : remote'[ref] = remote[ref]
  <2>1. \A ref \in ForwardRefs : ref \in Refs /\ ref # State /\ \A k \in Releases : ref # Progress(k)
    BY RefsApart DEF ForwardRefs, TagRefs
  <2> QED BY <1>2, <2>1 DEF StatePush
<1>7. /\ remote'[Main] = remote[Main]
      /\ \A k \in Releases : remote'[Tag(k)] = remote[Tag(k)]
  BY <1>6, RefsApart DEF ForwardRefs
<1>8. Tagged(remote') = Tagged(remote)
  BY <1>7 DEF Tagged
<1>9. Adopted(remote') \subseteq Adopted(remote)
  BY <1>3, <1>8 DEF Adopted, Succeeds, Keeps
<1>10. Claims(Doc(remote'), remote')
  <2>1. DOMAIN next.tags \subseteq Releases
    BY <1>4, RecordFields
  <2> QED BY <1>3, <1>7, <2>1 DEF Claims
<1>11. TracksAre(Doc(remote'), remote')
  <2>1. \A k \in DOMAIN next.tracks : Progress(k) \in Refs
    BY <1>4, RecordFields, RefsApart
  <2> QED BY <1>1, <1>2, <1>3, <2>1 DEF StatePush, TracksAre
<1>12. \A k \in Tagged(remote') : Accounts(Doc(remote'), k, remote'[Tag(k)])
  BY <1>3, <1>7, <1>8, AccountsStay DEF RemoteInv, Tagged
<1>13. \A i \in DOMAIN remote'[State] : Coherent(remote'[State][i])
  BY <1>3, <1>5 DEF RemoteInv
<1>14. Recording
  BY <1>3, <1>5, <1>6, <1>9 DEF Recording
<1> QED BY <1>7, <1>9, <1>10, <1>11, <1>12, <1>13, <1>14 DEF RemoteInv

LEMMA DocCoherent ==
    ASSUME TypeOK, RemoteInv, remote[State] # None
    PROVE  Coherent(Doc(remote))
  BY RemoteTypes, RecordOf DEF RemoteInv, Doc, Document, TypeOK

(* What the record says of tags is never None. *)
LEMMA TagsKnown ==
    ASSUME TypeOK, RemoteInv
    PROVE  \A k \in DOMAIN Doc(remote).tags :
                Doc(remote).tags[k] # None /\ remote[Tag(k)] = Doc(remote).tags[k]
<1>1. CASE remote[State] = None
  BY <1>1, UnrecordedType DEF Doc, Document
<1>2. CASE remote[State] # None
  BY <1>2, DocCoherent DEF Coherent, RemoteInv, Claims
<1> QED BY <1>1, <1>2

(* A branch moves, and with it at most the tag of a release that is accounted
   for, while nothing else waits to be recorded. *)
LEMMA BranchMoves ==
    ASSUME TypeOK, TypeOK', RemoteInv, Publishing, released' = released,
           \/ \A ref \in TagRefs : remote'[ref] = remote[ref]
           \/ \E k \in Releases :
                /\ remote[Tag(k)] = None /\ remote'[Tag(k)] # None
                /\ \A ref \in TagRefs \ {Tag(k)} : remote'[ref] = remote[ref]
                /\ Accounts(Doc(remote), k, remote'[Tag(k)])
                /\ Adopted(remote) = {}
    PROVE  RemoteInv'
<1>1. /\ remote'[State] = remote[State] /\ Doc(remote') = Doc(remote)
      /\ \A k \in Releases : remote'[Progress(k)] = remote[Progress(k)]
  BY RefsApart DEF Publishing, ForwardRefs, Doc
<1>2. IsRecord(Doc(remote)) /\ remote[Main] \in Commit /\ remote'[Main] \in Commit
  BY RemoteTypes DEF TypeOK
<1>3. remote'[Main] # None
  BY <1>2, PrefixLaws, NoCommit DEF Publishing, RemoteInv
<1>4. Claims(Doc(remote'), remote')
  <2>1. CASE remote[State] # None
    BY <2>1, <1>1, <1>2, DocCoherent, ClaimsStay DEF RemoteInv, Evolves
  <2>2. CASE remote[State] = None
    BY <2>2, <1>1, UnrecordedType DEF Doc, Document, Claims, NoBranch
  <2> QED BY <2>1, <2>2
<1>5. TracksAre(Doc(remote'), remote')
  BY <1>1, <1>2, RecordFields DEF RemoteInv, TracksAre
<1>6. \A k \in Tagged(remote') : Accounts(Doc(remote'), k, remote'[Tag(k)])
  BY <1>1, RefsApart DEF RemoteInv, Tagged
<1>7. \A j, k \in Adopted(remote') : j = k
  BY <1>1, RefsApart DEF RemoteInv, Adopted, Tagged
<1> QED BY <1>1, <1>3, <1>4, <1>5, <1>6, <1>7 DEF RemoteInv

LEMMA ReleaseLands ==
    ASSUME TypeOK, TypeOK', RemoteInv, NEW moves, WellTyped(moves), ReleasePush(moves),
           P!Lockable(moves, remote), remote' = P!Landed(moves, remote), released' = released
    PROVE  RemoteInv' /\ Publishing
<1>1. PICK k \in Releases :
        /\ DOMAIN moves = {Main, Tag(k)}
        /\ moves[Tag(k)].old = None /\ moves[Tag(k)].new # None
        /\ moves[Main].new = moves[Tag(k)].new
        /\ IsPrefix(moves[Main].old, moves[Main].new) /\ moves[Main].new # moves[Main].old
        /\ Accounts(Doc(remote), k, moves[Tag(k)].new)
        /\ Since(moves[Main].old)
  BY DEF ReleasePush
<1>2. remote[Main] = moves[Main].old /\ remote[Tag(k)] = None
  BY <1>1, RefsApart DEF P!Lockable
<1>3. /\ \A ref \in Refs \ {Main, Tag(k)} : remote'[ref] = remote[ref]
      /\ remote'[Main] = moves[Main].new /\ remote'[Tag(k)] = moves[Tag(k)].new
  BY <1>1, RefsApart DEF P!Landed, TypeOK, IsDestination
<1>4. TagRefs \subseteq Refs /\ Main \notin TagRefs /\ Tag(k) \in TagRefs
  BY RefsApart DEF Refs
<1>5. Publishing
  BY <1>1, <1>2, <1>3, <1>4 DEF Publishing, ForwardRefs
<1>6. Adopted(remote) = {}
  BY <1>1, <1>2 DEF Since
<1>7. /\ remote[Tag(k)] = None /\ remote'[Tag(k)] # None
      /\ \A ref \in TagRefs \ {Tag(k)} : remote'[ref] = remote[ref]
      /\ Accounts(Doc(remote), k, remote'[Tag(k)])
  BY <1>1, <1>2, <1>3, <1>4
<1> QED BY <1>5, <1>6, <1>7, BranchMoves

-----------------------------------------------------------------------------
(* The data a plan is made of. *)

LEMMA Least ==
    ASSUME NEW S, S \subseteq Nat, S # {}
    PROVE  \E n \in S : \A m \in S : n <= m
<1> DEFINE Less == OpToRel(<, Nat)
<1>1. \A x, y \in Nat : <<x, y>> \in Less <=> x < y
  BY DEF OpToRel
<1>2. IsWellFoundedOn(Less, Nat)
  BY NatLessThanWellFounded
<1> HIDE DEF Less
<1>3. PICK n \in S : \A m \in S : <<m, n>> \notin Less
  BY <1>2, WFMin
<1>4. \A m \in S : m \in Nat /\ n \in Nat /\ ~(m < n)
  BY <1>1, <1>3
<1> QED BY <1>4

LEMMA Numbers ==
    /\ Commits \subseteq Nat /\ 0 \notin Commits /\ IsFiniteSet(Commits)
    /\ Releases \subseteq Nat \ {0} /\ 1 \in Releases
    /\ MaxCrashes \in Nat /\ 0 \in 0 .. MaxCrashes
    /\ MaxOperator \in Nat /\ 0 \in 0 .. MaxOperator
<1>0. \A n \in Nat : 0 \in 0 .. n
  OBVIOUS
<1>1. \A n \in Nat : 1 .. n \subseteq Nat \ {0} /\ IsFiniteSet(1 .. n)
  BY FS_Interval
<1> QED BY <1>0, <1>1, SourceAssumption

LEMMA ImageType == ASSUME NEW n \in Commits, NEW k \in Releases PROVE Image(n, k) \in Part
  BY DEF Image, Part

(* The recursive function that collects the images of source commits exists. *)
LEMMA ImagesUnfold ==
    ASSUME NEW segment, segment \subseteq Commits, NEW k \in Releases, NEW g, g = ImagesUpTo(segment, k)
    PROVE  g = [n \in 0 .. Cardinality(Commits) |->
                   IF n = 0 THEN <<>>
                   ELSE IF n \in segment THEN Append(g[n - 1], Image(n, k)) ELSE g[n - 1]]
<1> DEFINE N == Cardinality(Commits)
           Step(f, n) == IF n = 0 THEN <<>>
                         ELSE IF n \in segment THEN Append(f[n - 1], Image(n, k)) ELSE f[n - 1]
           Collects(f, m) == f \in [0 .. m -> Commit] /\ \A n \in 0 .. m : f[n] = Step(f, n)
           Without == {m \in 0 .. N : ~ \E f : Collects(f, m)}
<1>1. N \in Nat /\ Commits = 1 .. N /\ segment \subseteq 1 .. N
  BY SourceAssumption
<1>2. ImagesUpTo(segment, k) = CHOOSE f : f = [n \in 0 .. N |-> Step(f, n)]
  BY DEF ImagesUpTo
<1> HIDE DEF N
<1>3. Without = {}
  <2> SUFFICES ASSUME Without # {} PROVE FALSE
    OBVIOUS
  <2>0. Without \subseteq Nat
    BY <1>1
  <2> HIDE DEF Without
  <2>1. PICK m \in Without : \A l \in Without : m <= l
    BY <2>0, Least
  <2> USE DEF Without
  <2>2. CASE m = 0
    <3> DEFINE f == [n \in 0 .. 0 |-> None]
    <3>1. Collects(f, 0)
      BY NoCommit DEF None
    <3> QED BY <2>2, <3>1
  <2>3. CASE m # 0
    <3>1. m - 1 \in 0 .. N /\ m \in 1 .. N
      BY <1>1, <2>3
    <3>2. m - 1 \notin Without
      BY <2>1, <3>1
    <3>3. PICK f : Collects(f, m - 1)
      BY <3>1, <3>2
    <3> DEFINE v == IF m \in segment THEN Append(f[m - 1], Image(m, k)) ELSE f[m - 1]
               longer == [n \in 0 .. m |-> IF n = m THEN v ELSE f[n]]
    <3>4. f[m - 1] \in Commit /\ m \in Commits
      BY <1>1, <3>1, <3>3
    <3>5. v \in Commit
      BY <3>4, ImageType, Appended
    <3> HIDE DEF v
    <3>6. longer \in [0 .. m -> Commit]
      BY <3>1, <3>3, <3>5
    <3>7. ASSUME NEW n \in 0 .. m PROVE longer[n] = Step(longer, n)
      <4>1. CASE n = m
        <5>1. longer[n] = v /\ longer[n - 1] = f[m - 1]
          BY <3>1, <4>1
        <5> QED BY <4>1, <5>1, <3>1 DEF v
      <4>2. CASE n # m
        <5>1. n \in 0 .. m - 1 /\ (n # 0 => n - 1 \in 0 .. m - 1)
          BY <3>1, <4>2
        <5>2. longer[n] = f[n] /\ (n # 0 => longer[n - 1] = f[n - 1])
          BY <3>1, <5>1
        <5> QED BY <3>3, <5>1, <5>2
      <4> QED BY <4>1, <4>2
    <3>8. Collects(longer, m)
      BY <3>6, <3>7
    <3> QED BY <3>8, <2>1
  <2> QED BY <2>2, <2>3
<1>4. PICK f : Collects(f, N)
  BY <1>1, <1>3
<1>5. f = [n \in 0 .. N |-> Step(f, n)]
  BY <1>4
<1>6. g = [n \in 0 .. N |-> Step(g, n)]
  BY <1>2, <1>5
<1> QED BY <1>6 DEF N

(* What a collection of the images up to a source commit looks like. *)
Collected(images, segment, k, n) ==
    /\ images \in Commit
    /\ \A i \in 1 .. Len(images) : \E m \in segment : m <= n /\ images[i] = Image(m, k)
    /\ \A m \in segment : m <= n => \E i \in 1 .. Len(images) : images[i] = Image(m, k)
    /\ \A i, j \in 1 .. Len(images) : i < j => images[i][1] < images[j][1]

LEMMA ImageIs ==
    ASSUME NEW n \in Commits, NEW k
    PROVE  n \in Nat \ {0} /\ Image(n, k)[1] = n /\ Image(n, k) \notin {Setup, Operator}
<1>1. n \in Nat \ {0}
  BY Numbers
<1>2. n # 0 /\ n # -1
  BY <1>1
<1>3. Image(n, k) = <<n, k>> \/ Image(n, k) = <<n, 0>>
  BY DEF Image
<1> QED BY <1>1, <1>2, <1>3 DEF Setup, Operator

LEMMA CollectedNext ==
    ASSUME NEW segment, segment \subseteq Commits, NEW k \in Releases, NEW n \in Commits, NEW images,
           Collected(images, segment, k, n - 1)
    PROVE  Collected(IF n \in segment THEN Append(images, Image(n, k)) ELSE images, segment, k, n)
<1>1. images \in Commit /\ n \in Nat \ {0} /\ \A m \in segment : m \in Nat
  BY Numbers, ImageIs DEF Collected
<1>2. \A m \in segment : m <= n <=> m = n \/ m <= n - 1
  BY <1>1
<1>3. CASE n \notin segment
  BY <1>2, <1>3 DEF Collected
<1>4. CASE n \in segment
  <2> DEFINE more == Append(images, Image(n, k))
             last == Len(images) + 1
  <2>1. /\ more \in Commit /\ Len(images) \in Nat /\ Len(more) = last
        /\ more[last] = Image(n, k) /\ \A i \in 1 .. Len(images) : more[i] = images[i]
    <3>1. Image(n, k) \in Part
      BY ImageType
    <3> QED BY <1>1, <3>1, Appended DEF Commit
  <2> HIDE DEF more
  <2>2. \A i \in 1 .. last : i = last \/ i \in 1 .. Len(images)
    BY <2>1
  <2>3. last \in 1 .. last /\ \A i \in 1 .. Len(images) : i \in 1 .. last /\ i < last
    BY <2>1
  <2>4. \A i \in 1 .. Len(images) : \E m \in segment : m <= n - 1 /\ more[i] = Image(m, k)
    BY <2>1 DEF Collected
  <2>5. \A i \in 1 .. last : \E m \in segment : m <= n /\ more[i] = Image(m, k)
    BY <1>1, <1>2, <1>4, <2>1, <2>2, <2>4
  <2>6. \A m \in segment : m <= n => \E i \in 1 .. last : more[i] = Image(m, k)
    <3> TAKE m \in segment
    <3>1. CASE m = n
      BY <2>1, <2>3, <3>1
    <3>2. CASE m <= n - 1
      <4>1. PICK i \in 1 .. Len(images) : images[i] = Image(m, k)
        BY <3>2 DEF Collected
      <4> QED BY <2>1, <2>3, <4>1
    <3> QED BY <1>2, <3>1, <3>2
  <2>7. \A i, j \in 1 .. last : i < j => more[i][1] < more[j][1]
    <3> TAKE i, j \in 1 .. last
    <3>1. CASE i \in 1 .. Len(images) /\ j \in 1 .. Len(images)
      BY <2>1, <3>1 DEF Collected
    <3>2. CASE i \in 1 .. Len(images) /\ j = last
      <4>1. PICK m \in segment : m <= n - 1 /\ more[i] = Image(m, k)
        BY <2>4, <3>2
      <4>2. more[i][1] = m /\ more[j][1] = n
        BY <2>1, <3>2, <4>1, ImageIs
      <4> QED BY <1>1, <4>1, <4>2
    <3>3. CASE i = last
      BY <2>1, <3>3
    <3> QED BY <2>2, <3>1, <3>2, <3>3
  <2> QED BY <1>4, <2>1, <2>5, <2>6, <2>7 DEF Collected, more
<1> QED BY <1>3, <1>4

(* The images of some source commits: of each of them, in order. *)
LEMMA ImagesAre ==
    ASSUME NEW segment, segment \subseteq Commits, NEW k \in Releases
    PROVE  Collected(ImagesOf(segment, k), segment, k, Cardinality(Commits))
<1> DEFINE N == Cardinality(Commits)
<1>0. PICK g : g = ImagesUpTo(segment, k)
  OBVIOUS
<1> DEFINE Wrong == {n \in 0 .. N : ~Collected(g[n], segment, k, n)}
<1>1. N \in Nat /\ Commits = 1 .. N
  BY SourceAssumption
<1>2. g = [n \in 0 .. N |-> IF n = 0 THEN <<>>
                          ELSE IF n \in segment THEN Append(g[n - 1], Image(n, k)) ELSE g[n - 1]]
  BY <1>0, ImagesUnfold
<1> HIDE DEF N
<1>3. Wrong = {}
  <2> SUFFICES ASSUME Wrong # {} PROVE FALSE
    OBVIOUS
  <2>0. Wrong \subseteq Nat
    BY <1>1
  <2> HIDE DEF Wrong
  <2>1. PICK m \in Wrong : \A l \in Wrong : m <= l
    BY <2>0, Least
  <2> USE DEF Wrong
  <2>2. CASE m = 0
    <3>1. g[0] = None
      BY <1>1, <1>2 DEF None
    <3>2. \A l \in segment : ~(l <= 0)
      BY ImageIs
    <3>3. Collected(None, segment, k, 0)
      BY <3>2, NoCommit DEF Collected
    <3> QED BY <2>1, <2>2, <3>1, <3>3
  <2>3. CASE m # 0
    <3>1. m \in Commits /\ m - 1 \in 0 .. N /\ m - 1 \notin Wrong
      BY <1>1, <2>1, <2>3
    <3>2. PICK images : images = g[m - 1]
      OBVIOUS
    <3>3. Collected(images, segment, k, m - 1)
      BY <3>1, <3>2
    <3>4. g[m] = IF m \in segment THEN Append(images, Image(m, k)) ELSE images
      BY <1>2, <2>1, <2>3, <3>2
    <3>5. Collected(IF m \in segment THEN Append(images, Image(m, k)) ELSE images, segment, k, m)
      BY <3>1, <3>3, CollectedNext
    <3>6. Collected(g[m], segment, k, m)
      BY <3>4, <3>5
    <3> QED BY <2>1, <3>6
  <2> QED BY <2>2, <2>3
<1>4. N \in 0 .. N
  BY <1>1
<1>5. Collected(g[N], segment, k, N)
  BY <1>3, <1>4
<1> QED BY <1>0, <1>5 DEF ImagesOf, N

LEMMA WrittenType ==
    ASSUME NEW segment, segment \subseteq Commits, NEW k \in Releases
    PROVE  Written(segment, k) \in Commit
<1>1. segment \cap (Relevant \cup {At[k]}) \subseteq Commits
  OBVIOUS
<1> QED BY <1>1, ImagesAre DEF Written, Collected

(* A checkpoint covers the commits that are left up to one of them. *)
LEMMA StretchIs ==
    ASSUME NEW refs, NEW k, NEW segment \in Stretches(refs, k)
    PROVE  segment \subseteq Commits /\ Max(segment) \in segment
<1>1. PICK rest : rest \subseteq Commits /\ \E n \in rest : segment = UpTo(rest, n)
  BY DEF Stretches, Between
<1>2. PICK n \in rest : segment = UpTo(rest, n)
  BY <1>1
<1>3. \A m : m \in segment <=> m \in rest /\ m <= n
  BY <1>2 DEF UpTo
<1>4. \A m \in rest : m \in Commits /\ m \in Int
  BY <1>1, Numbers
<1>5. n \in segment /\ \A m \in segment : n >= m
  BY <1>3, <1>4
<1> QED BY <1>3, <1>4, <1>5 DEF Max

LEMMA CountType == ASSUME NEW S, S \subseteq Commits PROVE Cardinality(S) \in Nat
  BY Numbers, FS_Subset, FS_CardinalityType

LEMMA ConcatType == ASSUME NEW a \in Commit, NEW b \in Commit
                    PROVE  a \o b \in Commit /\ (a # None => a \o b # None)
  BY DEF Commit, None

(* The release that is due is the lowest pending one. *)
LEMMA NextIs ==
    ASSUME NEW refs, released \subseteq Releases, Pending(refs) # {}
    PROVE  NextRelease(refs) \in Pending(refs) /\ \A j \in Pending(refs) : NextRelease(refs) <= j
<1>1. Pending(refs) \subseteq Nat
  BY Numbers DEF Pending
<1>2. \E k \in Pending(refs) : \A j \in Pending(refs) : k <= j
  BY <1>1, Least
<1> QED BY <1>2 DEF NextRelease

-----------------------------------------------------------------------------
(* The first release. *)

LEMMA FirstRecordIs ==
    ASSUME NEW commit \in Commit, commit # None, NEW record, record = FirstRecord(1, commit)
    PROVE  /\ IsRecord(record) /\ Coherent(record) /\ Succeeds(Unrecorded, record)
           /\ record.tags = <<>> /\ record.tracks = <<>> /\ record.branch = NoBranch
           /\ record.cursors[1] = commit /\ DOMAIN record.cursors = {1}
<1>1. record = [cursors |-> Put(<<>>, 1, commit), branch |-> NoBranch, tags |-> <<>>, tracks |-> <<>>]
  BY DEF FirstRecord, Unrecorded
<1>2. /\ record.cursors = Put(<<>>, 1, commit) /\ record.branch = NoBranch
      /\ record.tags = <<>> /\ record.tracks = <<>>
  BY <1>1
<1>3. DOMAIN record.cursors = {1} /\ record.cursors[1] = commit
  BY <1>2, PutIs, EmptyMentions
<1>4. IsRecord(record)
  <2>1. Mentions(record.cursors, Commit) /\ Mentions(record.tags, Commit) /\ Mentions(record.tracks, Track)
    BY <1>2, Numbers, PutMentions, EmptyMentions
  <2>2. record.branch \in [object : Commit, rel : Releases \cup {0}]
    BY <1>2, NoCommit DEF NoBranch
  <2> QED BY <1>1, <1>2, <2>1, <2>2 DEF IsRecord
<1>5. DOMAIN record.tags = {} /\ DOMAIN record.tracks = {} /\ Finished(record) = {}
  BY <1>2, EmptyMentions DEF Finished, Completed
<1>6. record.branch.rel = 0 /\ record.branch.object = None
  BY <1>2 DEF NoBranch
<1>7. Coherent(record)
  BY <1>3, <1>5, <1>6 DEF Coherent
<1>8. Succeeds(Unrecorded, record)
  BY UnrecordedType DEF Succeeds, Keeps, Finished, Completed
<1> QED BY <1>2, <1>3, <1>4, <1>7, <1>8

FirstCommit(refs) == Append(refs[Main], Image(At[1], 1))

LEMMA FirstPlanned ==
    ASSUME NEW refs, IsDestination(refs), refs[Main] # None, refs[State] = None,
           NEW j, j = Initial(refs, 1)
    PROVE  /\ IsJob(j)
           /\ j.kind = "initial" /\ j.rel = 1 /\ j.half = "non-consumer"
           /\ DOMAIN j.moves = {State, Main, Tag(1)}
           /\ j.moves[Main].old = refs[Main] /\ j.moves[Main].new = FirstCommit(refs) /\ FirstCommit(refs) \in Commit
           /\ IsPrefix(refs[Main], FirstCommit(refs)) /\ FirstCommit(refs) # refs[Main] /\ FirstCommit(refs) # None
           /\ j.moves[Tag(1)].old = None /\ j.moves[Tag(1)].new = FirstCommit(refs)
           /\ j.moves[State].old = None /\ Extends(j.moves[State])
           /\ Last(j.moves[State].new) = FirstRecord(1, FirstCommit(refs))
<1> DEFINE record == FirstRecord(1, FirstCommit(refs))
           moves == [ref \in {State, Main, Tag(1)} |->
                        IF ref = State THEN Move(None, Append(None, record))
                        ELSE Move(IF ref = Main THEN refs[Main] ELSE None, FirstCommit(refs))]
<1>1. j = [kind |-> "initial", half |-> "non-consumer", rel |-> 1, moves |-> moves]
  BY DEF Initial, FirstMoves, NextState, FirstCommit
<1>2. At[1] \in Commits /\ 1 \in Releases
  BY Numbers, SourceAssumption
<1>3. /\ FirstCommit(refs) \in Commit /\ refs[Main] \in Commit
      /\ IsPrefix(refs[Main], FirstCommit(refs)) /\ FirstCommit(refs) # refs[Main] /\ FirstCommit(refs) # None
  BY <1>2, RemoteTypes, ImageType, Appended DEF FirstCommit
<1>4. IsRecord(record) /\ Coherent(record) /\ Succeeds(Unrecorded, record)
  BY <1>3, FirstRecordIs
<1> HIDE DEF record
<1>5. /\ IsHistory(None) /\ IsHistory(Append(None, record)) /\ Append(None, record) # None
      /\ Last(Append(None, record)) = record
  BY <1>4, NoHistory, Grown
<1>6. /\ Main # State /\ Tag(1) # State /\ Tag(1) # Main
      /\ Main \in Refs /\ State \in Refs /\ Tag(1) \in Refs
  BY <1>2, RefsApart
<1>7. /\ DOMAIN moves = {State, Main, Tag(1)}
      /\ moves[State] = [old |-> None, new |-> Append(None, record)]
      /\ moves[Main] = [old |-> refs[Main], new |-> FirstCommit(refs)]
      /\ moves[Tag(1)] = [old |-> None, new |-> FirstCommit(refs)]
  BY <1>6 DEF Move
<1> HIDE DEF moves
<1>8. WellTyped(moves)
  BY <1>3, <1>5, <1>6, <1>7, NoCommit DEF WellTyped, Holds
<1>9. IsJob(j)
  BY <1>1, <1>2, <1>8 DEF IsJob
<1>10. Extends(moves[State])
  <2>1. Document(None) = Unrecorded
    BY DEF Document
  <2> QED BY <1>4, <1>5, <1>7, <2>1 DEF Extends
<1>11. /\ j.kind = "initial" /\ j.rel = 1 /\ j.half = "non-consumer" /\ j.moves = moves
  BY <1>1
<1>12. j.moves[State].new = Append(None, record)
  BY <1>7, <1>11
<1>13. Last(j.moves[State].new) = record
  BY <1>5, <1>12, Zenon
<1>14. /\ j.moves[Main].old = refs[Main] /\ j.moves[Main].new = FirstCommit(refs)
       /\ j.moves[Tag(1)].old = None /\ j.moves[Tag(1)].new = FirstCommit(refs)
       /\ j.moves[State].old = None
  BY <1>7, <1>11
<1> QED BY <1>3, <1>7, <1>9, <1>10, <1>11, <1>13, <1>14 DEF record

-----------------------------------------------------------------------------
(* The record that accounts for a release. *)

LEMMA AccountedIs ==
    ASSUME NEW refs, NEW d, IsRecord(d), NEW k \in Releases, NEW commit \in Commit, refs[Tag(k)] \in Commit,
           NEW next, next = Accounted(d, refs, k, commit)
    PROVE  /\ IsRecord(next)
           /\ next.branch.rel = k /\ next.branch.object = commit
           /\ \A j : j \in DOMAIN next.cursors <=> j = k \/ j \in DOMAIN d.cursors
           /\ next.cursors[k] = commit /\ \A j \in DOMAIN d.cursors : j # k => next.cursors[j] = d.cursors[j]
           /\ \A j : j \in DOMAIN next.tags <=> j = k \/ j \in DOMAIN d.tags
           /\ next.tags[k] = refs[Tag(k)] /\ \A j \in DOMAIN d.tags : j # k => next.tags[j] = d.tags[j]
           /\ \A j : j \in DOMAIN next.tracks <=> j \in DOMAIN d.tracks /\ (k \in Finished(d) => j # k)
           /\ \A j \in DOMAIN next.tracks : next.tracks[j] = d.tracks[j]
<1> DEFINE tracks == IF k \in Finished(d) THEN Drop(d.tracks, k) ELSE d.tracks
<1>1. next = [cursors |-> Put(d.cursors, k, commit), branch |-> [object |-> commit, rel |-> k],
              tags |-> Put(d.tags, k, refs[Tag(k)]), tracks |-> tracks]
  BY DEF Accounted
<1>2. /\ \A j : j \in DOMAIN tracks <=> j \in DOMAIN d.tracks /\ (k \in Finished(d) => j # k)
      /\ \A j \in DOMAIN tracks : tracks[j] = d.tracks[j]
      /\ Mentions(d.tracks, Track) => Mentions(tracks, Track)
  BY DropIs, DropMentions
<1> HIDE DEF tracks
<1>3. /\ next.cursors = Put(d.cursors, k, commit) /\ next.tags = Put(d.tags, k, refs[Tag(k)])
      /\ next.tracks = tracks /\ next.branch = [object |-> commit, rel |-> k]
  BY <1>1
<1>4. IsRecord(next)
  <2>1. Mentions(next.cursors, Commit) /\ Mentions(next.tags, Commit) /\ Mentions(next.tracks, Track)
    BY <1>2, <1>3, PutMentions DEF IsRecord
  <2>2. next.branch \in [object : Commit, rel : Releases \cup {0}]
    BY <1>3
  <2>3. next = [cursors |-> next.cursors, branch |-> next.branch, tags |-> next.tags, tracks |-> next.tracks]
    BY <1>1, <1>3
  <2> QED BY <2>1, <2>2, <2>3 DEF IsRecord
<1>5. next.branch.rel = k /\ next.branch.object = commit
  BY <1>3
<1>6. /\ \A j : j \in DOMAIN next.cursors <=> j = k \/ j \in DOMAIN d.cursors
      /\ next.cursors[k] = commit /\ \A j \in DOMAIN d.cursors : j # k => next.cursors[j] = d.cursors[j]
  BY <1>3, PutIs
<1>7. /\ \A j : j \in DOMAIN next.tags <=> j = k \/ j \in DOMAIN d.tags
      /\ next.tags[k] = refs[Tag(k)] /\ \A j \in DOMAIN d.tags : j # k => next.tags[j] = d.tags[j]
  BY <1>3, PutIs
<1>8. /\ \A j : j \in DOMAIN next.tracks <=> j \in DOMAIN d.tracks /\ (k \in Finished(d) => j # k)
      /\ \A j \in DOMAIN next.tracks : next.tracks[j] = d.tracks[j]
  BY <1>2, <1>3
<1> QED BY <1>4, <1>5, <1>6, <1>7, <1>8

(* Two images of one record are of one source exactly when they are one
   commit. *)
LEMMA TrackIsNotBranch ==
    ASSUME NEW d, IsRecord(d), Corresponds(d), NEW j \in Finished(d), d.branch.rel \in Releases, j # d.branch.rel
    PROVE  d.tracks[j].dest # d.branch.object
<1>1. /\ <<At[j], d.tracks[j].dest>> \in Images(d)
      /\ <<At[d.branch.rel], d.branch.object>> \in Images(d)
  BY Numbers DEF Images, Finished, Completed
<1>2. At[j] # At[d.branch.rel]
  BY RecordFields, SourceAssumption
<1>3. \A a, b \in Images(d) : a[2] = b[2] => a[1] = b[1]
  BY DEF Corresponds
<1> QED BY <1>1, <1>2, <1>3

LEMMA AccountedCoherent ==
    ASSUME NEW refs, NEW d, IsRecord(d), Coherent(d), NEW k \in Releases, k \notin DOMAIN d.tags,
           NEW commit \in Commit, commit # None, refs[Tag(k)] = commit,
           \/ k \in Finished(d) /\ d.tracks[k].dest = commit
           \/ k = 1 /\ k \notin Finished(d) /\ d.cursors[1] = commit,
           NEW next, next = Accounted(d, refs, k, commit), Corresponds(next)
    PROVE  Coherent(next) /\ Succeeds(d, next)
<1>1. /\ IsRecord(next)
      /\ next.branch.rel = k /\ next.branch.object = commit
      /\ \A j : j \in DOMAIN next.cursors <=> j = k \/ j \in DOMAIN d.cursors
      /\ next.cursors[k] = commit /\ \A j \in DOMAIN d.cursors : j # k => next.cursors[j] = d.cursors[j]
      /\ \A j : j \in DOMAIN next.tags <=> j = k \/ j \in DOMAIN d.tags
      /\ next.tags[k] = commit /\ \A j \in DOMAIN d.tags : j # k => next.tags[j] = d.tags[j]
      /\ \A j : j \in DOMAIN next.tracks <=> j \in DOMAIN d.tracks /\ (k \in Finished(d) => j # k)
      /\ \A j \in DOMAIN next.tracks : next.tracks[j] = d.tracks[j]
  BY AccountedIs
<1>2. Finished(d) \subseteq DOMAIN d.tracks /\ k # 0
  BY RecordFields, Numbers
<1>3. k \in Finished(d) => 1 \in DOMAIN d.tags /\ k \notin DOMAIN d.cursors
  BY <1>2 DEF Coherent
<1>4. k \notin Finished(d) => DOMAIN d.tracks = {}
  BY DEF Coherent
<1>5. k \in DOMAIN d.cursors => d.cursors[k] = commit
  BY <1>3
<1>6. 1 \in DOMAIN next.tags
  BY <1>1, <1>3
<1>7. /\ 1 \in DOMAIN next.cursors
      /\ DOMAIN next.cursors \subseteq {1} \cup DOMAIN next.tags
      /\ \A j \in DOMAIN next.cursors : next.cursors[j] # None
      /\ \A j \in DOMAIN next.tags : j \in DOMAIN next.cursors /\ next.cursors[j] = next.tags[j]
  BY <1>1, <1>5 DEF Coherent
<1>8. \A j \in DOMAIN next.tracks : j \notin DOMAIN next.tags /\ next.tracks[j].dest # None
  BY <1>1, <1>4 DEF Coherent
<1>9. \A j \in Finished(next) : next.tracks[j].dest # next.branch.object
  <2> TAKE j \in Finished(next)
  <2>1. j # k
    BY <1>1, <1>8 DEF Finished, Completed
  <2> QED BY <1>1, <2>1, TrackIsNotBranch
<1>10. Coherent(next)
  BY <1>1, <1>2, <1>6, <1>7, <1>8, <1>9 DEF Coherent
<1>11. ASSUME NEW j \in Finished(d), j # k
       PROVE  j \in Finished(next) /\ next.tracks[j].dest = d.tracks[j].dest
  BY <1>1, <1>2, <1>11 DEF Finished, Completed
<1>12. Succeeds(d, next)
  BY <1>1, <1>5, <1>11 DEF Succeeds, Keeps
<1> QED BY <1>10, <1>12

LEMMA ReconciliationIs ==
    ASSUME NEW refs, IsDestination(refs), NEW k \in Releases, NEW commit \in Commit,
           NEW kind \in {"adoption", "observation"},
           NEW j, j = Reconciliation(kind, Doc(refs), refs, k, commit),
           NEW next, next = Accounted(Doc(refs), refs, k, commit)
    PROVE  /\ IsJob(j) /\ j.kind = kind /\ j.half = "reconcile" /\ j.rel = k
           /\ {State, Main, Tag(k)} \subseteq DOMAIN j.moves
           /\ \A ref \in DOMAIN j.moves \ {State} :
                j.moves[ref].new = j.moves[ref].old /\ j.moves[ref].old = refs[ref]
           /\ j.moves[Tag(k)].old = refs[Tag(k)] /\ j.moves[Main].old = refs[Main]
           /\ j.moves[State].old = refs[State]
           /\ j.moves[State].new = Append(refs[State], next) /\ j.moves[State].new # None
           /\ Last(j.moves[State].new) = next
<1> DEFINE covered == {State, Main, Tag(k)} \cup {Progress(i) : i \in Finished(Doc(refs)) \cap {k}}
           moves == [ref \in covered |-> IF ref = State THEN Move(refs[State], Append(refs[State], next))
                                         ELSE Move(refs[ref], refs[ref])]
<1>1. j = [kind |-> kind, half |-> "reconcile", rel |-> k, moves |-> moves]
  BY DEF Reconciliation, NextState, Stays
<1>2. /\ j.kind = kind /\ j.half = "reconcile" /\ j.rel = k /\ j.moves = moves
  BY <1>1
<1>3. covered \subseteq Refs /\ State \in covered /\ Main \in covered /\ Tag(k) \in covered
      /\ Main # State /\ Tag(k) # State
  BY RefsApart
<1>4. IsRecord(Doc(refs)) /\ IsHistory(refs[State])
  BY RemoteTypes
<1>5. refs[Tag(k)] \in Commit
  BY RemoteTypes
<1>6. IsRecord(next)
  BY <1>4, <1>5, AccountedIs
<1> HIDE DEF covered
<1>7. /\ IsHistory(Append(refs[State], next)) /\ Append(refs[State], next) # None
      /\ Last(Append(refs[State], next)) = next
  BY <1>4, <1>6, Grown
<1>8. /\ DOMAIN moves = covered
      /\ moves[State] = [old |-> refs[State], new |-> Append(refs[State], next)]
      /\ \A ref \in covered \ {State} : moves[ref] = [old |-> refs[ref], new |-> refs[ref]]
  BY <1>3 DEF Move
<1> HIDE DEF moves
<1>9. WellTyped(moves)
  <2>1. \A ref \in covered : Holds(ref, refs[ref])
    BY <1>3 DEF IsDestination
  <2>2. Holds(State, refs[State]) /\ Holds(State, Append(refs[State], next))
    BY <1>4, <1>7 DEF Holds
  <2>3. ASSUME NEW ref \in covered
        PROVE  /\ moves[ref] = [old |-> moves[ref].old, new |-> moves[ref].new]
               /\ Holds(ref, moves[ref].old) /\ Holds(ref, moves[ref].new)
    <3>1. CASE ref = State
      <4>1. moves[ref].old = refs[State] /\ moves[ref].new = Append(refs[State], next)
        BY <1>8, <3>1
      <4> QED BY <1>8, <2>2, <3>1, <4>1
    <3>2. CASE ref # State
      <4>1. moves[ref].old = refs[ref] /\ moves[ref].new = refs[ref]
        BY <1>8, <3>2
      <4> QED BY <1>8, <2>1, <3>2, <4>1
    <3> QED BY <3>1, <3>2
  <2> QED BY <1>3, <1>8, <2>3 DEF WellTyped
<1>10. IsJob(j)
  BY <1>1, <1>2, <1>9 DEF IsJob
<1>11. moves[State].old = refs[State] /\ moves[State].new = Append(refs[State], next)
  BY <1>8
<1>12. Last(moves[State].new) = next
  BY <1>7, <1>11, Zenon
<1>13. /\ \A ref \in DOMAIN moves \ {State} : moves[ref].new = moves[ref].old /\ moves[ref].old = refs[ref]
       /\ moves[Tag(k)].old = refs[Tag(k)] /\ moves[Main].old = refs[Main]
  BY <1>3, <1>8
<1> QED BY <1>2, <1>3, <1>7, <1>8, <1>10, <1>11, <1>12, <1>13

LEMMA Reconciles ==
    ASSUME NEW refs, IsDestination(refs), Coherent(Doc(refs)),
           NEW k \in Releases, k \notin DOMAIN Doc(refs).tags, NEW commit \in Commit, commit # None,
           refs[Tag(k)] = commit, IsPrefix(commit, refs[Main]),
           \/ k \in Finished(Doc(refs)) /\ Doc(refs).tracks[k].dest = commit
           \/ k = 1 /\ k \notin Finished(Doc(refs)) /\ Doc(refs).cursors[1] = commit,
           NEW kind \in {"adoption", "observation"},
           NEW j, j = Reconciliation(kind, Doc(refs), refs, k, commit),
           NEW next, next = Accounted(Doc(refs), refs, k, commit), Corresponds(next)
    PROVE  ReconcilePlan(j)
<1>1. /\ j.half = "reconcile" /\ j.rel = k
      /\ {State, Main, Tag(k)} \subseteq DOMAIN j.moves
      /\ \A ref \in DOMAIN j.moves \ {State} : j.moves[ref].new = j.moves[ref].old
      /\ j.moves[Tag(k)].old = refs[Tag(k)] /\ j.moves[Main].old = refs[Main]
      /\ j.moves[State].old = refs[State]
      /\ j.moves[State].new = Append(refs[State], next) /\ j.moves[State].new # None
      /\ Last(j.moves[State].new) = next
  BY ReconciliationIs
<1>2. IsRecord(Doc(refs))
  BY RemoteTypes
<1>3. Coherent(next) /\ Succeeds(Doc(refs), next)
  BY <1>2, AccountedCoherent
<1>4. /\ next.branch.object = commit
      /\ \A i : i \in DOMAIN next.tags <=> i = k \/ i \in DOMAIN Doc(refs).tags
      /\ next.tags[k] = refs[Tag(k)]
      /\ \A i \in DOMAIN next.tracks : i \in DOMAIN Doc(refs).tracks /\ next.tracks[i] = Doc(refs).tracks[i]
  BY <1>2, AccountedIs
<1>5. Document(j.moves[State].old) = Doc(refs)
  BY <1>1 DEF Doc
<1>6. Extends(j.moves[State])
  BY <1>1, <1>3, <1>5 DEF Extends
<1>7. Records(j.moves[State], k)
  BY <1>1, <1>4, <1>5 DEF Records
<1> QED BY <1>1, <1>4, <1>5, <1>6, <1>7 DEF ReconcilePlan, Keeps

-----------------------------------------------------------------------------
(* What a run plans. *)

LEMMA ChunkStartType ==
    ASSUME NEW refs, IsDestination(refs), NEW k \in Releases
    PROVE  /\ ChunkStart(refs, k) \in Track
           /\ k \in DOMAIN Doc(refs).tracks => ChunkStart(refs, k) = Doc(refs).tracks[k]
           /\ k \notin DOMAIN Doc(refs).tracks => ChunkStart(refs, k).dest = refs[Main]
<1>1. IsRecord(Doc(refs)) /\ refs[Main] \in Commit
  BY RemoteTypes
<1>2. \A i \in Releases : At[i] \in Commits /\ Between(At[i], At[k]) \subseteq Commits
  BY SourceAssumption DEF Between
<1>3. \A i \in Releases : Cardinality(Between(At[i], At[k])) \in Nat
  BY <1>2, CountType
<1>4. 1 \in Releases /\ Doc(refs).branch.rel \in Releases \cup {0}
  BY <1>1, Numbers, RecordFields
<1>5. CASE k \in DOMAIN Doc(refs).tracks
  BY <1>1, <1>5, RecordFields DEF ChunkStart
<1>6. CASE k \notin DOMAIN Doc(refs).tracks
  BY <1>1, <1>2, <1>3, <1>4, <1>6 DEF ChunkStart, Track
<1> QED BY <1>5, <1>6

LEMMA AdvancedType ==
    ASSUME NEW refs, IsDestination(refs), refs[Main] # None, NEW k \in Releases,
           NEW segment \in Stretches(refs, k),
           k \in DOMAIN Doc(refs).tracks => Doc(refs).tracks[k].dest # None
    PROVE  Advanced(refs, k, segment) \in Track /\ Advanced(refs, k, segment).dest # None
<1> DEFINE start == ChunkStart(refs, k)
<1>1. /\ start.source \in Commits /\ start.dest \in Commit /\ start.dest # None
      /\ start.done \in Nat /\ start.total \in Nat
  BY ChunkStartType DEF Track
<1> HIDE DEF start
<1>2. segment \subseteq Commits /\ Max(segment) \in Commits
  BY StretchIs
<1>3. Cardinality(segment) \in Nat /\ Written(segment, k) \in Commit
  BY <1>2, CountType, WrittenType
<1>4. start.dest \o Written(segment, k) \in Commit /\ start.dest \o Written(segment, k) # None
  BY <1>1, <1>3, ConcatType
<1>5. Advanced(refs, k, segment) =
        [source |-> Max(segment), dest |-> start.dest \o Written(segment, k),
         done |-> start.done + Cardinality(segment), total |-> start.total]
  BY DEF Advanced, start
<1> QED BY <1>1, <1>2, <1>3, <1>4, <1>5 DEF Track

(* The release that is due is not tagged; unless it is the first, the first
   one is recorded. *)
LEMMA DueIs ==
    ASSUME TypeOK, RemoteInv, NEW k \in Due(remote)
    PROVE  /\ k \in Releases /\ remote[Tag(k)] = None /\ k \notin DOMAIN Doc(remote).tags
           /\ Adopted(remote) = {}
           /\ k # 1 => 1 \in DOMAIN Doc(remote).tags
<1>1. Adopted(remote) = {} /\ Pending(remote) # {} /\ k = NextRelease(remote)
  BY DEF Due
<1>2. k \in Pending(remote) /\ \A i \in Pending(remote) : k <= i
  BY <1>1, NextIs DEF TypeOK
<1>3. k \in Releases /\ remote[Tag(k)] = None
  BY <1>2 DEF TypeOK, Pending, Tagged
<1>4. k \notin DOMAIN Doc(remote).tags
  BY <1>3, TagsKnown
<1>5. ASSUME k # 1 PROVE 1 \in DOMAIN Doc(remote).tags
  <2>1. 1 \notin Pending(remote)
    BY <1>2, <1>3, <1>5, Numbers
  <2>2. 1 \in Tagged(remote)
    BY <2>1 DEF RemoteInv, Pending
  <2> QED BY <1>1, <2>2 DEF Adopted
<1> QED BY <1>1, <1>3, <1>4, <1>5

(* A record with the track of a release where it now is. *)
Tracked(d, k, track) == [d EXCEPT !.tracks = Put(@, k, track)]

LEMMA TrackedIs ==
    ASSUME NEW d, IsRecord(d), NEW k \in Releases, NEW track \in Track, NEW next, next = Tracked(d, k, track)
    PROVE  /\ next.cursors = d.cursors /\ next.branch = d.branch /\ next.tags = d.tags
           /\ \A i : i \in DOMAIN next.tracks <=> i = k \/ i \in DOMAIN d.tracks
           /\ next.tracks[k] = track
           /\ \A i \in DOMAIN d.tracks : i # k => next.tracks[i] = d.tracks[i]
           /\ IsRecord(next)
<1>1. next = [cursors |-> d.cursors, branch |-> d.branch, tags |-> d.tags, tracks |-> Put(d.tracks, k, track)]
  BY DEF IsRecord, Tracked
<1>2. next.cursors = d.cursors /\ next.branch = d.branch /\ next.tags = d.tags /\ next.tracks = Put(d.tracks, k, track)
  BY <1>1
<1>3. IsRecord(next)
  BY <1>1, <1>2, PutMentions DEF IsRecord
<1> QED BY <1>2, <1>3, PutIs

LEMMA CheckpointIs ==
    ASSUME TypeOK, RemoteInv, remote[State] # None, NEW k \in Due(remote), k \notin Finished(Doc(remote)),
           Chunkable(remote, k), NEW segment \in Stretches(remote, k),
           NEW j, j = Checkpoint(remote, k, segment)
    PROVE  /\ IsJob(j) /\ j.kind = "checkpoint"
           /\ Last(j.moves[State].new) = Tracked(Doc(remote), k, Advanced(remote, k, segment))
           /\ Corresponds(Last(j.moves[State].new)) => CheckpointPlan(j)
<1> DEFINE track == Advanced(remote, k, segment)
           next == Tracked(Doc(remote), k, track)
           moves == [ref \in {State, Progress(k)} |->
                        IF ref = State THEN Move(remote[State], Append(remote[State], next))
                        ELSE Move(remote[Progress(k)], track.dest)]
<1>0. /\ k \in Releases /\ k \notin DOMAIN Doc(remote).tags
      /\ k # 1 => 1 \in DOMAIN Doc(remote).tags
  BY DueIs
<1>1. j = [kind |-> "checkpoint", half |-> "non-consumer", rel |-> k, moves |-> moves]
  BY DEF Checkpoint, NextState, Tracked
<1>2. IsRecord(Doc(remote)) /\ IsHistory(remote[State]) /\ remote[Progress(k)] \in Commit
      /\ Coherent(Doc(remote))
  BY <1>0, RemoteTypes, DocCoherent DEF TypeOK
<1>3. track \in Track /\ track.dest # None
  BY <1>0, <1>2, AdvancedType DEF TypeOK, RemoteInv, Coherent
<1> HIDE DEF track
<1>7. /\ next.cursors = Doc(remote).cursors /\ next.branch = Doc(remote).branch /\ next.tags = Doc(remote).tags
      /\ \A i : i \in DOMAIN next.tracks <=> i = k \/ i \in DOMAIN Doc(remote).tracks
      /\ next.tracks[k] = track
      /\ \A i \in DOMAIN Doc(remote).tracks : i # k => next.tracks[i] = Doc(remote).tracks[i]
      /\ IsRecord(next)
  BY <1>0, <1>2, <1>3, TrackedIs
<1>5. next.cursors = Doc(remote).cursors /\ next.branch = Doc(remote).branch /\ next.tags = Doc(remote).tags
  BY <1>7
<1>6. IsRecord(next)
  BY <1>7
<1> HIDE DEF next
<1>8. State # Progress(k) /\ State \in Refs /\ Progress(k) \in Refs
  BY <1>0, RefsApart
<1>9. /\ DOMAIN moves = {State, Progress(k)}
      /\ moves[State] = [old |-> remote[State], new |-> Append(remote[State], next)]
      /\ moves[Progress(k)] = [old |-> remote[Progress(k)], new |-> track.dest]
  BY <1>8 DEF Move
<1> HIDE DEF moves
<1>10. /\ IsHistory(Append(remote[State], next)) /\ Append(remote[State], next) # None
       /\ Last(Append(remote[State], next)) = next
  BY <1>2, <1>6, Grown
<1>11. /\ moves[State].old = remote[State] /\ moves[State].new = Append(remote[State], next)
       /\ moves[Progress(k)].old = remote[Progress(k)] /\ moves[Progress(k)].new = track.dest
  BY <1>9
<1>12. Last(moves[State].new) = next
  BY <1>10, <1>11, Zenon
<1>13. WellTyped(moves)
  BY <1>2, <1>3, <1>8, <1>9, <1>10, <1>11 DEF WellTyped, Holds, Track
<1>14. j.kind = "checkpoint" /\ j.half = "non-consumer" /\ j.rel = k /\ j.moves = moves
  BY <1>1
<1>15. IsJob(j)
  BY <1>0, <1>1, <1>13, <1>14 DEF IsJob
<1>16. ASSUME Corresponds(next) PROVE CheckpointPlan(j)
  <2>1. 1 \in DOMAIN Doc(remote).tags
    <3> SUFFICES ASSUME 1 \notin DOMAIN Doc(remote).tags PROVE FALSE
      OBVIOUS
    <3>1. k = 1 /\ Doc(remote).branch.rel = 0 /\ DOMAIN Doc(remote).tracks = {}
      BY <1>0, <1>2 DEF Coherent
    <3>2. ChunkStart(remote, k).source = At[1]
      BY <3>1 DEF ChunkStart
    <3>3. Between(At[1], At[1]) = {}
      BY DEF Between
    <3> QED BY <3>1, <3>2, <3>3 DEF Chunkable
  <2>2. \A i \in DOMAIN next.tracks : i \notin DOMAIN next.tags /\ next.tracks[i].dest # None
    BY <1>0, <1>2, <1>3, <1>5, <1>7 DEF Coherent
  <2>3. \A i \in Finished(next) : next.tracks[i].dest # next.branch.object
    <3> TAKE i \in Finished(next)
    <3>1. i \in DOMAIN next.tracks /\ i \in Releases /\ next.branch.rel \in Releases \cup {0}
      BY <1>6, RecordFields
    <3>2. CASE next.branch.rel = 0
      BY <1>2, <1>5, <2>2, <3>1, <3>2 DEF Coherent
    <3>3. CASE next.branch.rel # 0
      <4>1. next.branch.rel \in DOMAIN next.tags
        BY <1>2, <1>5, <3>3 DEF Coherent
      <4> QED BY <1>6, <1>16, <2>2, <3>1, <3>3, <4>1, TrackIsNotBranch
    <3> QED BY <3>2, <3>3
  <2>4. Coherent(next)
    BY <1>2, <1>5, <2>1, <2>2, <2>3 DEF Coherent
  <2>5. \A i \in Finished(Doc(remote)) :
            i \in Finished(next) /\ next.tracks[i].dest = Doc(remote).tracks[i].dest
    BY <1>7 DEF Finished, Completed
  <2>6. Succeeds(Doc(remote), next)
    BY <1>5, <2>5 DEF Succeeds, Keeps
  <2>7. Document(moves[State].old) = Doc(remote)
    BY <1>11 DEF Doc
  <2>8. Extends(moves[State])
    BY <1>10, <1>11, <1>12, <2>4, <2>6, <2>7 DEF Extends
  <2>9. \A i \in DOMAIN next.tracks :
            IF i = k THEN next.tracks[i].dest = moves[Progress(k)].new
            ELSE i \in DOMAIN Doc(remote).tracks /\ next.tracks[i] = Doc(remote).tracks[i]
    BY <1>7, <1>11
  <2>10. DOMAIN moves = {State, Progress(k)}
    BY <1>9
  <2> QED BY <1>0, <1>5, <1>12, <1>14, <2>7, <2>8, <2>9, <2>10 DEF CheckpointPlan
<1> QED BY <1>12, <1>14, <1>15, <1>16 DEF next, track

LEMMA FinalIs ==
    ASSUME TypeOK, RemoteInv, remote[State] # None, NEW k \in Due(remote), k \in Finished(Doc(remote)),
           NEW j, j = Final(remote, k)
    PROVE  /\ IsJob(j) /\ j.kind = "release" /\ j.moves[State].new = remote[State]
           /\ Finalizable(remote, k) /\ (\E checkout : BranchVerified(remote, checkout)) => ReleasePlan(j)
<1> DEFINE commit == Doc(remote).tracks[k].dest
           moves == [ref \in {State, Main, Tag(k)} |->
                        CASE ref = State -> Stays(remote, State)
                          [] ref = Main -> Move(remote[Main], commit)
                          [] OTHER -> Move(None, commit)]
<1>0. k \in Releases /\ Adopted(remote) = {}
  BY DueIs
<1>1. j = [kind |-> "release", half |-> "consumer", rel |-> k, moves |-> moves]
  BY DEF Final
<1>2. j.kind = "release" /\ j.half = "consumer" /\ j.rel = k /\ j.moves = moves
  BY <1>1
<1>3. /\ IsRecord(Doc(remote)) /\ IsHistory(remote[State]) /\ remote[Main] \in Commit
      /\ Coherent(Doc(remote))
  BY RemoteTypes, DocCoherent DEF TypeOK
<1>4. k \in DOMAIN Doc(remote).tracks /\ commit \in Commit /\ commit # None
  BY <1>3, RecordFields DEF Coherent
<1>5. /\ Main # State /\ Tag(k) # State /\ Tag(k) # Main
      /\ Main \in Refs /\ State \in Refs /\ Tag(k) \in Refs
  BY <1>0, RefsApart
<1> HIDE DEF commit
<1>6. /\ DOMAIN moves = {State, Main, Tag(k)}
      /\ moves[State] = [old |-> remote[State], new |-> remote[State]]
      /\ moves[Main] = [old |-> remote[Main], new |-> commit]
      /\ moves[Tag(k)] = [old |-> None, new |-> commit]
  BY <1>5 DEF Move, Stays
<1> HIDE DEF moves
<1>7. WellTyped(moves)
  BY <1>3, <1>4, <1>5, <1>6, NoCommit DEF WellTyped, Holds
<1>8. IsJob(j)
  BY <1>0, <1>1, <1>2, <1>7 DEF IsJob
<1>9. ASSUME Finalizable(remote, k), \E checkout : BranchVerified(remote, checkout) PROVE ReleasePlan(j)
  <2>1. Recognised(remote) \/ ControlPlane(remote)
    BY <1>9 DEF BranchVerified, Finalizable
  <2>2. commit # remote[Main]
    <3>1. CASE Recognised(remote)
      BY <1>3, <3>1 DEF Recognised, Coherent, commit
    <3>2. CASE ControlPlane(remote)
      BY <3>2 DEF ControlPlane, Ends, Finished, commit
    <3> QED BY <2>1, <3>1, <3>2
  <2>3. Since(remote[Main])
    BY <1>0, <1>3, PrefixLaws DEF Since
  <2>4. Releasing(moves, k)
    BY <1>4, <1>5, <1>6, <2>2, <2>3 DEF Releasing
  <2>5. moves[State].old = remote[State] /\ moves[State].new = remote[State]
    BY <1>6
  <2>6. Last(moves[State].new) = Doc(remote)
    BY <2>5 DEF Doc, Document
  <2>7. moves[Main].new = Doc(remote).tracks[k].dest
    BY <1>6 DEF commit
  <2> QED BY <1>0, <1>2, <2>4, <2>5, <2>6, <2>7 DEF ReleasePlan
<1>10. moves[State].new = remote[State]
  BY <1>6
<1> QED BY <1>2, <1>8, <1>9, <1>10

LEMMA InitialIs ==
    ASSUME TypeOK, RemoteInv, remote[State] = None, NEW k \in Due(remote),
           NEW j, j = Initial(remote, k)
    PROVE  /\ IsJob(j) /\ j.kind = "initial" /\ FirstPlan(j)
           /\ k = 1 /\ Last(j.moves[State].new) = FirstRecord(1, FirstCommit(remote))
<1>1. DOMAIN Doc(remote).tags = {} /\ k \in Releases /\ Adopted(remote) = {}
  BY DueIs, UnrecordedType DEF Doc, Document
<1>2. k = 1
  BY <1>1, DueIs
<1>3. /\ IsJob(j)
      /\ j.kind = "initial" /\ j.rel = 1 /\ j.half = "non-consumer"
      /\ DOMAIN j.moves = {State, Main, Tag(1)}
      /\ j.moves[Main].old = remote[Main] /\ j.moves[Main].new = FirstCommit(remote)
      /\ FirstCommit(remote) \in Commit /\ FirstCommit(remote) # remote[Main] /\ FirstCommit(remote) # None
      /\ j.moves[Tag(1)].old = None /\ j.moves[Tag(1)].new = FirstCommit(remote)
      /\ j.moves[State].old = None /\ Extends(j.moves[State])
      /\ Last(j.moves[State].new) = FirstRecord(1, FirstCommit(remote))
  BY <1>2, FirstPlanned DEF TypeOK, RemoteInv
<1>4. Since(remote[Main])
  BY <1>1, RemoteTypes, PrefixLaws DEF Since, TypeOK
<1>5. Releasing(j.moves, 1)
  BY <1>3, <1>4 DEF Releasing
<1>6. LET d == FirstRecord(1, FirstCommit(remote))
      IN  d.tags = <<>> /\ d.tracks = <<>> /\ d.branch = NoBranch /\ d.cursors[1] = FirstCommit(remote)
  BY <1>3, FirstRecordIs
<1> QED BY <1>2, <1>3, <1>5, <1>6 DEF FirstPlan

(* The record that accounts for a release whose tag is there. *)
Accounting(k, next) ==
    LET d == Doc(remote) commit == remote[Tag(k)] IN
    /\ k \in Releases /\ k \notin DOMAIN d.tags /\ commit # None /\ Coherent(d)
    /\ \/ k \in Finished(d) /\ d.tracks[k].dest = commit
       \/ k = 1 /\ k \notin Finished(d) /\ d.cursors[1] = commit
    /\ next = Accounted(d, remote, k, commit)

LEMMA AdoptionIs ==
    ASSUME TypeOK, RemoteInv, NEW k \in Adopted(remote),
           Proved(Doc(remote), remote, k, Generated(remote), TRUE),
           NEW j, j = Reconciliation("adoption", Doc(remote), remote, k, Generated(remote))
    PROVE  /\ IsJob(j) /\ j.kind = "adoption"
           /\ TagsAgree(remote) => Accounting(k, Last(j.moves[State].new))
           /\ TagsAgree(remote) /\ Corresponds(Last(j.moves[State].new)) => ReconcilePlan(j)
<1> DEFINE d == Doc(remote)
           commit == Generated(remote)
           next == Accounted(d, remote, k, commit)
<1>1. k \in Releases /\ k # 0 /\ k \notin DOMAIN d.tags /\ Accounts(d, k, remote[Tag(k)])
  BY Numbers DEF Adopted, Tagged, RemoteInv
<1>2. /\ IsDestination(remote) /\ IsRecord(d) /\ remote[Main] \in Commit /\ d.branch.object \in Commit
  BY RemoteTypes, RecordFields DEF TypeOK
<1>3. commit \in Commit /\ IsPrefix(commit, remote[Main])
  BY <1>2, PrefixLaws DEF Generated, ControlPlane
<1>4. Coherent(d)
  <2>1. remote[State] # None
    BY <1>1, UnrecordedType DEF Accounts, Finished, Completed, Doc, Document
  <2> QED BY <2>1, DocCoherent
<1> HIDE DEF d, commit
<1>5. /\ IsJob(j) /\ j.kind = "adoption" /\ Last(j.moves[State].new) = next
  BY <1>1, <1>2, <1>3, ReconciliationIs DEF d, commit
<1>6. ASSUME TagsAgree(remote)
      PROVE  /\ commit # None /\ remote[Tag(k)] = commit
             /\ \/ k \in Finished(d) /\ d.tracks[k].dest = commit
                \/ k = 1 /\ k \notin Finished(d) /\ d.cursors[1] = commit
  <2>1. TrackedTag(remote, k) \/ LegacyTag(remote, k)
    BY <1>6 DEF TagsAgree
  <2>2. CASE k \in Finished(d)
    <3>1. d.tracks[k].dest = commit
      BY <2>2 DEF Proved, d, commit
    <3>2. remote[Tag(k)] = d.tracks[k].dest
      BY <2>1, <2>2 DEF TrackedTag, LegacyTag, d
    <3>3. commit # None
      BY <1>2, <1>4, <2>2, <3>1, RecordFields DEF Coherent
    <3> QED BY <2>2, <3>1, <3>2, <3>3
  <2>3. CASE k \notin Finished(d)
    <3>1. k = 1
      BY <2>1, <2>3 DEF TrackedTag, LegacyTag, d
    <3>2. d.branch # [object |-> commit, rel |-> k]
      BY <1>1, <1>4 DEF Coherent
    <3>3. k \in DOMAIN d.cursors /\ d.cursors[1] = commit
      BY <2>3, <3>1, <3>2 DEF Proved, d, commit
    <3>4. remote[Tag(k)] = commit
      BY <1>1, <2>3, <3>1, <3>3 DEF Accounts
    <3>5. commit # None
      BY <1>4, <3>1, <3>3 DEF Coherent
    <3> QED BY <2>3, <3>1, <3>3, <3>4, <3>5
  <2> QED BY <2>2, <2>3
<1>7. ASSUME TagsAgree(remote), Corresponds(next) PROVE ReconcilePlan(j)
  BY <1>1, <1>2, <1>3, <1>4, <1>6, <1>7, Reconciles DEF d, commit
<1>8. TagsAgree(remote) => Accounting(k, next)
  BY <1>1, <1>4, <1>6 DEF Accounting, d
<1> QED BY <1>5, <1>7, <1>8

LEMMA VerificationIs ==
    ASSUME TypeOK, NEW j, j = Verification(remote)
    PROVE  IsJob(j) /\ j.kind = "verify" /\ PlanInv(j)
<1> DEFINE moves == [ref \in {Main} |-> [old |-> remote[ref], new |-> remote[ref]]]
<1>1. j = [kind |-> "verify", half |-> "reconcile", rel |-> 0, moves |-> moves]
  BY DEF Verification, Stays, Move
<1>2. j.kind = "verify" /\ j.half = "reconcile" /\ j.rel = 0 /\ j.moves = moves
  BY <1>1
<1>3. DOMAIN moves = {Main} /\ moves[Main] = [old |-> remote[Main], new |-> remote[Main]]
  OBVIOUS
<1>4. remote[Main] \in Commit /\ Main \in Refs /\ Main # State
  BY RemoteTypes, RefsApart DEF TypeOK
<1> HIDE DEF moves
<1>5. WellTyped(moves)
  BY <1>3, <1>4 DEF WellTyped, Holds
<1>6. IsJob(j)
  BY <1>1, <1>2, <1>5 DEF IsJob
<1> QED BY <1>2, <1>3, <1>6 DEF PlanInv

(* What Reconcile decides is well typed, and what it goes on with is a plan. *)
LEMMA DecisionIs ==
    ASSUME TypeOK, RemoteInv, NEW j \in Decisions(remote)
    PROVE  /\ IsJob(j)
           /\ (\E r \in Runs : Discovered(r)) /\ ~Breaks(Doc(remote), j) => PlanInv(j)
<1> DEFINE d == Doc(remote)
           started == {k \in Due(remote) : remote[State] # None}
<1>0. \/ \E k \in Adopted(remote) :
            /\ Proved(d, remote, k, Generated(remote), TRUE)
            /\ j = Reconciliation("adoption", d, remote, k, Generated(remote))
      \/ j = Verification(remote)
      \/ \E k \in Due(remote) : remote[State] = None /\ j = Initial(remote, k)
      \/ \E k \in Due(remote) : remote[State] # None /\ k \in Finished(d) /\ Finalizable(remote, k)
                                /\ j = Final(remote, k)
      \/ \E k \in Due(remote) : remote[State] # None /\ k \notin Finished(d) /\ Chunkable(remote, k)
                                /\ \E segment \in Stretches(remote, k) : j = Checkpoint(remote, k, segment)
  BY DEF Decisions
<1>1. ASSUME NEW k \in Adopted(remote), Proved(d, remote, k, Generated(remote), TRUE),
             j = Reconciliation("adoption", d, remote, k, Generated(remote))
      PROVE  /\ IsJob(j)
             /\ (\E r \in Runs : Discovered(r)) /\ ~Breaks(d, j) => PlanInv(j)
  <2>1. /\ IsJob(j) /\ j.kind = "adoption"
        /\ TagsAgree(remote) /\ Corresponds(Last(j.moves[State].new)) => ReconcilePlan(j)
    BY <1>1, AdoptionIs
  <2>2. ~Breaks(d, j) => Corresponds(Last(j.moves[State].new))
    BY <2>1 DEF Breaks, Successor, Merges
  <2> QED BY <2>1, <2>2 DEF Discovered, PlanInv
<1>2. CASE j = Verification(remote)
  BY <1>2, VerificationIs
<1>3. ASSUME NEW k \in Due(remote), remote[State] = None, j = Initial(remote, k)
      PROVE  IsJob(j) /\ PlanInv(j)
  BY <1>3, InitialIs DEF PlanInv
<1>4. ASSUME NEW k \in Due(remote), remote[State] # None, k \in Finished(d), Finalizable(remote, k),
             j = Final(remote, k)
      PROVE  IsJob(j) /\ ((\E r \in Runs : Discovered(r)) => PlanInv(j))
  <2>1. (\E r \in Runs : Discovered(r)) => \E checkout : BranchVerified(remote, checkout)
    BY DEF Discovered
  <2> QED BY <1>4, <2>1, FinalIs DEF PlanInv
<1>5. ASSUME NEW k \in Due(remote), remote[State] # None, k \notin Finished(d), Chunkable(remote, k),
             NEW segment \in Stretches(remote, k), j = Checkpoint(remote, k, segment)
      PROVE  IsJob(j) /\ (~Breaks(d, j) => PlanInv(j))
  <2>1. /\ IsJob(j) /\ j.kind = "checkpoint"
        /\ Corresponds(Last(j.moves[State].new)) => CheckpointPlan(j)
    BY <1>5, CheckpointIs
  <2>2. ~Breaks(d, j) => Corresponds(Last(j.moves[State].new))
    BY <2>1 DEF Breaks, Successor, Merges
  <2> QED BY <2>1, <2>2 DEF PlanInv
<1> QED BY <1>0, <1>1, <1>2, <1>3, <1>4, <1>5

LEMMA ObservationIs ==
    ASSUME TypeOK, RemoteInv, NEW j, IsJob(j), ReleasePlan(j), Observable(j),
           \A ref \in Half(j) : remote[ref] = j.moves[ref].new
    PROVE  /\ IsJob(Observation(j)) /\ Observation(j).kind = "observation"
           /\ Accounting(j.rel, Last(Observation(j).moves[State].new))
           /\ Doc(remote) = Last(j.moves[State].new)
           /\ Corresponds(Last(Observation(j).moves[State].new)) => PlanInv(Observation(j))
<1> DEFINE d == Doc(remote)
           k == j.rel
           commit == j.moves[Main].new
           next == Accounted(d, remote, k, commit)
<1>1. /\ k \in Releases /\ j.half = "consumer" /\ DOMAIN j.moves = {State, Main, Tag(k)}
      /\ j.moves[State].new = j.moves[State].old /\ j.moves[State].old # None
      /\ j.moves[Main].new = j.moves[Tag(k)].new /\ j.moves[Tag(k)].new # None
      /\ k \in Finished(Last(j.moves[State].new)) /\ Last(j.moves[State].new).tracks[k].dest = commit
  BY DEF ReleasePlan, Releasing
<1>2. remote[State] = j.moves[State].new /\ remote[State] # None
  BY <1>1 DEF Observable
<1>3. d = Last(j.moves[State].new)
  BY <1>2 DEF Doc, Document
<1>4. Main \in Half(j) /\ Tag(k) \in Half(j)
  BY <1>1, RefsApart DEF Half, Consumer
<1>5. remote[Main] = commit /\ remote[Tag(k)] = commit /\ commit # None
  BY <1>1, <1>4
<1>6. Coherent(d) /\ IsRecord(d) /\ IsDestination(remote) /\ remote[Main] \in Commit
  BY <1>2, DocCoherent, RemoteTypes DEF TypeOK
<1>7. Observation(j) = Reconciliation("observation", d, remote, k, commit)
  BY <1>3 DEF Observation
<1>8. IsPrefix(commit, remote[Main]) /\ commit \in Commit
  BY <1>5, <1>6, PrefixLaws
<1>9. k \in Finished(d) /\ d.tracks[k].dest = commit
  BY <1>1, <1>3
<1>10. k \notin DOMAIN d.tags
  BY <1>6, <1>9, RecordFields DEF Coherent
<1> HIDE DEF d, k, commit
<1>11. /\ IsJob(Observation(j)) /\ Observation(j).kind = "observation"
       /\ Last(Observation(j).moves[State].new) = next
  BY <1>1, <1>6, <1>7, <1>8, ReconciliationIs DEF d
<1>12. ASSUME Corresponds(next) PROVE ReconcilePlan(Observation(j))
  BY <1>1, <1>5, <1>6, <1>7, <1>8, <1>9, <1>10, <1>12, Reconciles DEF d
<1>13. Accounting(k, next)
  BY <1>1, <1>5, <1>6, <1>9, <1>10 DEF Accounting, d
<1> QED BY <1>3, <1>11, <1>12, <1>13 DEF PlanInv, d, k

-----------------------------------------------------------------------------
(* The destinations a run can first find. *)

LEMMA EmptyIs ==
    /\ IsDestination(Empty) /\ Empty[Main] # None /\ Empty[State] = None
    /\ \A k \in Releases : Empty[Tag(k)] = None /\ Empty[Progress(k)] = None
<1>1. <<Setup>> \in Commit /\ <<Setup>> # None
  BY DEF Commit, Part, None
<1>2. Empty[Main] = <<Setup>> /\ \A ref \in Refs : ref # Main => Empty[ref] = None
  BY RefsApart DEF Empty
<1>3. \A ref \in Refs : Holds(ref, Empty[ref])
  BY <1>1, <1>2, NoCommit, NoHistory, RefsApart DEF Holds
<1> QED BY <1>1, <1>2, <1>3, RefsApart DEF IsDestination, Empty

LEMMA LandedIs ==
    ASSUME NEW refs, IsDestination(refs), NEW j, IsJob(j)
    PROVE  /\ IsDestination(Landed(refs, j))
           /\ \A ref \in DOMAIN j.moves : Landed(refs, j)[ref] = j.moves[ref].new
           /\ \A ref \in Refs \ DOMAIN j.moves : Landed(refs, j)[ref] = refs[ref]
  BY DEF IsDestination, IsJob, WellTyped, Landed

LEMMA FirstReleasedIs ==
    LET commit == FirstCommit(Empty)
        record == FirstRecord(1, FirstCommit(Empty)) IN
    /\ IsDestination(FirstReleased)
    /\ commit \in Commit /\ commit # None
    /\ IsRecord(record) /\ Coherent(record)
    /\ FirstReleased[State] = Append(None, record) /\ Doc(FirstReleased) = record
    /\ FirstReleased[Main] = commit /\ FirstReleased[Tag(1)] = commit
    /\ \A k \in Releases \ {1} : FirstReleased[Tag(k)] = None
<1> DEFINE j == Initial(Empty, 1)
           commit == FirstCommit(Empty)
           record == FirstRecord(1, FirstCommit(Empty))
<1>1. /\ IsJob(j) /\ DOMAIN j.moves = {State, Main, Tag(1)}
      /\ j.moves[Main].new = commit /\ commit \in Commit /\ commit # None
      /\ j.moves[Tag(1)].new = commit
      /\ j.moves[State].old = None /\ Extends(j.moves[State])
      /\ Last(j.moves[State].new) = record
  BY EmptyIs, FirstPlanned
<1>2. FirstReleased = Landed(Empty, j)
  BY DEF FirstReleased
<1> HIDE DEF j, commit, record
<1>3. IsRecord(record) /\ Coherent(record)
  BY <1>1, FirstRecordIs DEF commit, record
<1>4. j.moves[State].new = Append(None, record)
  BY <1>1 DEF Extends
<1>5. /\ IsDestination(FirstReleased)
      /\ FirstReleased[State] = Append(None, record)
      /\ FirstReleased[Main] = commit /\ FirstReleased[Tag(1)] = commit
  BY <1>1, <1>2, <1>4, EmptyIs, LandedIs
<1>6. Doc(FirstReleased) = record
  BY <1>3, <1>5, NoHistory, Grown DEF Doc, Document
<1>7. \A k \in Releases \ {1} : FirstReleased[Tag(k)] = None
  BY <1>1, <1>2, EmptyIs, LandedIs, RefsApart, Numbers
<1> QED BY <1>1, <1>3, <1>5, <1>6, <1>7 DEF commit, record

LEMMA FirstSound ==
    ASSUME remote = FirstReleased, released = FirstTags
    PROVE  RemoteInv
<1> DEFINE record == Doc(remote)
           commit == remote[Main]
<1>1. /\ IsRecord(record) /\ Coherent(record) /\ record = FirstRecord(1, commit)
      /\ commit \in Commit /\ commit # None
      /\ remote[State] = Append(None, record) /\ remote[Tag(1)] = commit
      /\ \A k \in Releases \ {1} : remote[Tag(k)] = None
  BY FirstReleasedIs
<1> HIDE DEF record, commit
<1>2. /\ record.tags = <<>> /\ record.tracks = <<>> /\ record.branch = NoBranch
      /\ record.cursors[1] = commit /\ DOMAIN record.cursors = {1}
  BY <1>1, FirstRecordIs
<1>3. DOMAIN record.tags = {} /\ DOMAIN record.tracks = {} /\ record.branch.rel = 0
  BY <1>2, EmptyMentions DEF NoBranch
<1>4. \A i \in DOMAIN remote[State] : remote[State][i] = record
  BY <1>1, NoHistory, NoCommit, Grown
<1>5. Claims(record, remote) /\ TracksAre(record, remote)
  BY <1>3 DEF Claims, TracksAre
<1>6. \A k \in Tagged(remote) : k = 1
  BY <1>1 DEF Tagged
<1>7. \A k \in Tagged(remote) : Accounts(record, k, remote[Tag(k)])
  BY <1>1, <1>2, <1>6 DEF Accounts
<1>8. \A i, k \in Adopted(remote) : i = k
  BY <1>6 DEF Adopted
<1> QED BY <1>1, <1>4, <1>5, <1>7, <1>8, SourceAssumption DEF RemoteInv, record, commit

LEMMA RecordedSound ==
    ASSUME remote = Recorded, released = FirstTags
    PROVE  RemoteInv /\ IsDestination(Recorded)
<1> DEFINE refs == FirstReleased
           d == Doc(refs)
           commit == refs[Main]
           j == Reconciliation("adoption", Doc(refs), refs, 1, refs[Main])
           next == Accounted(Doc(refs), refs, 1, refs[Main])
<1>1. /\ IsDestination(refs) /\ 1 \in Releases
      /\ IsRecord(d) /\ Coherent(d) /\ d = FirstRecord(1, commit)
      /\ commit \in Commit /\ commit # None
      /\ refs[State] = Append(None, d) /\ refs[Tag(1)] = commit
      /\ \A k \in Releases \ {1} : refs[Tag(k)] = None
  BY FirstReleasedIs, Numbers
<1>2. /\ IsJob(j)
      /\ {State, Main, Tag(1)} \subseteq DOMAIN j.moves
      /\ \A ref \in DOMAIN j.moves \ {State} :
            j.moves[ref].new = j.moves[ref].old /\ j.moves[ref].old = refs[ref]
      /\ j.moves[State].new = Append(refs[State], next)
  BY <1>1, ReconciliationIs
<1>3. remote = Landed(refs, j)
  BY DEF Recorded
<1>4. IsDestination(remote) /\ remote[State] = Append(refs[State], next)
  BY <1>1, <1>2, <1>3, LandedIs
<1>5. \A ref \in Refs \ {State} : remote[ref] = refs[ref]
  BY <1>1, <1>2, <1>3, LandedIs
<1> HIDE DEF j
<1>6. /\ IsRecord(next)
      /\ next.branch.rel = 1 /\ next.branch.object = commit
      /\ \A k : k \in DOMAIN next.cursors <=> k = 1 \/ k \in DOMAIN d.cursors
      /\ next.cursors[1] = commit
      /\ \A k : k \in DOMAIN next.tags <=> k = 1 \/ k \in DOMAIN d.tags
      /\ next.tags[1] = refs[Tag(1)]
      /\ \A k : k \in DOMAIN next.tracks <=> k \in DOMAIN d.tracks /\ (1 \in Finished(d) => k # 1)
  BY <1>1, AccountedIs
<1>7. /\ DOMAIN d.tags = {} /\ DOMAIN d.tracks = {} /\ DOMAIN d.cursors = {1} /\ d.cursors[1] = commit
  <2>1. d.tags = <<>> /\ d.tracks = <<>> /\ DOMAIN d.cursors = {1} /\ d.cursors[1] = commit
    BY <1>1, FirstRecordIs
  <2> QED BY <2>1, EmptyMentions
<1> HIDE DEF d, next, commit, refs
<1>8. /\ DOMAIN next.tags = {1} /\ DOMAIN next.tracks = {} /\ DOMAIN next.cursors = {1}
  BY <1>6, <1>7
<1>9. Corresponds(next)
  <2>1. \A i \in Images(next) : i = <<At[1], commit>>
    BY <1>6, <1>8 DEF Images
  <2>2. IsInjective(next.tags)
    BY <1>8 DEF IsInjective
  <2> QED BY <2>1, <2>2 DEF Corresponds
<1>10. Coherent(next)
  <2>1. 1 \notin DOMAIN d.tags /\ 1 \notin Finished(d)
    BY <1>7 DEF Finished, Completed
  <2>2. next = Accounted(d, refs, 1, commit)
    BY DEF next, d, commit
  <2> QED BY <1>1, <1>7, <1>9, <2>1, <2>2, AccountedCoherent
<1>11. IsHistory(refs[State])
  BY <1>1, RemoteTypes
<1>12. \A i \in DOMAIN remote[State] :
            remote[State][i] = next \/ (i \in DOMAIN refs[State] /\ remote[State][i] = refs[State][i])
  BY <1>4, <1>6, <1>11, Grown
<1>13. \A i \in DOMAIN refs[State] : refs[State][i] = d
  BY <1>1, NoHistory, NoCommit, Grown
<1>14. \A i \in DOMAIN remote[State] : Coherent(remote[State][i])
  BY <1>1, <1>10, <1>12, <1>13
<1>15. Doc(remote) = next
  BY <1>4, <1>6, <1>11, Grown DEF Doc, Document
<1>16. /\ remote[Main] = commit /\ remote[Tag(1)] = commit
       /\ \A k \in Releases \ {1} : remote[Tag(k)] = None
  BY <1>1, <1>5, RefsApart DEF commit
<1>17. Claims(next, remote) /\ TracksAre(next, remote)
  BY <1>1, <1>6, <1>8, <1>16, PrefixLaws DEF Claims, TracksAre
<1>18. \A k \in Tagged(remote) : k = 1
  BY <1>16 DEF Tagged
<1>19. \A k \in Tagged(remote) : Accounts(next, k, remote[Tag(k)])
  BY <1>6, <1>8, <1>16, <1>18 DEF Accounts
<1>20. \A i, k \in Adopted(remote) : i = k
  BY <1>18 DEF Adopted
<1>21. RemoteInv
  BY <1>1, <1>14, <1>15, <1>16, <1>17, <1>19, <1>20, SourceAssumption DEF RemoteInv
<1> QED BY <1>4, <1>21

-----------------------------------------------------------------------------
(* Every step keeps the invariant. *)

LEMMA IdleType == IsJob(Idle) /\ IsDestination(FirstReleased)
<1>1. DOMAIN <<>> = {}
  BY EmptyMentions
<1>2. WellTyped(<<>>)
  BY <1>1 DEF WellTyped
<1>3. IsJob(Idle)
  BY <1>2 DEF IsJob, Idle
<1> QED BY <1>3, FirstReleasedIs

LEMMA InitRest == ASSUME Init, RemoteInv, IsDestination(remote) PROVE SyncInv
<1>1. /\ released \subseteq Releases /\ crashes \in 0 .. MaxCrashes /\ operated \in 0 .. MaxOperator
  BY Numbers, SourceAssumption DEF Init
<1>2. /\ wire = {} /\ \A r \in Runs : pc[r] = "idle" /\ job[r] = Idle /\ seen[r] = {}
      /\ DOMAIN seen = Runs /\ DOMAIN job = Runs
  BY DEF Init
<1>3. /\ pc \in [Runs -> {"idle", "started", "planned", "sending", "pushed", "done", "refused", "broken"}]
      /\ head \in [Runs -> Commit]
  BY NoCommit DEF Init
<1>4. TypeOK
  BY <1>1, <1>2, <1>3, IdleType DEF TypeOK
<1>5. WireInv /\ JobInv
  BY <1>2 DEF WireInv, JobInv
<1> QED BY <1>4, <1>5 DEF SyncInv

LEMMA InitInv == Init => SyncInv
<1> SUFFICES ASSUME Init PROVE SyncInv
  OBVIOUS
<1>1. CASE AtFirst = "setup"
  <2>1. remote = Empty /\ IsDestination(remote) /\ released = FirstTags
    BY <1>1, EmptyIs DEF Init
  <2>2. Doc(remote) = Unrecorded /\ Tagged(remote) = {} /\ DOMAIN remote[State] = {} /\ remote[Main] # None
    BY <2>1, EmptyIs, NoCommit DEF Doc, Document, Tagged
  <2>3. Claims(Unrecorded, remote) /\ TracksAre(Unrecorded, remote)
    BY UnrecordedType DEF Claims, TracksAre, NoBranch
  <2>4. Adopted(remote) = {}
    BY <2>2 DEF Adopted
  <2>5. RemoteInv
    BY <2>1, <2>2, <2>3, <2>4, SourceAssumption DEF RemoteInv
  <2> QED BY <2>1, <2>5, InitRest
<1>2. CASE AtFirst = "first release"
  <2>1. remote = FirstReleased /\ released = FirstTags
    BY <1>2 DEF Init
  <2> QED BY <2>1, FirstSound, IdleType, InitRest
<1>3. CASE AtFirst = "recorded"
  <2>1. remote = Recorded /\ released = FirstTags
    BY <1>3 DEF Init
  <2> QED BY <2>1, RecordedSound, InitRest
<1> QED BY <1>1, <1>2, <1>3, SourceAssumption

(* A step that leaves the destination alone keeps every plan and push it does
   not make. *)
LEMMA QuietStep ==
    ASSUME SyncInv, TypeOK', remote' = remote, released' = released,
           \A r \in Runs : pc'[r] \in {"planned", "sending", "pushed"} =>
                \/ job'[r] = job[r] /\ pc[r] \in {"planned", "sending", "pushed"}
                \/ PlanInv(job[r])',
           \A p \in wire' :
                /\ \/ \E q \in wire : p.moves = q.moves
                   \/ IF State \in DOMAIN p.moves THEN StatePush(p.moves) ELSE ReleasePush(p.moves)
                /\ p.live => pc'[p.run] = "sending" /\ \A q \in wire' : q.live /\ q.run = p.run => q = p
    PROVE  SyncInv'
<1>1. RemoteInv'
  BY DEF SyncInv, RemoteInv
<1>2. ASSUME NEW p \in wire'
      PROVE  IF State \in DOMAIN p.moves THEN StatePush(p.moves)' ELSE ReleasePush(p.moves)'
  <2>1. WellTyped(p.moves) /\ Evolves
    BY DEF TypeOK, IsPush, Evolves
  <2>2. IF State \in DOMAIN p.moves THEN StatePush(p.moves) ELSE ReleasePush(p.moves)
    BY DEF SyncInv, WireInv
  <2>3. CASE State \in DOMAIN p.moves
    BY <2>1, <2>2, <2>3, StatePushStays DEF SyncInv
  <2>4. CASE State \notin DOMAIN p.moves
    BY <2>1, <2>2, <2>4, ReleasePushStays DEF SyncInv
  <2> QED BY <2>3, <2>4
<1>3. WireInv'
  BY <1>2 DEF WireInv
<1>4. JobInv'
  <2> SUFFICES ASSUME NEW q \in Runs, pc'[q] \in {"planned", "sending", "pushed"} PROVE PlanInv(job[q])'
    BY DEF JobInv
  <2>1. CASE job'[q] = job[q] /\ pc[q] \in {"planned", "sending", "pushed"}
    BY <2>1, PlansStay DEF SyncInv, JobInv, Evolves
  <2> QED BY <2>1
<1> QED BY <1>1, <1>3, <1>4 DEF SyncInv

LEMMA StartInv == ASSUME SyncInv, NEW r \in Runs, Start(r) PROVE SyncInv'
<1>1. TypeOK'
  <2>1. remote[Main] \in Commit
    BY RemoteTypes DEF SyncInv, TypeOK
  <2>2. \A q \in Runs : IsJob(job'[q])
    BY IdleType DEF SyncInv, TypeOK, Start
  <2>3. \A q \in Runs : \A history \in seen'[q] : IsHistory(history)
    BY DEF SyncInv, TypeOK, Start
  <2> QED BY <2>1, <2>2, <2>3 DEF SyncInv, TypeOK, Start
<1>2. ASSUME NEW q \in Runs, pc'[q] \in {"planned", "sending", "pushed"}
      PROVE  job'[q] = job[q] /\ pc[q] \in {"planned", "sending", "pushed"}
  BY <1>2 DEF Start, SyncInv, TypeOK
<1>3. ASSUME NEW p \in wire, p.live
      PROVE  pc'[p.run] = "sending" /\ \A q \in wire : q.live /\ q.run = p.run => q = p
  <2>1. pc[p.run] = "sending" /\ p.run \in Runs
    BY <1>3 DEF SyncInv, WireInv, TypeOK, IsPush
  <2>2. p.run # r
    BY <2>1 DEF Start
  <2> QED BY <1>3, <2>1, <2>2 DEF Start, SyncInv, TypeOK, WireInv
<1> QED BY <1>1, <1>2, <1>3, QuietStep DEF Start

LEMMA DiscoverInv == ASSUME SyncInv, NEW r \in Runs, Discover(r) PROVE SyncInv'
<1>1. /\ pc[r] = "started" /\ remote' = remote /\ released' = released /\ wire' = wire
      /\ \/ \E phase \in {"refused", "done"} : pc' = [pc EXCEPT ![r] = phase] /\ seen' = seen /\ job' = job
         \/ \E j \in Decisions(remote) :
                /\ Discovered(r)
                /\ seen' = [seen EXCEPT ![r] = @ \cup ({remote[State]} \ {None})]
                /\ job' = [job EXCEPT ![r] = j]
                /\ pc' = [pc EXCEPT ![r] = IF Breaks(Doc(remote), j) THEN "broken" ELSE "planned"]
  BY DEF Discover
<1>2. ASSUME NEW p \in wire, p.live
      PROVE  pc'[p.run] = "sending" /\ \A q \in wire : q.live /\ q.run = p.run => q = p
  <2>1. pc[p.run] = "sending" /\ p.run \in Runs /\ p.run # r
    BY <1>1, <1>2 DEF SyncInv, WireInv, TypeOK, IsPush
  <2> QED BY <1>1, <1>2, <2>1 DEF SyncInv, TypeOK, WireInv
<1>3. ASSUME NEW phase \in {"refused", "done"}, pc' = [pc EXCEPT ![r] = phase], seen' = seen, job' = job
      PROVE  SyncInv'
  <2>1. TypeOK'
    BY <1>1, <1>3 DEF SyncInv, TypeOK, Discover
  <2>2. ASSUME NEW q \in Runs, pc'[q] \in {"planned", "sending", "pushed"}
        PROVE  job'[q] = job[q] /\ pc[q] \in {"planned", "sending", "pushed"}
    BY <1>3, <2>2 DEF SyncInv, TypeOK
  <2> QED BY <1>1, <1>2, <2>1, <2>2, QuietStep
<1>4. ASSUME NEW j \in Decisions(remote), Discovered(r),
             seen' = [seen EXCEPT ![r] = @ \cup ({remote[State]} \ {None})],
             job' = [job EXCEPT ![r] = j],
             pc' = [pc EXCEPT ![r] = IF Breaks(Doc(remote), j) THEN "broken" ELSE "planned"]
      PROVE  SyncInv'
  <2>1. IsJob(j) /\ (~Breaks(Doc(remote), j) => PlanInv(j))
    BY <1>4, DecisionIs DEF SyncInv
  <2>2. TypeOK'
    <3>1. IsHistory(remote[State])
      BY RemoteTypes DEF SyncInv, TypeOK
    <3>2. \A q \in Runs : \A history \in seen'[q] : IsHistory(history)
      BY <1>4, <3>1 DEF SyncInv, TypeOK
    <3>3. \A q \in Runs : IsJob(job'[q])
      BY <1>4, <2>1 DEF SyncInv, TypeOK
    <3>4. pc' \in [Runs -> {"idle", "started", "planned", "sending", "pushed", "done", "refused", "broken"}]
      BY <1>4 DEF SyncInv, TypeOK
    <3> QED BY <1>1, <1>4, <3>2, <3>3, <3>4 DEF SyncInv, TypeOK, Discover
  <2>3. ASSUME NEW q \in Runs, pc'[q] \in {"planned", "sending", "pushed"}
        PROVE  \/ job'[q] = job[q] /\ pc[q] \in {"planned", "sending", "pushed"}
               \/ PlanInv(job[q])'
    <3>1. CASE q # r
      BY <1>4, <2>3, <3>1 DEF SyncInv, TypeOK
    <3>2. CASE q = r
      <4>1. ~Breaks(Doc(remote), j)
        BY <1>4, <2>3, <3>2 DEF SyncInv, TypeOK
      <4>2. PlanInv(j)
        BY <2>1, <4>1
      <4>3. PlanInv(j)'
        BY <1>1, <2>1, <2>2, <4>2, PlanStays DEF SyncInv, Evolves
      <4>4. job'[q] = j
        BY <1>4, <3>2 DEF SyncInv, TypeOK
      <4> QED BY <4>3, <4>4
    <3> QED BY <3>1, <3>2
  <2> QED BY <1>1, <1>2, <2>2, <2>3, QuietStep
<1> QED BY <1>1, <1>3, <1>4

LEMMA SentIs ==
    ASSUME NEW j, IsJob(j), IsDestination(remote), Publishable(j), NEW moves, moves = P!Sent(Batch(j), remote)
    PROVE  /\ WellTyped(moves)
           /\ \A ref : ref \in DOMAIN moves <=> ref \in Half(j) /\ remote[ref] # j.moves[ref].new
           /\ \A ref \in Half(j) : remote[ref] = j.moves[ref].old
           /\ \A ref \in DOMAIN moves : moves[ref].old = j.moves[ref].old /\ moves[ref].new = j.moves[ref].new
<1>1. Half(j) \subseteq DOMAIN j.moves /\ DOMAIN j.moves \subseteq Refs
  BY DEF Half, IsJob, WellTyped
<1>2. \A ref \in Half(j) : remote[ref] = j.moves[ref].old
  BY <1>1 DEF Publishable
<1>3. /\ \A ref : ref \in DOMAIN moves <=> ref \in Half(j) /\ remote[ref] # j.moves[ref].new
      /\ \A ref \in DOMAIN moves : moves[ref] = [old |-> remote[ref], new |-> j.moves[ref].new]
  BY DEF P!Sent, P!Outstanding, Batch
<1>4. \A ref \in DOMAIN moves : moves[ref].old = j.moves[ref].old /\ moves[ref].new = j.moves[ref].new
  BY <1>2, <1>3
<1>5. WellTyped(moves)
  <2>1. \A ref \in DOMAIN moves : ref \in Refs /\ Holds(ref, remote[ref]) /\ Holds(ref, j.moves[ref].new)
    BY <1>1, <1>3 DEF IsJob, WellTyped, IsDestination
  <2>2. \A ref \in DOMAIN moves : moves[ref].old = remote[ref] /\ moves[ref].new = j.moves[ref].new
    BY <1>3
  <2> QED BY <1>3, <2>1, <2>2 DEF WellTyped
<1> QED BY <1>2, <1>3, <1>4, <1>5

LEMMA BatchIs == ASSUME NEW j PROVE DOMAIN Batch(j) = Half(j) /\ \A ref \in Half(j) : Batch(j)[ref] = j.moves[ref]
  BY DEF Batch

(* What a run sends is a push: of a release, or of a record. *)
LEMMA ReleaseSent ==
    ASSUME TypeOK, RemoteInv, NEW j, IsJob(j), Publishable(j), j.half = "consumer",
           NEW k \in Releases, Releasing(j.moves, k), Accounts(Doc(remote), k, j.moves[Main].new),
           NEW moves, moves = P!Sent(Batch(j), remote)
    PROVE  State \notin DOMAIN moves /\ ReleasePush(moves)
<1>1. /\ \A ref : ref \in DOMAIN moves <=> ref \in Half(j) /\ remote[ref] # j.moves[ref].new
      /\ \A ref \in Half(j) : remote[ref] = j.moves[ref].old
      /\ \A ref \in DOMAIN moves : moves[ref].old = j.moves[ref].old /\ moves[ref].new = j.moves[ref].new
  BY SentIs DEF TypeOK
<1>2. \A ref : ref \in Half(j) <=> ref = Main \/ ref = Tag(k)
  BY RefsApart DEF Half, Releasing, Consumer
<1>3. DOMAIN moves = {Main, Tag(k)}
  BY <1>1, <1>2 DEF Releasing
<1>4. remote[Main] = j.moves[Main].old /\ Main \in DOMAIN j.moves
  BY <1>1, <1>2 DEF Releasing
<1>5. IsPrefix(j.moves[Main].old, j.moves[Main].new)
  BY <1>4 DEF Publishable, Forward, Releasing, RemoteInv
<1> QED BY <1>1, <1>3, <1>5, RefsApart DEF Releasing, ReleasePush

LEMMA RecordSent ==
    ASSUME TypeOK, RemoteInv, NEW j, IsJob(j), Publishable(j), j.half # "consumer",
           PlanInv(j), NEW moves, moves = P!Sent(Batch(j), remote), P!Outstanding(Batch(j), remote) # {}
    PROVE  State \in DOMAIN moves /\ StatePush(moves)
<1> DEFINE next == Last(j.moves[State].new)
<1>1. /\ WellTyped(moves)
      /\ \A ref : ref \in DOMAIN moves <=> ref \in Half(j) /\ remote[ref] # j.moves[ref].new
      /\ \A ref \in Half(j) : remote[ref] = j.moves[ref].old
      /\ \A ref \in DOMAIN moves : moves[ref].old = j.moves[ref].old /\ moves[ref].new = j.moves[ref].new
  BY SentIs DEF TypeOK
<1>2. \E ref : ref \in Half(j) /\ remote[ref] # j.moves[ref].new
  BY BatchIs DEF P!Outstanding
<1>3. IsHistory(remote[State]) /\ IsRecord(Doc(remote)) /\ Len(remote[State]) \in Nat
  BY RemoteTypes, HistoryLength DEF TypeOK
<1>4. j.kind # "release"
  BY DEF PlanInv, ReleasePlan
<1>5. j.kind # "verify"
  BY <1>1, <1>2 DEF PlanInv, Half
<1>6. ASSUME State \in Half(j), Extends(j.moves[State])
      PROVE  /\ State \in DOMAIN moves /\ moves[State].old = remote[State] /\ Extends(moves[State])
             /\ moves[State].new = j.moves[State].new
             /\ Document(j.moves[State].old) = Doc(remote) /\ Document(moves[State].old) = Doc(remote)
             /\ j.moves[State].old = remote[State]
             /\ IsRecord(next)
  <2>1. j.moves[State].old = remote[State] /\ j.moves[State].new = Append(remote[State], next)
    BY <1>1, <1>6 DEF Extends
  <2>2. j.moves[State].new # None /\ IsRecord(next) /\ State \in DOMAIN j.moves
    BY <1>6, MoveTypes DEF Extends, Half, IsJob
  <2>3. j.moves[State].new # remote[State]
    BY <1>3, <2>1, <2>2, Grown
  <2>4. State \in DOMAIN moves /\ moves[State].old = remote[State] /\ moves[State].new = j.moves[State].new
    BY <1>1, <1>6, <2>1, <2>3
  <2>5. Extends(moves[State])
    BY <1>6, <2>1, <2>4 DEF Extends
  <2> QED BY <2>1, <2>2, <2>4, <2>5 DEF Doc
<1>7. CASE j.kind = "initial"
  <2>1. /\ FirstPlan(j) /\ j.half = "non-consumer"
        /\ DOMAIN j.moves = {State, Main, Tag(1)} /\ Extends(j.moves[State])
        /\ next.tags = <<>> /\ next.tracks = <<>> /\ next.branch = NoBranch
        /\ j.moves[State].old = None
    BY <1>7 DEF PlanInv, FirstPlan, Releasing
  <2>2. \A ref : ref \in Half(j) <=> ref = State
    BY <2>1, RefsApart, Numbers DEF Half, Consumer
  <2>3. /\ State \in DOMAIN moves /\ moves[State].old = remote[State] /\ Extends(moves[State])
        /\ moves[State].new = j.moves[State].new /\ Document(moves[State].old) = Doc(remote)
        /\ j.moves[State].old = remote[State]
    BY <1>6, <2>1, <2>2
  <2>4. DOMAIN next.tags = {} /\ DOMAIN next.tracks = {} /\ next.branch.rel = 0
    BY <2>1, EmptyMentions DEF NoBranch
  <2>5. Claims(next, remote)
    BY <2>4 DEF Claims
  <2>6. DOMAIN Document(moves[State].old).tags = {}
    BY <2>1, <2>3, UnrecordedType DEF Document
  <2> QED BY <1>1, <1>3, <2>2, <2>3, <2>4, <2>5, <2>6 DEF StatePush
<1>8. CASE j.kind = "checkpoint"
  <2> DEFINE k == j.rel
  <2>1. /\ k \in Releases /\ j.half = "non-consumer"
        /\ DOMAIN j.moves = {State, Progress(k)} /\ Extends(j.moves[State])
        /\ next.tags = Document(j.moves[State].old).tags /\ next.branch = Document(j.moves[State].old).branch
        /\ \A i \in DOMAIN next.tracks :
                IF i = k THEN next.tracks[i].dest = j.moves[Progress(k)].new
                ELSE /\ i \in DOMAIN Document(j.moves[State].old).tracks
                     /\ next.tracks[i] = Document(j.moves[State].old).tracks[i]
    BY <1>8 DEF PlanInv, CheckpointPlan
  <2> HIDE DEF k
  <2>2. \A ref : ref \in Half(j) <=> ref = State \/ ref = Progress(k)
    BY <2>1, RefsApart DEF Half, Consumer
  <2>3. /\ State \in DOMAIN moves /\ moves[State].old = remote[State] /\ Extends(moves[State])
        /\ moves[State].new = j.moves[State].new /\ Document(j.moves[State].old) = Doc(remote)
        /\ Document(moves[State].old) = Doc(remote) /\ IsRecord(next)
    BY <1>6, <2>1, <2>2
  <2>4. Claims(next, remote)
    BY <2>1, <2>3 DEF RemoteInv, Claims
  <2>5. \A i \in DOMAIN next.tracks :
            next.tracks[i].dest = IF Progress(i) \in DOMAIN moves THEN moves[Progress(i)].new ELSE remote[Progress(i)]
    <3> TAKE i \in DOMAIN next.tracks
    <3>0. i \in Releases
      BY <2>3, RecordFields
    <3>1. CASE i = k
      <4>1. next.tracks[i].dest = j.moves[Progress(k)].new
        BY <2>1, <3>1
      <4>2. Progress(k) \in Half(j)
        BY <2>2
      <4> QED BY <1>1, <3>1, <4>1, <4>2
    <3>2. CASE i # k
      <4>1. Progress(i) \notin DOMAIN moves
        BY <1>1, <2>1, <2>2, <3>0, <3>2, RefsApart
      <4>2. next.tracks[i].dest = remote[Progress(i)]
        BY <2>1, <2>3, <3>2 DEF RemoteInv, TracksAre
      <4> QED BY <4>1, <4>2
    <3> QED BY <3>1, <3>2
  <2>6. \A ref \in DOMAIN moves : ref = State \/ \E i \in Releases : ref = Progress(i)
    BY <1>1, <2>1, <2>2
  <2>7. DOMAIN next.tags = DOMAIN Document(moves[State].old).tags
    BY <2>1, <2>3
  <2>8. Len(moves[State].old) <= Len(remote[State])
    BY <1>3, <2>3
  <2> QED BY <2>3, <2>4, <2>5, <2>6, <2>7, <2>8 DEF StatePush
<1>9. CASE j.kind \in {"adoption", "observation"}
  <2> DEFINE k == j.rel
  <2>1. /\ k \in Releases /\ j.half = "reconcile"
        /\ {State, Main, Tag(k)} \subseteq DOMAIN j.moves
        /\ \A ref \in DOMAIN j.moves \ {State} : j.moves[ref].new = j.moves[ref].old
        /\ Extends(j.moves[State]) /\ Records(j.moves[State], k)
        /\ next.tags[k] = j.moves[Tag(k)].old
        /\ IsPrefix(next.branch.object, j.moves[Main].old)
        /\ Keeps(next.tracks, Document(j.moves[State].old).tracks)
    BY <1>9 DEF PlanInv, ReconcilePlan
  <2> HIDE DEF k
  <2>2. \A ref : ref \in Half(j) <=> ref \in DOMAIN j.moves
    BY <2>1 DEF Half
  <2>3. /\ State \in DOMAIN moves /\ moves[State].old = remote[State] /\ Extends(moves[State])
        /\ moves[State].new = j.moves[State].new /\ Document(j.moves[State].old) = Doc(remote)
        /\ Document(moves[State].old) = Doc(remote) /\ IsRecord(next)
    BY <1>6, <2>1, <2>2
  <2>4. \A ref \in DOMAIN moves : ref = State
    BY <1>1, <2>1, <2>2
  <2>5. remote[Main] = j.moves[Main].old /\ remote[Tag(k)] = j.moves[Tag(k)].old
    BY <1>1, <2>1, <2>2
  <2>6. Succeeds(Doc(remote), next)
    BY <2>1, <2>3 DEF Extends
  <2>7. Claims(next, remote)
    <3>1. \A i \in DOMAIN next.tags : i = k \/ i \in DOMAIN Doc(remote).tags
      BY <2>1, <2>3 DEF Records
    <3>2. \A i \in DOMAIN Doc(remote).tags : next.tags[i] = Doc(remote).tags[i]
      BY <2>6 DEF Succeeds, Keeps
    <3> QED BY <2>1, <2>5, <3>1, <3>2 DEF RemoteInv, Claims
  <2>8. \A i \in DOMAIN next.tracks : Progress(i) \notin DOMAIN moves /\ next.tracks[i].dest = remote[Progress(i)]
    <3>1. \A i \in DOMAIN next.tracks : i \in Releases
      BY <2>3, RecordFields
    <3> QED BY <2>1, <2>3, <2>4, <3>1, RefsApart DEF Keeps, RemoteInv, TracksAre
  <2>9. Records(moves[State], k)
    BY <2>1, <2>3 DEF Records
  <2>10. Len(moves[State].old) <= Len(remote[State])
    BY <1>3, <2>3
  <2> QED BY <2>1, <2>3, <2>4, <2>7, <2>8, <2>9, <2>10 DEF StatePush
<1> QED BY <1>4, <1>5, <1>7, <1>8, <1>9 DEF PlanInv

LEMMA SendInv == ASSUME SyncInv, NEW r \in Runs, Send(r) PROVE SyncInv'
<1> DEFINE j == job[r]
           moves == P!Sent(Batch(j), remote)
           push == [run |-> r, live |-> TRUE, moves |-> moves]
<1>0. IsJob(j) /\ PlanInv(j) /\ pc[r] = "planned" /\ IsDestination(remote)
  BY DEF Send, SyncInv, TypeOK, JobInv
<1>1. /\ remote' = remote /\ released' = released /\ job' = job /\ seen' = seen /\ head' = head
      /\ crashes' = crashes /\ operated' = operated
      /\ \/ \E phase \in {"refused", "pushed"} : pc' = [pc EXCEPT ![r] = phase] /\ wire' = wire
         \/ /\ Publishable(j) /\ P!Outstanding(Batch(j), remote) # {}
            /\ wire' = wire \cup {push} /\ pc' = [pc EXCEPT ![r] = "sending"]
  BY DEF Send
<1>2. ASSUME NEW p \in wire, p.live
      PROVE  /\ pc[p.run] = "sending" /\ p.run \in Runs /\ p.run # r
             /\ \A q \in wire : q.live /\ q.run = p.run => q = p
  BY <1>0, <1>2 DEF SyncInv, WireInv, TypeOK, IsPush
<1>3. ASSUME NEW q \in Runs, pc'[q] \in {"planned", "sending", "pushed"}
      PROVE  job'[q] = job[q] /\ pc[q] \in {"planned", "sending", "pushed"}
  BY <1>0, <1>1, <1>3 DEF SyncInv, TypeOK
<1>4. ASSUME NEW phase \in {"refused", "pushed"}, pc' = [pc EXCEPT ![r] = phase], wire' = wire
      PROVE  SyncInv'
  <2>1. TypeOK'
    BY <1>1, <1>4 DEF SyncInv, TypeOK
  <2>2. ASSUME NEW p \in wire, p.live
        PROVE  pc'[p.run] = "sending" /\ \A q \in wire : q.live /\ q.run = p.run => q = p
    BY <1>2, <1>4, <2>2 DEF SyncInv, TypeOK
  <2> QED BY <1>1, <1>3, <1>4, <2>1, <2>2, QuietStep
<1>5. ASSUME Publishable(j), P!Outstanding(Batch(j), remote) # {},
             wire' = wire \cup {push}, pc' = [pc EXCEPT ![r] = "sending"]
      PROVE  SyncInv'
  <2>1. WellTyped(moves)
    BY <1>0, <1>5, SentIs
  <2>2. IF State \in DOMAIN moves THEN StatePush(moves) ELSE ReleasePush(moves)
    <3>1. CASE j.half # "consumer"
      BY <1>0, <1>5, <3>1, RecordSent DEF SyncInv
    <3>2. CASE j.half = "consumer" /\ j.kind = "initial"
      <4>1. Releasing(j.moves, 1) /\ Accounts(Doc(remote), 1, j.moves[Main].new)
        BY <1>0, <3>2 DEF PlanInv, FirstPlan
      <4> QED BY <1>0, <1>5, <3>2, <4>1, Numbers, ReleaseSent DEF SyncInv
    <3>3. CASE j.half = "consumer" /\ j.kind = "release"
      <4>1. /\ j.rel \in Releases /\ Releasing(j.moves, j.rel)
            /\ j.moves[State].old # None /\ j.moves[State].new = j.moves[State].old
            /\ j.rel \in Finished(Last(j.moves[State].new))
            /\ Last(j.moves[State].new).tracks[j.rel].dest = j.moves[Main].new
        BY <1>0, <3>3 DEF PlanInv, ReleasePlan
      <4>2. remote[State] = j.moves[State].old
        BY <1>5, <3>3, <4>1 DEF Publishable, Releasing
      <4>3. Accounts(Doc(remote), j.rel, j.moves[Main].new)
        BY <4>1, <4>2 DEF Accounts, Doc, Document
      <4> QED BY <1>0, <1>5, <3>3, <4>1, <4>3, ReleaseSent DEF SyncInv
    <3> QED BY <1>0, <3>1, <3>2, <3>3 DEF PlanInv, CheckpointPlan, ReconcilePlan
  <2> HIDE DEF moves, j
  <2>3. push.run = r /\ push.live = TRUE /\ push.moves = moves /\ IsPush(push)
    BY <2>1 DEF IsPush
  <2> HIDE DEF push
  <2>4. TypeOK'
    BY <1>1, <1>5, <2>3 DEF SyncInv, TypeOK
  <2>5. ASSUME NEW p \in wire', p.live
        PROVE  pc'[p.run] = "sending" /\ \A q \in wire' : q.live /\ q.run = p.run => q = p
    <3>1. CASE p \in wire
      BY <1>2, <1>5, <2>3, <2>5, <3>1 DEF SyncInv, TypeOK
    <3>2. CASE p = push
      BY <1>2, <1>5, <2>3, <3>2 DEF SyncInv, TypeOK
    <3> QED BY <1>5, <3>1, <3>2
  <2>6. ASSUME NEW p \in wire'
        PROVE  \/ \E q \in wire : p.moves = q.moves
               \/ IF State \in DOMAIN p.moves THEN StatePush(p.moves) ELSE ReleasePush(p.moves)
    <3>1. CASE p \in wire
      BY <3>1
    <3>2. CASE p = push
      BY <2>2, <2>3, <3>2
    <3> QED BY <1>5, <3>1, <3>2
  <2> QED BY <1>1, <1>3, <2>4, <2>5, <2>6, QuietStep
<1> QED BY <1>1, <1>4, <1>5

LEMMA SettleInv == ASSUME SyncInv, NEW r \in Runs, Settle(r) PROVE SyncInv'
<1> DEFINE j == job[r]
           consumer == [j EXCEPT !.half = "consumer"]
<1>0. IsJob(j) /\ PlanInv(j) /\ pc[r] = "pushed" /\ IsDestination(remote)
  BY DEF Settle, SyncInv, TypeOK, JobInv
<1>1. /\ remote' = remote /\ released' = released /\ wire' = wire /\ seen' = seen /\ head' = head
      /\ crashes' = crashes /\ operated' = operated
      /\ \/ \E phase \in {"refused", "started", "done"} : pc' = [pc EXCEPT ![r] = phase] /\ job' = job
         \/ /\ Confirmed(r) /\ j.kind = "initial" /\ j.half = "non-consumer"
            /\ job' = [job EXCEPT ![r].half = "consumer"] /\ pc' = [pc EXCEPT ![r] = "planned"]
         \/ /\ Confirmed(r) /\ j.kind = "release" /\ Observable(j)
            /\ job' = [job EXCEPT ![r] = Observation(j)]
            /\ pc' = [pc EXCEPT ![r] =
                        IF Breaks(Last(j.moves[State].new), Observation(j)) THEN "broken" ELSE "planned"]
  BY DEF Settle
<1>2. ASSUME NEW p \in wire, p.live
      PROVE  pc'[p.run] = "sending" /\ \A q \in wire : q.live /\ q.run = p.run => q = p
  <2>1. pc[p.run] = "sending" /\ p.run \in Runs /\ p.run # r
    BY <1>0, <1>2 DEF SyncInv, WireInv, TypeOK, IsPush
  <2> QED BY <1>1, <1>2, <2>1 DEF SyncInv, WireInv, TypeOK
<1>3. ASSUME NEW q \in Runs, q # r, pc'[q] \in {"planned", "sending", "pushed"}
      PROVE  job'[q] = job[q] /\ pc[q] \in {"planned", "sending", "pushed"}
  BY <1>1, <1>3 DEF SyncInv, TypeOK
<1>4. ASSUME NEW phase \in {"refused", "started", "done"}, pc' = [pc EXCEPT ![r] = phase], job' = job
      PROVE  SyncInv'
  <2>1. TypeOK'
    BY <1>1, <1>4 DEF SyncInv, TypeOK
  <2>2. pc'[r] \notin {"planned", "sending", "pushed"}
    BY <1>4 DEF SyncInv, TypeOK
  <2> QED BY <1>1, <1>2, <1>3, <2>1, <2>2, QuietStep
<1>5. ASSUME NEW plan, IsJob(plan), job' = [job EXCEPT ![r] = plan],
             NEW phase \in {"broken", "planned"}, pc' = [pc EXCEPT ![r] = phase],
             phase = "planned" => PlanInv(plan)
      PROVE  SyncInv'
  <2>1. TypeOK'
    <3>1. \A q \in Runs : IsJob(job'[q])
      BY <1>5 DEF SyncInv, TypeOK
    <3>2. pc' \in [Runs -> {"idle", "started", "planned", "sending", "pushed", "done", "refused", "broken"}]
      BY <1>5 DEF SyncInv, TypeOK
    <3> QED BY <1>1, <1>5, <3>1, <3>2 DEF SyncInv, TypeOK
  <2>2. pc'[r] = phase /\ job'[r] = plan
    BY <1>5 DEF SyncInv, TypeOK
  <2>3. pc'[r] \in {"planned", "sending", "pushed"} => PlanInv(job[r])'
    <3>1. PlanInv(plan) => PlanInv(plan)'
      BY <1>1, <1>5, <2>1, PlanStays DEF SyncInv, Evolves
    <3> QED BY <1>5, <2>2, <3>1
  <2> QED BY <1>1, <1>2, <1>3, <2>1, <2>3, QuietStep
<1>6. ASSUME Confirmed(r), j.kind = "initial", j.half = "non-consumer",
             job' = [job EXCEPT ![r].half = "consumer"], pc' = [pc EXCEPT ![r] = "planned"]
      PROVE  SyncInv'
  <2>1. job' = [job EXCEPT ![r] = consumer]
    BY <1>6 DEF SyncInv, TypeOK
  <2>2. consumer = [kind |-> j.kind, half |-> "consumer", rel |-> j.rel, moves |-> j.moves]
    BY <1>0 DEF IsJob
  <2>3. consumer.kind = j.kind /\ consumer.half = "consumer" /\ consumer.rel = j.rel /\ consumer.moves = j.moves
    BY <2>2
  <2>4. \A ref \in Half(j) : remote[ref] = j.moves[ref].new
    BY <1>6 DEF Confirmed
  <2> HIDE DEF j, consumer
  <2>5. IsJob(consumer)
    BY <1>0, <2>2, <2>3 DEF IsJob
  <2>6. FirstPlan(j)
    BY <1>0, <1>6 DEF PlanInv, FirstPlan
  <2>7. State \in Half(j)
    BY <1>6, <2>6, RefsApart DEF FirstPlan, Releasing, Half, Consumer
  <2>8. remote[State] = j.moves[State].new /\ j.moves[State].new # None
    BY <2>4, <2>6, <2>7 DEF FirstPlan, Extends
  <2>9. /\ Doc(remote) = Last(j.moves[State].new) /\ Coherent(Doc(remote))
        /\ Doc(remote).cursors[1] = j.moves[Main].new
    BY <2>6, <2>8 DEF FirstPlan, Extends, Doc, Document
  <2>10. Accounts(Doc(remote), 1, j.moves[Main].new)
    BY <2>9 DEF Accounts, Coherent
  <2>11. PlanInv(consumer)
    BY <1>6, <2>3, <2>6, <2>10 DEF PlanInv, FirstPlan
  <2> QED BY <1>5, <1>6, <2>1, <2>5, <2>11
<1>7. ASSUME Confirmed(r), j.kind = "release", Observable(j),
             job' = [job EXCEPT ![r] = Observation(j)],
             NEW phase, pc' = [pc EXCEPT ![r] = phase],
             phase = IF Breaks(Last(j.moves[State].new), Observation(j)) THEN "broken" ELSE "planned"
      PROVE  SyncInv'
  <2>1. ReleasePlan(j)
    BY <1>0, <1>7 DEF PlanInv
  <2>2. \A ref \in Half(j) : remote[ref] = j.moves[ref].new
    BY <1>7 DEF Confirmed
  <2> HIDE DEF j
  <2>3. /\ IsJob(Observation(j)) /\ Observation(j).kind = "observation"
        /\ Corresponds(Last(Observation(j).moves[State].new)) => PlanInv(Observation(j))
    BY <1>0, <1>7, <2>1, <2>2, ObservationIs DEF SyncInv
  <2>4. ~Breaks(Last(j.moves[State].new), Observation(j)) => PlanInv(Observation(j))
    BY <2>3 DEF Breaks, Successor, Merges
  <2> QED BY <1>5, <1>7, <2>3, <2>4
<1> QED BY <1>1, <1>4, <1>6, <1>7

LEMMA CrashInv == ASSUME SyncInv, NEW r \in Runs, Crash(r) PROVE SyncInv'
<1> DEFINE mine == {p \in wire : p.run = r /\ p.live}
           silenced == {[p EXCEPT !.live = FALSE] : p \in mine}
<1>1. \A p \in silenced : IsPush(p) /\ p.live = FALSE /\ \E q \in wire : p.moves = q.moves
  <2> TAKE p \in silenced
  <2>1. PICK q \in mine : p = [q EXCEPT !.live = FALSE]
    OBVIOUS
  <2>2. IsPush(q) /\ q \in wire
    BY DEF SyncInv, TypeOK
  <2>3. p = [run |-> q.run, live |-> FALSE, moves |-> q.moves]
    BY <2>1, <2>2 DEF IsPush
  <2>4. p.run = q.run /\ p.live = FALSE /\ p.moves = q.moves
    BY <2>3
  <2> QED BY <2>2, <2>3, <2>4 DEF IsPush
<1>2. /\ wire' \subseteq (wire \ mine) \cup silenced
      /\ pc' = [pc EXCEPT ![r] = "idle"] /\ crashes' = crashes + 1 /\ crashes < MaxCrashes
      /\ remote' = remote /\ released' = released /\ job' = job /\ seen' = seen /\ head' = head
      /\ operated' = operated
  BY DEF Crash
<1> HIDE DEF silenced
<1>3. TypeOK'
  <2>1. \A p \in wire' : IsPush(p)
    BY <1>1, <1>2 DEF SyncInv, TypeOK
  <2>2. crashes' \in 0 .. MaxCrashes
    BY <1>2, Numbers DEF SyncInv, TypeOK
  <2> QED BY <1>2, <2>1, <2>2 DEF SyncInv, TypeOK
<1>4. ASSUME NEW q \in Runs, pc'[q] \in {"planned", "sending", "pushed"}
      PROVE  job'[q] = job[q] /\ pc[q] \in {"planned", "sending", "pushed"}
  BY <1>2, <1>4 DEF SyncInv, TypeOK
<1>5. \A p \in wire' : p.live => p \in wire \ mine
  BY <1>1, <1>2
<1>6. ASSUME NEW p \in wire', p.live
      PROVE  pc'[p.run] = "sending" /\ \A q \in wire' : q.live /\ q.run = p.run => q = p
  <2>1. p \in wire /\ p.run # r /\ p.run \in Runs
    BY <1>5, <1>6 DEF SyncInv, TypeOK, IsPush
  <2>2. pc[p.run] = "sending" /\ \A q \in wire : q.live /\ q.run = p.run => q = p
    BY <1>6, <2>1 DEF SyncInv, WireInv
  <2> QED BY <1>2, <1>5, <2>1, <2>2 DEF SyncInv, TypeOK
<1>7. \A p \in wire' : \E q \in wire : p.moves = q.moves
  BY <1>1, <1>2
<1> QED BY <1>2, <1>3, <1>4, <1>6, <1>7, QuietStep

(* A step that changes the destination keeps what plans and pushes say. *)
LEMMA LoudStep ==
    ASSUME SyncInv, TypeOK', RemoteInv', Evolves, wire' \subseteq wire, job' = job,
           \A r \in Runs : pc'[r] \in {"planned", "sending", "pushed"} =>
                pc[r] \in {"planned", "sending", "pushed"},
           \A p \in wire' : p.live => pc'[p.run] = "sending"
    PROVE  SyncInv'
<1>1. WireInv'
  <2> SUFFICES ASSUME NEW p \in wire'
               PROVE  /\ IF State \in DOMAIN p.moves THEN StatePush(p.moves)' ELSE ReleasePush(p.moves)'
                      /\ p.live => pc'[p.run] = "sending" /\ \A q \in wire' : q.live /\ q.run = p.run => q = p
    BY DEF WireInv
  <2>1. IF State \in DOMAIN p.moves THEN StatePush(p.moves)' ELSE ReleasePush(p.moves)'
    BY PushesStay DEF SyncInv
  <2> QED BY <2>1 DEF SyncInv, WireInv
<1>2. JobInv'
  BY PlansStay DEF SyncInv, JobInv
<1> QED BY <1>1, <1>2 DEF SyncInv

LEMMA ServerInv == ASSUME SyncInv, NEW p \in wire, ServerDecides(p) PROVE SyncInv'
<1>1. /\ wire' = wire \ {p} /\ released' = released /\ job' = job /\ seen' = seen /\ head' = head
      /\ crashes' = crashes /\ operated' = operated
      /\ remote' = IF P!Lockable(p.moves, remote) THEN P!Landed(p.moves, remote) ELSE remote
      /\ \/ p.live /\ \E phase \in {"pushed", "refused"} : pc' = [pc EXCEPT ![p.run] = phase]
         \/ ~p.live /\ pc' = pc
  BY DEF ServerDecides
<1>2. p.run \in Runs /\ WellTyped(p.moves) /\ p.live \in BOOLEAN
  BY DEF SyncInv, TypeOK, IsPush
<1>3. /\ IF State \in DOMAIN p.moves THEN StatePush(p.moves) ELSE ReleasePush(p.moves)
      /\ p.live => pc[p.run] = "sending" /\ \A q \in wire : q.live /\ q.run = p.run => q = p
  BY DEF SyncInv, WireInv
<1>4. TypeOK'
  <2>1. IsDestination(remote')
    BY <1>1, <1>2, LandedType DEF SyncInv, TypeOK
  <2>2. pc' \in [Runs -> {"idle", "started", "planned", "sending", "pushed", "done", "refused", "broken"}]
    BY <1>1, <1>2 DEF SyncInv, TypeOK
  <2> QED BY <1>1, <2>1, <2>2 DEF SyncInv, TypeOK
<1>5. RemoteInv' /\ Evolves
  <2>1. CASE ~P!Lockable(p.moves, remote)
    BY <1>1, <2>1 DEF SyncInv, RemoteInv, Evolves
  <2>2. CASE P!Lockable(p.moves, remote) /\ State \in DOMAIN p.moves
    BY <1>1, <1>2, <1>3, <1>4, <2>2, RecordLands DEF SyncInv, Evolves
  <2>3. CASE P!Lockable(p.moves, remote) /\ State \notin DOMAIN p.moves
    BY <1>1, <1>2, <1>3, <1>4, <2>3, ReleaseLands DEF SyncInv, Evolves
  <2> QED BY <2>1, <2>2, <2>3
<1>6. \A r \in Runs : pc'[r] \in {"planned", "sending", "pushed"} => pc[r] \in {"planned", "sending", "pushed"}
  BY <1>1, <1>2, <1>3 DEF SyncInv, TypeOK
<1>7. ASSUME NEW q \in wire', q.live PROVE pc'[q.run] = "sending"
  <2>1. q \in wire /\ q # p /\ q.run \in Runs
    BY <1>1 DEF SyncInv, TypeOK, IsPush
  <2>2. pc[q.run] = "sending" /\ (p.live => q.run # p.run)
    BY <1>3, <1>7, <2>1 DEF SyncInv, WireInv
  <2> QED BY <1>1, <1>2, <2>1, <2>2 DEF SyncInv, TypeOK
<1> QED BY <1>1, <1>4, <1>5, <1>6, <1>7, LoudStep

LEMMA OperatorInv == ASSUME SyncInv, OperatorPush PROVE SyncInv'
<1>1. /\ operated < MaxOperator /\ operated' = operated + 1
      /\ remote' = [remote EXCEPT ![Main] = Append(@, Operator)]
      /\ wire' = wire /\ released' = released /\ pc' = pc /\ head' = head /\ seen' = seen /\ job' = job
      /\ crashes' = crashes
  BY DEF OperatorPush
<1>2. IsDestination(remote) /\ remote[Main] \in Commit /\ Operator \in Part
  BY RemoteTypes DEF SyncInv, TypeOK, Part
<1>3. /\ remote'[Main] = Append(remote[Main], Operator) /\ remote'[Main] \in Commit
      /\ IsPrefix(remote[Main], remote'[Main]) /\ remote'[Main] # remote[Main]
      /\ \A ref \in Refs \ {Main} : remote'[ref] = remote[ref]
      /\ DOMAIN remote' = Refs
  BY <1>1, <1>2, RefsApart, Appended DEF IsDestination
<1>4. TypeOK'
  <2>1. IsDestination(remote')
    BY <1>2, <1>3, RefsApart DEF IsDestination, Holds
  <2>2. operated' \in 0 .. MaxOperator
    BY <1>1, Numbers DEF SyncInv, TypeOK
  <2> QED BY <1>1, <2>1, <2>2 DEF SyncInv, TypeOK
<1>5. TagRefs \subseteq Refs \ {Main}
  BY RefsApart DEF Refs
<1>6. Publishing /\ \A ref \in TagRefs : remote'[ref] = remote[ref]
  BY <1>3, <1>5 DEF Publishing, ForwardRefs
<1>7. RemoteInv'
  BY <1>1, <1>4, <1>6, BranchMoves DEF SyncInv
<1>8. ASSUME NEW p \in wire, p.live PROVE pc'[p.run] = "sending"
  BY <1>1, <1>8 DEF SyncInv, WireInv
<1> QED BY <1>1, <1>4, <1>6, <1>7, <1>8, LoudStep DEF Evolves

LEMMA UpstreamInv == ASSUME SyncInv, Upstream PROVE SyncInv'
<1>1. /\ \E k \in Releases : released' = released \cup {k}
      /\ remote' = remote /\ wire' = wire /\ pc' = pc /\ head' = head /\ seen' = seen /\ job' = job
      /\ crashes' = crashes /\ operated' = operated
  BY DEF Upstream
<1>2. TypeOK'
  BY <1>1 DEF SyncInv, TypeOK
<1>3. RemoteInv'
  BY <1>1 DEF SyncInv, RemoteInv
<1>4. ASSUME NEW p \in wire, p.live PROVE pc'[p.run] = "sending"
  BY <1>1, <1>4 DEF SyncInv, WireInv
<1> QED BY <1>1, <1>2, <1>3, <1>4, LoudStep DEF Evolves

LEMMA StepInv == SyncInv /\ [Next]_vars => SyncInv'
<1> SUFFICES ASSUME SyncInv, [Next]_vars PROVE SyncInv'
  OBVIOUS
<1>1. CASE \E r \in Runs : RunStep(r)
  BY <1>1, StartInv, DiscoverInv, SendInv, SettleInv, CrashInv DEF RunStep
<1>2. CASE \E p \in wire : ServerDecides(p)
  BY <1>2, ServerInv
<1>3. CASE OperatorPush
  BY <1>3, OperatorInv
<1>4. CASE Upstream
  BY <1>4, UpstreamInv
<1>5. CASE UNCHANGED vars
  <2>1. /\ remote' = remote /\ wire' = wire /\ released' = released /\ pc' = pc /\ head' = head
        /\ seen' = seen /\ job' = job /\ crashes' = crashes /\ operated' = operated
    BY <1>5 DEF vars
  <2>2. TypeOK' /\ RemoteInv'
    BY <2>1 DEF SyncInv, TypeOK, RemoteInv
  <2>3. ASSUME NEW p \in wire, p.live PROVE pc'[p.run] = "sending"
    BY <2>1, <2>3 DEF SyncInv, WireInv
  <2> QED BY <2>1, <2>2, <2>3, LoudStep DEF Evolves
<1> QED BY <1>1, <1>2, <1>3, <1>4, <1>5 DEF Next

-----------------------------------------------------------------------------
(* The invariant that carries every property below: coherent records, tags
   that are accounted for with at most one of them unrecorded, pushes that
   extend the record they lease or the branch they left, and plans to match. *)
THEOREM SyncHolds == Spec => []SyncInv
  BY InitInv, StepInv, PTL DEF Spec

(* The destination, its records, the pushes and the runs of sync.Reconcile
   always have their types. *)
THEOREM TypeCorrect == Spec => []TypeOK
<1>1. SyncInv => TypeOK
  BY DEF SyncInv
<1> QED BY <1>1, SyncHolds, PTL

(* Whatever runs do side by side, die or leave undecided: the state record
   claims only tags, branch commits and progress refs that the destination
   holds (sync.go, record). *)
THEOREM RecordTrue == Spec => []RecordIsTrue
<1>1. SyncInv => RecordIsTrue
  <2> SUFFICES ASSUME SyncInv PROVE RecordIsTrue
    OBVIOUS
  <2>1. CASE remote[State] = None
    BY <2>1, UnrecordedType DEF RecordIsTrue, Doc, Document, NoBranch
  <2>2. CASE remote[State] # None
    BY <2>2, DocCoherent DEF SyncInv, RemoteInv, Claims, TracksAre, Coherent, RecordIsTrue
  <2> QED BY <2>1, <2>2
<1> QED BY <1>1, SyncHolds, PTL

(* No tag of the destination is ever unaccounted for: a cursor or a completed
   track of the record ends at it (docs/replay-model.md, Publication). *)
THEOREM AllAccounted == Spec => []NothingUnaccounted
<1>1. SyncInv => NothingUnaccounted
  BY DEF SyncInv, RemoteInv, Accounts, Finished, NothingUnaccounted
<1> QED BY <1>1, SyncHolds, PTL

-----------------------------------------------------------------------------
(* Releases go one at a time: Sync implements ReleaseLine. *)

Named(refs) == [k \in Releases |-> refs[Tag(k)]]
Known(refs) == [k \in Releases |-> IF k \in DOMAIN Doc(refs).tags THEN Doc(refs).tags[k] ELSE None]

(* The record knows tags as they are, or does not know them. *)
LEMMA KnownIs ==
    ASSUME SyncInv
    PROVE  \A k \in Releases :
                /\ Named(remote)[k] = remote[Tag(k)]
                /\ k \in DOMAIN Doc(remote).tags => Known(remote)[k] = remote[Tag(k)] /\ remote[Tag(k)] # None
                /\ k \notin DOMAIN Doc(remote).tags => Known(remote)[k] = None
                /\ k \notin Adopted(remote) => Known(remote)[k] = remote[Tag(k)]
<1>1. \A k \in DOMAIN Doc(remote).tags : Doc(remote).tags[k] # None /\ remote[Tag(k)] = Doc(remote).tags[k]
  BY TagsKnown DEF SyncInv
<1> QED BY <1>1 DEF Named, Known, Adopted, Tagged

(* A record that lands changes nothing that is known, or completes it. *)
LEMMA RecordKnown ==
    ASSUME SyncInv, SyncInv', NEW moves, WellTyped(moves), State \in DOMAIN moves, StatePush(moves),
           P!Lockable(moves, remote), remote' = P!Landed(moves, remote), released' = released
    PROVE  /\ Named(remote') = Named(remote)
           /\ \/ Known(remote') = Known(remote)
              \/ Known(remote) # Named(remote) /\ Known(remote') = Named(remote)
<1> DEFINE next == Last(moves[State].new)
           d == Doc(remote)
<1>1. /\ moves[State].old = remote[State] /\ Document(moves[State].old) = d
      /\ remote'[State] = moves[State].new
  BY RefsApart DEF P!Lockable, P!Landed, SyncInv, TypeOK, IsDestination, Doc
<1>2. Doc(remote') = next /\ Succeeds(d, next)
  BY <1>1 DEF StatePush, Extends, Doc, Document
<1>3. \A k \in Releases : remote'[Tag(k)] = remote[Tag(k)]
  <2>1. Recording
    BY RecordLands DEF SyncInv
  <2> QED BY <2>1, RefsApart DEF Recording, ForwardRefs
<1>4. Named(remote') = Named(remote)
  BY <1>3 DEF Named
<1>5. IsRecord(d) /\ IsRecord(next)
  BY <1>2, RemoteTypes DEF SyncInv, TypeOK
<1>6. \A k \in Releases :
        /\ k \in DOMAIN d.tags => Known(remote)[k] = remote[Tag(k)] /\ remote[Tag(k)] # None
        /\ k \notin DOMAIN d.tags => Known(remote)[k] = None
        /\ k \notin Adopted(remote) => Known(remote)[k] = remote[Tag(k)]
  BY KnownIs
<1>7. \A k \in DOMAIN next.tags : next.tags[k] # None /\ remote'[Tag(k)] = next.tags[k]
  <2>1. DOMAIN next.tags \subseteq Releases
    BY <1>5, RecordFields
  <2>2. Claims(next, remote) /\ Coherent(next)
    BY DEF StatePush, Extends
  <2> HIDE DEF next
  <2> QED BY <1>3, <2>1, <2>2 DEF Claims, Coherent
<1>8. \A k \in Releases : Known(remote')[k] = IF k \in DOMAIN next.tags THEN remote[Tag(k)] ELSE None
  BY <1>2, <1>3, <1>7 DEF Known
<1> HIDE DEF d, next
<1>9. CASE DOMAIN next.tags = DOMAIN d.tags
  <2>1. \A k \in Releases : Known(remote')[k] = Known(remote)[k]
    BY <1>6, <1>8, <1>9
  <2>2. Known(remote') = Known(remote)
    BY <2>1 DEF Known
  <2> QED BY <1>4, <2>2
<1>10. ASSUME NEW k \in Releases, Records(moves[State], k)
       PROVE  Known(remote) # Named(remote) /\ Known(remote') = Named(remote)
  <2>1. k \notin DOMAIN d.tags /\ DOMAIN next.tags = {k} \cup DOMAIN d.tags
    BY <1>1, <1>10 DEF Records, next
  <2>2. remote[Tag(k)] # None
    BY <1>3, <1>7, <2>1
  <2>3. Known(remote)[k] = None /\ Named(remote)[k] = remote[Tag(k)]
    BY <1>6, <2>1 DEF Named
  <2>4. Known(remote) # Named(remote)
    BY <2>2, <2>3
  <2>5. k \in Adopted(remote)
    BY <2>1, <2>2 DEF Adopted, Tagged, d
  <2>6. \A i \in Releases : i # k => i \notin Adopted(remote)
    BY <2>5 DEF SyncInv, RemoteInv
  <2>7. \A i \in Releases : Known(remote')[i] = remote[Tag(i)]
    BY <1>6, <1>8, <2>1, <2>6
  <2>8. Known(remote') = Named(remote)
    BY <2>7 DEF Known, Named
  <2> QED BY <2>4, <2>8
<1> QED BY <1>1, <1>4, <1>9, <1>10 DEF StatePush, next

(* A tag that lands names one release more, when all others are known. *)
LEMMA ReleaseNamed ==
    ASSUME SyncInv, SyncInv', NEW moves, WellTyped(moves), ReleasePush(moves),
           P!Lockable(moves, remote), remote' = P!Landed(moves, remote)
    PROVE  /\ Known(remote') = Known(remote) /\ Known(remote) = Named(remote)
           /\ \E k \in Releases :
                /\ Named(remote)[k] = None /\ Named(remote')[k] # None
                /\ \A i \in Releases \ {k} : Named(remote')[i] = Named(remote)[i]
<1>1. PICK k \in Releases :
        /\ DOMAIN moves = {Main, Tag(k)}
        /\ moves[Tag(k)].old = None /\ moves[Tag(k)].new # None
        /\ Since(moves[Main].old)
  BY DEF ReleasePush
<1>2. remote[Main] = moves[Main].old /\ remote[Tag(k)] = None
  BY <1>1, RefsApart DEF P!Lockable
<1>3. /\ \A ref \in Refs \ {Main, Tag(k)} : remote'[ref] = remote[ref]
      /\ remote'[Tag(k)] = moves[Tag(k)].new
  BY <1>1, RefsApart DEF P!Landed, SyncInv, TypeOK, IsDestination
<1>4. Adopted(remote) = {}
  BY <1>1, <1>2 DEF Since
<1>5. \A i \in Releases : Known(remote)[i] = Named(remote)[i]
  BY <1>4, KnownIs
<1>6. Known(remote) = Named(remote)
  BY <1>5 DEF Known, Named
<1>7. Doc(remote') = Doc(remote)
  BY <1>1, <1>3, RefsApart DEF Doc
<1>8. Known(remote') = Known(remote)
  BY <1>7 DEF Known
<1>9. \A i \in Releases \ {k} : remote'[Tag(i)] = remote[Tag(i)]
  BY <1>3, RefsApart
<1> QED BY <1>1, <1>2, <1>3, <1>6, <1>8, <1>9 DEF Named

LEMMA QuietRelease ==
    ASSUME Next, ~ \E p \in wire : ServerDecides(p), SyncInv
    PROVE  Named(remote') = Named(remote) /\ Known(remote') = Known(remote)
<1>1. CASE remote' = remote
  BY <1>1
<1>2. CASE OperatorPush
  <2>1. \A ref \in Refs \ {Main} : remote'[ref] = remote[ref]
    BY <1>2 DEF OperatorPush, SyncInv, TypeOK, IsDestination
  <2>2. remote'[State] = remote[State] /\ \A k \in Releases : remote'[Tag(k)] = remote[Tag(k)]
    BY <2>1, RefsApart
  <2> QED BY <2>2 DEF Named, Known, Doc
<1> QED BY <1>1, <1>2 DEF Next, RunStep, Start, Discover, Send, Settle, Crash, Upstream

(* A release is tagged once and for ever, the record claims a tag only once
   the destination holds it, and none is tagged before the last is recorded:
   every step of any number of runs of sync.Reconcile, of their deaths and of
   what the server decides later is a step of ReleaseLine or changes neither
   the tags nor what is recorded. *)
THEOREM ReleasesInLine == Spec => OneReleaseAtATime
<1>1. SyncInv => L!Init
  BY KnownIs DEF L!Init, Named, Known
<1>2. SyncInv /\ SyncInv' /\ [Next]_vars
        => [L!Next]_<<[k \in Releases |-> remote[Tag(k)]],
                      [k \in Releases |-> IF k \in DOMAIN Doc(remote).tags THEN Doc(remote).tags[k] ELSE None]>>
  <2> SUFFICES ASSUME SyncInv, SyncInv', [Next]_vars
               PROVE  \/ L!Record \/ \E k \in Releases : L!Publish(k)
                      \/ Named(remote') = Named(remote) /\ Known(remote') = Known(remote)
    BY DEF L!Next, Named, Known
  <2>1. CASE UNCHANGED vars
    BY <2>1 DEF vars
  <2>2. CASE Next /\ ~ \E p \in wire : ServerDecides(p)
    BY <2>2, QuietRelease
  <2>3. ASSUME NEW p \in wire, ServerDecides(p)
        PROVE  \/ L!Record \/ \E k \in Releases : L!Publish(k)
               \/ Named(remote') = Named(remote) /\ Known(remote') = Known(remote)
    <3>1. /\ released' = released /\ WellTyped(p.moves)
          /\ remote' = IF P!Lockable(p.moves, remote) THEN P!Landed(p.moves, remote) ELSE remote
          /\ IF State \in DOMAIN p.moves THEN StatePush(p.moves) ELSE ReleasePush(p.moves)
      BY <2>3 DEF ServerDecides, SyncInv, TypeOK, IsPush, WireInv
    <3>2. CASE ~P!Lockable(p.moves, remote)
      BY <3>1, <3>2
    <3>3. CASE P!Lockable(p.moves, remote) /\ State \in DOMAIN p.moves
      <4>1. /\ Named(remote') = Named(remote)
            /\ \/ Known(remote') = Known(remote)
               \/ Known(remote) # Named(remote) /\ Known(remote') = Named(remote)
        BY <3>1, <3>3, RecordKnown
      <4> QED BY <4>1 DEF L!Record, Named, Known
    <3>4. CASE P!Lockable(p.moves, remote) /\ State \notin DOMAIN p.moves
      <4>1. /\ Known(remote') = Known(remote) /\ Known(remote) = Named(remote)
            /\ \E k \in Releases :
                /\ Named(remote)[k] = None /\ Named(remote')[k] # None
                /\ \A i \in Releases \ {k} : Named(remote')[i] = Named(remote)[i]
        BY <3>1, <3>4, ReleaseNamed
      <4> QED BY <4>1 DEF L!Publish, Named, Known
    <3> QED BY <3>2, <3>3, <3>4
  <2> QED BY <2>1, <2>2, <2>3
<1> QED BY <1>1, <1>2, InitInv, SyncHolds, PTL DEF Spec, OneReleaseAtATime, L!Spec

-----------------------------------------------------------------------------
(* What replays put together. *)

LEMMA PlacesAre ==
    ASSUME NEW c \in Commit
    PROVE  /\ DOMAIN c = 1 .. Len(c) /\ Len(c) \in Nat
           /\ \A i \in ImagesIn(c) : i \in 1 .. Len(c) /\ c[i][1] \in Commits /\ c[i][1] \in Nat
<1>1. DOMAIN c = 1 .. Len(c) /\ Len(c) \in Nat /\ \A i \in 1 .. Len(c) : c[i] \in Part
  BY DEF Commit
<1>2. \A x \in Part : x \notin {Setup, Operator} => x[1] \in Commits
  BY DEF Part
<1> QED BY <1>1, <1>2, Numbers DEF ImagesIn

(* What is appended adds its own images. *)
Joined(a, b, c) ==
    /\ c \in Commit /\ Len(c) = Len(a) + Len(b)
    /\ \A i \in 1 .. Len(a) : c[i] = a[i] /\ (i \in ImagesIn(c) <=> i \in ImagesIn(a))
    /\ \A i \in 1 .. Len(b) : c[Len(a) + i] = b[i] /\ (Len(a) + i \in ImagesIn(c) <=> i \in ImagesIn(b))
    /\ \A i \in ImagesIn(c) : i \in ImagesIn(a) \/ (i > Len(a) /\ i - Len(a) \in ImagesIn(b))
    /\ IsPrefix(a, c)
LEMMA PlacesJoin ==
    ASSUME NEW a \in Commit, NEW b \in Commit, NEW c, c = a \o b
    PROVE  Joined(a, b, c)
<1>1. a \in Seq(Part) /\ b \in Seq(Part) /\ Len(a) \in Nat /\ Len(b) \in Nat
  BY DEF Commit
<1>2. c \in Seq(Part) /\ Len(c) = Len(a) + Len(b)
  BY <1>1
<1>3. \A i \in 1 .. Len(a) : i \in 1 .. Len(c) /\ c[i] = a[i]
  BY <1>1, <1>2
<1>4. \A i \in 1 .. Len(b) : Len(a) + i \in 1 .. Len(c) /\ c[Len(a) + i] = b[i]
  BY <1>1, <1>2
<1>5. DOMAIN a = 1 .. Len(a) /\ DOMAIN b = 1 .. Len(b) /\ DOMAIN c = 1 .. Len(c)
  BY <1>1, <1>2
<1>6. \A i \in 1 .. Len(a) : i \in ImagesIn(c) <=> i \in ImagesIn(a)
  BY <1>3, <1>5 DEF ImagesIn
<1>7. \A i \in 1 .. Len(b) : Len(a) + i \in ImagesIn(c) <=> i \in ImagesIn(b)
  BY <1>4, <1>5 DEF ImagesIn
<1>8. ASSUME NEW i \in ImagesIn(c) PROVE i \in ImagesIn(a) \/ (i > Len(a) /\ i - Len(a) \in ImagesIn(b))
  <2>1. i \in 1 .. Len(c)
    BY <1>5 DEF ImagesIn
  <2>2. CASE i <= Len(a)
    <3>1. i \in 1 .. Len(a)
      BY <1>1, <2>1, <2>2
    <3> QED BY <1>6, <3>1
  <2>3. CASE i > Len(a)
    <3>1. i - Len(a) \in 1 .. Len(b) /\ i = Len(a) + (i - Len(a))
      BY <1>1, <1>2, <2>1, <2>3
    <3> QED BY <1>7, <2>3, <3>1
  <2> QED BY <1>1, <2>1, <2>2, <2>3
<1>9. IsPrefix(a, c)
  BY <1>1, <1>2, <1>3 DEF IsPrefix
<1> QED BY <1>2, <1>3, <1>4, <1>6, <1>7, <1>8, <1>9 DEF Commit, Joined

(* The ancestry of source commits. *)
LEMMA AboveIs ==
    /\ \A a \in Commits : <<a, a>> \in Above
    /\ \A a, b : <<a, b>> \in Above => a \in Commits /\ b \in Commits /\ a <= b
    /\ \A a, b, c \in Commits : <<a, b>> \in Above /\ <<b, c>> \in Above => <<a, c>> \in Above
    /\ \A a, b, c \in Commits : <<a, c>> \in Above /\ <<b, c>> \in Above /\ a <= b => <<a, b>> \in Above
    /\ \A k \in Releases : At[k] \in Commits /\ At[k] \in Nat
    /\ Relevant \subseteq Commits
<1>1. /\ Above \subseteq Commits \X Commits
      /\ \A pair \in Above : pair[1] <= pair[2]
  BY SourceAssumption, Zenon
<1>2. /\ \A a \in Commits : <<a, a>> \in Above
      /\ \A a, b, c \in Commits : <<a, b>> \in Above /\ <<b, c>> \in Above => <<a, c>> \in Above
      /\ \A a, b, c \in Commits : <<a, c>> \in Above /\ <<b, c>> \in Above /\ a <= b => <<a, b>> \in Above
      /\ At \in [Releases -> Commits] /\ Relevant \subseteq Commits
  BY SourceAssumption, Zenon
<1>3. \A a, b : <<a, b>> \in Above => a \in Commits /\ b \in Commits /\ a <= b
  BY <1>1
<1> QED BY <1>2, <1>3, Numbers

(* What a stretch of a release's history becomes. *)
Becomes(w, segment, k) ==
    /\ w \in Commit /\ Len(w) \in Nat
    /\ \A i \in 1 .. Len(w) : i \in ImagesIn(w) /\ w[i][1] \in segment
    /\ \A m \in segment \cap Relevant : \E i \in 1 .. Len(w) : w[i][1] = m
    /\ \A i, j \in 1 .. Len(w) : i < j => w[i][1] < w[j][1]
    /\ At[k] \in segment /\ (\A m \in segment : m <= At[k]) => Len(w) > 0 /\ w[Len(w)] = Image(At[k], k)
LEMMA WrittenIs ==
    ASSUME NEW segment, segment \subseteq Commits, NEW k \in Releases, NEW w, w = Written(segment, k)
    PROVE  Becomes(w, segment, k)
<1> DEFINE kept == segment \cap (Relevant \cup {At[k]})
           N == Cardinality(Commits)
<1>1. Collected(w, kept, k, N)
  BY ImagesAre DEF Written
<1>2. N \in Nat /\ Commits = 1 .. N
  BY SourceAssumption
<1>3. \A m \in kept : m <= N /\ m \in Commits
  BY <1>2
<1> HIDE DEF N
<1>4. w \in Commit /\ Len(w) \in Nat /\ DOMAIN w = 1 .. Len(w)
  BY <1>1, PlacesAre DEF Collected
<1>5. ASSUME NEW i \in 1 .. Len(w) PROVE i \in ImagesIn(w) /\ \E m \in kept : w[i] = Image(m, k) /\ w[i][1] = m
  <2>1. PICK m \in kept : w[i] = Image(m, k)
    BY <1>1 DEF Collected
  <2>2. w[i][1] = m /\ w[i] \notin {Setup, Operator}
    BY <1>3, <2>1, ImageIs
  <2> QED BY <1>4, <2>1, <2>2 DEF ImagesIn
<1>6. ASSUME NEW m \in kept PROVE \E i \in 1 .. Len(w) : w[i] = Image(m, k) /\ w[i][1] = m
  <2>1. PICK i \in 1 .. Len(w) : w[i] = Image(m, k)
    BY <1>1, <1>3 DEF Collected
  <2> QED BY <1>3, <2>1, ImageIs
<1>7. \A i, j \in 1 .. Len(w) : i < j => w[i][1] < w[j][1]
  BY <1>1 DEF Collected
<1>8. ASSUME At[k] \in segment, \A m \in segment : m <= At[k]
      PROVE  Len(w) > 0 /\ w[Len(w)] = Image(At[k], k)
  <2>1. PICK i \in 1 .. Len(w) : w[i] = Image(At[k], k) /\ w[i][1] = At[k]
    BY <1>6, <1>8
  <2>2. Len(w) > 0 /\ Len(w) \in 1 .. Len(w) /\ (i = Len(w) \/ i < Len(w))
    <3>1. Len(w) \in Nat /\ i \in 1 .. Len(w)
      BY <1>4
    <3> QED BY <3>1
  <2>3. PICK m \in kept : w[Len(w)][1] = m
    BY <1>5, <2>2
  <2>4. m <= At[k] /\ m \in Nat /\ At[k] \in Nat
    BY <1>3, <1>8, AboveIs, Numbers
  <2>5. ~(i < Len(w))
    <3> SUFFICES ASSUME i < Len(w) PROVE FALSE
      OBVIOUS
    <3>1. w[i][1] < w[Len(w)][1]
      BY <1>7, <2>1, <2>2
    <3> QED BY <2>1, <2>3, <2>4, <3>1
  <2> QED BY <2>1, <2>2, <2>5, Zenon
<1>9. \A i \in 1 .. Len(w) : i \in ImagesIn(w) /\ w[i][1] \in segment
  <2>1. segment \cap (Relevant \cup {At[k]}) \subseteq segment
    OBVIOUS
  <2> QED BY <1>5, <2>1
<1>10. \A m \in segment \cap Relevant : \E i \in 1 .. Len(w) : w[i][1] = m
  BY <1>6
<1> QED BY <1>4, <1>7, <1>8, <1>9, <1>10 DEF Becomes

-----------------------------------------------------------------------------
(* Replays go on one line. *)

LEMMA FirstReplay ==
    ASSUME NEW main \in Commit, ImagesIn(main) = {}, NEW c, c = Append(main, Image(At[1], 1))
    PROVE  IsReplay(c, At[1]) /\ Last(c) = Image(At[1], 1)
<1>1. 1 \in Releases /\ At[1] \in Commits /\ At[1] \in Nat /\ <<At[1], At[1]>> \in Above
  BY Numbers, AboveIs
<1>2. Image(At[1], 1) \in Part /\ Image(At[1], 1)[1] = At[1] /\ Image(At[1], 1) \notin {Setup, Operator}
  BY <1>1, ImageType, ImageIs
<1> DEFINE x == Image(At[1], 1)
<1> HIDE DEF x
<1>3. /\ Len(main) \in Nat /\ Len(c) = Len(main) + 1 /\ DOMAIN main = 1 .. Len(main) /\ DOMAIN c = 1 .. Len(c)
      /\ c[Len(main) + 1] = x /\ \A i \in 1 .. Len(main) : c[i] = main[i]
      /\ Last(c) = x
  BY <1>2 DEF Commit, Last, x
<1>4. ImagesIn(c) = {Len(main) + 1}
  <2>1. ASSUME NEW i \in ImagesIn(c) PROVE i = Len(main) + 1
    <3>1. i \in 1 .. Len(main) => i \in ImagesIn(main)
      BY <1>3 DEF ImagesIn
    <3>2. i \in 1 .. Len(c)
      BY <1>3 DEF ImagesIn
    <3> QED BY <1>3, <3>1, <3>2
  <2>2. Len(main) + 1 \in ImagesIn(c)
    BY <1>2, <1>3 DEF ImagesIn, x
  <2> QED BY <2>1, <2>2
<1>5. c[Len(main) + 1][1] = At[1]
  BY <1>2, <1>3 DEF x
<1>6. \A m \in Relevant : <<At[1], m>> \in Above /\ <<m, At[1]>> \in Above => m = At[1]
  <2> TAKE m \in Relevant
  <2>1. m \in Nat
    BY AboveIs, Numbers
  <2> QED BY <1>1, <2>1, AboveIs
<1>7. IsReplay(c, At[1])
  <2>1. \A i, j \in ImagesIn(c) : ~(i < j)
    BY <1>3, <1>4
  <2> QED BY <1>1, <1>4, <1>5, <1>6, <2>1 DEF IsReplay
<1> QED BY <1>3, <1>7 DEF x

(* Operator commits on top change nothing. *)
LEMMA SameImages ==
    ASSUME NEW base \in Commit, NEW main \in Commit, IsPrefix(base, main),
           \A i \in Len(base) + 1 .. Len(main) : main[i] = Operator
    PROVE  \A n : IsReplay(base, n) => IsReplay(main, n)
<1>1. /\ Len(base) \in Nat /\ Len(main) \in Nat /\ DOMAIN base = 1 .. Len(base) /\ DOMAIN main = 1 .. Len(main)
      /\ Len(base) <= Len(main) /\ \A i \in 1 .. Len(base) : main[i] = base[i]
  BY DEF IsPrefix, Commit
<1>2. \A i \in DOMAIN main : i \in 1 .. Len(base) \/ main[i] = Operator
  BY <1>1
<1>3. ImagesIn(main) = ImagesIn(base) /\ \A i \in ImagesIn(base) : main[i] = base[i]
  <2>1. \A i \in DOMAIN base : i \in DOMAIN main /\ main[i] = base[i]
    BY <1>1
  <2> QED BY <1>1, <1>2, <2>1 DEF ImagesIn
<1> QED BY <1>3 DEF IsReplay

(* What lies between a commit and a later one of its line, up to a third. *)
Stretch(segment, n, top, a) ==
    /\ segment \subseteq Commits /\ top \in segment /\ top \in Commits
    /\ <<n, top>> \in Above /\ <<top, a>> \in Above /\ top # n /\ <<top, n>> \notin Above
    /\ \A m \in segment : n < m /\ m <= top /\ <<m, top>> \in Above
    /\ \A m \in Commits : <<m, top>> \in Above /\ <<m, n>> \notin Above => m \in segment
    /\ (a \in segment <=> top = a)
LEMMA StretchAbove ==
    ASSUME NEW n \in Commits, NEW a \in Commits, <<n, a>> \in Above,
           NEW segment, NEW top \in Between(n, a), segment = UpTo(Between(n, a), top)
    PROVE  Stretch(segment, n, top, a)
<1>1. \A m : m \in Between(n, a) <=> m \in Commits /\ <<m, a>> \in Above /\ <<m, n>> \notin Above
  BY DEF Between
<1>2. \A m : m \in segment <=> m \in Between(n, a) /\ m <= top
  BY DEF UpTo
<1>3. Commits \subseteq Nat
  BY Numbers
<1>4. /\ \A x \in Commits : <<x, x>> \in Above
      /\ \A x, y : <<x, y>> \in Above => x \in Commits /\ y \in Commits /\ x <= y
      /\ \A x, y, z \in Commits : <<x, y>> \in Above /\ <<y, z>> \in Above => <<x, z>> \in Above
      /\ \A x, y, z \in Commits : <<x, z>> \in Above /\ <<y, z>> \in Above /\ x <= y => <<x, y>> \in Above
  BY AboveIs
<1>5. segment \subseteq Commits /\ top \in segment /\ top \in Commits /\ <<top, a>> \in Above /\ <<top, n>> \notin Above
  <2>1. top \in Commits /\ <<top, a>> \in Above /\ <<top, n>> \notin Above
    BY <1>1
  <2>2. top <= top
    BY <1>3, <2>1
  <2>3. segment \subseteq Commits
    BY <1>1, <1>2
  <2> QED BY <1>2, <2>1, <2>2, <2>3
<1>6. ASSUME NEW m \in segment PROVE n < m /\ m <= top /\ <<m, top>> \in Above
  <2>1. m \in Commits /\ <<m, a>> \in Above /\ <<m, n>> \notin Above /\ m <= top
    BY <1>1, <1>2
  <2>2. m \in Nat /\ n \in Nat
    BY <1>3, <2>1
  <2>3. ~(m <= n)
    BY <1>4, <2>1
  <2> QED BY <1>4, <1>5, <2>1, <2>2, <2>3
<1>7. <<n, top>> \in Above /\ top # n
  <2>1. n < top
    BY <1>5, <1>6
  <2>2. n <= top /\ top # n
    BY <1>3, <1>5, <2>1
  <2> QED BY <1>4, <1>5, <2>2
<1>8. ASSUME NEW m \in Commits, <<m, top>> \in Above, <<m, n>> \notin Above PROVE m \in segment
  BY <1>1, <1>2, <1>4, <1>5, <1>8
<1>9. a \in segment => top = a
  <2>1. a \in segment => a <= top /\ top <= a
    BY <1>4, <1>5, <1>6
  <2> QED BY <1>3, <1>5, <2>1
<1> QED BY <1>5, <1>6, <1>7, <1>8, <1>9 DEF Stretch

(* A commit on the way to a release, up to a source commit; at the release's own it
   ends with its image. *)
Reaches(commit, n, k) ==
    IsReplay(commit, n) /\ (n = At[k] => Last(commit) = Image(At[k], k))

(* A chunk goes on from where a replay stands. *)
LEMMA ReplayGrows ==
    ASSUME NEW c \in Commit, NEW n \in Commits, IsReplay(c, n), NEW k \in Releases, <<n, At[k]>> \in Above,
           NEW segment, NEW top \in Between(n, At[k]), segment = UpTo(Between(n, At[k]), top),
           NEW next, next = c \o Written(segment, k)
    PROVE  Reaches(next, top, k)
<1>1. At[k] \in Commits /\ Relevant \subseteq Commits /\ At[1] \in Commits /\ Commits \subseteq Nat
  BY AboveIs, Numbers
<1>2. /\ segment \subseteq Commits /\ top \in segment /\ top \in Commits
      /\ <<n, top>> \in Above
      /\ \A m \in segment : n < m /\ m <= top /\ <<m, top>> \in Above
      /\ \A m \in Commits : <<m, top>> \in Above /\ <<m, n>> \notin Above => m \in segment
      /\ (At[k] \in segment <=> top = At[k])
  <2>1. Stretch(segment, n, top, At[k])
    BY <1>1, StretchAbove, Zenon
  <2> QED BY <2>1 DEF Stretch
<1>3. PICK w : w = Written(segment, k)
  OBVIOUS
<1>4. /\ w \in Commit /\ Len(w) \in Nat
      /\ \A i \in 1 .. Len(w) : i \in ImagesIn(w) /\ w[i][1] \in segment
      /\ \A m \in segment \cap Relevant : \E i \in 1 .. Len(w) : w[i][1] = m
      /\ \A i, j \in 1 .. Len(w) : i < j => w[i][1] < w[j][1]
      /\ At[k] \in segment /\ (\A m \in segment : m <= At[k]) => Len(w) > 0 /\ w[Len(w)] = Image(At[k], k)
  <2>1. Becomes(w, segment, k)
    BY <1>2, <1>3, WrittenIs, Zenon
  <2> QED BY <2>1 DEF Becomes
<1>5. /\ next \in Commit /\ Len(next) = Len(c) + Len(w)
      /\ \A i \in 1 .. Len(c) : next[i] = c[i] /\ (i \in ImagesIn(next) <=> i \in ImagesIn(c))
      /\ \A i \in 1 .. Len(w) : next[Len(c) + i] = w[i] /\ (Len(c) + i \in ImagesIn(next) <=> i \in ImagesIn(w))
      /\ \A i \in ImagesIn(next) : i \in ImagesIn(c) \/ (i > Len(c) /\ i - Len(c) \in ImagesIn(w))
  <2>1. Joined(c, w, next)
    BY <1>3, <1>4, PlacesJoin, Zenon
  <2> QED BY <2>1 DEF Joined
<1>6. /\ Len(c) \in Nat
      /\ \A i \in ImagesIn(c) : i \in 1 .. Len(c) /\ c[i][1] \in Commits /\ c[i][1] \in Nat
      /\ \A i \in ImagesIn(w) : i \in 1 .. Len(w)
  BY <1>4, PlacesAre
<1>7. /\ \E i \in ImagesIn(c) : c[i][1] = At[1]
      /\ \A i \in ImagesIn(c) : At[1] <= c[i][1] /\ <<c[i][1], n>> \in Above
      /\ \A i, j \in ImagesIn(c) : i < j => c[i][1] < c[j][1]
      /\ \A m \in Relevant :
            <<At[1], m>> \in Above /\ <<m, n>> \in Above => \E i \in ImagesIn(c) : c[i][1] = m
  BY DEF IsReplay
<1> DEFINE Old(i) == i \in ImagesIn(c) /\ i \in 1 .. Len(c) /\ next[i] = c[i]
           New(i) == i - Len(c) \in 1 .. Len(w) /\ next[i] = w[i - Len(c)]
<1>8. ASSUME NEW i \in ImagesIn(next) PROVE i \in Nat /\ (Old(i) \/ New(i))
  <2>1. CASE i \in ImagesIn(c)
    BY <1>5, <1>6, <2>1
  <2>2. CASE i > Len(c) /\ i - Len(c) \in ImagesIn(w)
    <3>1. PICK x : x = i - Len(c)
      OBVIOUS
    <3>2. x \in 1 .. Len(w)
      BY <1>6, <2>2, <3>1
    <3>3. i \in 1 .. Len(next)
      BY <1>5, PlacesAre
    <3>4. i = Len(c) + x
      BY <1>5, <1>6, <3>1, <3>3
    <3> QED BY <1>5, <3>1, <3>2, <3>3, <3>4
  <2> QED BY <1>5, <2>1, <2>2
<1>9. \A i : Old(i) => At[1] <= next[i][1] /\ next[i][1] <= n /\ next[i][1] \in Nat /\ <<next[i][1], top>> \in Above
  <2>1. \A m : <<m, n>> \in Above => m \in Commits /\ m <= n /\ <<m, top>> \in Above
    BY <1>2, AboveIs
  <2> QED BY <1>6, <1>7, <2>1
<1>10. \A i : New(i) => next[i][1] \in segment
  BY <1>4
<1>11. n \in Nat /\ At[1] <= n
  <2>1. PICK i \in ImagesIn(c) : c[i][1] = At[1]
    BY <1>7
  <2>2. <<At[1], n>> \in Above
    BY <1>7, <2>1
  <2> QED BY <1>1, <2>2, AboveIs
<1>12. \A i : New(i) => At[1] <= next[i][1] /\ n < next[i][1] /\ next[i][1] \in Nat /\ <<next[i][1], top>> \in Above
  <2> SUFFICES ASSUME NEW m \in segment PROVE At[1] <= m /\ n < m /\ m \in Nat /\ <<m, top>> \in Above
    BY <1>10
  <2>1. m \in Nat /\ n < m /\ <<m, top>> \in Above
    BY <1>1, <1>2
  <2>2. At[1] \in Nat
    BY <1>1
  <2> QED BY <1>11, <2>1, <2>2
<1>13. \E i \in ImagesIn(next) : next[i][1] = At[1]
  BY <1>5, <1>6, <1>7
<1>14. \A i \in ImagesIn(next) : At[1] <= next[i][1] /\ <<next[i][1], top>> \in Above
  BY <1>8, <1>9, <1>12
<1>15. ASSUME NEW i \in ImagesIn(next), NEW j \in ImagesIn(next), i < j PROVE next[i][1] < next[j][1]
  <2>0. i \in Nat /\ j \in Nat /\ (Old(i) \/ New(i)) /\ (Old(j) \/ New(j))
    BY <1>8
  <2>1. CASE Old(i) /\ Old(j)
    BY <1>7, <1>15, <2>1
  <2>2. CASE Old(i) /\ New(j)
    <3>1. PICK x, y : x = next[i][1] /\ y = next[j][1]
      OBVIOUS
    <3>2. x <= n /\ n < y /\ x \in Nat /\ y \in Nat
      BY <1>9, <1>12, <2>2, <3>1
    <3>3. x < y
      BY <1>11, <3>2
    <3> QED BY <3>1, <3>3
  <2>3. CASE New(i) /\ New(j)
    <3>1. PICK x, y : x = i - Len(c) /\ y = j - Len(c)
      OBVIOUS
    <3>2. x \in 1 .. Len(w) /\ y \in 1 .. Len(w) /\ next[i] = w[x] /\ next[j] = w[y]
      BY <2>3, <3>1
    <3>3. x < y
      BY <1>6, <1>15, <2>0, <3>1
    <3> QED BY <1>4, <3>2, <3>3
  <2>4. CASE New(i) /\ Old(j)
    BY <1>6, <1>15, <2>0, <2>4
  <2> QED BY <2>0, <2>1, <2>2, <2>3, <2>4
<1>16. ASSUME NEW m \in Relevant, <<At[1], m>> \in Above, <<m, top>> \in Above
       PROVE  \E i \in ImagesIn(next) : next[i][1] = m
  <2>1. CASE <<m, n>> \in Above
    BY <1>5, <1>6, <1>7, <1>16, <2>1
  <2>2. CASE <<m, n>> \notin Above
    <3>1. m \in segment \cap Relevant
      BY <1>1, <1>2, <1>16, <2>2
    <3>2. PICK i \in 1 .. Len(w) : w[i][1] = m
      BY <1>4, <3>1
    <3> QED BY <1>4, <1>5, <3>2
  <2> QED BY <2>1, <2>2
<1>17. IsReplay(next, top)
  BY <1>13, <1>14, <1>15, <1>16 DEF IsReplay
<1>18. ASSUME top = At[k] PROVE Last(next) = Image(At[k], k)
  <2>1. Len(w) > 0 /\ w[Len(w)] = Image(At[k], k)
    BY <1>2, <1>4, <1>18
  <2>2. Len(w) \in 1 .. Len(w)
    BY <1>4, <2>1
  <2> QED BY <1>5, <2>1, <2>2 DEF Last
<1> QED BY <1>17, <1>18 DEF Reaches

-----------------------------------------------------------------------------
(* Records of replays. *)

(* A commit that a release became. *)
Becoming(commit, k) == IsReplay(commit, At[k]) /\ Last(commit) = Image(At[k], k)

(* Every cursor of a record is what its release became, every track on the way to it. *)
OfReplays(d) ==
    /\ \A k \in DOMAIN d.cursors : Becoming(d.cursors[k], k)
    /\ \A k \in DOMAIN d.tracks :
        LET track == d.tracks[k] IN
        Reaches(track.dest, track.source, k) /\ <<track.source, At[k]>> \in Above

(* The records that are or may become the destination's. *)
Around ==
    {Doc(remote)}
    \cup {Last(p.moves[State].new) : p \in {q \in wire : State \in DOMAIN q.moves}}
    \cup {Last(job[r].moves[State].new) : r \in {q \in Runs : State \in DOMAIN job[q].moves}}

(* A record that a run makes out of the destination's. *)
Chunk(k, segment) ==
    /\ k \in Due(remote) /\ k \notin Finished(Doc(remote)) /\ Chunkable(remote, k)
    /\ remote[State] # None /\ segment \in Stretches(remote, k)
    /\ \E r \in Runs : Discovered(r)
NewRecord(d) ==
    \/ remote[State] = None /\ 1 \in Due(remote) /\ d = FirstRecord(1, FirstCommit(remote))
    \/ \E k, segment : Chunk(k, segment) /\ d = Tracked(Doc(remote), k, Advanced(remote, k, segment))
    \/ \E k : Accounting(k, d)

LEMMA DecisionNew ==
    ASSUME TypeOK, RemoteInv, NEW r \in Runs, Discovered(r), NEW j \in Decisions(remote), State \in DOMAIN j.moves
    PROVE  Last(j.moves[State].new) = Doc(remote) \/ NewRecord(Last(j.moves[State].new))
<1> DEFINE d == Doc(remote)
<1>0. \/ \E k \in Adopted(remote) :
            /\ Proved(d, remote, k, Generated(remote), TRUE)
            /\ j = Reconciliation("adoption", d, remote, k, Generated(remote))
      \/ j = Verification(remote)
      \/ \E k \in Due(remote) : remote[State] = None /\ j = Initial(remote, k)
      \/ \E k \in Due(remote) : remote[State] # None /\ k \in Finished(d) /\ j = Final(remote, k)
      \/ \E k \in Due(remote) : remote[State] # None /\ k \notin Finished(d) /\ Chunkable(remote, k)
                                /\ \E segment \in Stretches(remote, k) : j = Checkpoint(remote, k, segment)
  BY DEF Decisions
<1>1. ASSUME NEW k \in Adopted(remote), Proved(d, remote, k, Generated(remote), TRUE),
             j = Reconciliation("adoption", d, remote, k, Generated(remote))
      PROVE  NewRecord(Last(j.moves[State].new))
  <2>1. Accounting(k, Last(j.moves[State].new))
    BY <1>1, AdoptionIs DEF Discovered
  <2> QED BY <2>1 DEF NewRecord
<1>2. CASE j = Verification(remote)
  <2>1. j = [kind |-> "verify", half |-> "reconcile", rel |-> 0, moves |-> [ref \in {Main} |-> Stays(remote, Main)]]
    BY <1>2 DEF Verification
  <2>2. j.moves = [ref \in {Main} |-> Stays(remote, Main)]
    BY <2>1
  <2>3. DOMAIN j.moves = {Main}
    BY <2>2
  <2> QED BY <2>3, RefsApart
<1>3. ASSUME NEW k \in Due(remote), remote[State] = None, j = Initial(remote, k)
      PROVE  NewRecord(Last(j.moves[State].new))
  <2>1. k = 1 /\ Last(j.moves[State].new) = FirstRecord(1, FirstCommit(remote))
    BY <1>3, InitialIs
  <2> QED BY <1>3, <2>1 DEF NewRecord
<1>4. ASSUME NEW k \in Due(remote), remote[State] # None, k \in Finished(d), j = Final(remote, k)
      PROVE  Last(j.moves[State].new) = d
  <2>1. j.moves[State].new = remote[State]
    BY <1>4, FinalIs
  <2> QED BY <1>4, <2>1 DEF Doc, Document
<1>5. ASSUME NEW k \in Due(remote), remote[State] # None, k \notin Finished(d), Chunkable(remote, k),
             NEW segment \in Stretches(remote, k), j = Checkpoint(remote, k, segment)
      PROVE  NewRecord(Last(j.moves[State].new))
  <2>1. Last(j.moves[State].new) = Tracked(d, k, Advanced(remote, k, segment))
    BY <1>5, CheckpointIs
  <2>2. Chunk(k, segment)
    BY <1>5 DEF Chunk
  <2> QED BY <2>1, <2>2 DEF NewRecord
<1> QED BY <1>0, <1>1, <1>2, <1>3, <1>4, <1>5

(* What a step may bring about is a record that a run makes. *)
AroundStays == \A d \in Around' : d \in Around \/ NewRecord(d)

(* The moves of a step's pushes and plans are the ones that were there, but for
   those of one run. *)
LEMMA AroundQuiet ==
    ASSUME Doc(remote') \in Around,
           \A p \in wire' : State \in DOMAIN p.moves => Last(p.moves[State].new) \in Around,
           \A r \in Runs : State \in DOMAIN job'[r].moves =>
                Last(job'[r].moves[State].new) \in Around \/ NewRecord(Last(job'[r].moves[State].new))
    PROVE  AroundStays
<1>1. Around' =
        {Doc(remote')}
        \cup {Last(p.moves[State].new) : p \in {q \in wire' : State \in DOMAIN q.moves}}
        \cup {Last(job'[r].moves[State].new) : r \in {q \in Runs : State \in DOMAIN job'[q].moves}}
  BY DEF Around, Doc
<1>2. ASSUME NEW d \in Around' PROVE d \in Around \/ NewRecord(d)
  <2>1. CASE d = Doc(remote')
    BY <2>1
  <2>2. CASE \E p \in wire' : State \in DOMAIN p.moves /\ d = Last(p.moves[State].new)
    BY <2>2
  <2>3. CASE \E r \in Runs : State \in DOMAIN job'[r].moves /\ d = Last(job'[r].moves[State].new)
    BY <2>3
  <2> QED BY <1>1, <2>1, <2>2, <2>3
<1> QED BY <1>2 DEF AroundStays

LEMMA AroundHas ==
    /\ Doc(remote) \in Around
    /\ \A p \in wire : State \in DOMAIN p.moves => Last(p.moves[State].new) \in Around
    /\ \A r \in Runs : State \in DOMAIN job[r].moves => Last(job[r].moves[State].new) \in Around
  BY DEF Around

LEMMA AroundStep == SyncInv /\ [Next]_vars => AroundStays
<1> SUFFICES ASSUME SyncInv, [Next]_vars PROVE AroundStays
  OBVIOUS
<1>0. TypeOK /\ DOMAIN job = Runs /\ RemoteInv
  BY DEF SyncInv, TypeOK
<1>1. ASSUME NEW r \in Runs, Start(r) PROVE AroundStays
  <2>1. remote' = remote /\ wire' = wire /\ job' = [job EXCEPT ![r] = Idle]
    BY <1>1 DEF Start
  <2>2. \A q \in Runs : job'[q] = IF q = r THEN Idle ELSE job[q]
    BY <1>0, <2>1
  <2>3. DOMAIN Idle.moves = {}
    BY EmptyMentions DEF Idle
  <2>4. \A q \in Runs : State \in DOMAIN job'[q].moves => job'[q] = job[q]
    BY <2>2, <2>3
  <2> QED BY <2>1, <2>4, AroundHas, AroundQuiet
<1>2. ASSUME NEW r \in Runs, Discover(r) PROVE AroundStays
  <2>1. /\ remote' = remote /\ wire' = wire
        /\ job' = job \/ \E j \in Decisions(remote) : Discovered(r) /\ job' = [job EXCEPT ![r] = j]
    BY <1>2 DEF Discover
  <2>2. CASE job' = job
    BY <2>1, <2>2, AroundHas, AroundQuiet
  <2>3. ASSUME NEW j \in Decisions(remote), Discovered(r), job' = [job EXCEPT ![r] = j] PROVE AroundStays
    <3>1. \A q \in Runs : job'[q] = IF q = r THEN j ELSE job[q]
      BY <1>0, <2>3
    <3>2. State \in DOMAIN j.moves =>
            Last(j.moves[State].new) = Doc(remote) \/ NewRecord(Last(j.moves[State].new))
      BY <1>0, <2>3, DecisionNew
    <3> QED BY <2>1, <3>1, <3>2, AroundHas, AroundQuiet
  <2> QED BY <2>1, <2>2, <2>3
<1>3. ASSUME NEW r \in Runs, Send(r) PROVE AroundStays
  <2> DEFINE moves == P!Sent(Batch(job[r]), remote)
             push == [run |-> r, live |-> TRUE, moves |-> moves]
  <2>1. /\ remote' = remote /\ job' = job
        /\ wire' = wire \/ (Publishable(job[r]) /\ wire' = wire \cup {push})
    BY <1>3 DEF Send
  <2>2. CASE wire' = wire
    BY <2>1, <2>2, AroundHas, AroundQuiet
  <2>3. CASE Publishable(job[r]) /\ wire' = wire \cup {push}
    <3>1. IsJob(job[r]) /\ IsDestination(remote)
      BY <1>0 DEF TypeOK
    <3>2. State \in DOMAIN moves => State \in DOMAIN job[r].moves /\ moves[State].new = job[r].moves[State].new
      BY <2>3, <3>1, SentIs DEF Half
    <3>3. push.moves = moves
      OBVIOUS
    <3> HIDE DEF moves, push
    <3>4. \A p \in wire' : State \in DOMAIN p.moves => Last(p.moves[State].new) \in Around
      BY <2>3, <3>2, <3>3, AroundHas
    <3> QED BY <2>1, <3>4, AroundHas, AroundQuiet
  <2> QED BY <2>1, <2>2, <2>3
<1>4. ASSUME NEW r \in Runs, Settle(r) PROVE AroundStays
  <2>1. /\ remote' = remote /\ wire' = wire /\ pc[r] = "pushed"
        /\ \/ job' = job
           \/ job' = [job EXCEPT ![r].half = "consumer"]
           \/ /\ Confirmed(r) /\ job[r].kind = "release" /\ Observable(job[r])
              /\ job' = [job EXCEPT ![r] = Observation(job[r])]
    BY <1>4 DEF Settle
  <2>2. CASE job' = job
    BY <2>1, <2>2, AroundHas, AroundQuiet
  <2>3. CASE job' = [job EXCEPT ![r].half = "consumer"]
    <3>1. IsJob(job[r])
      BY <1>0 DEF TypeOK
    <3>2. job[r] = [kind |-> job[r].kind, half |-> job[r].half, rel |-> job[r].rel, moves |-> job[r].moves]
      BY <3>1 DEF IsJob
    <3>3. job'[r] = [job[r] EXCEPT !.half = "consumer"] /\ \A q \in Runs : q # r => job'[q] = job[q]
      BY <1>0, <2>3
    <3>4. \A q \in Runs : job'[q].moves = job[q].moves
      BY <3>2, <3>3
    <3> QED BY <2>1, <3>4, AroundHas, AroundQuiet
  <2>4. CASE /\ Confirmed(r) /\ job[r].kind = "release" /\ Observable(job[r])
             /\ job' = [job EXCEPT ![r] = Observation(job[r])]
    <3> DEFINE j == job[r]
    <3>1. IsJob(j) /\ ReleasePlan(j) /\ \A ref \in Half(j) : remote[ref] = j.moves[ref].new
      BY <2>1, <2>4 DEF SyncInv, TypeOK, JobInv, PlanInv, Confirmed
    <3>2. Observable(j) /\ \A q \in Runs : job'[q] = IF q = r THEN Observation(j) ELSE job[q]
      BY <1>0, <2>4
    <3> HIDE DEF j
    <3>3. Accounting(j.rel, Last(Observation(j).moves[State].new))
      BY <1>0, <3>1, <3>2, ObservationIs
    <3>4. NewRecord(Last(Observation(j).moves[State].new))
      BY <3>3 DEF NewRecord
    <3> QED BY <2>1, <3>2, <3>4, AroundHas, AroundQuiet
  <2> QED BY <2>1, <2>2, <2>3, <2>4
<1>5. ASSUME NEW r \in Runs, Crash(r) PROVE AroundStays
  <2> DEFINE mine == {p \in wire : p.run = r /\ p.live}
             silenced == {[p EXCEPT !.live = FALSE] : p \in mine}
  <2>1. remote' = remote /\ job' = job /\ wire' \subseteq wire \cup silenced
    BY <1>5 DEF Crash
  <2>2. ASSUME NEW p \in silenced PROVE \E q \in wire : p.moves = q.moves
    <3>1. PICK q \in mine : p = [q EXCEPT !.live = FALSE]
      OBVIOUS
    <3>2. q \in wire /\ IsPush(q)
      BY <1>0 DEF TypeOK
    <3>3. p = [run |-> q.run, live |-> FALSE, moves |-> q.moves]
      BY <3>1, <3>2 DEF IsPush
    <3> QED BY <3>2, <3>3
  <2> HIDE DEF silenced
  <2>3. \A p \in wire' : \E q \in wire : p.moves = q.moves
    BY <2>1, <2>2
  <2>4. \A p \in wire' : State \in DOMAIN p.moves => Last(p.moves[State].new) \in Around
    BY <2>3, AroundHas
  <2> QED BY <2>1, <2>4, AroundHas, AroundQuiet
<1>6. ASSUME NEW p \in wire, ServerDecides(p) PROVE AroundStays
  <2>1. /\ wire' \subseteq wire /\ job' = job
        /\ remote' = IF P!Lockable(p.moves, remote) THEN P!Landed(p.moves, remote) ELSE remote
    BY <1>6 DEF ServerDecides
  <2>2. DOMAIN remote = Refs /\ State \in Refs
    BY <1>0, RefsApart DEF TypeOK, IsDestination
  <2>3. \/ remote'[State] = remote[State]
        \/ State \in DOMAIN p.moves /\ remote'[State] = p.moves[State].new
    BY <2>1, <2>2 DEF P!Landed
  <2>4. State \in DOMAIN p.moves => p.moves[State].new # None
    BY DEF SyncInv, WireInv, StatePush, Extends
  <2>5. Doc(remote') = Doc(remote) \/ (State \in DOMAIN p.moves /\ Doc(remote') = Last(p.moves[State].new))
    BY <2>3, <2>4 DEF Doc, Document
  <2> QED BY <2>1, <2>5, AroundHas, AroundQuiet
<1>7. CASE OperatorPush
  <2>1. wire' = wire /\ job' = job /\ remote' = [remote EXCEPT ![Main] = Append(@, Operator)]
    BY <1>7 DEF OperatorPush
  <2>2. remote'[State] = remote[State]
    BY <1>0, <2>1, RefsApart DEF TypeOK, IsDestination
  <2>3. Doc(remote') = Doc(remote)
    BY <2>2 DEF Doc
  <2> QED BY <2>1, <2>3, AroundHas, AroundQuiet
<1>8. CASE Upstream \/ UNCHANGED vars
  <2>1. wire' = wire /\ job' = job /\ remote' = remote
    BY <1>8 DEF Upstream, vars
  <2> QED BY <2>1, AroundHas, AroundQuiet
<1> QED BY <1>1, <1>2, <1>3, <1>4, <1>5, <1>6, <1>7, <1>8 DEF Next, RunStep

(* What a checkpoint of a release covers, and where its track was. *)
LEMMA ChunkIs ==
    ASSUME TypeOK, RemoteInv, NEW k, NEW segment, Chunk(k, segment)
    PROVE  /\ k \in Releases /\ ChunkStart(remote, k) \in Track
           /\ <<ChunkStart(remote, k).source, At[k]>> \in Above
           /\ Max(segment) \in Between(ChunkStart(remote, k).source, At[k])
           /\ segment = UpTo(Between(ChunkStart(remote, k).source, At[k]), Max(segment))
           /\ Advanced(remote, k, segment) \in Track
           /\ Advanced(remote, k, segment).source = Max(segment)
           /\ Advanced(remote, k, segment).dest = ChunkStart(remote, k).dest \o Written(segment, k)
           /\ Advanced(remote, k, segment).done = ChunkStart(remote, k).done + Cardinality(segment)
           /\ Advanced(remote, k, segment).total = ChunkStart(remote, k).total
<1>1. k \in Due(remote) /\ Chunkable(remote, k) /\ segment \in Stretches(remote, k) /\ k \in Releases
  BY DueIs DEF Chunk
<1>2. IsDestination(remote) /\ remote[Main] # None /\ remote[State] # None
  BY DEF TypeOK, RemoteInv, Chunk
<1>3. \A i \in DOMAIN Doc(remote).tracks : Doc(remote).tracks[i].dest # None
  BY <1>2, DocCoherent DEF Coherent
<1>4. Advanced(remote, k, segment) \in Track /\ ChunkStart(remote, k) \in Track
  BY <1>1, <1>2, <1>3, AdvancedType, ChunkStartType
<1>5. PICK rest : rest = Between(ChunkStart(remote, k).source, At[k])
  OBVIOUS
<1>6. PICK n \in rest : segment = UpTo(rest, n)
  BY <1>1, <1>5 DEF Stretches
<1>7. Max(segment) = n
  <2>1. rest \subseteq Nat
    BY <1>5, Numbers DEF Between
  <2>2. n \in segment /\ \A m \in segment : n >= m /\ m \in Nat
    BY <1>6, <2>1 DEF UpTo
  <2>3. \A m \in segment : (\A y \in segment : m >= y) => m = n
    BY <2>1, <2>2
  <2> QED BY <2>2, <2>3 DEF Max
<1>8. <<ChunkStart(remote, k).source, At[k]>> \in Above
  BY <1>1 DEF Chunkable
<1>9. /\ Advanced(remote, k, segment).source = Max(segment)
      /\ Advanced(remote, k, segment).dest = ChunkStart(remote, k).dest \o Written(segment, k)
      /\ Advanced(remote, k, segment).done = ChunkStart(remote, k).done + Cardinality(segment)
      /\ Advanced(remote, k, segment).total = ChunkStart(remote, k).total
  BY DEF Advanced
<1> QED BY <1>1, <1>4, <1>5, <1>6, <1>7, <1>8, <1>9

(* A new track starts where the branch is, which is what its release became, and
   operator commits. *)
LEMMA StartIs ==
    ASSUME TypeOK, RemoteInv, NEW k, NEW segment, Chunk(k, segment), OfReplays(Doc(remote))
    PROVE  IsReplay(ChunkStart(remote, k).dest, ChunkStart(remote, k).source)
<1> DEFINE d == Doc(remote)
           b == IF d.branch.rel # 0 THEN d.branch.rel ELSE 1
<1>1. IsRecord(d) /\ remote[Main] \in Commit
  BY RemoteTypes DEF TypeOK
<1>2. CASE k \in DOMAIN d.tracks
  BY <1>2 DEF ChunkStart, OfReplays, Reaches
<1>3. CASE k \notin DOMAIN d.tracks
  <2>1. ChunkStart(remote, k) = [source |-> At[b], dest |-> remote[Main], done |-> 0,
                                 total |-> Cardinality(Between(At[b], At[k]))]
    BY <1>3 DEF ChunkStart
  <2>2. ChunkStart(remote, k).source = At[b] /\ ChunkStart(remote, k).dest = remote[Main]
    BY <2>1
  <2>3. b \in DOMAIN d.cursors /\ d.cursors[b] = Generated(remote)
    BY DEF Chunk, Chunkable, Based
  <2> HIDE DEF b, d
  <2>4. IsReplay(Generated(remote), At[b])
    BY <2>3 DEF OfReplays, Becoming, d
  <2>5. CASE ControlPlane(remote)
    <3>1. /\ Generated(remote) = d.branch.object /\ IsPrefix(d.branch.object, remote[Main])
          /\ \A i \in Len(d.branch.object) + 1 .. Len(remote[Main]) : remote[Main][i] = Operator
      BY <2>5 DEF Generated, ControlPlane, d
    <3>2. d.branch.object \in Commit
      BY <1>1, RecordFields
    <3> QED BY <1>1, <2>2, <2>4, <3>1, <3>2, SameImages
  <2>6. CASE ~ControlPlane(remote)
    BY <2>2, <2>4, <2>6 DEF Generated
  <2> QED BY <2>5, <2>6
<1> QED BY <1>2, <1>3

(* The branch before the first release has none of its images. *)
Bare == remote[State] = None => ImagesIn(remote[Main]) = {}

LEMMA NewOfReplays ==
    ASSUME TypeOK, RemoteInv, Bare, OfReplays(Doc(remote)), NEW d, NewRecord(d)
    PROVE  OfReplays(d)
<1>0. IsRecord(Doc(remote)) /\ remote[Main] \in Commit
  BY RemoteTypes DEF TypeOK
<1>1. CASE remote[State] = None /\ d = FirstRecord(1, FirstCommit(remote))
  <2>1. Becoming(FirstCommit(remote), 1)
    BY <1>0, <1>1, FirstReplay DEF Bare, Becoming, FirstCommit
  <2>2. FirstCommit(remote) \in Commit /\ FirstCommit(remote) # None
    BY <1>0, Numbers, AboveIs, ImageType, Appended DEF FirstCommit
  <2>3. d.tracks = <<>> /\ d.cursors[1] = FirstCommit(remote) /\ DOMAIN d.cursors = {1}
    BY <1>1, <2>2, FirstRecordIs
  <2> QED BY <2>1, <2>3, EmptyMentions DEF OfReplays
<1>2. ASSUME NEW k, NEW segment, Chunk(k, segment), d = Tracked(Doc(remote), k, Advanced(remote, k, segment))
      PROVE  OfReplays(d)
  <2>1. PICK start : start = ChunkStart(remote, k)
    OBVIOUS
  <2>2. PICK track : track = Advanced(remote, k, segment)
    OBVIOUS
  <2>3. PICK top : top = Max(segment)
    OBVIOUS
  <2>4. /\ k \in Releases /\ start \in Track /\ <<start.source, At[k]>> \in Above
        /\ top \in Between(start.source, At[k]) /\ segment = UpTo(Between(start.source, At[k]), top)
        /\ track \in Track /\ track.source = top /\ track.dest = start.dest \o Written(segment, k)
    BY <1>2, <2>1, <2>2, <2>3, ChunkIs
  <2>5. IsReplay(start.dest, start.source)
    BY <1>2, <2>1, StartIs
  <2>6. start.dest \in Commit /\ start.source \in Commits
    BY <2>4 DEF Track
  <2>7. PICK c, n, next : c = start.dest /\ n = start.source /\ next = track.dest
    OBVIOUS
  <2>8. Reaches(next, top, k)
    <3>1. c \in Commit /\ n \in Commits /\ IsReplay(c, n) /\ k \in Releases /\ <<n, At[k]>> \in Above
      BY <2>4, <2>5, <2>6, <2>7
    <3>2. top \in Between(n, At[k]) /\ segment = UpTo(Between(n, At[k]), top) /\ next = c \o Written(segment, k)
      BY <2>4, <2>7
    <3> QED BY <3>1, <3>2, ReplayGrows, Zenon
  <2>9. <<top, At[k]>> \in Above
    BY <2>4 DEF Between
  <2>10. /\ d.cursors = Doc(remote).cursors
         /\ \A i : i \in DOMAIN d.tracks <=> i = k \/ i \in DOMAIN Doc(remote).tracks
         /\ d.tracks[k] = track
         /\ \A i \in DOMAIN Doc(remote).tracks : i # k => d.tracks[i] = Doc(remote).tracks[i]
    BY <1>0, <1>2, <2>2, <2>4, TrackedIs
  <2> QED BY <2>4, <2>7, <2>8, <2>9, <2>10 DEF OfReplays
<1>3. ASSUME NEW k, Accounting(k, d) PROVE OfReplays(d)
  <2>1. PICK commit : commit = remote[Tag(k)]
    OBVIOUS
  <2>2. /\ k \in Releases /\ d = Accounted(Doc(remote), remote, k, commit)
        /\ \/ k \in Finished(Doc(remote)) /\ Doc(remote).tracks[k].dest = commit
           \/ k = 1 /\ k \notin Finished(Doc(remote)) /\ Doc(remote).cursors[1] = commit
        /\ Coherent(Doc(remote))
    BY <1>3, <2>1 DEF Accounting
  <2>3. commit \in Commit
    BY <2>1, <2>2, RemoteTypes DEF TypeOK
  <2>4. /\ \A j : j \in DOMAIN d.cursors <=> j = k \/ j \in DOMAIN Doc(remote).cursors
        /\ d.cursors[k] = commit /\ \A j \in DOMAIN Doc(remote).cursors : j # k => d.cursors[j] = Doc(remote).cursors[j]
        /\ \A j : j \in DOMAIN d.tracks => j \in DOMAIN Doc(remote).tracks
        /\ \A j \in DOMAIN d.tracks : d.tracks[j] = Doc(remote).tracks[j]
    BY <1>0, <2>1, <2>2, <2>3, AccountedIs
  <2>5. Becoming(commit, k)
    <3>1. CASE k \in Finished(Doc(remote)) /\ Doc(remote).tracks[k].dest = commit
      <4>1. k \in DOMAIN Doc(remote).tracks /\ Doc(remote).tracks[k].source = At[k]
        BY <3>1 DEF Finished, Completed
      <4> QED BY <3>1, <4>1 DEF OfReplays, Becoming, Reaches
    <3>2. CASE k = 1 /\ Doc(remote).cursors[1] = commit
      BY <2>2, <3>2 DEF OfReplays, Coherent
    <3> QED BY <2>2, <3>1, <3>2
  <2> QED BY <2>4, <2>5 DEF OfReplays
<1> QED BY <1>1, <1>2, <1>3 DEF NewRecord

LEMMA BareStep == SyncInv /\ Bare /\ [Next]_vars => Bare'
<1> SUFFICES ASSUME SyncInv, Bare, [Next]_vars, remote'[State] = None PROVE ImagesIn(remote'[Main]) = {}
  BY DEF Bare
<1>0. TypeOK /\ DOMAIN remote = Refs /\ Main \in Refs /\ State \in Refs /\ Main # State
      /\ remote[Main] \in Commit
  BY RefsApart, RemoteTypes DEF SyncInv, TypeOK, IsDestination
<1>1. CASE remote' = remote
  BY <1>1 DEF Bare
<1>2. ASSUME NEW p \in wire, P!Lockable(p.moves, remote), remote' = P!Landed(p.moves, remote)
      PROVE  ImagesIn(remote'[Main]) = {}
  <2>1. \A ref \in Refs : remote'[ref] = IF ref \in DOMAIN p.moves THEN p.moves[ref].new ELSE remote[ref]
    BY <1>0, <1>2 DEF P!Landed
  <2>2. CASE State \in DOMAIN p.moves
    BY <1>0, <2>1, <2>2 DEF SyncInv, WireInv, StatePush, Extends
  <2>3. CASE State \notin DOMAIN p.moves
    <3>1. remote[State] = None /\ \E k, commit : Accounts(Doc(remote), k, commit)
      BY <1>0, <2>1, <2>3 DEF SyncInv, WireInv, ReleasePush
    <3>2. DOMAIN Unrecorded.cursors = {} /\ Finished(Unrecorded) = {}
      BY UnrecordedType, EmptyMentions DEF Finished, Completed, Unrecorded
    <3> QED BY <3>1, <3>2 DEF Accounts, Doc, Document
  <2> QED BY <2>2, <2>3
<1>3. CASE OperatorPush
  <2>1. remote' = [remote EXCEPT ![Main] = Append(@, Operator)]
    BY <1>3 DEF OperatorPush
  <2>2. remote'[Main] = Append(remote[Main], Operator) /\ remote'[State] = remote[State]
    BY <1>0, <2>1
  <2>3. ImagesIn(remote[Main]) = {}
    BY <2>2 DEF Bare
  <2> DEFINE main == remote[Main]
             next == Append(main, Operator)
  <2> HIDE DEF main
  <2>4. Len(main) \in Nat /\ DOMAIN main = 1 .. Len(main) /\ main \in Seq(Part) /\ Operator \in Part
    BY <1>0 DEF main, Commit, Part
  <2>5. /\ DOMAIN next = 1 .. Len(main) + 1 /\ next[Len(main) + 1] = Operator
        /\ \A i \in 1 .. Len(main) : next[i] = main[i]
    BY <2>4
  <2>6. \A i \in DOMAIN next : i = Len(main) + 1 \/ i \in DOMAIN main
    BY <2>4, <2>5
  <2>7. ImagesIn(next) = {}
    BY <2>3, <2>4, <2>5, <2>6 DEF ImagesIn, main
  <2> QED BY <2>2, <2>7 DEF main
<1>4. remote' = remote \/ OperatorPush
      \/ \E p \in wire : P!Lockable(p.moves, remote) /\ remote' = P!Landed(p.moves, remote)
  BY DEF Next, RunStep, Start, Discover, Send, Settle, Crash, ServerDecides, Upstream, vars
<1> QED BY <1>1, <1>2, <1>3, <1>4

(* The destinations a run can first find. *)
LEMMA FirstOfReplays == Init => Bare /\ OfReplays(Doc(remote)) /\ Around = {Doc(remote)}
<1> SUFFICES ASSUME Init PROVE Bare /\ OfReplays(Doc(remote)) /\ Around = {Doc(remote)}
  OBVIOUS
<1>1. Around = {Doc(remote)}
  <2>1. DOMAIN Idle.moves = {}
    BY EmptyMentions DEF Idle
  <2>2. wire = {} /\ \A r \in Runs : job[r] = Idle
    BY DEF Init
  <2> QED BY <2>1, <2>2 DEF Around
<1>2. ImagesIn(<<Setup>>) = {}
  BY DEF ImagesIn
<1>3. Empty[Main] = <<Setup>> /\ <<Setup>> \in Commit /\ Empty[State] = None
  BY RefsApart, EmptyIs, RemoteTypes DEF Empty
<1>4. Becoming(FirstCommit(Empty), 1)
  BY <1>2, <1>3, FirstReplay DEF FirstCommit, Becoming
<1>5. FirstCommit(Empty) \in Commit /\ FirstCommit(Empty) # None
  BY FirstReleasedIs
<1>6. CASE AtFirst = "setup"
  <2>1. remote = Empty
    BY <1>6 DEF Init
  <2>2. Doc(remote) = Unrecorded
    BY <1>3, <2>1 DEF Doc, Document
  <2>3. DOMAIN Unrecorded.cursors = {} /\ DOMAIN Unrecorded.tracks = {}
    BY UnrecordedType, EmptyMentions DEF Unrecorded
  <2> QED BY <1>1, <1>2, <1>3, <2>1, <2>2, <2>3 DEF Bare, OfReplays
<1> DEFINE record == FirstRecord(1, FirstCommit(Empty))
<1>7. /\ record.tags = <<>> /\ record.tracks = <<>> /\ IsRecord(record)
      /\ record.cursors[1] = FirstCommit(Empty) /\ DOMAIN record.cursors = {1}
  BY <1>5, FirstRecordIs
<1>8. /\ Doc(FirstReleased) = record /\ FirstReleased[State] = Append(None, record)
      /\ FirstReleased[Main] = FirstCommit(Empty) /\ IsDestination(FirstReleased)
      /\ FirstReleased[Tag(1)] = FirstCommit(Empty)
  BY FirstReleasedIs
<1> HIDE DEF record
<1>9. CASE AtFirst = "first release"
  <2>1. remote = FirstReleased
    BY <1>9 DEF Init
  <2>2. remote[State] # None
    BY <1>7, <1>8, <2>1, NoHistory, Grown
  <2>3. OfReplays(record)
    BY <1>4, <1>7, EmptyMentions DEF OfReplays
  <2> QED BY <1>1, <1>8, <2>1, <2>2, <2>3 DEF Bare
<1>10. CASE AtFirst = "recorded"
  <2> DEFINE next == Accounted(record, FirstReleased, 1, FirstCommit(Empty))
             j == Reconciliation("adoption", record, FirstReleased, 1, FirstCommit(Empty))
  <2>1. remote = Landed(FirstReleased, j)
    BY <1>8, <1>10 DEF Init, Recorded
  <2>2. FirstCommit(Empty) \in Commit /\ 1 \in Releases /\ FirstReleased[State] \in Seq(Range(FirstReleased[State]))
        /\ IsHistory(FirstReleased[State])
    BY <1>5, <1>8, Numbers, RemoteTypes DEF IsHistory
  <2>3. IsJob(j) /\ State \in DOMAIN j.moves /\ j.moves[State].new = Append(FirstReleased[State], next)
    BY <1>5, <1>7, <1>8, <2>2, ReconciliationIs
  <2>4. remote[State] = Append(FirstReleased[State], next)
    BY <1>8, <2>1, <2>3, LandedIs
  <2>5. /\ IsRecord(next)
        /\ \A i : i \in DOMAIN next.cursors <=> i = 1 \/ i \in DOMAIN record.cursors
        /\ next.cursors[1] = FirstCommit(Empty)
        /\ \A i : i \in DOMAIN next.tracks => i \in DOMAIN record.tracks
    BY <1>7, <1>8, <2>2, AccountedIs
  <2> HIDE DEF next
  <2>6. OfReplays(next)
    BY <1>4, <1>7, <2>5, EmptyMentions DEF OfReplays
  <2>7. remote[State] # None /\ Doc(remote) = next
    BY <2>2, <2>4, <2>5, Grown DEF Doc, Document
  <2> QED BY <1>1, <2>6, <2>7 DEF Bare
<1> QED BY <1>6, <1>9, <1>10, SourceAssumption

(* Every record that is or may become the destination's is of replays. *)
ReplayInv == SyncInv /\ Bare /\ \A d \in Around : OfReplays(d)

LEMMA ReplayInit == Init => ReplayInv
  BY InitInv, FirstOfReplays DEF ReplayInv

LEMMA ReplayStep == ReplayInv /\ [Next]_vars => ReplayInv'
<1> SUFFICES ASSUME ReplayInv, [Next]_vars PROVE ReplayInv'
  OBVIOUS
<1>1. SyncInv' /\ Bare' /\ AroundStays
  BY StepInv, BareStep, AroundStep DEF ReplayInv
<1>2. TypeOK /\ RemoteInv /\ Bare /\ OfReplays(Doc(remote))
  BY AroundHas DEF ReplayInv, SyncInv
<1>3. \A d \in Around' : OfReplays(d)
  BY <1>1, <1>2, NewOfReplays DEF ReplayInv, AroundStays
<1> QED BY <1>1, <1>3 DEF ReplayInv

LEMMA ReplayTags == ReplayInv => TagsAreReplays
<1> SUFFICES ASSUME ReplayInv, NEW k \in Tagged(remote) PROVE Becoming(remote[Tag(k)], k)
  BY DEF TagsAreReplays, Becoming
<1>1. OfReplays(Doc(remote)) /\ Accounts(Doc(remote), k, remote[Tag(k)])
  BY AroundHas DEF ReplayInv, SyncInv, RemoteInv
<1>2. CASE k \in Finished(Doc(remote)) /\ Doc(remote).tracks[k].dest = remote[Tag(k)]
  BY <1>1, <1>2 DEF OfReplays, Becoming, Reaches, Finished, Completed
<1>3. CASE k \in DOMAIN Doc(remote).cursors /\ Doc(remote).cursors[k] = remote[Tag(k)]
  BY <1>1, <1>3 DEF OfReplays
<1> QED BY <1>1, <1>2, <1>3 DEF Accounts

(* "The mapping is many-to-one and never remaps" (docs/replay-model.md): every
   tag names the replay of its release, every relevant commit once and in order,
   and ends with the release's own commit, for any history without merges, chunk
   size, number of runs, crashes and operator commits. *)
THEOREM ReplaysTagged == Spec => []TagsAreReplays
  BY ReplayInit, ReplayStep, ReplayTags, PTL DEF Spec

-----------------------------------------------------------------------------
(* Releases tagged in their order. *)

(* What lies above the commit of the release the branch is at. *)
Ahead(track, branch) ==
    /\ <<At[branch.rel], track.source>> \in Above /\ track.source # At[branch.rel]
    /\ IsPrefix(branch.object, track.dest)
    /\ \E i \in ImagesIn(track.dest) : <<track.dest[i][1], At[branch.rel]>> \notin Above

(* The branch is at the last release that is recorded, and what there is on the way
   to the next one has an image of its own. *)
InLine(d) ==
    /\ DOMAIN d.tags # {} => d.branch.rel # 0
    /\ d.branch.rel # 0 =>
        /\ d.branch.rel \in DOMAIN d.cursors /\ d.cursors[d.branch.rel] = d.branch.object
        /\ \A k \in DOMAIN d.cursors : <<At[k], At[d.branch.rel]>> \in Above
        /\ \A k \in DOMAIN d.tracks : Ahead(d.tracks[k], d.branch)

(* A release has a track only when every lower one is recorded. *)
InOrder(d) == \A k \in DOMAIN d.tracks : k \in released /\ \A j \in released : j < k => j \in DOMAIN d.tags

(* What a record says of its own fields, whichever it is. *)
Plain(d) ==
    /\ IsRecord(d)
    /\ \A k \in DOMAIN d.tags : k \in DOMAIN d.cursors /\ d.cursors[k] = d.tags[k]
    /\ \A k \in DOMAIN d.tracks : k \notin DOMAIN d.tags /\ DOMAIN d.tags # {}

LEMMA OneTrack ==
    ASSUME NEW d, Plain(d), InOrder(d), NEW j \in DOMAIN d.tracks, NEW k \in DOMAIN d.tracks
    PROVE  j = k
<1>1. j \in Nat /\ k \in Nat
  BY RecordFields, Numbers DEF Plain
<1>2. ~(j < k) /\ ~(k < j)
  BY DEF InOrder, Plain
<1> QED BY <1>1, <1>2

(* Releases become different commits, and a track is at none of them. *)
LEMMA CursorsApart ==
    ASSUME NEW d, IsRecord(d), OfReplays(d), NEW j \in DOMAIN d.cursors, NEW k \in DOMAIN d.cursors
    PROVE  /\ d.cursors[j] = d.cursors[k] => j = k
           /\ At[j] = At[k] => j = k
<1>1. j \in Releases /\ k \in Releases /\ At[j] \in Commits /\ At[k] \in Commits
  BY RecordFields, AboveIs
<1>2. \A i, l \in Releases : At[i] = At[l] => i = l
  BY SourceAssumption, Zenon
<1>3. Image(At[j], j)[1] = At[j] /\ Image(At[k], k)[1] = At[k]
  BY <1>1, ImageIs
<1>4. Last(d.cursors[j]) = Image(At[j], j) /\ Last(d.cursors[k]) = Image(At[k], k)
  BY DEF OfReplays, Becoming
<1>5. d.cursors[j] = d.cursors[k] => At[j] = At[k]
  BY <1>3, <1>4
<1> QED BY <1>1, <1>2, <1>5

LEMMA TrackApart ==
    ASSUME NEW d, IsRecord(d), OfReplays(d), InLine(d), DOMAIN d.tags # {},
           NEW j \in DOMAIN d.cursors, NEW k \in DOMAIN d.tracks
    PROVE  d.cursors[j] # d.tracks[k].dest /\ At[j] # d.tracks[k].source
<1> DEFINE b == d.branch.rel
           track == d.tracks[k]
<1>1. b # 0 /\ <<At[j], At[b]>> \in Above /\ Ahead(track, d.branch)
  BY DEF InLine
<1>2. b \in Releases /\ At[b] \in Commits /\ At[j] \in Commits /\ At[b] \in Nat /\ At[j] \in Nat
  BY <1>1, RecordFields, AboveIs
<1>3. At[j] # track.source
  <2> SUFFICES ASSUME At[j] = track.source PROVE FALSE
    OBVIOUS
  <2>1. At[j] <= At[b] /\ At[b] <= At[j] /\ At[j] # At[b]
    BY <1>1, AboveIs DEF Ahead
  <2> QED BY <1>2, <2>1
<1>4. d.cursors[j] # track.dest
  <2> SUFFICES ASSUME d.cursors[j] = track.dest PROVE FALSE
    OBVIOUS
  <2>1. PICK i \in ImagesIn(track.dest) : <<track.dest[i][1], At[b]>> \notin Above
    BY <1>1 DEF Ahead
  <2>2. <<track.dest[i][1], At[j]>> \in Above
    BY <2>1 DEF OfReplays, Becoming, IsReplay
  <2>3. track.dest[i][1] \in Commits
    BY <2>2, AboveIs
  <2> QED BY <1>1, <1>2, <2>1, <2>2, <2>3, AboveIs
<1> QED BY <1>3, <1>4

LEMMA LineCorresponds ==
    ASSUME NEW d, Plain(d), OfReplays(d), InLine(d), InOrder(d)
    PROVE  Corresponds(d)
<1> DEFINE Cursor(i) == \E k \in DOMAIN d.cursors : i = <<At[k], d.cursors[k]>>
           Going(i) == \E k \in DOMAIN d.tracks : i = <<d.tracks[k].source, d.tracks[k].dest>>
<1>0. IsRecord(d)
  BY DEF Plain
<1>1. \A i \in Images(d) : Cursor(i) \/ Going(i)
  <2> TAKE i \in Images(d)
  <2>1. \/ Cursor(i) \/ Going(i)
        \/ d.branch.rel # 0 /\ i = <<At[d.branch.rel], d.branch.object>>
    BY DEF Images
  <2> QED BY <2>1 DEF InLine
<1>2. ASSUME NEW i, NEW j, Cursor(i), Cursor(j) PROVE i[1] = j[1] <=> i[2] = j[2]
  <2>1. PICK k \in DOMAIN d.cursors : i = <<At[k], d.cursors[k]>>
    BY <1>2
  <2>2. PICK l \in DOMAIN d.cursors : j = <<At[l], d.cursors[l]>>
    BY <1>2
  <2>3. (d.cursors[k] = d.cursors[l] => k = l) /\ (At[k] = At[l] => k = l)
    BY <1>0, CursorsApart
  <2> QED BY <2>1, <2>2, <2>3
<1>3. ASSUME NEW i, NEW j, Going(i), Going(j) PROVE i = j
  BY <1>3, OneTrack
<1>4. ASSUME NEW i, NEW j, Cursor(i), Going(j) PROVE i[1] # j[1] /\ i[2] # j[2]
  <2>1. PICK k \in DOMAIN d.cursors : i = <<At[k], d.cursors[k]>>
    BY <1>4
  <2>2. PICK l \in DOMAIN d.tracks : j = <<d.tracks[l].source, d.tracks[l].dest>>
    BY <1>4
  <2>3. DOMAIN d.tags # {}
    BY <2>2 DEF Plain
  <2>4. d.cursors[k] # d.tracks[l].dest /\ At[k] # d.tracks[l].source
    BY <1>0, <2>3, TrackApart
  <2> QED BY <2>1, <2>2, <2>4
<1>5. \A i, j \in Images(d) : i[1] = j[1] <=> i[2] = j[2]
  <2> TAKE i, j \in Images(d)
  <2>1. (Cursor(i) \/ Going(i)) /\ (Cursor(j) \/ Going(j))
    BY <1>1
  <2> HIDE DEF Cursor, Going
  <2> QED BY <1>2, <1>3, <1>4, <2>1
<1>6. IsInjective(d.tags)
  BY <1>0, CursorsApart DEF IsInjective, Plain
<1> QED BY <1>5, <1>6 DEF Corresponds

LEMMA DocPlain ==
    ASSUME TypeOK, RemoteInv
    PROVE  Plain(Doc(remote))
<1>1. IsRecord(Doc(remote))
  BY RemoteTypes DEF TypeOK
<1>2. CASE remote[State] = None
  <2>1. Doc(remote) = Unrecorded /\ DOMAIN Unrecorded.tags = {} /\ DOMAIN Unrecorded.tracks = {}
    BY <1>2, EmptyMentions DEF Doc, Document, Unrecorded
  <2> QED BY <1>1, <2>1 DEF Plain
<1>3. CASE remote[State] # None
  BY <1>1, <1>3, DocCoherent DEF Plain, Coherent
<1> QED BY <1>2, <1>3

(* A checkpoint is of the lowest release that is not recorded, and some release is. *)
LEMMA ChunkDue ==
    ASSUME TypeOK, RemoteInv, NEW k, NEW segment, Chunk(k, segment)
    PROVE  /\ 1 \in DOMAIN Doc(remote).tags /\ k \notin DOMAIN Doc(remote).tags /\ k \in Releases
           /\ k \in released /\ \A j \in released : j < k => j \in DOMAIN Doc(remote).tags
<1> DEFINE d == Doc(remote)
<1>1. k \in Due(remote) /\ Chunkable(remote, k) /\ remote[State] # None
  BY DEF Chunk
<1>2. /\ k \in Releases /\ k \notin DOMAIN d.tags /\ (k # 1 => 1 \in DOMAIN d.tags) /\ Adopted(remote) = {}
      /\ Coherent(d)
  BY <1>1, DueIs, DocCoherent
<1>3. 1 \in DOMAIN d.tags
  <2> SUFFICES ASSUME 1 \notin DOMAIN d.tags PROVE FALSE
    OBVIOUS
  <2>1. k = 1 /\ d.branch.rel = 0 /\ DOMAIN d.tracks = {}
    BY <1>2 DEF Coherent
  <2>2. ChunkStart(remote, k).source = At[1]
    BY <2>1 DEF ChunkStart
  <2>3. Between(At[1], At[1]) = {}
    BY DEF Between
  <2> QED BY <1>1, <2>1, <2>2, <2>3 DEF Chunkable
<1>4. k \in Pending(remote) /\ \A j \in Pending(remote) : k <= j
  BY <1>1, NextIs DEF Due, TypeOK
<1>5. ASSUME NEW j \in released, j < k PROVE j \in DOMAIN d.tags
  <2>1. j \in Nat /\ k \in Nat /\ j \in Releases
    BY <1>2, Numbers DEF TypeOK
  <2>2. j \notin Pending(remote)
    BY <1>4, <1>5, <2>1
  <2> QED BY <1>2, <2>2 DEF Pending, Adopted
<1> QED BY <1>2, <1>3, <1>4, <1>5 DEF Pending

(* A new track writes something. *)
LEMMA FreshWrites ==
    ASSUME NEW k \in Releases, NEW segment \in Stretches(remote, k), k \notin DOMAIN Doc(remote).tracks,
           NEW n \in Commits, n = ChunkStart(remote, k).source, <<n, At[k]>> \in Above,
           NEW top \in Between(n, At[k]), segment = UpTo(Between(n, At[k]), top)
    PROVE  /\ Len(Written(segment, k)) > 0
           /\ Written(segment, k)[1][1] \in segment /\ 1 \in ImagesIn(Written(segment, k))
<1>1. PICK rest : rest = Between(n, At[k])
  OBVIOUS
<1>2. Enough(segment, rest, k, TRUE)
  BY <1>1 DEF Stretches
<1>3. PICK w : w = Written(segment, k)
  OBVIOUS
<1>4. At[k] \in Commits
  BY AboveIs
<1>5. Stretch(segment, n, top, At[k])
  BY <1>4, StretchAbove, Zenon
<1>6. Becomes(w, segment, k)
  BY <1>3, <1>5, WrittenIs DEF Stretch
<1>7. Len(w) > 0
  <2>1. CASE segment = rest
    <3>1. <<top, At[k]>> \in Above /\ <<top, n>> \notin Above /\ top \in Commits
      BY <1>5 DEF Stretch
    <3>2. <<At[k], n>> \notin Above
      BY <1>4, <3>1, AboveIs
    <3>3. At[k] \in segment
      BY <1>1, <1>4, <2>1, <3>2, AboveIs DEF Between
    <3>4. \A m \in segment : m <= At[k]
      BY <1>5, <3>3 DEF Stretch
    <3> QED BY <1>6, <3>3, <3>4 DEF Becomes
  <2>2. CASE Written(segment, k) # <<>>
    <3>1. w \in Seq(Part) /\ w # <<>>
      BY <1>3, <1>6, <2>2 DEF Becomes, Commit
    <3> QED BY <3>1
  <2> QED BY <1>2, <2>1, <2>2 DEF Enough
<1>8. 1 \in 1 .. Len(w)
  BY <1>6, <1>7 DEF Becomes
<1> QED BY <1>3, <1>6, <1>7, <1>8 DEF Becomes

LEMMA ChunkAhead ==
    ASSUME TypeOK, RemoteInv, NEW k, NEW segment, Chunk(k, segment), InLine(Doc(remote)),
           NEW track, track = Advanced(remote, k, segment)
    PROVE  Ahead(track, Doc(remote).branch)
<1> DEFINE d == Doc(remote)
           b == Doc(remote).branch.rel
           object == Doc(remote).branch.object
<1>1. PICK start : start = ChunkStart(remote, k)
  OBVIOUS
<1>2. PICK top : top = Max(segment)
  OBVIOUS
<1>3. /\ k \in Releases /\ start \in Track /\ <<start.source, At[k]>> \in Above
      /\ top \in Between(start.source, At[k]) /\ segment = UpTo(Between(start.source, At[k]), top)
      /\ track \in Track /\ track.source = top /\ track.dest = start.dest \o Written(segment, k)
  BY <1>1, <1>2, ChunkIs
<1>4. PICK n, c, next, w : n = start.source /\ c = start.dest /\ next = track.dest /\ w = Written(segment, k)
  OBVIOUS
<1>5. n \in Commits /\ c \in Commit /\ next \in Commit
  BY <1>3, <1>4 DEF Track
<1>6. /\ IsRecord(d) /\ b # 0 /\ b \in Releases /\ At[b] \in Commits /\ At[k] \in Commits /\ object \in Commit
      /\ remote[Main] \in Commit
      /\ b \in DOMAIN d.cursors /\ d.cursors[b] = object
  <2>1. IsRecord(d) /\ b # 0
    BY ChunkDue, RemoteTypes DEF InLine, TypeOK
  <2> QED BY <1>3, <2>1, RecordFields, RemoteTypes, AboveIs DEF InLine, TypeOK
<1>7. <<n, At[k]>> \in Above /\ top \in Between(n, At[k]) /\ segment = UpTo(Between(n, At[k]), top)
  BY <1>3, <1>4
<1>8. Stretch(segment, n, top, At[k])
  BY <1>5, <1>6, <1>7, StretchAbove, Zenon
<1>9. /\ segment \subseteq Commits /\ top \in Commits /\ <<n, top>> \in Above /\ n < top
      /\ \A m \in segment : <<m, n>> \notin Above
  <2>1. \A m \in segment : <<m, n>> \notin Above
    BY <1>7 DEF UpTo, Between
  <2> QED BY <1>8, <2>1 DEF Stretch
<1>10. Joined(c, w, next)
  <2>1. w \in Commit
    BY <1>3, <1>4, <1>9, WrittenType
  <2> QED BY <1>3, <1>4, <1>5, <2>1, PlacesJoin
<1>11. ASSUME <<At[b], n>> \in Above, IsPrefix(object, c), \E i \in ImagesIn(next) : <<next[i][1], At[b]>> \notin Above
       PROVE  Ahead(track, d.branch)
  <2>1. <<At[b], top>> \in Above
    BY <1>5, <1>6, <1>9, <1>11, AboveIs
  <2>2. top # At[b]
    <3>1. At[b] <= n /\ At[b] \in Nat /\ n \in Nat /\ top \in Nat
      BY <1>5, <1>6, <1>9, <1>11, AboveIs, Numbers
    <3> QED BY <1>9, <3>1
  <2>3. IsPrefix(object, next)
    BY <1>5, <1>6, <1>10, <1>11, PrefixTransitive DEF Joined
  <2> QED BY <1>3, <1>4, <1>11, <2>1, <2>2, <2>3 DEF Ahead
<1>12. CASE k \in DOMAIN d.tracks
  <2>1. start = d.tracks[k]
    BY <1>1, <1>12 DEF ChunkStart
  <2>2. Ahead(start, d.branch)
    BY <1>6, <1>12, <2>1 DEF InLine
  <2>3. <<At[b], n>> \in Above /\ IsPrefix(object, c) /\ \E i \in ImagesIn(c) : <<c[i][1], At[b]>> \notin Above
    BY <1>4, <2>2 DEF Ahead
  <2>4. PICK i \in ImagesIn(c) : <<c[i][1], At[b]>> \notin Above
    BY <2>3
  <2>5. i \in 1 .. Len(c)
    BY <1>5, PlacesAre
  <2>6. i \in ImagesIn(next) /\ next[i] = c[i]
    BY <1>10, <2>4, <2>5 DEF Joined
  <2> QED BY <1>11, <2>3, <2>4, <2>6
<1>13. CASE k \notin DOMAIN d.tracks
  <2>1. start = [source |-> At[b], dest |-> remote[Main], done |-> 0, total |-> Cardinality(Between(At[b], At[k]))]
    BY <1>1, <1>6, <1>13 DEF ChunkStart
  <2>2. n = At[b] /\ c = remote[Main]
    BY <1>4, <2>1
  <2>3. Generated(remote) = object
    BY <1>6 DEF Chunk, Chunkable, Based
  <2>4. IsPrefix(object, c)
    <3>1. CASE ControlPlane(remote)
      BY <2>2, <3>1 DEF ControlPlane
    <3>2. CASE ~ControlPlane(remote)
      BY <1>6, <2>2, <2>3, <3>2, PrefixLaws DEF Generated
    <3> QED BY <3>1, <3>2
  <2>5. Len(w) > 0 /\ w[1][1] \in segment /\ 1 \in ImagesIn(w)
    <3>1. segment \in Stretches(remote, k)
      BY DEF Chunk
    <3>2. n = ChunkStart(remote, k).source
      BY <1>1, <1>4
    <3> QED BY <1>3, <1>4, <1>5, <1>7, <1>13, <3>1, <3>2, FreshWrites
  <2>6. Len(c) + 1 \in ImagesIn(next) /\ next[Len(c) + 1] = w[1]
    <3>1. 1 \in 1 .. Len(w)
      BY <1>3, <1>4, <1>9, <2>5, WrittenType, PlacesAre
    <3> QED BY <1>10, <2>5, <3>1 DEF Joined
  <2>7. <<next[Len(c) + 1][1], At[b]>> \notin Above
    BY <1>9, <2>2, <2>5, <2>6
  <2>8. <<At[b], n>> \in Above
    BY <1>6, <2>2, AboveIs
  <2> QED BY <1>11, <2>4, <2>6, <2>7, <2>8
<1> QED BY <1>12, <1>13

(* What a run records next is in line, and the record's merge takes it. *)
LEMMA ChunkMerges ==
    ASSUME TypeOK, RemoteInv, Bare, OfReplays(Doc(remote)), InLine(Doc(remote)), InOrder(Doc(remote)),
           NEW k, NEW segment, Chunk(k, segment),
           NEW next, next = Tracked(Doc(remote), k, Advanced(remote, k, segment))
    PROVE  InLine(next) /\ InOrder(next) /\ Merges(Doc(remote), next)
<1> DEFINE d == Doc(remote)
<1>1. PICK track, start : track = Advanced(remote, k, segment) /\ start = ChunkStart(remote, k)
  OBVIOUS
<1>2. /\ 1 \in DOMAIN d.tags /\ k \notin DOMAIN d.tags /\ k \in Releases
      /\ k \in released /\ \A j \in released : j < k => j \in DOMAIN d.tags
  BY ChunkDue
<1>3. Plain(d) /\ IsRecord(d)
  BY DocPlain DEF Plain
<1>4. /\ track \in Track /\ start \in Track /\ track.dest = start.dest \o Written(segment, k)
      /\ track.done = start.done + Cardinality(segment) /\ track.total = start.total
      /\ <<start.source, At[k]>> \in Above /\ track.source = Max(segment)
      /\ Max(segment) \in Between(start.source, At[k])
      /\ segment = UpTo(Between(start.source, At[k]), Max(segment))
  BY <1>1, ChunkIs
<1>5. /\ next.cursors = d.cursors /\ next.branch = d.branch /\ next.tags = d.tags
      /\ \A i : i \in DOMAIN next.tracks <=> i = k \/ i \in DOMAIN d.tracks
      /\ next.tracks[k] = track
      /\ \A i \in DOMAIN d.tracks : i # k => next.tracks[i] = d.tracks[i]
      /\ IsRecord(next)
  BY <1>1, <1>2, <1>3, <1>4, TrackedIs
<1>6. Ahead(track, d.branch)
  BY <1>1, ChunkAhead
<1>7. InLine(next)
  BY <1>5, <1>6 DEF InLine
<1>8. InOrder(next)
  BY <1>2, <1>5 DEF InOrder
<1>9. OfReplays(next)
  <2>1. NewRecord(next)
    BY DEF NewRecord
  <2> QED BY <2>1, NewOfReplays
<1>10. Plain(next)
  BY <1>2, <1>3, <1>5 DEF Plain
<1>11. Corresponds(next)
  BY <1>7, <1>8, <1>9, <1>10, LineCorresponds
<1>12. \A i \in DOMAIN d.cursors : i \in DOMAIN next.cursors /\ IsPrefix(d.cursors[i], next.cursors[i])
  BY <1>3, <1>5, RecordFields, PrefixLaws
<1>13. ASSUME NEW i \in DOMAIN d.tracks
       PROVE  /\ d.tracks[i].done <= next.tracks[i].done /\ d.tracks[i].total <= next.tracks[i].total
              /\ <<d.tracks[i].source, next.tracks[i].source>> \in Above
              /\ IsPrefix(d.tracks[i].dest, next.tracks[i].dest)
  <2>1. d.tracks[i] \in Track
    BY <1>3, RecordFields
  <2>2. CASE i # k
    <3>1. next.tracks[i] = d.tracks[i]
      BY <1>5, <2>2
    <3> QED BY <2>1, <3>1, PrefixLaws, AboveIs DEF Track
  <2>3. CASE i = k
    <3>1. start = d.tracks[k]
      BY <1>1, <2>3 DEF ChunkStart
    <3>2. PICK n, top, w : n = start.source /\ top = Max(segment) /\ w = Written(segment, k)
      OBVIOUS
    <3>3. At[k] \in Commits /\ n \in Commits /\ <<n, At[k]>> \in Above /\ top \in Between(n, At[k])
          /\ segment = UpTo(Between(n, At[k]), top)
      BY <1>2, <1>4, <3>2, AboveIs DEF Track
    <3>4. Stretch(segment, n, top, At[k])
      BY <3>3, StretchAbove, Zenon
    <3>5. segment \subseteq Commits /\ <<n, top>> \in Above
      BY <3>4 DEF Stretch
    <3>6. w \in Commit /\ Cardinality(segment) \in Nat
      BY <1>2, <3>2, <3>5, WrittenType, CountType
    <3>7. Joined(start.dest, w, track.dest)
      BY <1>4, <3>2, <3>6, PlacesJoin DEF Track
    <3>8. next.tracks[i] = track /\ d.tracks[i] = start
      BY <1>5, <2>3, <3>1
    <3>9. start.done \in Nat /\ start.total \in Nat
      BY <1>4 DEF Track
    <3>10. start.done <= start.done + Cardinality(segment) /\ start.total <= start.total
      BY <3>6, <3>9
    <3> QED BY <1>4, <3>2, <3>5, <3>7, <3>8, <3>10 DEF Joined
  <2> QED BY <2>2, <2>3
<1>14. d.branch.rel # 0 =>
        /\ next.branch.rel # 0 /\ IsPrefix(d.branch.object, next.branch.object)
        /\ <<At[d.branch.rel], At[next.branch.rel]>> \in Above
  BY <1>3, <1>5, RecordFields, PrefixLaws, AboveIs
<1>15. Merges(d, next)
  <2>1. DOMAIN d.tracks \ DOMAIN next.tracks = {}
    BY <1>5
  <2>2. \A i \in DOMAIN d.tags : i \in DOMAIN next.tags /\ next.tags[i] = d.tags[i]
    BY <1>5
  <2> QED BY <1>11, <1>12, <1>13, <1>14, <2>1, <2>2 DEF Merges
<1> QED BY <1>7, <1>8, <1>15

LEMMA AccountingMerges ==
    ASSUME TypeOK, RemoteInv, Bare, OfReplays(Doc(remote)), InLine(Doc(remote)), InOrder(Doc(remote)),
           NEW k, NEW next, Accounting(k, next)
    PROVE  InLine(next) /\ InOrder(next) /\ Merges(Doc(remote), next)
<1> DEFINE d == Doc(remote)
<1>1. PICK commit : commit = remote[Tag(k)]
  OBVIOUS
<1>2. /\ k \in Releases /\ k \notin DOMAIN d.tags /\ Coherent(d)
      /\ \/ k \in Finished(d) /\ d.tracks[k].dest = commit
         \/ k = 1 /\ k \notin Finished(d) /\ d.cursors[1] = commit
      /\ next = Accounted(d, remote, k, commit)
  BY <1>1 DEF Accounting
<1>3. commit \in Commit /\ At[k] \in Commits /\ k # 0
  BY <1>1, <1>2, RemoteTypes, AboveIs, Numbers DEF TypeOK
<1>4. Plain(d) /\ IsRecord(d)
  BY DocPlain DEF Plain
<1>5. /\ IsRecord(next)
      /\ next.branch.rel = k /\ next.branch.object = commit
      /\ \A j : j \in DOMAIN next.cursors <=> j = k \/ j \in DOMAIN d.cursors
      /\ next.cursors[k] = commit /\ \A j \in DOMAIN d.cursors : j # k => next.cursors[j] = d.cursors[j]
      /\ \A j : j \in DOMAIN next.tags <=> j = k \/ j \in DOMAIN d.tags
      /\ next.tags[k] = commit /\ \A j \in DOMAIN d.tags : j # k => next.tags[j] = d.tags[j]
      /\ \A j : j \in DOMAIN next.tracks <=> j \in DOMAIN d.tracks /\ (k \in Finished(d) => j # k)
      /\ \A j \in DOMAIN next.tracks : next.tracks[j] = d.tracks[j]
  BY <1>1, <1>2, <1>3, <1>4, AccountedIs
<1>6. k \in Finished(d) => k \in DOMAIN d.tracks /\ k \in Completed(d) /\ d.tracks[k].source = At[k]
  BY DEF Finished, Completed
<1>7. ASSUME k \in Finished(d)
      PROVE  /\ d.branch.rel # 0 /\ Ahead(d.tracks[k], d.branch) /\ DOMAIN next.tracks = {}
             /\ k \notin DOMAIN d.cursors
             /\ \A j \in DOMAIN d.cursors : <<At[j], At[k]>> \in Above
  <2>1. d.branch.rel # 0 /\ Ahead(d.tracks[k], d.branch)
    BY <1>2, <1>6, <1>7 DEF InLine, Coherent
  <2>2. k \notin DOMAIN d.cursors
    BY <1>2, <1>6, <1>7 DEF Coherent
  <2>3. DOMAIN next.tracks = {}
    BY <1>4, <1>5, <1>6, <1>7, OneTrack
  <2>4. At[d.branch.rel] \in Commits /\ \A j \in DOMAIN d.cursors : At[j] \in Commits
    BY <1>4, <2>1, RecordFields, AboveIs
  <2>5. <<At[d.branch.rel], At[k]>> \in Above
    BY <1>6, <1>7, <2>1 DEF Ahead
  <2>6. \A j \in DOMAIN d.cursors : <<At[j], At[k]>> \in Above
    BY <1>3, <2>1, <2>4, <2>5, AboveIs DEF InLine
  <2> QED BY <2>1, <2>2, <2>3, <2>6
<1>8. ASSUME k \notin Finished(d)
      PROVE  /\ k = 1 /\ d.branch.rel = 0 /\ DOMAIN d.tags = {} /\ DOMAIN d.tracks = {} /\ DOMAIN next.tracks = {}
             /\ DOMAIN d.cursors = {1} /\ d.cursors[1] = commit
  <2>1. k = 1 /\ d.cursors[1] = commit /\ DOMAIN d.tags = {}
    BY <1>2, <1>8 DEF Coherent
  <2> QED BY <1>2, <1>5, <2>1 DEF Coherent
<1>9. DOMAIN next.tracks = {}
  BY <1>7, <1>8
<1>10. \A j \in DOMAIN next.cursors : <<At[j], At[k]>> \in Above
  BY <1>3, <1>5, <1>7, <1>8, AboveIs
<1>11. InLine(next)
  BY <1>3, <1>5, <1>9, <1>10 DEF InLine
<1>12. InOrder(next)
  BY <1>9 DEF InOrder
<1>13. OfReplays(next)
  <2>1. NewRecord(next)
    BY DEF NewRecord
  <2> QED BY <2>1, NewOfReplays
<1>14. Plain(next)
  <2>1. \A j \in DOMAIN next.tags : j \in DOMAIN next.cursors /\ next.cursors[j] = next.tags[j]
    BY <1>4, <1>5 DEF Plain
  <2> QED BY <1>5, <1>9, <2>1 DEF Plain
<1>15. Corresponds(next)
  BY <1>11, <1>12, <1>13, <1>14, LineCorresponds
<1>16. \A j \in DOMAIN d.cursors : j \in DOMAIN next.cursors /\ IsPrefix(d.cursors[j], next.cursors[j])
  <2>1. \A j \in DOMAIN d.cursors : j \in DOMAIN next.cursors /\ next.cursors[j] = d.cursors[j]
    BY <1>5, <1>7, <1>8
  <2> QED BY <1>4, <2>1, RecordFields, PrefixLaws
<1>17. \A j \in DOMAIN d.tracks \ DOMAIN next.tracks : j \in Completed(d)
  <2>1. k \in Finished(d) => \A j \in DOMAIN d.tracks : j = k
    BY <1>4, <1>6, OneTrack
  <2> QED BY <1>6, <1>8, <2>1
<1>18. \A j \in DOMAIN d.tags : j \in DOMAIN next.tags /\ next.tags[j] = d.tags[j]
  BY <1>2, <1>5
<1>19. d.branch.rel # 0 =>
        /\ next.branch.rel # 0 /\ IsPrefix(d.branch.object, next.branch.object)
        /\ <<At[d.branch.rel], At[next.branch.rel]>> \in Above
  BY <1>2, <1>3, <1>5, <1>6, <1>7, <1>8 DEF Ahead
<1>20. Merges(d, next)
  <2>1. DOMAIN d.tracks \cap DOMAIN next.tracks = {}
    BY <1>9
  <2> QED BY <1>15, <1>16, <1>17, <1>18, <1>19, <2>1 DEF Merges
<1> QED BY <1>11, <1>12, <1>20

LEMMA DecisionMerges ==
    ASSUME TypeOK, RemoteInv, Bare, OfReplays(Doc(remote)), InLine(Doc(remote)), InOrder(Doc(remote)),
           NEW r \in Runs, Discovered(r), NEW j \in Decisions(remote)
    PROVE  ~Breaks(Doc(remote), j)
<1> DEFINE d == Doc(remote)
<1> SUFFICES ASSUME Successor(j) PROVE Merges(d, Last(j.moves[State].new))
  BY DEF Breaks
<1>0. \/ \E k \in Adopted(remote) :
            /\ Proved(d, remote, k, Generated(remote), TRUE)
            /\ j = Reconciliation("adoption", d, remote, k, Generated(remote))
      \/ j = Verification(remote)
      \/ \E k \in Due(remote) : remote[State] = None /\ j = Initial(remote, k)
      \/ \E k \in Due(remote) : remote[State] # None /\ k \in Finished(d) /\ j = Final(remote, k)
      \/ \E k \in Due(remote) : remote[State] # None /\ k \notin Finished(d) /\ Chunkable(remote, k)
                                /\ \E segment \in Stretches(remote, k) : j = Checkpoint(remote, k, segment)
  BY DEF Decisions
<1>1. ASSUME NEW k \in Adopted(remote), Proved(d, remote, k, Generated(remote), TRUE),
             j = Reconciliation("adoption", d, remote, k, Generated(remote))
      PROVE  Merges(d, Last(j.moves[State].new))
  <2>1. Accounting(k, Last(j.moves[State].new))
    BY <1>1, AdoptionIs DEF Discovered
  <2> QED BY <2>1, AccountingMerges
<1>2. CASE j = Verification(remote)
  BY <1>2, VerificationIs DEF Successor
<1>3. ASSUME NEW k \in Due(remote), remote[State] = None, j = Initial(remote, k) PROVE FALSE
  BY <1>3, InitialIs DEF Successor
<1>4. ASSUME NEW k \in Due(remote), remote[State] # None, k \in Finished(d), j = Final(remote, k) PROVE FALSE
  BY <1>4, FinalIs DEF Successor
<1>5. ASSUME NEW k \in Due(remote), remote[State] # None, k \notin Finished(d), Chunkable(remote, k),
             NEW segment \in Stretches(remote, k), j = Checkpoint(remote, k, segment)
      PROVE  Merges(d, Last(j.moves[State].new))
  <2>1. Last(j.moves[State].new) = Tracked(d, k, Advanced(remote, k, segment))
    BY <1>5, CheckpointIs
  <2>2. Chunk(k, segment)
    BY <1>5 DEF Chunk
  <2> QED BY <2>1, <2>2, ChunkMerges
<1> QED BY <1>0, <1>1, <1>2, <1>3, <1>4, <1>5

LEMMA NewInLine ==
    ASSUME TypeOK, RemoteInv, Bare, OfReplays(Doc(remote)), InLine(Doc(remote)), InOrder(Doc(remote)),
           NEW d, NewRecord(d)
    PROVE  InLine(d) /\ InOrder(d)
<1>1. CASE d = FirstRecord(1, FirstCommit(remote))
  <2>1. FirstCommit(remote) \in Commit /\ FirstCommit(remote) # None
    BY Numbers, AboveIs, RemoteTypes, ImageType, Appended DEF FirstCommit, TypeOK
  <2>2. d.tags = <<>> /\ d.tracks = <<>> /\ d.branch.rel = 0
    BY <1>1, <2>1, FirstRecordIs DEF NoBranch
  <2> QED BY <2>2, EmptyMentions DEF InLine, InOrder
<1>2. ASSUME NEW k, NEW segment, Chunk(k, segment), d = Tracked(Doc(remote), k, Advanced(remote, k, segment))
      PROVE  InLine(d) /\ InOrder(d)
  BY <1>2, ChunkMerges
<1>3. ASSUME NEW k, Accounting(k, d) PROVE InLine(d) /\ InOrder(d)
  BY <1>3, AccountingMerges
<1> QED BY <1>1, <1>2, <1>3 DEF NewRecord

(* With releases tagged in their order, every record there is or may be is in line,
   and no run ever made one that was not. *)
LineInv == ~Backports /\ ReplayInv /\ (\A d \in Around : InLine(d) /\ InOrder(d)) /\ NeverBroken

LEMMA LineInit == Init /\ ~Backports => LineInv
<1> SUFFICES ASSUME Init, ~Backports PROVE LineInv
  OBVIOUS
<1>1. ReplayInv /\ Around = {Doc(remote)}
  BY ReplayInit, FirstOfReplays
<1>2. NeverBroken
  BY DEF Init, NeverBroken
<1>3. DOMAIN Doc(remote).tracks = {} /\ InLine(Doc(remote))
  <2> DEFINE record == FirstRecord(1, FirstCommit(Empty))
  <2>1. FirstCommit(Empty) \in Commit /\ FirstCommit(Empty) # None
    BY FirstReleasedIs
  <2>2. /\ record.tags = <<>> /\ record.tracks = <<>> /\ IsRecord(record) /\ record.branch.rel = 0
        /\ DOMAIN record.cursors = {1} /\ Doc(FirstReleased) = record
        /\ FirstReleased[Main] = FirstCommit(Empty) /\ IsDestination(FirstReleased)
        /\ FirstReleased[Tag(1)] = FirstCommit(Empty)
    BY <2>1, FirstRecordIs, FirstReleasedIs DEF NoBranch
  <2> HIDE DEF record
  <2>3. CASE AtFirst = "setup"
    <3>1. Doc(remote) = Unrecorded
      BY <2>3, EmptyIs DEF Init, Doc, Document
    <3>2. DOMAIN Unrecorded.tags = {} /\ DOMAIN Unrecorded.tracks = {} /\ Unrecorded.branch.rel = 0
      BY EmptyMentions DEF Unrecorded, NoBranch
    <3> QED BY <3>1, <3>2 DEF InLine
  <2>4. CASE AtFirst = "first release"
    <3>1. Doc(remote) = record
      BY <2>2, <2>4 DEF Init
    <3> QED BY <2>2, <3>1, EmptyMentions DEF InLine
  <2>5. CASE AtFirst = "recorded"
    <3> DEFINE next == Accounted(record, FirstReleased, 1, FirstCommit(Empty))
               j == Reconciliation("adoption", record, FirstReleased, 1, FirstCommit(Empty))
    <3>1. remote = Landed(FirstReleased, j)
      BY <2>2, <2>5 DEF Init, Recorded
    <3>2. 1 \in Releases /\ IsHistory(FirstReleased[State]) /\ <<At[1], At[1]>> \in Above
      BY <2>2, Numbers, RemoteTypes, AboveIs
    <3>3. IsJob(j) /\ State \in DOMAIN j.moves /\ j.moves[State].new = Append(FirstReleased[State], next)
      BY <2>1, <2>2, <3>2, ReconciliationIs
    <3>4. remote[State] = Append(FirstReleased[State], next)
      BY <2>2, <3>1, <3>3, LandedIs
    <3>5. /\ IsRecord(next) /\ next.branch.rel = 1 /\ next.branch.object = FirstCommit(Empty)
          /\ \A i : i \in DOMAIN next.cursors <=> i = 1 \/ i \in DOMAIN record.cursors
          /\ next.cursors[1] = FirstCommit(Empty)
          /\ \A i : i \in DOMAIN next.tracks => i \in DOMAIN record.tracks
      BY <2>1, <2>2, <3>2, AccountedIs
    <3> HIDE DEF next
    <3>6. Doc(remote) = next
      BY <3>2, <3>4, <3>5, Grown DEF Doc, Document
    <3>7. DOMAIN next.tracks = {} /\ DOMAIN next.cursors = {1}
      BY <2>2, <3>5, EmptyMentions
    <3> QED BY <3>2, <3>5, <3>6, <3>7 DEF InLine
  <2> QED BY <2>3, <2>4, <2>5, SourceAssumption
<1> QED BY <1>1, <1>2, <1>3 DEF LineInv, InOrder

(* What upstream releases comes after what it has released. *)
LEMMA OrderStays ==
    ASSUME TypeOK, ~Backports, [Next]_vars, NEW d, InOrder(d)
    PROVE  InOrder(d)'
<1>1. CASE released' = released
  BY <1>1 DEF InOrder
<1>2. CASE Upstream
  <2>1. PICK k \in Releases \ released : (\A j \in released : j < k) /\ released' = released \cup {k}
    BY <1>2 DEF Upstream
  <2>2. released \subseteq Nat /\ k \in Nat
    BY <2>1, Numbers DEF TypeOK
  <2>3. \A i \in released : i < k /\ ~(k < i)
    BY <2>1, <2>2
  <2> QED BY <2>1, <2>3 DEF InOrder
<1>3. released' = released \/ Upstream
  BY DEF Next, RunStep, Start, Discover, Send, Settle, Crash, ServerDecides, OperatorPush, vars
<1> QED BY <1>1, <1>2, <1>3

LEMMA UnbrokenStep == LineInv /\ [Next]_vars => NeverBroken'
<1> SUFFICES ASSUME LineInv, [Next]_vars PROVE NeverBroken'
  OBVIOUS
<1>0. /\ TypeOK /\ RemoteInv /\ Bare /\ OfReplays(Doc(remote)) /\ InLine(Doc(remote)) /\ InOrder(Doc(remote))
      /\ DOMAIN pc = Runs /\ \A q \in Runs : pc[q] # "broken"
  BY AroundHas DEF LineInv, ReplayInv, SyncInv, TypeOK, NeverBroken
<1>1. ASSUME NEW r \in Runs, NEW phase, phase # "broken", pc' = [pc EXCEPT ![r] = phase] PROVE NeverBroken'
  BY <1>0, <1>1 DEF NeverBroken
<1>2. CASE pc' = pc
  BY <1>0, <1>2 DEF NeverBroken
<1>3. ASSUME NEW r \in Runs, Discover(r) PROVE NeverBroken'
  <2>1. \/ \E phase \in {"refused", "done"} : pc' = [pc EXCEPT ![r] = phase]
        \/ \E j \in Decisions(remote) :
            /\ Discovered(r)
            /\ pc' = [pc EXCEPT ![r] = IF Breaks(Doc(remote), j) THEN "broken" ELSE "planned"]
    BY <1>3 DEF Discover
  <2>2. ASSUME NEW j \in Decisions(remote), Discovered(r),
               pc' = [pc EXCEPT ![r] = IF Breaks(Doc(remote), j) THEN "broken" ELSE "planned"]
        PROVE  NeverBroken'
    <3>1. ~Breaks(Doc(remote), j)
      BY <1>0, <2>2, DecisionMerges
    <3>2. pc' = [pc EXCEPT ![r] = "planned"]
      BY <2>2, <3>1
    <3> QED BY <1>1, <3>2
  <2> QED BY <1>1, <2>1, <2>2
<1>4. ASSUME NEW r \in Runs, Settle(r) PROVE NeverBroken'
  <2> DEFINE j == job[r]
  <2>1. /\ pc[r] = "pushed"
        /\ \/ \E phase \in {"refused", "started", "planned", "done"} : pc' = [pc EXCEPT ![r] = phase]
           \/ /\ Confirmed(r) /\ j.kind = "release" /\ Observable(j)
              /\ pc' = [pc EXCEPT ![r] =
                    IF Breaks(Last(j.moves[State].new), Observation(j)) THEN "broken" ELSE "planned"]
    BY <1>4 DEF Settle
  <2>2. ASSUME Confirmed(r), j.kind = "release", Observable(j),
               pc' = [pc EXCEPT ![r] =
                    IF Breaks(Last(j.moves[State].new), Observation(j)) THEN "broken" ELSE "planned"]
        PROVE  NeverBroken'
    <3>1. IsJob(j) /\ ReleasePlan(j) /\ \A ref \in Half(j) : remote[ref] = j.moves[ref].new
      BY <2>1, <2>2 DEF LineInv, ReplayInv, SyncInv, TypeOK, JobInv, PlanInv, Confirmed
    <3> HIDE DEF j
    <3>2. /\ Accounting(j.rel, Last(Observation(j).moves[State].new))
          /\ Doc(remote) = Last(j.moves[State].new)
      BY <1>0, <2>2, <3>1, ObservationIs
    <3>3. Merges(Doc(remote), Last(Observation(j).moves[State].new))
      BY <1>0, <3>2, AccountingMerges
    <3>4. ~Breaks(Last(j.moves[State].new), Observation(j))
      BY <3>2, <3>3 DEF Breaks
    <3>5. pc' = [pc EXCEPT ![r] = "planned"]
      BY <2>2, <3>4
    <3> QED BY <1>1, <3>5
  <2> QED BY <1>1, <2>1, <2>2
<1>5. ASSUME NEW r \in Runs, Start(r) \/ Send(r) \/ Crash(r) PROVE NeverBroken'
  <2>1. \E phase \in {"started", "refused", "pushed", "sending", "idle"} : pc' = [pc EXCEPT ![r] = phase]
    BY <1>5 DEF Start, Send, Crash
  <2> QED BY <1>1, <2>1
<1>6. ASSUME NEW p \in wire, ServerDecides(p) PROVE NeverBroken'
  <2>1. p.run \in Runs
    BY <1>0 DEF TypeOK, IsPush
  <2>2. pc' = pc \/ \E phase \in {"pushed", "refused"} : pc' = [pc EXCEPT ![p.run] = phase]
    BY <1>6 DEF ServerDecides
  <2> QED BY <1>1, <1>2, <2>1, <2>2
<1>7. CASE OperatorPush \/ Upstream \/ UNCHANGED vars
  BY <1>2, <1>7 DEF OperatorPush, Upstream, vars
<1> QED BY <1>3, <1>4, <1>5, <1>6, <1>7 DEF Next, RunStep

LEMMA LineStep == LineInv /\ [Next]_vars => LineInv'
<1> SUFFICES ASSUME LineInv, [Next]_vars PROVE LineInv'
  OBVIOUS
<1>1. ReplayInv' /\ NeverBroken' /\ AroundStays
  BY ReplayStep, UnbrokenStep, AroundStep DEF LineInv, ReplayInv
<1>2. /\ TypeOK /\ RemoteInv /\ Bare /\ OfReplays(Doc(remote)) /\ InLine(Doc(remote)) /\ InOrder(Doc(remote))
      /\ ~Backports
  BY AroundHas DEF LineInv, ReplayInv, SyncInv
<1>3. ASSUME NEW d \in Around' PROVE InLine(d) /\ InOrder(d)
  BY <1>1, <1>2, <1>3, NewInLine DEF LineInv, AroundStays
<1>4. ASSUME NEW d \in Around' PROVE InOrder(d)'
  BY <1>2, <1>3, <1>4, OrderStays
<1>5. \A d \in Around' : InLine(d)' /\ InOrder(d)'
  BY <1>3, <1>4 DEF InLine, Ahead
<1> QED BY <1>1, <1>2, <1>5 DEF LineInv

(* The engine never builds a record that its own merge refuses, whatever runs, crashes
   and operators do, as long as upstream tags its releases in their order. *)
THEOREM RecordsMerge == ~Backports /\ Spec => []NeverBroken
<1>1. LineInv => NeverBroken
  BY DEF LineInv
<1> QED BY LineInit, LineStep, <1>1, PTL DEF Spec
=============================================================================

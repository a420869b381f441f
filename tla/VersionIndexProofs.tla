------------------------- MODULE VersionIndexProofs -------------------------
(***************************************************************************)
(* Proofs about VersionIndex for any runs, index files, range and answers  *)
(* of the staging repositories, where the runs on one file do not overlap; *)
(* about the state records that name the index, whatever chain of them was *)
(* accepted; and about what a published copy of external packages          *)
(* delivers.                                                               *)
(***************************************************************************)
EXTENDS VersionIndex, StateRecord, DependencyPolicy, FiniteSetTheorems, WellFoundedInduction, TLAPS

-----------------------------------------------------------------------------
(* The inductive invariant.  Only one run at a time is at a file; then the
   file holds what the run started from and what it resolved, from the time
   the record has been restored until the plan is made. *)

Resolved(r) == Over(pinned[r], base[r].mapping)

Serial == \A r, s \in Runs : Active(r) /\ Active(s) /\ CacheOf[r] = CacheOf[s] => r = s

CursorInv ==
    /\ DOMAIN record.mapping \subseteq 0..record.done
    /\ \A r \in Runs :
        /\ DOMAIN base[r].mapping \subseteq 0..base[r].done
        /\ DOMAIN pinned[r] \subseteq Chunk(base[r].done)

RunInv(r) ==
    /\ phase[r] \in {"new", "discovered"} => pinned[r] = Empty
    /\ phase[r] \in {"replaying", "resolving", "saving", "renaming"} =>
        Held(CacheOf[r]) = Resolved(r)
    /\ phase[r] \in {"resolving", "saving", "renaming"} => Commit(r) \notin DOMAIN Resolved(r)
    /\ phase[r] = "resolving" => index[r] = Resolved(r)
    /\ phase[r] \in {"saving", "renaming"} =>
        \E a \in Answer : index[r] = With(Resolved(r), Commit(r), a)
    /\ phase[r] = "renaming" => merged[r] = index[r]
    /\ phase[r] = "planned" => merged[r] = Resolved(r)

IndexInv == TypeOK /\ CursorInv /\ Serial /\ \A r \in Runs : RunInv(r)

-----------------------------------------------------------------------------
(* Mappings. *)

LEMMA MappingIs ==
    ASSUME NEW f
    PROVE  f \in Mapping <=>
            /\ f = [c \in DOMAIN f |-> f[c]]
            /\ DOMAIN f \subseteq Position
            /\ \A c \in DOMAIN f : f[c] \in Answer
  <1>1. f \in Mapping => /\ f = [c \in DOMAIN f |-> f[c]] /\ DOMAIN f \subseteq Position
                        /\ \A c \in DOMAIN f : f[c] \in Answer
    BY DEF Mapping
  <1>2. ASSUME f = [c \in DOMAIN f |-> f[c]], DOMAIN f \subseteq Position,
               \A c \in DOMAIN f : f[c] \in Answer
        PROVE  f \in Mapping
    <2>1. f \in [DOMAIN f -> Answer]
      BY <1>2
    <2>2. QED
      BY <1>2, <2>1 DEF Mapping
  <1>3. QED
    BY <1>1, <1>2

LEMMA EmptyIs == Empty \in Mapping /\ DOMAIN Empty = {}
  <1>1. Empty = [c \in {} |-> c]
    BY DEF Empty
  <1>2. QED
    BY <1>1, MappingIs

LEMMA WithIs ==
    ASSUME NEW f \in Mapping, NEW c \in Position, NEW a \in Answer
    PROVE  /\ With(f, c, a) \in Mapping
           /\ \A d : d \in DOMAIN With(f, c, a) <=> d \in DOMAIN f \/ d = c
           /\ With(f, c, a)[c] = a
           /\ \A d \in DOMAIN f \ {c} : With(f, c, a)[d] = f[d]
  BY MappingIs DEF With

LEMMA OverIs ==
    ASSUME NEW f \in Mapping, NEW g \in Mapping
    PROVE  /\ Over(f, g) \in Mapping
           /\ \A d : d \in DOMAIN Over(f, g) <=> d \in DOMAIN f \/ d \in DOMAIN g
           /\ \A c \in DOMAIN f : Over(f, g)[c] = f[c]
           /\ \A c \in DOMAIN g \ DOMAIN f : Over(f, g)[c] = g[c]
  BY MappingIs DEF Over

LEMMA SameMapping ==
    ASSUME NEW f \in Mapping, NEW g \in Mapping, DOMAIN f = DOMAIN g,
           \A c \in DOMAIN f : f[c] = g[c]
    PROVE  f = g
  BY MappingIs

LEMMA OverEmpty ==
    ASSUME NEW f \in Mapping
    PROVE  Over(Empty, f) = f
  BY EmptyIs, MappingIs DEF Over

(* An entry put into the upper mapping is put into both. *)
LEMMA OverWith ==
    ASSUME NEW f \in Mapping, NEW g \in Mapping, NEW c \in Position, NEW a \in Answer
    PROVE  Over(With(f, c, a), g) = With(Over(f, g), c, a)
  <1>1. With(f, c, a) \in Mapping /\ Over(f, g) \in Mapping
    BY WithIs, OverIs
  <1>2. Over(With(f, c, a), g) \in Mapping /\ With(Over(f, g), c, a) \in Mapping
    BY <1>1, WithIs, OverIs
  <1>3. DOMAIN Over(With(f, c, a), g) = DOMAIN With(Over(f, g), c, a)
    BY DEF With, Over
  <1>4. ASSUME NEW d \in DOMAIN Over(With(f, c, a), g)
        PROVE  Over(With(f, c, a), g)[d] = With(Over(f, g), c, a)[d]
    BY DEF With, Over
  <1>5. QED
    BY <1>2, <1>3, <1>4, SameMapping

(* An entry that is there already changes nothing. *)
LEMMA WithAbsorbs ==
    ASSUME NEW f \in Mapping, NEW c \in DOMAIN f
    PROVE  With(f, c, f[c]) = f
  BY MappingIs DEF With

(* Merging a file with itself and one entry more adds the entry. *)
LEMMA OverMerges ==
    ASSUME NEW f \in Mapping, NEW c \in Position, c \notin DOMAIN f, NEW a \in Answer
    PROVE  Over(f, With(f, c, a)) = With(f, c, a)
  BY MappingIs DEF Over, With

(* The next commit is the least of those that are left. *)
LEMMA CommitIs ==
    ASSUME NEW r \in Runs, TypeOK, todo[r] # {}
    PROVE  Commit(r) \in todo[r]
  <1> DEFINE Less == OpToRel(<, Nat)
  <1>1. \A x, y \in Nat : <<x, y>> \in Less <=> x < y
    BY DEF OpToRel
  <1>2. todo[r] \subseteq Nat /\ todo[r] # {}
    BY IndexAssumption DEF TypeOK
  <1>3. IsWellFoundedOn(Less, Nat)
    BY NatLessThanWellFounded
  <1> HIDE DEF Less
  <1>4. PICK c \in todo[r] : \A d \in todo[r] : <<d, c>> \notin Less
    BY <1>2, <1>3, WFMin
  <1>5. ASSUME NEW d \in todo[r]
        PROVE  c <= d
    <2>1. d \in Nat /\ c \in Nat /\ <<d, c>> \notin Less
      BY <1>2, <1>4
    <2>2. ~(d < c)
      BY <1>1, <2>1
    <2>3. QED
      BY <2>1, <2>2
  <1>6. QED
    BY <1>4, <1>5 DEF Commit

LEMMA CommitStays ==
    ASSUME NEW r \in Runs, todo'[r] = todo[r]
    PROVE  Commit(r)' = Commit(r)
  BY DEF Commit

LEMMA HeldIs ==
    ASSUME NEW r \in Runs, TypeOK
    PROVE  Held(CacheOf[r]) \in Mapping
  BY EmptyIs, IndexAssumption DEF Held, TypeOK

-----------------------------------------------------------------------------
LEMMA ChunkIs ==
    ASSUME NEW done \in 0..N
    PROVE  Chunk(done) \subseteq 1..N /\ \A c \in Chunk(done) : c > done
  BY IndexAssumption DEF Chunk

LEMMA TypeInit == Init => TypeOK
  <1> SUFFICES ASSUME Init
               PROVE  TypeOK
    OBVIOUS
  <1>1. record \in Record
    BY EmptyIs, IndexAssumption DEF Init, Record
  <1>2. file \in [Caches -> Mapping \cup {Missing}]
    <2>1. With(Empty, 1, 1) \in Mapping
      <3>1. 1 \in Position /\ 1 \in Answer
        BY IndexAssumption DEF Answer, Position
      <3>2. QED
        BY <3>1, EmptyIs, WithIs
    <2>2. QED
      BY <2>1, IndexAssumption DEF Init
  <1>3. answer \in Answer
    BY IndexAssumption DEF Init, Answer
  <1>4. QED
    BY <1>1, <1>2, <1>3, EmptyIs DEF Init, TypeOK, Phase

LEMMA TypeStep == TypeOK /\ [Next]_vars => TypeOK'
  <1> SUFFICES ASSUME TypeOK, [Next]_vars
               PROVE  TypeOK'
    OBVIOUS
  <1> USE DEF TypeOK
  <1>1. ASSUME NEW r \in Runs, Discover(r)
        PROVE  TypeOK'
    BY <1>1, ChunkIs, CommitStays DEF Discover, To, Phase, Record
  <1>2. ASSUME NEW r \in Runs, Restore(r)
        PROVE  TypeOK'
    <2>1. base[r].mapping \in Mapping
      BY DEF Record
    <2>2. file' \in [Caches -> Mapping \cup {Missing}]
      BY <1>2, <2>1 DEF Restore
    <2>3. QED
      BY <1>2, <2>2, CommitStays DEF Restore, To, Phase
  <1>3. ASSUME NEW r \in Runs, Prefilter(r)
        PROVE  TypeOK'
    BY <1>3, CommitStays DEF Prefilter, Rest
  <1>4. ASSUME NEW r \in Runs, Lookup(r)
        PROVE  TypeOK'
    <2>1. Commit(r) \in todo[r] /\ Commit(r) \in Position
      BY <1>4, CommitIs, IndexAssumption DEF Position, Lookup
    <2>2. Held(CacheOf[r]) \in Mapping
      BY HeldIs
    <2>3. CASE Commit(r) \in DOMAIN Held(CacheOf[r])
      <3>1. With(pinned[r], Commit(r), Held(CacheOf[r])[Commit(r)]) \in Mapping
        BY <2>1, <2>2, <2>3, MappingIs, WithIs
      <3>2. QED
        BY <1>4, <2>3, <3>1, CommitStays DEF Lookup, Rest
    <2>4. CASE Commit(r) \notin DOMAIN Held(CacheOf[r])
      BY <1>4, <2>2, <2>4, CommitStays DEF Lookup, To, Phase
    <2>5. QED
      BY <2>3, <2>4
  <1>5. ASSUME NEW r \in Runs, Resolve(r)
        PROVE  TypeOK'
    <2> DEFINE entry == With(index[r], Commit(r), answer)
    <2>1. entry \in Mapping /\ Commit(r) \in DOMAIN entry
      <3>1. Commit(r) \in Position
        BY <1>5, CommitIs, IndexAssumption DEF Position, Resolve
      <3>2. answer \in Answer /\ index[r] \in Mapping
        OBVIOUS
      <3>3. QED
        BY <3>1, <3>2, WithIs
    <2> HIDE DEF entry
    <2>2. index' = [index EXCEPT ![r] = entry]
      BY <1>5 DEF Resolve, entry
    <2>3. QED
      BY <1>5, <2>1, <2>2, CommitStays DEF Resolve, To, Phase
  <1>6. ASSUME NEW r \in Runs, Save(r)
        PROVE  TypeOK'
    <2>1. Over(Held(CacheOf[r]), index[r]) \in Mapping
      BY HeldIs, OverIs
    <2>2. QED
      BY <1>6, <2>1, CommitStays DEF Save, To, Phase
  <1>7. ASSUME NEW r \in Runs, Rename(r)
        PROVE  TypeOK'
    <2>1. Commit(r) \in todo[r] /\ Commit(r) \in Position /\ Commit(r) \in DOMAIN index[r]
      BY <1>7, CommitIs, IndexAssumption DEF Position, Rename
    <2>2. With(pinned[r], Commit(r), index[r][Commit(r)]) \in Mapping
      BY <2>1, MappingIs, WithIs
    <2>3. QED
      BY <1>7, <2>2, CommitStays DEF Rename, Rest, To, Phase
  <1>8. ASSUME NEW r \in Runs, Snapshot(r)
        PROVE  TypeOK'
    BY <1>8, HeldIs, CommitStays DEF Snapshot, To, Phase
  <1>9. ASSUME NEW r \in Runs, Push(r)
        PROVE  TypeOK'
    <2>1. (IF base[r].done + Size < N THEN base[r].done + Size ELSE N) \in 0..N
      BY IndexAssumption DEF Record
    <2>2. record' \in Record
      <3>1. \A mapping \in Mapping, done \in 0..N :
              [done |-> done, mapping |-> mapping, reachable |-> TRUE] \in Record
        BY DEF Record
      <3>2. merged[r] \in Mapping
        OBVIOUS
      <3>3. QED
        BY <1>9, <2>1, <3>1, <3>2 DEF Push
    <2>3. QED
      BY <1>9, <2>2, CommitStays DEF Push, To, Phase
  <1>10. ASSUME NEW r \in Runs, Die(r)
         PROVE  TypeOK'
    BY <1>10, CommitStays DEF Die, To, Phase
  <1>11. CASE StagingMoves
    BY <1>11, CommitStays, IndexAssumption DEF StagingMoves, run, Answer
  <1>12. CASE UNCHANGED vars
    BY <1>12, CommitStays DEF vars, run
  <1>13. QED
    BY <1>1, <1>2, <1>3, <1>4, <1>5, <1>6, <1>7, <1>8, <1>9, <1>10, <1>11, <1>12 DEF Next

THEOREM TypeCorrect == Spec => []TypeOK
  BY TypeInit, TypeStep, PTL DEF Spec

-----------------------------------------------------------------------------
(* A run whose own state and file do not change keeps its invariant. *)
LEMMA Undisturbed ==
    ASSUME NEW r \in Runs, RunInv(r), phase'[r] = phase[r], base'[r] = base[r],
           todo'[r] = todo[r], index'[r] = index[r], merged'[r] = merged[r],
           pinned'[r] = pinned[r], Active(r) => file'[CacheOf[r]] = file[CacheOf[r]]
    PROVE  RunInv(r)'
  <1>1. Resolved(r)' = Resolved(r) /\ Commit(r)' = Commit(r)
    BY CommitStays DEF Resolved
  <1>2. phase[r] \in {"replaying", "resolving", "saving", "renaming"} =>
            Held(CacheOf[r])' = Held(CacheOf[r])
    BY DEF Active, Held
  <1>3. QED
    BY <1>1, <1>2 DEF RunInv

LEMMA IndexInit == Init => IndexInv
  <1> SUFFICES ASSUME Init
               PROVE  IndexInv
    OBVIOUS
  <1>1. CursorInv
    BY EmptyIs, IndexAssumption DEF Init, CursorInv
  <1>2. Serial /\ \A r \in Runs : RunInv(r)
    BY DEF Init, Serial, Active, RunInv
  <1>3. QED
    BY <1>1, <1>2, TypeInit DEF IndexInv

LEMMA SerialStep ==
    ASSUME ~Overlap, TypeOK, Serial, [Next]_vars
    PROVE  Serial'
  <1>1. ASSUME NEW r \in Runs, Discover(r)
        PROVE  Serial'
    BY <1>1 DEF Discover, To, Serial, Active, TypeOK
  <1>2. ASSUME \A r \in Runs : Active(r)' => Active(r)
        PROVE  Serial'
    BY <1>2 DEF Serial
  <1>3. ASSUME NEW r \in Runs, ~Discover(r),
               \/ Restore(r) \/ Prefilter(r) \/ Lookup(r) \/ Resolve(r) \/ Save(r)
               \/ Rename(r) \/ Snapshot(r) \/ Push(r) \/ Die(r)
        PROVE  \A s \in Runs : Active(s)' => Active(s)
    BY <1>3 DEF Restore, Prefilter, Lookup, Resolve, Save, Rename, Snapshot, Push, Die,
                To, Active, TypeOK
  <1>4. ASSUME StagingMoves \/ UNCHANGED vars
        PROVE  \A s \in Runs : Active(s)' => Active(s)
    BY <1>4 DEF StagingMoves, vars, run, Active
  <1>5. QED
    BY <1>1, <1>2, <1>3, <1>4 DEF Next

LEMMA CursorStep ==
    ASSUME IndexInv, [Next]_vars
    PROVE  CursorInv'
  <1> USE DEF IndexInv, CursorInv
  <1>1. ASSUME NEW r \in Runs, Discover(r)
        PROVE  CursorInv'
    BY <1>1, EmptyIs DEF Discover, RunInv, TypeOK
  <1>2. ASSUME NEW r \in Runs, Lookup(r)
        PROVE  CursorInv'
    <2>1. Commit(r) \in Chunk(base[r].done) /\ Commit(r) \in Position
      BY <1>2, CommitIs, IndexAssumption DEF Position, Lookup, TypeOK
    <2>2. CASE Commit(r) \in DOMAIN Held(CacheOf[r])
      <3>1. pinned[r] \in Mapping /\ Held(CacheOf[r])[Commit(r)] \in Answer
        BY <2>2, HeldIs, MappingIs DEF TypeOK
      <3>2. \A c \in DOMAIN pinned'[r] : c \in DOMAIN pinned[r] \/ c = Commit(r)
        BY <1>2, <2>1, <2>2, <3>1, WithIs DEF Lookup, TypeOK
      <3>3. QED
        BY <1>2, <2>1, <2>2, <3>2 DEF Lookup, TypeOK
    <2>3. CASE Commit(r) \notin DOMAIN Held(CacheOf[r])
      BY <1>2, <2>3 DEF Lookup
    <2>4. QED
      BY <2>2, <2>3
  <1>3. ASSUME NEW r \in Runs, Rename(r)
        PROVE  CursorInv'
    <2>1. Commit(r) \in Chunk(base[r].done) /\ Commit(r) \in Position
      BY <1>3, CommitIs, IndexAssumption DEF Position, Rename, TypeOK
    <2>2. pinned[r] \in Mapping /\ index[r][Commit(r)] \in Answer
      BY <1>3, MappingIs DEF Rename, TypeOK
    <2>3. \A c \in DOMAIN pinned'[r] : c \in DOMAIN pinned[r] \/ c = Commit(r)
      BY <1>3, <2>1, <2>2, WithIs DEF Rename, TypeOK
    <2>4. QED
      BY <1>3, <2>1, <2>3 DEF Rename, TypeOK
  <1>4. ASSUME NEW r \in Runs, Push(r)
        PROVE  CursorInv'
    <2>1. CASE record = base[r]
      <3>1. merged[r] = Resolved(r)
        BY <1>4 DEF Push, RunInv
      <3>2. \A c \in DOMAIN merged[r] : c \in DOMAIN pinned[r] \/ c \in DOMAIN base[r].mapping
        BY <3>1, OverIs DEF Resolved, TypeOK, Record
      <3>3. \A c \in DOMAIN merged[r] : c \in 0..record'.done
        BY <1>4, <2>1, <3>2, IndexAssumption DEF Push, Chunk, TypeOK, Record
      <3>4. QED
        BY <1>4, <2>1, <3>3 DEF Push
    <2>2. CASE record # base[r]
      BY <1>4, <2>2 DEF Push
    <2>3. QED
      BY <2>1, <2>2
  <1>5. ASSUME NEW r \in Runs,
               \/ Restore(r) \/ Prefilter(r) \/ Resolve(r) \/ Save(r)
               \/ Snapshot(r) \/ Die(r)
        PROVE  CursorInv'
    BY <1>5 DEF Restore, Prefilter, Resolve, Save, Snapshot, Die
  <1>6. ASSUME StagingMoves \/ UNCHANGED vars
        PROVE  CursorInv'
    BY <1>6 DEF StagingMoves, vars, run
  <1>7. QED
    BY <1>1, <1>2, <1>3, <1>4, <1>5, <1>6 DEF Next

(* Other runs: the file of a run that is under way is not written by another. *)
LEMMA OthersUndisturbed ==
    ASSUME TypeOK, Serial, NEW r \in Runs, NEW s \in Runs, s # r, RunInv(s),
           \/ Discover(r) \/ Restore(r) \/ Prefilter(r) \/ Lookup(r) \/ Resolve(r)
           \/ Save(r) \/ Rename(r) \/ Snapshot(r) \/ Push(r) \/ Die(r)
    PROVE  RunInv(s)'
  <1> USE DEF Discover, Restore, Prefilter, Lookup, Resolve, Save, Rename, Snapshot, Push,
              Die, To, Rest, TypeOK
  <1>1. /\ phase'[s] = phase[s] /\ base'[s] = base[s] /\ todo'[s] = todo[s]
        /\ index'[s] = index[s] /\ merged'[s] = merged[s] /\ pinned'[s] = pinned[s]
    OBVIOUS
  <1>2. Active(s) => file'[CacheOf[s]] = file[CacheOf[s]]
    <2>1. CASE Restore(r) \/ Rename(r)
      <3>1. Active(s) => CacheOf[s] # CacheOf[r]
        BY <2>1 DEF Serial, Active
      <3>2. QED
        BY <2>1, <3>1, IndexAssumption
    <2>2. CASE ~(Restore(r) \/ Rename(r))
      BY <2>2
    <2>3. QED
      BY <2>1, <2>2
  <1>3. QED
    BY <1>1, <1>2, Undisturbed

(* The run that steps. *)
LEMMA RunStep ==
    ASSUME IndexInv, NEW r \in Runs,
           \/ Discover(r) \/ Restore(r) \/ Prefilter(r) \/ Lookup(r) \/ Resolve(r)
           \/ Save(r) \/ Rename(r) \/ Snapshot(r) \/ Push(r) \/ Die(r)
    PROVE  RunInv(r)'
  <1> USE DEF IndexInv, TypeOK, To, Rest
  <1> DEFINE mine == Held(CacheOf[r])
  <1>1. /\ Resolved(r) \in Mapping /\ mine \in Mapping
        /\ base[r].mapping \in Mapping /\ pinned[r] \in Mapping /\ CacheOf[r] \in Caches
    BY OverIs, HeldIs, IndexAssumption DEF Resolved, Record
  <1>2. CASE Discover(r)
    BY <1>2 DEF Discover, RunInv
  <1>3. CASE Restore(r)
    <2>1. CASE phase'[r] = "replaying"
      <3>1. file'[CacheOf[r]] = base[r].mapping
        BY <1>1, <1>3, <2>1 DEF Restore
      <3>2. Held(CacheOf[r])' = base[r].mapping
        BY <1>1, <3>1, IndexAssumption DEF Held
      <3>3. Resolved(r)' = base[r].mapping
        BY <1>1, <1>3, OverEmpty DEF Restore, RunInv, Resolved
      <3>4. QED
        BY <2>1, <3>2, <3>3 DEF RunInv
    <2>2. CASE phase'[r] = "refused"
      BY <2>2 DEF RunInv
    <2>3. QED
      BY <1>3, <2>1, <2>2 DEF Restore
  <1>4. CASE Prefilter(r)
    <2>1. /\ phase'[r] = "replaying" /\ phase[r] = "replaying"
          /\ Held(CacheOf[r])' = mine /\ Resolved(r)' = Resolved(r)
      BY <1>4 DEF Prefilter, Held, Resolved
    <2>2. QED
      BY <2>1 DEF RunInv
  <1>5. CASE Lookup(r)
    <2>1. Commit(r) \in Position
      BY <1>5, CommitIs, IndexAssumption DEF Lookup, Position
    <2>2. mine = Resolved(r) /\ Held(CacheOf[r])' = mine
      BY <1>5 DEF Lookup, RunInv, Held
    <2>3. CASE Commit(r) \in DOMAIN mine
      <3>1. mine[Commit(r)] \in Answer
        BY <1>1, <2>3, MappingIs
      <3>2. Resolved(r)' = Over(With(pinned[r], Commit(r), mine[Commit(r)]), base[r].mapping)
        BY <1>5, <2>3 DEF Lookup, Resolved
      <3>3. Resolved(r)' = With(Resolved(r), Commit(r), mine[Commit(r)])
        BY <1>1, <2>1, <3>1, <3>2, OverWith DEF Resolved
      <3>4. Resolved(r)' = mine
        BY <1>1, <2>2, <2>3, <3>3, WithAbsorbs
      <3>5. phase'[r] = "replaying"
        BY <1>5, <2>3 DEF Lookup
      <3>6. QED
        BY <2>2, <3>4, <3>5 DEF RunInv
    <2>4. CASE Commit(r) \notin DOMAIN mine
      <3>1. /\ phase'[r] = "resolving" /\ index'[r] = mine /\ Commit(r)' = Commit(r)
            /\ Resolved(r)' = Resolved(r)
        BY <1>5, <2>4, CommitStays DEF Lookup, Resolved
      <3>2. QED
        BY <2>2, <2>4, <3>1 DEF RunInv
    <2>5. QED
      BY <2>3, <2>4
  <1>6. CASE Resolve(r)
    <2>1. /\ phase[r] = "resolving" /\ phase'[r] = "saving" /\ Commit(r)' = Commit(r)
          /\ Resolved(r)' = Resolved(r) /\ Held(CacheOf[r])' = mine
          /\ index'[r] = With(index[r], Commit(r), answer)
      BY <1>6, CommitStays DEF Resolve, Resolved, Held
    <2>2. QED
      BY <2>1 DEF RunInv
  <1>7. CASE Save(r)
    <2>1. /\ phase[r] = "saving" /\ Commit(r)' = Commit(r) /\ index'[r] = index[r]
          /\ Resolved(r)' = Resolved(r) /\ Held(CacheOf[r])' = mine
      BY <1>7, CommitStays DEF Save, Resolved, Held
    <2>2. CASE phase'[r] = "renaming"
      <3>1. merged'[r] = Over(mine, index[r])
        BY <1>7, <2>2 DEF Save
      <3>2. Commit(r) \in Position /\ Commit(r) \notin DOMAIN mine
        BY <2>1, CommitIs, IndexAssumption DEF RunInv, Position
      <3>3. PICK a \in Answer : index[r] = With(mine, Commit(r), a)
        BY <2>1 DEF RunInv
      <3>4. merged'[r] = index[r]
        BY <1>1, <3>1, <3>2, <3>3, OverMerges
      <3>5. QED
        BY <2>1, <2>2, <3>4 DEF RunInv
    <2>3. CASE phase'[r] = "refused"
      BY <2>3 DEF RunInv
    <2>4. QED
      BY <1>7, <2>2, <2>3 DEF Save
  <1>8. CASE Rename(r)
    <2>1. /\ phase[r] = "renaming" /\ phase'[r] = "replaying"
          /\ file'[CacheOf[r]] = merged[r] /\ base'[r] = base[r]
          /\ pinned'[r] = With(pinned[r], Commit(r), index[r][Commit(r)])
      BY <1>1, <1>8 DEF Rename
    <2>2. PICK a \in Answer : index[r] = With(Resolved(r), Commit(r), a)
      BY <2>1 DEF RunInv
    <2>3. Commit(r) \in Position
      BY <2>1, CommitIs, IndexAssumption DEF Position
    <2>4. index[r][Commit(r)] = a
      BY <1>1, <2>2, <2>3, WithIs
    <2>5. Held(CacheOf[r])' = index[r]
      <3>1. merged[r] = index[r] /\ merged[r] # Missing
        BY <2>1, IndexAssumption DEF RunInv
      <3>2. QED
        BY <2>1, <3>1 DEF Held
    <2>6. Resolved(r)' = index[r]
      BY <1>1, <2>1, <2>2, <2>3, <2>4, OverWith DEF Resolved
    <2>7. QED
      BY <2>1, <2>5, <2>6 DEF RunInv
  <1>9. CASE Snapshot(r)
    <2>1. CASE phase'[r] = "planned"
      <3>1. merged'[r] = mine /\ mine = Resolved(r) /\ Resolved(r)' = Resolved(r)
        BY <1>9, <2>1 DEF Snapshot, RunInv, Resolved
      <3>2. QED
        BY <2>1, <3>1 DEF RunInv
    <2>2. CASE phase'[r] = "refused"
      BY <2>2 DEF RunInv
    <2>3. QED
      BY <1>9, <2>1, <2>2 DEF Snapshot
  <1>10. CASE Push(r)
    BY <1>10 DEF Push, RunInv
  <1>11. CASE Die(r)
    BY <1>11 DEF Die, RunInv
  <1>12. QED
    BY <1>2, <1>3, <1>4, <1>5, <1>6, <1>7, <1>8, <1>9, <1>10, <1>11

LEMMA IndexStep ==
    ASSUME ~Overlap
    PROVE  IndexInv /\ [Next]_vars => IndexInv'
  <1> SUFFICES ASSUME IndexInv, [Next]_vars
               PROVE  IndexInv'
    OBVIOUS
  <1>1. TypeOK' /\ CursorInv' /\ Serial'
    BY TypeStep, CursorStep, SerialStep DEF IndexInv
  <1>2. ASSUME NEW r \in Runs, NEW s \in Runs,
               \/ Discover(r) \/ Restore(r) \/ Prefilter(r) \/ Lookup(r) \/ Resolve(r)
               \/ Save(r) \/ Rename(r) \/ Snapshot(r) \/ Push(r) \/ Die(r)
        PROVE  RunInv(s)'
    BY <1>2, RunStep, OthersUndisturbed DEF IndexInv
  <1>3. ASSUME NEW s \in Runs, StagingMoves \/ UNCHANGED vars
        PROVE  RunInv(s)'
    BY <1>3, Undisturbed DEF IndexInv, StagingMoves, vars, run
  <1>4. QED
    BY <1>1, <1>2, <1>3 DEF IndexInv, Next

THEOREM IndexHolds ==
    ASSUME ~Overlap
    PROVE  Spec => []IndexInv
  BY IndexInit, IndexStep, PTL DEF Spec

(* store.go:132, for runs that do not overlap on a file: what a plan records is
   what the record it started from held and what the run resolved, whatever
   file it found. *)
THEOREM PlansOwnEvidence ==
    ASSUME ~Overlap
    PROVE  Spec => []OwnEvidence
  <1>1. IndexInv => OwnEvidence
    BY DEF IndexInv, RunInv, Resolved, OwnEvidence
  <1>2. QED
    BY <1>1, IndexHolds, PTL

(* merge.go:195, for runs that do not overlap on a file: a push keeps every
   entry the record holds, as it is. *)
THEOREM RecordsExtend ==
    ASSUME ~Overlap
    PROVE  Spec => RecordExtends
  <1> DEFINE Kept == \A c \in DOMAIN record.mapping :
                        c \in DOMAIN record'.mapping /\ record'.mapping[c] = record.mapping[c]
  <1>1. IndexInv /\ [Next]_vars => Kept \/ UNCHANGED record
    <2> SUFFICES ASSUME IndexInv, [Next]_vars, record' # record
                 PROVE  Kept
      OBVIOUS
    <2>1. PICK r \in Runs : Push(r)
      BY DEF Next, Discover, Restore, Prefilter, Lookup, Resolve, Save, Rename, Snapshot,
             Die, StagingMoves, vars
    <2>2. record = base[r] /\ record'.mapping = merged[r] /\ merged[r] = Resolved(r)
      BY <2>1 DEF Push, IndexInv, RunInv
    <2>3. pinned[r] \in Mapping /\ base[r].mapping \in Mapping
      BY DEF IndexInv, TypeOK, Record
    <2>4. ASSUME NEW c \in DOMAIN base[r].mapping
          PROVE  c \notin DOMAIN pinned[r]
      BY ChunkIs, IndexAssumption DEF IndexInv, CursorInv, TypeOK, Record
    <2>5. QED
      BY <2>2, <2>3, <2>4, OverIs DEF Resolved
  <1>2. QED
    BY <1>1, IndexHolds, PTL DEF Spec, RecordExtends

-----------------------------------------------------------------------------
(* Chains of state records. *)

LEMMA Smallest ==
    ASSUME NEW S, S \subseteq Nat, S # {}
    PROVE  \E n \in S : \A m \in S : n <= m
<1> DEFINE Less == OpToRel(<, Nat)
<1>1. \A x, y \in Nat : <<x, y>> \in Less <=> x < y
  BY DEF OpToRel
<1>2. IsWellFoundedOn(Less, Nat)
  BY NatLessThanWellFounded
<1> HIDE DEF Less
<1>3. PICK n \in S : \A m \in S : <<m, n>> \notin Less
  BY <1>2, WFMin
<1>4. \A m \in S : m \in Nat /\ n \in Nat /\ ~(m < n)
  BY <1>1, <1>3
<1> QED BY <1>4

(* What the types of the code give: a document and its parts have their fields. *)
IsDocument(d) ==
    /\ d = [schema |-> d.schema, format |-> d.format, repository |-> d.repository,
            module |-> d.module, anchor |-> d.anchor, epoch |-> d.epoch, cursors |-> d.cursors,
            mapping |-> d.mapping, tracks |-> d.tracks, published |-> d.published,
            engine |-> d.engine, digest |-> d.digest]
    /\ d.mapping = [digest |-> d.mapping.digest, object |-> d.mapping.object,
                    entries |-> d.mapping.entries]
    /\ d.mapping.entries \in Nat
    /\ \A t \in Entries(d.tracks) : t.done \in Nat /\ t.total \in Nat
    /\ \A e \in Entries(d.published) :
          e = [ref |-> e.ref, kind |-> e.kind, object |-> e.object, source |-> e.source]

(* Each record after the first is what a proposal was accepted as. *)
IsChain(g, chain) ==
    /\ chain \in Seq({chain[i] : i \in DOMAIN chain})
    /\ \A i \in DOMAIN chain : IsDocument(chain[i])
    /\ \A i \in 1..(Len(chain) - 1) : \E p : MergeWith(g, chain[i], p) = <<chain[i + 1]>>

Transitive(above) ==
    \A a, b, c : <<a, b>> \in above /\ <<b, c>> \in above => <<a, c>> \in above
IsLineage(g) == Transitive(g.source) /\ Transitive(g.destination)

(* What New makes of a valid document is valid: nothing looks at the digest. *)
LEMMA NewIsValid ==
    ASSUME NEW c, NEW next, NEW x, IsDocument(next), next = [c EXCEPT !.digest = x],
           validateContent(c)
    PROVE  validateContent(next)
<1>1. /\ DOMAIN next = {"schema", "format", "repository", "module", "anchor", "epoch", "cursors",
                        "mapping", "tracks", "published", "engine", "digest"}
      /\ DOMAIN next = DOMAIN c
  BY DEF IsDocument
<1>2. /\ next.schema = c.schema /\ next.format = c.format /\ next.repository = c.repository
      /\ next.module = c.module /\ next.anchor = c.anchor /\ next.epoch = c.epoch
      /\ next.cursors = c.cursors /\ next.mapping = c.mapping /\ next.tracks = c.tracks
      /\ next.published = c.published /\ next.engine = c.engine
  BY <1>1
<1>3. validateIdentity(next) /\ validateEngine(next) /\ validateAnchor(next) /\ validateEpoch(next)
  BY <1>2 DEF validateContent, validateIdentity, validateEngine, validateAnchor, validateEpoch
<1>4. validateCursors(next)
  BY <1>2 DEF validateContent, validateCursors
<1>5. validateMapping(next)
  BY <1>2 DEF validateContent, validateMapping
<1>6. validateTracks(next)
  BY <1>2 DEF validateContent, validateTracks
<1>7. validatePublished(next)
  BY <1>2 DEF validateContent, validatePublished
<1>8. validateCorrespondence(next)
  <2>1. TagsOf(next) = TagsOf(c) /\ BranchesOf(next) = BranchesOf(c) /\ images(next) = images(c)
    BY <1>2 DEF TagsOf, BranchesOf, images
  <2> QED BY <2>1 DEF validateContent, validateCorrespondence
<1> QED BY <1>2, <1>3, <1>4, <1>5, <1>6, <1>7, <1>8 DEF validateContent

(* The guards a merge has passed, on the document it answers. *)
LEMMA MergeIs ==
    ASSUME NEW g, NEW prev, NEW next, NEW p, IsDocument(next), MergeWith(g, prev, p) = <<next>>
    PROVE  /\ validateContent(prev) /\ validateContent(next)
           /\ immutable(prev, next)
           /\ mergeCursors(g, prev, next)
           /\ mergeMapping(prev, next)
           /\ mergeTracks(g, prev, next)
           /\ mergePublished(g, prev, next)
<1> DEFINE candidate == canonical(p)
<1>1. <<next>> # <<>>
  OBVIOUS
<1>2. candidate = <<next>> /\ candidate[1] = next
  BY <1>1 DEF MergeWith
<1>3. /\ Validate(prev) /\ immutable(prev, next)
      /\ mergeCursors(g, prev, next) /\ mergeMapping(prev, next)
      /\ mergeTracks(g, prev, next) /\ mergePublished(g, prev, next)
  BY <1>1, <1>2 DEF MergeWith
<1>4. validateContent(next)
  <2>1. CASE p.digest # <<>>
    BY <1>1, <1>2, <2>1 DEF canonical, Validate
  <2>2. CASE p.digest = <<>>
    <3>1. PICK c : /\ validateContent(c)
                   /\ next = [c EXCEPT !.digest = computeDigest(c)]
      BY <1>1, <1>2, <2>2 DEF canonical, New
    <3> QED BY <3>1, NewIsValid
  <2> QED BY <2>1, <2>2
<1> QED BY <1>3, <1>4 DEF Validate

LEMMA DescendsIs ==
    ASSUME NEW above, NEW from, NEW to, descends(above, from, to), from # <<>>
    PROVE  Above(above, from, to)
  BY DEF descends, Above

LEMMA AboveIs ==
    ASSUME NEW above, Transitive(above), NEW a, NEW b, NEW c, Above(above, a, b), Above(above, b, c)
    PROVE  Above(above, a, c)
  BY DEF Above, Transitive

(* What one accepted record keeps of the record before it. *)
LEMMA RecordStep ==
    ASSUME NEW g, NEW prev, NEW next, NEW p, IsDocument(prev), IsDocument(next),
           MergeWith(g, prev, p) = <<next>>
    PROVE  /\ Identity(prev) = Identity(next)
           /\ TagsOf(prev) \subseteq TagsOf(next)
           /\ \A b \in BranchesOf(prev) : \E c \in BranchesOf(next) :
                c.ref = b.ref /\ Above(g.destination, b.object, c.object)
                              /\ Above(g.source, b.source, c.source)
           /\ \A b \in Entries(prev.cursors) : \E c \in Entries(next.cursors) :
                /\ c.ref = b.ref /\ Above(g.source, b.source, c.source)
                /\ sameEpoch(prev, next) => Above(g.destination, b.destination, c.destination)
           /\ \A b \in Entries(prev.tracks) :
                \/ b.done = b.total
                \/ \E c \in Entries(next.tracks) :
                     /\ c.name = b.name /\ c.done >= b.done
                     /\ b.done = 0 \/ /\ Above(g.source, b.source, c.source)
                                      /\ sameEpoch(prev, next) => Above(g.destination, b.destination, c.destination)
           /\ prev.mapping.entries <= next.mapping.entries
           /\ prev.mapping.entries = next.mapping.entries => prev.mapping = next.mapping
<1>1. /\ validateContent(prev) /\ validateContent(next)
      /\ immutable(prev, next)
      /\ mergeCursors(g, prev, next)
      /\ mergeMapping(prev, next)
      /\ mergeTracks(g, prev, next)
      /\ mergePublished(g, prev, next)
  BY MergeIs
<1>2. Identity(prev) = Identity(next)
  BY <1>1 DEF immutable, Identity
<1>3. \A d \in {prev, next} : \A e \in Entries(d.published) :
        /\ e.kind \in {"branch", "tag"}
        /\ e.ref[1] = IF e.kind = "branch" THEN 1 ELSE 3
        /\ e.object # <<>> /\ e.source # <<>>
  BY <1>1 DEF validateContent, validatePublished, refPrefix, Heads, TagRefs, Entries, checkObject
<1>4. \A b \in Entries(prev.published) : \E c \in Entries(next.published) :
        /\ c.ref = b.ref /\ c.kind = b.kind
        /\ IF b.kind = "tag" THEN c.object = b.object /\ c.source = b.source
           ELSE BranchAdvances(g, prev, next, b, c)
  BY <1>1, <1>3 DEF mergePublished
<1>5. TagsOf(prev) \subseteq TagsOf(next)
  <2> SUFFICES ASSUME NEW b \in Entries(prev.published), b.kind = "tag"
               PROVE  b \in Entries(next.published)
    BY DEF TagsOf
  <2>1. PICK c \in Entries(next.published) :
          c.ref = b.ref /\ c.kind = b.kind /\ c.object = b.object /\ c.source = b.source
    BY <1>4
  <2>2. /\ b = [ref |-> b.ref, kind |-> b.kind, object |-> b.object, source |-> b.source]
        /\ c = [ref |-> c.ref, kind |-> c.kind, object |-> c.object, source |-> c.source]
    BY DEF IsDocument
  <2> QED BY <2>1, <2>2
<1>6. \A b \in BranchesOf(prev) : \E c \in BranchesOf(next) :
        c.ref = b.ref /\ Above(g.destination, b.object, c.object) /\ Above(g.source, b.source, c.source)
  <2> SUFFICES ASSUME NEW b \in Entries(prev.published), b.kind # "tag"
               PROVE  \E c \in BranchesOf(next) :
                        /\ c.ref = b.ref /\ Above(g.destination, b.object, c.object)
                        /\ Above(g.source, b.source, c.source)
    BY DEF BranchesOf, TagsOf
  <2>1. PICK c \in Entries(next.published) :
          c.ref = b.ref /\ c.kind = b.kind /\ BranchAdvances(g, prev, next, b, c)
    BY <1>4
  <2>2. c \in BranchesOf(next)
    BY <2>1 DEF BranchesOf, TagsOf
  <2>3. b.object # <<>> /\ b.source # <<>>
    BY <1>3
  <2> QED BY <2>1, <2>2, <2>3, DescendsIs DEF BranchAdvances
<1>7. \A b \in Entries(prev.cursors) : \E c \in Entries(next.cursors) :
        /\ c.ref = b.ref /\ Above(g.source, b.source, c.source)
        /\ sameEpoch(prev, next) => Above(g.destination, b.destination, c.destination)
  <2> SUFFICES ASSUME NEW b \in Entries(prev.cursors)
               PROVE  \E c \in Entries(next.cursors) :
                        /\ c.ref = b.ref /\ Above(g.source, b.source, c.source)
                        /\ sameEpoch(prev, next) => Above(g.destination, b.destination, c.destination)
    OBVIOUS
  <2>1. b.source # <<>> /\ b.destination # <<>>
    BY <1>1 DEF validateContent, validateCursors, checkObject, Entries
  <2>2. PICK c \in Entries(next.cursors) :
          /\ c.ref = b.ref /\ descends(g.source, b.source, c.source)
          /\ destinationDescends(g, prev, next, b.destination, c.destination)
    BY <1>1 DEF mergeCursors
  <2> QED BY <2>1, <2>2, DescendsIs DEF destinationDescends
<1>8. \A b \in Entries(prev.tracks) :
        \/ b.done = b.total
        \/ \E c \in Entries(next.tracks) :
             /\ c.name = b.name /\ c.done >= b.done
             /\ b.done = 0 \/ /\ Above(g.source, b.source, c.source)
                              /\ sameEpoch(prev, next) => Above(g.destination, b.destination, c.destination)
  <2> SUFFICES ASSUME NEW b \in Entries(prev.tracks), b.done # b.total
               PROVE  \E c \in Entries(next.tracks) :
                        /\ c.name = b.name /\ c.done >= b.done
                        /\ b.done = 0 \/ /\ Above(g.source, b.source, c.source)
                                         /\ sameEpoch(prev, next) => Above(g.destination, b.destination, c.destination)
    OBVIOUS
  <2>1. b.done = 0 \/ (b.source # <<>> /\ b.destination # <<>>)
    BY <1>1 DEF validateContent, validateTracks, checkObject, Entries
  <2>2. PICK c \in Entries(next.tracks) :
          /\ c.name = b.name /\ c.done >= b.done
          /\ descends(g.source, b.source, c.source)
          /\ destinationDescends(g, prev, next, b.destination, c.destination)
    BY <1>1 DEF mergeTracks
  <2> QED BY <2>1, <2>2, DescendsIs DEF destinationDescends
<1>9. /\ prev.mapping.entries <= next.mapping.entries
      /\ prev.mapping.entries = next.mapping.entries => prev.mapping = next.mapping
  <2>1. prev.mapping.entries \in Nat /\ next.mapping.entries \in Nat
        /\ next.mapping.entries >= prev.mapping.entries
    BY <1>1 DEF IsDocument, mergeMapping
  <2>2. CASE prev.mapping.entries = next.mapping.entries /\ prev.mapping.entries = 0
    BY <1>1, <2>1, <2>2 DEF validateContent, validateMapping
  <2>3. CASE prev.mapping.entries = next.mapping.entries /\ prev.mapping.entries # 0
    <3>1. prev.mapping.digest = next.mapping.digest /\ prev.mapping.object = next.mapping.object
      BY <1>1, <2>3 DEF mergeMapping
    <3>2. /\ prev.mapping = [digest |-> prev.mapping.digest, object |-> prev.mapping.object,
                             entries |-> prev.mapping.entries]
          /\ next.mapping = [digest |-> next.mapping.digest, object |-> next.mapping.object,
                             entries |-> next.mapping.entries]
      BY DEF IsDocument
    <3> QED BY <2>1, <2>3, <3>1, <3>2
  <2> QED BY <2>1, <2>2, <2>3
<1> QED BY <1>2, <1>5, <1>6, <1>7, <1>8, <1>9

(* What ChainKept says of two records. *)
KeptFrom(g, chain, i, j) ==
    /\ Identity(chain[i]) = Identity(chain[j])
    /\ TagsStay(chain, i, j)
    /\ BranchesAdvance(g, chain, i, j)
    /\ CursorsAdvance(g, chain, i, j)
    /\ TracksFinish(g, chain, i, j)
    /\ MappingGrows(chain, i, j)

LEMMA KeptAtOnce ==
    ASSUME NEW g, NEW chain, NEW i \in Nat, IsDocument(chain[i])
    PROVE  KeptFrom(g, chain, i, i)
<1>1. TagsStay(chain, i, i) /\ BranchesAdvance(g, chain, i, i) /\ CursorsAdvance(g, chain, i, i)
  BY DEF TagsStay, BranchesAdvance, CursorsAdvance, Above
<1>2. TracksFinish(g, chain, i, i)
  <2>1. \A b \in Entries(chain[i].tracks) : b.done \in Nat /\ b.done >= b.done
    BY DEF IsDocument
  <2>2. \A b \in Entries(chain[i].tracks) :
          /\ b.name = b.name /\ Above(g.source, b.source, b.source)
          /\ Above(g.destination, b.destination, b.destination)
    BY DEF Above
  <2> SUFFICES ASSUME NEW b \in Entries(chain[i].tracks)
               PROVE  \E c \in Entries(chain[i].tracks) :
                        /\ c.name = b.name /\ c.done >= b.done
                        /\ b.done = 0 \/ /\ Above(g.source, b.source, c.source)
                                         /\ OneEpoch(chain, i, i)
                                              => Above(g.destination, b.destination, c.destination)
    BY Zenon DEF TracksFinish
  <2> QED BY <2>1, <2>2
<1>3. MappingGrows(chain, i, i)
  BY DEF MappingGrows, IsDocument
<1> QED BY <1>1, <1>2, <1>3 DEF KeptFrom

LEMMA KeptNext ==
    ASSUME NEW g, IsLineage(g), NEW chain, NEW i \in Nat, NEW j \in Nat, i <= j,
           IsDocument(chain[i]), IsDocument(chain[j]), IsDocument(chain[j + 1]),
           NEW p, MergeWith(g, chain[j], p) = <<chain[j + 1]>>,
           KeptFrom(g, chain, i, j)
    PROVE  KeptFrom(g, chain, i, j + 1)
<1>1. PICK a, b, c : a = chain[i] /\ b = chain[j] /\ c = chain[j + 1]
  OBVIOUS
<1>2. /\ Identity(b) = Identity(c)
      /\ TagsOf(b) \subseteq TagsOf(c)
      /\ \A x \in BranchesOf(b) : \E y \in BranchesOf(c) :
           y.ref = x.ref /\ Above(g.destination, x.object, y.object)
                         /\ Above(g.source, x.source, y.source)
      /\ \A x \in Entries(b.cursors) : \E y \in Entries(c.cursors) :
           /\ y.ref = x.ref /\ Above(g.source, x.source, y.source)
           /\ sameEpoch(b, c) => Above(g.destination, x.destination, y.destination)
      /\ \A x \in Entries(b.tracks) :
           \/ x.done = x.total
           \/ \E y \in Entries(c.tracks) :
                /\ y.name = x.name /\ y.done >= x.done
                /\ x.done = 0 \/ /\ Above(g.source, x.source, y.source)
                                 /\ sameEpoch(b, c) => Above(g.destination, x.destination, y.destination)
      /\ b.mapping.entries <= c.mapping.entries
      /\ b.mapping.entries = c.mapping.entries => b.mapping = c.mapping
  BY <1>1, RecordStep
<1>3. OneEpoch(chain, i, j + 1) => OneEpoch(chain, i, j) /\ sameEpoch(b, c)
  <2>1. ASSUME OneEpoch(chain, i, j + 1)
        PROVE  OneEpoch(chain, i, j) /\ sameEpoch(b, c)
    <3>1. \A k \in i..j : k \in i..(j + 1)
      OBVIOUS
    <3>2. j \in i..(j + 1) /\ j + 1 \in i..(j + 1)
      OBVIOUS
    <3> QED BY <1>1, <2>1, <3>1, <3>2 DEF OneEpoch, sameEpoch
  <2> QED BY <2>1
<1>4. Transitive(g.source) /\ Transitive(g.destination)
  BY DEF IsLineage
<1>5. Identity(chain[i]) = Identity(chain[j + 1]) /\ TagsStay(chain, i, j + 1)
  BY <1>1, <1>2 DEF KeptFrom, TagsStay
<1>6. BranchesAdvance(g, chain, i, j + 1)
  <2> SUFFICES ASSUME NEW x \in BranchesOf(a)
               PROVE  \E z \in BranchesOf(c) :
                        /\ z.ref = x.ref /\ Above(g.destination, x.object, z.object)
                        /\ Above(g.source, x.source, z.source)
    BY <1>1 DEF BranchesAdvance
  <2>1. PICK y \in BranchesOf(b) :
          y.ref = x.ref /\ Above(g.destination, x.object, y.object) /\ Above(g.source, x.source, y.source)
    BY <1>1 DEF KeptFrom, BranchesAdvance
  <2>2. PICK z \in BranchesOf(c) :
          z.ref = y.ref /\ Above(g.destination, y.object, z.object) /\ Above(g.source, y.source, z.source)
    BY <1>2
  <2> QED BY <1>4, <2>1, <2>2, AboveIs
<1>7. CursorsAdvance(g, chain, i, j + 1)
  <2> SUFFICES ASSUME NEW x \in Entries(a.cursors)
               PROVE  \E z \in Entries(c.cursors) :
                        /\ z.ref = x.ref /\ Above(g.source, x.source, z.source)
                        /\ OneEpoch(chain, i, j + 1) => Above(g.destination, x.destination, z.destination)
    BY <1>1 DEF CursorsAdvance
  <2>1. PICK y \in Entries(b.cursors) :
          /\ y.ref = x.ref /\ Above(g.source, x.source, y.source)
          /\ OneEpoch(chain, i, j) => Above(g.destination, x.destination, y.destination)
    BY <1>1 DEF KeptFrom, CursorsAdvance
  <2>2. PICK z \in Entries(c.cursors) :
          /\ z.ref = y.ref /\ Above(g.source, y.source, z.source)
          /\ sameEpoch(b, c) => Above(g.destination, y.destination, z.destination)
    BY <1>2
  <2> QED BY <1>3, <1>4, <2>1, <2>2, AboveIs
<1>8. TracksFinish(g, chain, i, j + 1)
  <2> SUFFICES ASSUME NEW x \in Entries(a.tracks)
               PROVE  \/ \E k \in i..(j + 1) : \E z \in Entries(chain[k].tracks) :
                           z.name = x.name /\ z.done = z.total /\ z.done >= x.done
                      \/ \E z \in Entries(c.tracks) :
                           /\ z.name = x.name /\ z.done >= x.done
                           /\ x.done = 0 \/ /\ Above(g.source, x.source, z.source)
                                            /\ OneEpoch(chain, i, j + 1)
                                                 => Above(g.destination, x.destination, z.destination)
    BY <1>1 DEF TracksFinish
  <2>1. \A k \in i..j : k \in i..(j + 1)
    OBVIOUS
  <2>2. CASE \E k \in i..j : \E z \in Entries(chain[k].tracks) :
               z.name = x.name /\ z.done = z.total /\ z.done >= x.done
    BY <2>1, <2>2
  <2>3. CASE \E y \in Entries(b.tracks) :
               /\ y.name = x.name /\ y.done >= x.done
               /\ x.done = 0 \/ /\ Above(g.source, x.source, y.source)
                                /\ OneEpoch(chain, i, j) => Above(g.destination, x.destination, y.destination)
    <3>1. PICK y \in Entries(b.tracks) :
            /\ y.name = x.name /\ y.done >= x.done
            /\ x.done = 0 \/ /\ Above(g.source, x.source, y.source)
                             /\ OneEpoch(chain, i, j) => Above(g.destination, x.destination, y.destination)
      BY <2>3
    <3>2. x.done \in Nat /\ y.done \in Nat
      BY <1>1 DEF IsDocument
    <3>3. CASE y.done = y.total
      <4>1. j \in i..(j + 1)
        OBVIOUS
      <4> QED BY <1>1, <3>1, <3>3, <4>1
    <3>4. CASE y.done # y.total
      <4>1. PICK z \in Entries(c.tracks) :
              /\ z.name = y.name /\ z.done >= y.done
              /\ y.done = 0 \/ /\ Above(g.source, y.source, z.source)
                               /\ sameEpoch(b, c) => Above(g.destination, y.destination, z.destination)
        BY <1>2, <3>4
      <4>2. z.done \in Nat
        BY <1>1 DEF IsDocument
      <4>3. z.name = x.name /\ z.done >= x.done /\ (y.done = 0 => x.done = 0)
        BY <3>1, <3>2, <4>1, <4>2
      <4> QED BY <1>3, <1>4, <3>1, <4>1, <4>3, AboveIs
    <3> QED BY <3>3, <3>4
  <2> QED BY <1>1, <2>2, <2>3 DEF KeptFrom, TracksFinish
<1>9. MappingGrows(chain, i, j + 1)
  BY <1>1, <1>2 DEF KeptFrom, MappingGrows, IsDocument
<1> QED BY <1>5, <1>6, <1>7, <1>8, <1>9 DEF KeptFrom

(* However many records lie between two, and whatever was proposed on the way,
   no tag has moved, no branch, cursor or unfinished backfill went back or
   away, and one count of resolved commits is one index (state.MergeWith). *)
THEOREM ChainsAreKept ==
    ASSUME NEW g, IsLineage(g), NEW chain, IsChain(g, chain)
    PROVE  ChainKept(g, chain)
<1>1. /\ Len(chain) \in Nat /\ DOMAIN chain = 1..Len(chain)
      /\ \A k \in 1..Len(chain) : IsDocument(chain[k])
  <2>1. PICK S : chain \in Seq(S)
    BY DEF IsChain
  <2> QED BY <2>1 DEF IsChain
<1>2. ASSUME NEW i \in 1..Len(chain), NEW l \in 1..Len(chain), i <= l, ~KeptFrom(g, chain, i, l)
      PROVE  FALSE
  <2> DEFINE broken == {j \in i..Len(chain) : ~KeptFrom(g, chain, i, j)}
  <2>1. broken \subseteq Nat /\ broken # {}
    BY <1>1, <1>2
  <2>2. PICK j \in broken : \A m \in broken : j <= m
    <3> HIDE DEF broken
    <3> QED BY <2>1, Smallest
  <2>3. j # i
    BY <1>1, KeptAtOnce
  <2>4. PICK n \in Nat : j = n + 1 /\ i <= n /\ n \in 1..Len(chain) /\ n \in 1..(Len(chain) - 1)
    <3>1. j - 1 \in Nat /\ j = (j - 1) + 1 /\ i <= j - 1
          /\ j - 1 \in 1..Len(chain) /\ j - 1 \in 1..(Len(chain) - 1)
      BY <1>1, <2>3
    <3> QED BY <3>1
  <2>5. KeptFrom(g, chain, i, n)
    BY <1>1, <2>2, <2>4
  <2>6. PICK p : MergeWith(g, chain[n], p) = <<chain[n + 1]>>
    BY <2>4 DEF IsChain
  <2>7. IsDocument(chain[i]) /\ IsDocument(chain[n]) /\ IsDocument(chain[n + 1])
    BY <1>1, <2>4
  <2>8. KeptFrom(g, chain, i, n + 1)
    <3>1. i \in Nat /\ n \in Nat /\ i <= n
      BY <1>1, <2>4
    <3> HIDE DEF broken
    <3> QED BY <2>5, <2>6, <2>7, <3>1, KeptNext
  <2> QED BY <2>2, <2>4, <2>8
<1> QED BY <1>1, <1>2 DEF ChainKept, KeptFrom

-----------------------------------------------------------------------------
(* Copies of external packages. *)

(* What the types of the code give, over the finite build that was loaded. *)
IsProposal(q) ==
    /\ IsFiniteSet(Packages(q))
    /\ \A p \in Packages(q) : q.lines[p] \in Nat
    /\ q.limit.packages \in Nat /\ q.limit.lines \in Nat /\ q.limit.removed \in Nat

LEMMA LinesAre ==
    ASSUME NEW q, IsProposal(q), NEW S \in SUBSET Packages(q), NEW T \in SUBSET S
    PROVE  /\ Cardinality(LinesOf(q, S)) \in Nat /\ Cardinality(LinesOf(q, T)) \in Nat
           /\ Cardinality(LinesOf(q, T)) <= Cardinality(LinesOf(q, S))
<1> DEFINE parts == {{p} \X (1..q.lines[p]) : p \in S}
<1>1. IsFiniteSet(S)
  BY FS_Subset DEF IsProposal
<1>2. IsFiniteSet(parts)
  <2> DEFINE part == [p \in S |-> {p} \X (1..q.lines[p])]
  <2>1. part \in Surjection(S, parts)
    BY DEF Surjection
  <2> HIDE DEF part, parts
  <2> QED BY <1>1, <2>1, FS_Surjection
<1>3. \A x \in parts : IsFiniteSet(x)
  <2> SUFFICES ASSUME NEW p \in S PROVE IsFiniteSet({p} \X (1..q.lines[p]))
    OBVIOUS
  <2>1. PICK n \in Nat : n = q.lines[p]
    BY DEF IsProposal
  <2>2. IsFiniteSet(1..n)
    BY FS_Interval
  <2>3. IsFiniteSet({p})
    BY FS_Singleton
  <2> QED BY <2>1, <2>2, <2>3, FS_Product
<1>4. IsFiniteSet(LinesOf(q, S))
  <2> HIDE DEF parts
  <2>1. IsFiniteSet(UNION parts)
    BY <1>2, <1>3, FS_UNION
  <2> QED BY <2>1 DEF LinesOf, parts
<1>5. LinesOf(q, T) \in SUBSET LinesOf(q, S)
  BY DEF LinesOf
<1> QED BY <1>4, <1>5, FS_Subset, FS_CardinalityType

(* A gate that a copied package passed is within its limit, or every copied
   package is excused from it. *)
LEMMA GateIs ==
    ASSUME NEW q, Acceptable(q), NEW gate \in Gates
    PROVE  \/ Copy(q) = {}
           \/ Within(q, gate)
           \/ \A c \in Copy(q) : \E o \in q.overrides :
                 o.package = c /\ o.gate = gate /\ o.through >= q.minor
  BY DEF Copy, Affordable, Overridden, Acceptable

(* A copy that is published is worth what the profile asked of it, whatever
   the build, the proposal and the overrides (deppolicy.Decide,
   generate/deps.go:verifyPostCopy). *)
THEOREM PublishedCopyDelivers ==
    ASSUME NEW q, IsProposal(q)
    PROVE  CopyDelivers(q)
<1> DEFINE copied == Copy(q)
           gone == ModulesOf(q, External(q)) \ Present(q)
           Excused(gate) == \A c \in copied : \E o \in q.overrides :
                                o.package = c /\ o.gate = gate /\ o.through >= q.minor
<1> SUFFICES ASSUME Publishes(q), copied # {}
             PROVE  /\ ModulesOf(q, copied) \subseteq q.licensed
                    /\ Cardinality(copied) <= q.limit.packages \/ Excused("packages")
                    /\ Cardinality(LinesOf(q, copied)) <= q.limit.lines \/ Excused("lines")
                    /\ Cardinality(gone) >= q.limit.removed \/ Excused("leverage")
  BY Zenon DEF CopyDelivers
<1>1. Acceptable(q) /\ Verified(q)
  BY DEF Publishes
<1>2. copied \subseteq Correct(q) /\ Correct(q) \subseteq q.candidates
      /\ q.candidates \subseteq External(q) /\ External(q) \subseteq Packages(q)
      /\ IsFiniteSet(Packages(q))
  BY <1>1 DEF Copy, Correct, Acceptable, External, IsProposal
<1>3. \A gate \in Gates : Within(q, gate) \/ Excused(gate)
  BY <1>1, GateIs
<1>4. {"packages", "lines", "leverage", "licences"} = Gates
  BY DEF Gates
<1>5. ModulesOf(q, copied) \subseteq q.licensed
  <2>1. PICK c \in copied : Measured(q, "licences")
    BY <1>4 DEF Copy, Affordable
  <2> QED BY <1>2, <2>1 DEF Measured, ModulesOf
<1>6. Cardinality(copied) <= q.limit.packages \/ Excused("packages")
  <2>1. IsFiniteSet(Correct(q)) /\ copied \in SUBSET Correct(q)
    BY <1>2, FS_Subset
  <2>2. /\ Cardinality(copied) \in Nat /\ Cardinality(Correct(q)) \in Nat
        /\ Cardinality(copied) <= Cardinality(Correct(q))
    <3> HIDE DEF copied
    <3> QED BY <2>1, FS_Subset, FS_CardinalityType
  <2>3. Within(q, "packages") => Cardinality(Correct(q)) <= q.limit.packages
    BY DEF Within, Total
  <2>4. q.limit.packages \in Nat
    BY DEF IsProposal
  <2> HIDE DEF copied
  <2>5. Within(q, "packages") => Cardinality(copied) <= q.limit.packages
    BY <2>2, <2>3, <2>4
  <2> QED BY <1>3, <1>4, <2>5
<1>7. Cardinality(LinesOf(q, copied)) <= q.limit.lines \/ Excused("lines")
  <2>1. Correct(q) \in SUBSET Packages(q) /\ copied \in SUBSET Correct(q)
    BY <1>2
  <2>2. /\ Cardinality(LinesOf(q, copied)) \in Nat /\ Cardinality(LinesOf(q, Correct(q))) \in Nat
        /\ Cardinality(LinesOf(q, copied)) <= Cardinality(LinesOf(q, Correct(q)))
    <3> HIDE DEF copied
    <3> QED BY <2>1, LinesAre
  <2>3. Within(q, "lines") => Cardinality(LinesOf(q, Correct(q))) <= q.limit.lines
    BY DEF Within, Total
  <2>4. q.limit.lines \in Nat
    BY DEF IsProposal
  <2> HIDE DEF copied
  <2>5. Within(q, "lines") => Cardinality(LinesOf(q, copied)) <= q.limit.lines
    BY <2>2, <2>3, <2>4
  <2> QED BY <1>3, <1>4, <2>5
<1>8. Cardinality(gone) >= q.limit.removed \/ Excused("leverage")
  <2>1. ModulesRemoved(q) \in SUBSET gone
    BY <1>1, <1>2 DEF ModulesRemoved, ModulesOf, Verified
  <2>2. IsFiniteSet(gone)
    <3>1. IsFiniteSet(External(q))
      BY <1>2, FS_Subset
    <3>2. IsFiniteSet(ModulesOf(q, External(q)))
      <4> DEFINE owner == [p \in External(q) |-> q.module[p]]
      <4>1. owner \in Surjection(External(q), ModulesOf(q, External(q)))
        BY DEF Surjection, ModulesOf
      <4> HIDE DEF owner
      <4> QED BY <3>1, <4>1, FS_Surjection
    <3> QED BY <3>2, FS_Subset
  <2>3. /\ Cardinality(ModulesRemoved(q)) \in Nat /\ Cardinality(gone) \in Nat
        /\ Cardinality(ModulesRemoved(q)) <= Cardinality(gone)
    <3> HIDE DEF gone
    <3> QED BY <2>1, <2>2, FS_Subset, FS_CardinalityType
  <2>4. Within(q, "leverage") => Cardinality(ModulesRemoved(q)) >= q.limit.removed
    BY <1>2 DEF Within, Total
  <2>5. q.limit.removed \in Nat
    BY DEF IsProposal
  <2> HIDE DEF gone, copied
  <2>6. Within(q, "leverage") => Cardinality(gone) >= q.limit.removed
    BY <2>3, <2>4, <2>5
  <2> QED BY <1>3, <1>4, <2>6
<1> QED BY <1>5, <1>6, <1>7, <1>8

(* The facade spells a candidate only for a type that crosses the boundary or
   is asserted (see WholeCopyLeavesNoOriginal). *)
FacadeSpells(q) == q.imports[q.facade] \cap q.candidates \subseteq q.crossing \cup q.asserted

Direct(q) == q.imports[q.facade] \cup ((UNION {q.imports[p] : p \in Rewritten(q)}) \ Moved(q))
NextLeft(q, seen) == (seen \cup UNION {q.imports[p] : p \in seen}) \cap External(q)
IsReach(q, g, n) ==
    g = [k \in 0..n |-> IF k = 0 THEN Direct(q) \cap External(q) ELSE NextLeft(q, g[k - 1])]

(* The function Left is read from exists, up to any depth. *)
LEMMA ReachExists ==
    ASSUME NEW q, NEW n \in Nat
    PROVE  \E g : IsReach(q, g, n)
<1> DEFINE bad == {m \in Nat : ~ \E g : IsReach(q, g, m)}
<1> SUFFICES ASSUME bad # {} PROVE FALSE
  OBVIOUS
<1>1. PICK m \in bad : \A k \in bad : m <= k
  BY Smallest
<1>2. m # 0
  <2> DEFINE g == [k \in 0..0 |-> Direct(q) \cap External(q)]
  <2>1. IsReach(q, g, 0)
    BY DEF IsReach
  <2> QED BY <2>1
<1>3. m - 1 \in Nat /\ m - 1 \notin bad
  BY <1>1, <1>2
<1>4. PICK g : IsReach(q, g, m - 1)
  BY <1>3
<1> DEFINE h == [k \in 0..m |-> IF k = m THEN NextLeft(q, g[m - 1]) ELSE g[k]]
<1>5. \A k \in 0..(m - 1) : g[k] = IF k = 0 THEN Direct(q) \cap External(q) ELSE NextLeft(q, g[k - 1])
  BY <1>4 DEF IsReach
<1>6. h[m] = NextLeft(q, h[m - 1]) /\ \A k \in 0..(m - 1) : h[k] = g[k]
  BY <1>2
<1>7. \A k \in 0..m : h[k] = IF k = 0 THEN Direct(q) \cap External(q) ELSE NextLeft(q, h[k - 1])
  <2> TAKE k \in 0..m
  <2>1. CASE k = m
    BY <1>2, <1>6, <2>1
  <2>2. CASE k # m
    <3>1. k \in 0..(m - 1) /\ (k # 0 => k - 1 \in 0..(m - 1))
      BY <2>2
    <3> HIDE DEF h
    <3> QED BY <1>5, <1>6, <3>1
  <2> QED BY <2>1, <2>2
<1>8. IsReach(q, h, m)
  <2> DEFINE right == [k \in 0..m |-> IF k = 0 THEN Direct(q) \cap External(q) ELSE NextLeft(q, h[k - 1])]
  <2>1. h = [k \in 0..m |-> h[k]]
    OBVIOUS
  <2> HIDE DEF h
  <2>2. h = right
    BY <1>7, <2>1
  <2> QED BY <2>2 DEF IsReach
<1> QED BY <1>1, <1>8

(* What holds what the module imports directly, and what its members import,
   holds all that is left. *)
LEMMA LeftWithin ==
    ASSUME NEW q, IsFiniteSet(Packages(q)), NEW S,
           Direct(q) \cap External(q) \subseteq S,
           \A p \in S : q.imports[p] \cap External(q) \subseteq S
    PROVE  Left(q) \subseteq S
<1>1. PICK n \in Nat : n = Cardinality(Packages(q))
  BY FS_CardinalityType
<1>2. PICK L : L = CHOOSE g : IsReach(q, g, n)
  OBVIOUS
<1>3. Left(q) = L[n]
  BY <1>1, <1>2 DEF Left, IsReach, Direct, NextLeft
<1>4. IsReach(q, L, n)
  BY <1>2, ReachExists
<1>5. \A k \in 0..n : L[k] = IF k = 0 THEN Direct(q) \cap External(q) ELSE NextLeft(q, L[k - 1])
  BY <1>4 DEF IsReach
<1> DEFINE bad == {k \in 0..n : ~(L[k] \subseteq S)}
<1>6. ASSUME bad # {} PROVE FALSE
  <2>1. PICK k \in bad : \A j \in bad : k <= j
    <3>1. bad \subseteq Nat
      OBVIOUS
    <3> HIDE DEF bad
    <3> QED BY <1>6, <3>1, Smallest
  <2>2. k # 0
    BY <1>5, <2>1
  <2>3. k - 1 \in 0..n /\ L[k - 1] \subseteq S
    BY <2>1, <2>2
  <2>4. L[k] = NextLeft(q, L[k - 1])
    BY <1>5, <2>1, <2>2
  <2>5. L[k] \subseteq S
    BY <2>3, <2>4 DEF NextLeft
  <2> QED BY <2>1, <2>5
<1>7. n \in 0..n
  OBVIOUS
<1> QED BY <1>3, <1>6, <1>7

(* When every candidate is copied, no original of a copied package stays in
   the build beside its copy, whatever the build is
   (deppolicy/diamond.go:evaluateDiamond). *)
THEOREM WholeCopyIsClean ==
    ASSUME NEW q, IsProposal(q), FacadeSpells(q)
    PROVE  WholeCopyLeavesNoOriginal(q)
<1> SUFFICES ASSUME Publishes(q), Copy(q) = q.candidates
             PROVE  Copy(q) \cap Left(q) = {}
  BY DEF WholeCopyLeavesNoOriginal
<1>1. /\ q.candidates \subseteq External(q)
      /\ \A c \in q.candidates :
           /\ c \notin q.crossing /\ c \notin q.asserted
           /\ \A p \in Retained(q) : c \notin q.imports[p]
  BY DEF Publishes, Acceptable, Copy, Correct, Crosses, Diamond
<1>2. q.candidates \subseteq Moved(q)
  BY <1>1 DEF Moved, ModulesOf
<1>3. Direct(q) \cap External(q) \subseteq Retained(q)
  <2>1. \A x \in q.imports[q.facade] : x \notin q.candidates
    BY <1>1 DEF FacadeSpells
  <2>2. \A x \in Direct(q) : x \notin q.candidates
    BY <1>2, <2>1 DEF Direct
  <2> QED BY <2>2 DEF Retained
<1>4. \A p \in Retained(q) : q.imports[p] \cap External(q) \subseteq Retained(q)
  BY <1>1 DEF Retained
<1>5. Left(q) \subseteq Retained(q)
  BY <1>3, <1>4, LeftWithin DEF IsProposal
<1> QED BY <1>5 DEF Retained
=============================================================================

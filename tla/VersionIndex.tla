---------------------------- MODULE VersionIndex ----------------------------
(***************************************************************************)
(* The version index (tools/internal/gomodmap store.go and index.go, as    *)
(* generate/staging.go and sync/chunk.go use it): a file beside the cache  *)
(* that maps a source commit to the staging versions resolved for it, and  *)
(* the mapping evidence a state record carries of it.                      *)
(*                                                                         *)
(* Planning runs take the recorded mapping, generate the commits of a      *)
(* chunk, each of which may add an entry to the file, and push a record    *)
(* with what the file then holds.  A mapping is a function from commits to *)
(* answers; the staging repositories may answer differently later.         *)
(***************************************************************************)
EXTENDS Naturals, FiniteSets

CONSTANTS Runs,       \* planning runs, each used once
          Caches,     \* version index files
          CacheOf,    \* the file a run is configured with
          Overlap,    \* may two runs on one file be under way at once
          N,          \* source commits to replay
          Size,       \* commits in a chunk
          Earlier,    \* mappings the first record may carry
          Missing,    \* the content of a file that does not exist
          MaxMoves    \* bound on changes of the staging repositories

(* The anchor and the commits to replay.  Mappings of commits to what the staging repositories answered: one entry
   put into a mapping, and one mapping laid over another. *)
Position == 0..N
Answer == 1..(MaxMoves + 1)
Mapping == UNION {[commits -> Answer] : commits \in SUBSET Position}
With(f, c, v) == [d \in DOMAIN f \cup {c} |-> IF d = c THEN v ELSE f[d]]
Over(f, g) == [c \in DOMAIN f \cup DOMAIN g |-> IF c \in DOMAIN f THEN f[c] ELSE g[c]]

ASSUME IndexAssumption ==
    /\ CacheOf \in [Runs -> Caches] /\ Overlap \in BOOLEAN
    /\ N \in Nat \ {0} /\ Size \in Nat \ {0} /\ MaxMoves \in Nat
    /\ Missing \notin Mapping
    /\ Earlier \subseteq {mapping \in Mapping : DOMAIN mapping \subseteq {0}}

VARIABLES record,  \* the published record: done, mapping, and whether reachable
          file,    \* what each index file holds
          answer,  \* what the staging repositories answer now
          phase, base, todo, index, merged, pinned  \* of each run

run == <<phase, base, todo, index, merged, pinned>>
vars == <<record, file, answer, run>>

Empty == <<>>
(* ErrIndexMissing is an empty cache. *)
Held(cache) == IF file[cache] = Missing THEN Empty ELSE file[cache]

Agree(f, g) == \A c \in DOMAIN f \cap DOMAIN g : f[c] = g[c]
Active(r) == phase[r] \notin {"new", "done", "refused", "dead"}

-----------------------------------------------------------------------------
Init ==
    /\ \E mapping \in Earlier, reachable \in BOOLEAN :
        record = [done |-> 0, mapping |-> mapping, reachable |-> reachable \/ mapping = Empty]
    /\ \E before \in Earlier \cup {Missing, With(Empty, 1, 1)} : file = [cache \in Caches |-> before]
    /\ answer = 1
    /\ phase = [r \in Runs |-> "new"]
    /\ base = [r \in Runs |-> record]
    /\ todo = [r \in Runs |-> {}]
    /\ index = [r \in Runs |-> Empty]
    /\ merged = [r \in Runs |-> Empty]
    /\ pinned = [r \in Runs |-> Empty]

To(r, next) == phase' = [phase EXCEPT ![r] = next]

Chunk(done) == {c \in 1..N : done < c /\ c <= done + Size}

Discover(r) ==
    /\ phase[r] = "new" /\ record.done < N
    /\ Overlap \/ \A s \in Runs : CacheOf[s] = CacheOf[r] => ~Active(s)
    /\ base' = [base EXCEPT ![r] = record]
    /\ todo' = [todo EXCEPT ![r] = Chunk(record.done)]
    /\ To(r, "discovered")
    /\ UNCHANGED <<record, file, answer, index, merged, pinned>>

(* restoreChunkMapping: the recorded mapping replaces the file.  A record
   whose evidence cannot be reached is believed of an equal file only. *)
RestoreMerges(r) ==
    /\ phase[r] = "discovered"
    /\ file' = [file EXCEPT ![CacheOf[r]] = Over(base[r].mapping, Held(CacheOf[r]))]
    /\ To(r, "replaying")
    /\ UNCHANGED <<record, answer, base, todo, index, merged, pinned>>
RestoreLegacyAlways(r) ==
    /\ phase[r] = "discovered"
    /\ file' = IF base[r].reachable THEN [file EXCEPT ![CacheOf[r]] = base[r].mapping] ELSE file
    /\ To(r, "replaying")
    /\ UNCHANGED <<record, answer, base, todo, index, merged, pinned>>
Restore(r) ==
    /\ phase[r] = "discovered"
    /\ IF base[r].reachable
       THEN file' = [file EXCEPT ![CacheOf[r]] = base[r].mapping] /\ To(r, "replaying")
       ELSE /\ To(r, IF file[CacheOf[r]] = base[r].mapping THEN "replaying" ELSE "refused")
            /\ UNCHANGED file
    /\ UNCHANGED <<record, answer, base, todo, index, merged, pinned>>

Commit(r) == CHOOSE c \in todo[r] : \A d \in todo[r] : c <= d
Rest(r) == [todo EXCEPT ![r] = @ \ {Commit(r)}]

(* A commit no watched path of which changed is not generated; the release
   always is. *)
Prefilter(r) ==
    /\ phase[r] = "replaying" /\ todo[r] # {} /\ Commit(r) # N
    /\ todo' = Rest(r)
    /\ UNCHANGED <<record, file, answer, phase, base, index, merged, pinned>>

(* resolveStaging loads the index for each commit it generates. *)
LookupAdvances(r) ==
    /\ phase[r] = "replaying" /\ todo[r] # {}
    /\ LET c == Commit(r)
           held == Held(CacheOf[r])
       IN  IF c \in DOMAIN held
           THEN /\ pinned' = [pinned EXCEPT ![r] = With(@, c, held[c])]
                /\ UNCHANGED <<phase, index>>
           ELSE /\ index' = [index EXCEPT ![r] = held]
                /\ To(r, "resolving")
                /\ UNCHANGED pinned
    /\ todo' = Rest(r)
    /\ UNCHANGED <<record, file, answer, base, merged>>
Lookup(r) ==
    /\ phase[r] = "replaying" /\ todo[r] # {}
    /\ LET c == Commit(r)
           held == Held(CacheOf[r])
       IN  IF c \in DOMAIN held
           THEN /\ pinned' = [pinned EXCEPT ![r] = With(@, c, held[c])]
                /\ todo' = Rest(r)
                /\ UNCHANGED <<phase, index>>
           ELSE /\ index' = [index EXCEPT ![r] = held]
                /\ To(r, "resolving")
                /\ UNCHANGED <<pinned, todo>>
    /\ UNCHANGED <<record, file, answer, base, merged>>

(* ResolveCommitVersions or ResolveReleaseVersions, and Index.Put. *)
Resolve(r) ==
    /\ phase[r] = "resolving"
    /\ index' = [index EXCEPT ![r] = With(@, Commit(r), answer)]
    /\ To(r, "saving")
    /\ UNCHANGED <<record, file, answer, base, todo, merged, pinned>>

(* Save loads the file again and puts every entry into it: an entry that
   differs refuses the merge. *)
Save(r) ==
    /\ phase[r] = "saving"
    /\ LET held == Held(CacheOf[r])
       IN  IF Agree(held, index[r])
           THEN merged' = [merged EXCEPT ![r] = Over(held, index[r])] /\ To(r, "renaming")
           ELSE To(r, "refused") /\ UNCHANGED merged
    /\ UNCHANGED <<record, file, answer, base, todo, index, pinned>>

(* writeFileAtomic: the rename. *)
Rename(r) ==
    /\ phase[r] = "renaming"
    /\ file' = [file EXCEPT ![CacheOf[r]] = merged[r]]
    /\ pinned' = [pinned EXCEPT ![r] = With(@, Commit(r), index[r][Commit(r)])]
    /\ todo' = Rest(r)
    /\ To(r, "replaying")
    /\ UNCHANGED <<record, answer, base, index, merged>>

(* snapshotChunkMapping and the rules state.Merge has for the descriptor. *)
Extends(prior, next) ==
    /\ Cardinality(DOMAIN next) >= Cardinality(DOMAIN prior)
    /\ prior # Empty /\ Cardinality(DOMAIN next) = Cardinality(DOMAIN prior) => next = prior

Snapshot(r) ==
    /\ phase[r] = "replaying" /\ todo[r] = {}
    /\ LET held == Held(CacheOf[r])
       IN  IF held # Empty /\ Extends(base[r].mapping, held)
           THEN merged' = [merged EXCEPT ![r] = held] /\ To(r, "planned")
           ELSE To(r, "refused") /\ UNCHANGED merged
    /\ UNCHANGED <<record, file, answer, base, todo, index, pinned>>

(* The push is leased on the record the run discovered. *)
Push(r) ==
    /\ phase[r] = "planned"
    /\ IF record = base[r]
       THEN /\ record' = [done |-> IF base[r].done + Size < N THEN base[r].done + Size ELSE N,
                          mapping |-> merged[r], reachable |-> TRUE]
            /\ To(r, "done")
       ELSE To(r, "refused") /\ UNCHANGED record
    /\ UNCHANGED <<file, answer, base, todo, index, merged, pinned>>

(* The process is killed, its context ends or generation fails. *)
Die(r) ==
    /\ Active(r)
    /\ To(r, "dead")
    /\ UNCHANGED <<record, file, answer, base, todo, index, merged, pinned>>

(* The staging repositories are published or tagged anew. *)
StagingMoves ==
    /\ answer <= MaxMoves
    /\ answer' = answer + 1
    /\ UNCHANGED <<record, file, run>>

Next ==
    \/ \E r \in Runs :
        \/ Discover(r) \/ Restore(r) \/ Prefilter(r) \/ Lookup(r)
        \/ Resolve(r) \/ Save(r) \/ Rename(r) \/ Snapshot(r) \/ Push(r) \/ Die(r)
    \/ StagingMoves

Spec == Init /\ [][Next]_vars

-----------------------------------------------------------------------------
(* Types: what a run loaded, merged or pinned are mappings of commits, and a
   run that renames has an entry to add. *)
Phase == {"new", "discovered", "replaying", "resolving", "saving", "renaming",
          "planned", "done", "refused", "dead"}
Record == [done : 0..N, mapping : Mapping, reachable : BOOLEAN]

TypeOK ==
    /\ record \in Record
    /\ file \in [Caches -> Mapping \cup {Missing}]
    /\ answer \in Answer
    /\ phase \in [Runs -> Phase] /\ base \in [Runs -> Record]
    /\ todo \in [Runs -> SUBSET (1..N)]
    /\ index \in [Runs -> Mapping] /\ merged \in [Runs -> Mapping]
    /\ pinned \in [Runs -> Mapping]
    /\ \A r \in Runs :
        /\ todo[r] \subseteq Chunk(base[r].done)
        /\ phase[r] \in {"resolving", "saving", "renaming"} => todo[r] # {}
        /\ phase[r] \in {"saving", "renaming"} => Commit(r) \in DOMAIN index[r]

(* store.go:132: the record is authoritative.  What a run plans to record is
   what it started from and what it pinned, whichever cache survived and
   whatever earlier attempts left in it. *)
OwnEvidence ==
    \A r \in Runs : phase[r] = "planned" => merged[r] = Over(pinned[r], base[r].mapping)

(* merge.go:195: the index is append only, so the versions a published commit
   was built against stay the ones the record resolves. *)
RecordExtends ==
    [][\A c \in DOMAIN record.mapping :
        c \in DOMAIN record'.mapping /\ record'.mapping[c] = record.mapping[c]]_record
=============================================================================

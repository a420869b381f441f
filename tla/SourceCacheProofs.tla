------------------------- MODULE SourceCacheProofs -------------------------
(***************************************************************************)
(* Proofs about SourceCache for any number of plans and processes and any  *)
(* upstream history.                                                       *)
(***************************************************************************)
EXTENDS SourceCache, TLAPS

-----------------------------------------------------------------------------
(* Who administers work trees.  The process's lock is held by the plan that
   removes a work tree until the removal has ended, and a plan that waits for
   it to clean up has a tree to clean. *)

LockInv ==
    /\ \A p \in Process :
        holder[p] # None /\ pc[holder[p]] = "cleanup" => holder[p] \in owned
    /\ \A r \in Plan : pc[r] = "removing" => Holds(r)

TypeInv == TypeOK /\ LockInv

-----------------------------------------------------------------------------
(* What the cache is while plans are at it.  Only one plan clones, nothing is
   resolved before the cache is ready, and what was resolved is an ancestor of
   the branch the cache tracks. *)

CacheInv ==
    /\ cache = "ready" => cached \in Commit
    /\ \A r \in Plan : pc[r] = "clone" => cache = "unfinished"
    /\ \A q, r \in Plan : pc[q] = "clone" /\ pc[r] = "clone" => q = r
    /\ \A r \in Plan :
        /\ pc[r] \in {"prune", "fetch", "resolve", "add", "checkout", "undo", "work"} =>
            cache = "ready"
        /\ pc[r] \in {"open", "clone", "prune", "fetch", "resolve"} => commit[r] = None
        /\ commit[r] # None => cache = "ready" /\ <<commit[r], cached>> \in Descends
        /\ pc[r] \in {"add", "checkout", "work"} => <<Anchor, commit[r]>> \in Descends
        /\ seen[r] # None => seen[r] = commit[r]
        /\ r \in alarm => seen[r] # None /\ seen[r] # cached

-----------------------------------------------------------------------------
(* Where a plan's work tree is at each of its steps. *)

Kept(r) == r \in dirs \/ entry[r] # "none"

TreeInv ==
    \A r \in Plan :
        /\ pc[r] \in {"open", "clone", "prune", "fetch", "resolve", "add"} =>
            ~Kept(r) /\ r \notin owned
        /\ pc[r] \in {"checkout", "undo"} => r \notin owned
        /\ pc[r] \in {"checkout", "work"} => r \in dirs /\ entry[r] = "whole"
        /\ pc[r] = "work" => r \in owned
        /\ pc[r] = "removing" => r \notin dirs
        /\ pc[r] \in {"compare", "cleanup"} /\ r \notin owned /\ Kept(r) =>
            r \in canceled \/ met[r] # {}
        /\ pc[r] = "ended" /\ Kept(r) => r \in canceled \ owned \/ met[r] # {}

-----------------------------------------------------------------------------
LEMMA CollideType ==
    ASSUME NEW r \in Plan, TypeOK, Collide(r)
    PROVE  /\ met' \in [Plan -> SUBSET Plan]
           /\ entry' = entry /\ dirs' = dirs
  BY DEF Collide, Halves, TypeOK

LEMMA PrunedType ==
    ASSUME TypeOK
    PROVE  Pruned \in [Plan -> {"none", "whole", "half", "locked"}]
  BY DEF Pruned, TypeOK

(* Types, and the lock: no error path keeps it and no removal runs without it
   (source.go worktreeLocks). *)
THEOREM TypeAndLock == Spec => []TypeInv
<1>1. Init => TypeInv
  BY CacheAssumption DEF Init, TypeOK, Steps, LockInv, Holds, TypeInv
<1>2. ASSUME TypeInv, [Next]_vars PROVE TypeInv'
  <2> USE <1>2, CacheAssumption
  <2>1. CASE UpstreamMoves
    BY <2>1 DEF UpstreamMoves, store, trees, learned, TypeInv, TypeOK, Steps, LockInv, Holds
  <2>2. ASSUME NEW r \in Plan, Cancel(r) PROVE TypeInv'
    BY <2>2 DEF Cancel, store, trees, learned, TypeInv, TypeOK, Steps, LockInv, Holds
  <2>3. ASSUME NEW r \in Plan, Stop(r) PROVE TypeInv'
    BY <2>3 DEF Stop, Fail, Go, store, trees, learned, TypeInv, TypeOK, Steps, LockInv, Holds
  <2>4. ASSUME NEW r \in Plan, Open(r) PROVE TypeInv'
    BY <2>4 DEF Open, Fail, Go, store, trees, learned, TypeInv, TypeOK, Steps, LockInv, Holds
  <2>5. ASSUME NEW r \in Plan, Clone(r) PROVE TypeInv'
    BY <2>5 DEF Clone, Fail, Go, store, trees, learned, TypeInv, TypeOK, Steps, LockInv, Holds
  <2>6. ASSUME NEW r \in Plan, Fetch(r) PROVE TypeInv'
    BY <2>6 DEF Fetch, Fail, Go, store, trees, learned, TypeInv, TypeOK, Steps, LockInv, Holds
  <2>7. ASSUME NEW r \in Plan, Resolve(r) PROVE TypeInv'
    BY <2>7 DEF Resolve, Fail, Go, store, trees, learned, TypeInv, TypeOK, Steps, LockInv, Holds
  <2>8. ASSUME NEW r \in Plan, Lock(r) PROVE TypeInv'
    BY <2>8 DEF Lock, store, trees, learned, TypeInv, TypeOK, Steps, LockInv, Holds
  <2>9. ASSUME NEW r \in Plan, Prune(r) PROVE TypeInv'
    <3>1. TypeOK'
      BY <2>9, CollideType, PrunedType DEF Prune, Fail, Go, Unlock, trees, store, learned,
         TypeInv, TypeOK, Steps, LockInv, Holds
    <3>2. LockInv'
      BY <2>9 DEF Prune, Fail, Go, Unlock, store, learned, TypeInv, TypeOK, Steps, LockInv,
         Holds
    <3> QED BY <3>1, <3>2 DEF TypeInv
  <2>10. ASSUME NEW r \in Plan, Add(r) PROVE TypeInv'
    <3>1. TypeOK'
      BY <2>10, CollideType DEF Add, Fail, Go, Unlock, trees, store, learned, TypeInv, TypeOK,
         Steps, LockInv, Holds
    <3>2. LockInv'
      BY <2>10 DEF Add, Fail, Go, Unlock, store, learned, TypeInv, TypeOK, Steps, LockInv, Holds
    <3> QED BY <3>1, <3>2 DEF TypeInv
  <2>11. ASSUME NEW r \in Plan, Checkout(r) PROVE TypeInv'
    BY <2>11 DEF Checkout, Go, store, trees, learned, TypeInv, TypeOK, Steps, LockInv, Holds
  <2>12. ASSUME NEW r \in Plan, Work(r) PROVE TypeInv'
    BY <2>12 DEF Work, Go, store, trees, learned, TypeInv, TypeOK, Steps, LockInv, Holds
  <2>13. ASSUME NEW r \in Plan, Compare(r) PROVE TypeInv'
    BY <2>13 DEF Compare, Go, store, trees, learned, TypeInv, TypeOK, Steps, LockInv, Holds
  <2>14. ASSUME NEW r \in Plan, NothingToClean(r) PROVE TypeInv'
    BY <2>14 DEF NothingToClean, Go, store, trees, learned, TypeInv, TypeOK, Steps, LockInv,
       Holds
  <2>15. ASSUME NEW r \in Plan, Remove(r) PROVE TypeInv'
    <3>1. TypeOK'
      BY <2>15, CollideType DEF Remove, WithoutTree, After, Go, Unlock, trees, store, learned,
         TypeInv, TypeOK, Steps, LockInv, Holds
    <3>2. LockInv'
      BY <2>15 DEF Remove, WithoutTree, After, Go, Unlock, store, learned, TypeInv, TypeOK,
         Steps, LockInv, Holds, Detached
    <3> QED BY <3>1, <3>2 DEF TypeInv
  <2>16. ASSUME NEW r \in Plan, Removed(r) PROVE TypeInv'
    <3>0. /\ entry' \in [Plan -> {"none", "whole", "half", "locked"}]
          /\ met' \in [Plan -> SUBSET Plan] /\ dirs' = dirs
      BY <2>16, PrunedType DEF Removed, Halves, TypeInv, TypeOK
    <3>1. /\ pc' \in [Plan -> Steps] /\ holder' \in [Process -> Plan \cup {None}]
          /\ holder'[process[r]] = None
          /\ \A q \in Plan \ {r} : pc'[q] = pc[q]
          /\ \A p \in Process \ {process[r]} : holder'[p] = holder[p] /\ holder[p] # r
      BY <2>16 DEF Removed, After, Go, Unlock, TypeInv, TypeOK, Steps
    <3>2. UNCHANGED <<store, canceled, learned, alarm, crashes>>
      BY <2>16 DEF Removed
    <3>3. TypeOK'
      BY <3>0, <3>1, <3>2 DEF TypeInv, TypeOK, store, learned
    <3>4. LockInv'
      BY <2>16 DEF Removed, After, Go, Unlock, store, learned, TypeInv, TypeOK, Steps, LockInv,
         Holds
    <3> QED BY <3>3, <3>4 DEF TypeInv
  <2>17. ASSUME NEW r \in Plan, Abandon(r) PROVE TypeInv'
    BY <2>17 DEF Abandon, After, Go, Unlock, store, trees, learned, TypeInv, TypeOK, Steps,
       LockInv, Holds
  <2>18. ASSUME NEW p \in Process, Crash(p) PROVE TypeInv'
    <3>1. /\ pc' \in [Plan -> Steps] /\ holder' \in [Process -> Plan \cup {None}]
          /\ \A q \in Plan : process[q] # p => pc'[q] = pc[q]
          /\ \A q \in Plan : pc'[q] = pc[q] \/ pc'[q] = "dead"
          /\ holder'[p] = None
          /\ \A q \in Process \ {p} : holder'[q] = holder[q]
      BY <2>18 DEF Crash, TypeInv, TypeOK, Steps
    <3>2. /\ UNCHANGED <<store, trees, canceled, learned, alarm>>
          /\ crashes' \in 0..MaxCrashes
      BY <2>18 DEF Crash, TypeInv, TypeOK
    <3>3. \A q \in Process : holder'[q] # None => q # p /\ holder'[q] = holder[q] /\ holder[q] \in Plan
      BY <3>1 DEF TypeInv, TypeOK
    <3>4. \A q \in Process : holder'[q] # None =>
            process[holder'[q]] = q /\ pc'[holder'[q]] = pc[holder[q]]
      BY <3>1, <3>3 DEF TypeInv, TypeOK
    <3>5. TypeOK'
      BY <3>1, <3>2, <3>3, <3>4 DEF TypeInv, TypeOK, store, trees, learned
    <3>6. LockInv'
      <4>1. ASSUME NEW q \in Plan, pc'[q] = "removing" PROVE holder'[process[q]] = q
        <5>1. pc[q] = "removing" /\ process[q] # p
          BY <2>18, <4>1 DEF Crash, Gone, TypeInv, TypeOK
        <5> QED BY <3>1, <5>1 DEF TypeInv, TypeOK, LockInv, Holds
      <4> QED BY <3>2, <3>3, <3>4, <4>1 DEF TypeInv, TypeOK, LockInv, Holds, store, learned
    <3> QED BY <3>5, <3>6 DEF TypeInv
  <2>19. CASE UNCHANGED vars
    BY <2>19 DEF vars, store, trees, learned, TypeInv, TypeOK, Steps, LockInv, Holds
  <2> QED
    BY <2>1, <2>2, <2>3, <2>4, <2>5, <2>6, <2>7, <2>8, <2>9, <2>10, <2>11, <2>12, <2>13, <2>14,
       <2>15, <2>16, <2>17, <2>18, <2>19
    DEF Next, Step, AllGone
<1> QED BY <1>1, <1>2, PTL DEF Spec

LEMMA ResolvedCommit ==
    ASSUME NEW q \in Plan, TypeOK, CacheInv, commit[q] # None
    PROVE  commit[q] \in Commit /\ <<commit[q], cached>> \in Descends
<1>1. commit[q] \in Commit
  BY DEF TypeOK
<1>2. <<commit[q], cached>> \in Descends
  BY DEF CacheInv
<1> QED BY <1>1, <1>2

LEMMA AlarmedCommit ==
    ASSUME NEW q \in Plan, TypeOK, CacheInv, q \in alarm
    PROVE  seen[q] \in Commit /\ seen[q] # cached /\ <<seen[q], cached>> \in Descends
<1>1. seen[q] # None /\ seen[q] # cached /\ seen[q] = commit[q]
  BY DEF CacheInv
<1> QED BY <1>1, ResolvedCommit

(* The inductive invariant of the cache: git's refspecs are not forced and a
   clone happens only where nothing is (source.go Open, Fetch). *)
THEOREM CacheSound == Spec => []CacheInv
<1>1. Init => CacheInv
  BY CacheAssumption DEF Init, CacheInv
<1>2. ASSUME TypeInv, CacheInv, [Next]_vars PROVE CacheInv'
  <2> USE <1>2
  <2>1. CASE UpstreamMoves
    BY <2>1 DEF UpstreamMoves, store, trees, learned, CacheInv, TypeInv, TypeOK
  <2>2. ASSUME NEW r \in Plan, Cancel(r) PROVE CacheInv'
    BY <2>2 DEF Cancel, store, trees, learned, CacheInv, TypeInv, TypeOK
  <2>3. ASSUME NEW r \in Plan, Stop(r) PROVE CacheInv'
    BY <2>3 DEF Stop, Fail, Go, store, trees, learned, CacheInv, TypeInv, TypeOK
  <2>4. ASSUME NEW r \in Plan, Open(r) PROVE CacheInv'
    BY <2>4 DEF Open, Fail, Go, store, trees, learned, CacheInv, TypeInv, TypeOK
  <2>5. ASSUME NEW r \in Plan, Clone(r) PROVE CacheInv'
    <3>1. /\ pc[r] = "clone" /\ cache = "unfinished"
          /\ \A q \in Plan : commit[q] = None /\ seen[q] = None /\ q \notin alarm
          /\ \A q \in Plan \ {r} : pc[q] # "clone"
          /\ UNCHANGED <<commit, seen, alarm>>
      BY <2>5 DEF Clone, learned, CacheInv
    <3>2. /\ \/ cache' = "ready" /\ cached' \in Commit /\ pc' = [pc EXCEPT ![r] = "prune"]
             \/ cache' \in {"absent", "unfinished"} /\ pc' = [pc EXCEPT ![r] = "compare"]
      BY <2>5, <3>1 DEF Clone, Fail, Go, TypeInv, TypeOK
    <3> QED BY <3>1, <3>2 DEF CacheInv, TypeInv, TypeOK
  <2>6. ASSUME NEW r \in Plan, Fetch(r) PROVE CacheInv'
    <3>0. /\ \/ cached' = cached
             \/ <<cached, cached'>> \in Descends /\ cached' \in Commit
          /\ UNCHANGED <<cache, commit, seen, alarm>>
      BY <2>6 DEF Fetch, learned, TypeInv, TypeOK
    <3>1. cache = "ready" /\ cached \in Commit
      BY <2>6 DEF Fetch, CacheInv
    <3>2. /\ pc' \in [Plan -> Steps] /\ pc[r] = "fetch"
          /\ pc'[r] \in {"resolve", "compare"}
          /\ \A q \in Plan \ {r} : pc'[q] = pc[q]
      BY <2>6 DEF Fetch, Fail, Go, Steps, TypeInv, TypeOK
    <3>3. ASSUME NEW q \in Plan, commit[q] # None
          PROVE  <<commit[q], cached'>> \in Descends
      <4>1. commit[q] \in Commit /\ <<commit[q], cached>> \in Descends
        BY <3>3, ResolvedCommit DEF TypeInv
      <4> QED BY <3>0, <3>1, <4>1, CacheAssumption
    <3>4. ASSUME NEW q \in Plan, q \in alarm
          PROVE  seen[q] # cached'
      <4>1. seen[q] \in Commit /\ seen[q] # cached /\ <<seen[q], cached>> \in Descends
        BY <3>4, AlarmedCommit DEF TypeInv
      <4> QED BY <3>0, <3>1, <4>1, CacheAssumption
    <3> QED BY <3>0, <3>1, <3>2, <3>3, <3>4 DEF CacheInv
  <2>7. ASSUME NEW r \in Plan, Resolve(r) PROVE CacheInv'
    <3>1. /\ cache = "ready" /\ cached \in Commit /\ pc[r] = "resolve"
          /\ commit' = [commit EXCEPT ![r] = cached]
          /\ UNCHANGED <<cache, cached, alarm>>
      BY <2>7 DEF Resolve, store, CacheInv
    <3>2. \/ /\ <<Anchor, cached>> \in Descends
             /\ seen' = [seen EXCEPT ![r] = cached] /\ pc' = [pc EXCEPT ![r] = "add"]
          \/ seen' = seen /\ pc' = [pc EXCEPT ![r] = "compare"]
      BY <2>7 DEF Resolve, Fail, Go
    <3>3. seen[r] = None /\ r \notin alarm
      BY <3>1 DEF CacheInv
    <3> QED BY <3>1, <3>2, <3>3, CacheAssumption DEF CacheInv, TypeInv, TypeOK
  <2>8. ASSUME NEW r \in Plan, Lock(r) PROVE CacheInv'
    BY <2>8 DEF Lock, store, trees, learned, CacheInv, TypeInv, TypeOK
  <2>9. ASSUME NEW r \in Plan, Prune(r) PROVE CacheInv'
    BY <2>9 DEF Prune, Pruned, Stale, Collide, Fail, Go, store, trees, learned, CacheInv,
       TypeInv, TypeOK
  <2>10. ASSUME NEW r \in Plan, Add(r) PROVE CacheInv'
    BY <2>10 DEF Add, Collide, Fail, Go, store, trees, learned, CacheInv, TypeInv, TypeOK
  <2>11. ASSUME NEW r \in Plan, Checkout(r) PROVE CacheInv'
    BY <2>11 DEF Checkout, Go, store, trees, learned, CacheInv, TypeInv, TypeOK
  <2>12. ASSUME NEW r \in Plan, Work(r) PROVE CacheInv'
    BY <2>12 DEF Work, Go, store, trees, learned, CacheInv, TypeInv, TypeOK
  <2>13. ASSUME NEW r \in Plan, Compare(r) PROVE CacheInv'
    BY <2>13 DEF Compare, Go, store, trees, learned, CacheInv, TypeInv, TypeOK
  <2>14. ASSUME NEW r \in Plan, NothingToClean(r) PROVE CacheInv'
    BY <2>14 DEF NothingToClean, Go, store, trees, learned, CacheInv, TypeInv, TypeOK
  <2>15. ASSUME NEW r \in Plan, Remove(r) PROVE CacheInv'
    BY <2>15 DEF Remove, Detached, WithoutTree, Collide, After, Go, store, trees, learned,
       CacheInv, TypeInv, TypeOK
  <2>16. ASSUME NEW r \in Plan, Removed(r) PROVE CacheInv'
    BY <2>16 DEF Removed, Pruned, Stale, After, Go, store, trees, learned, CacheInv, TypeInv,
       TypeOK
  <2>17. ASSUME NEW r \in Plan, Abandon(r) PROVE CacheInv'
    BY <2>17 DEF Abandon, After, Go, store, trees, learned, CacheInv, TypeInv, TypeOK
  <2>18. ASSUME NEW p \in Process, Crash(p) PROVE CacheInv'
    BY <2>18 DEF Crash, store, trees, learned, CacheInv, TypeInv, TypeOK
  <2>19. CASE UNCHANGED vars
    BY <2>19 DEF vars, store, trees, learned, CacheInv, TypeInv, TypeOK
  <2> QED
    BY <2>1, <2>2, <2>3, <2>4, <2>5, <2>6, <2>7, <2>8, <2>9, <2>10, <2>11, <2>12, <2>13, <2>14,
       <2>15, <2>16, <2>17, <2>18, <2>19
    DEF Next, Step, AllGone
<1> QED BY <1>1, <1>2, TypeAndLock, PTL DEF Spec

(* The inductive invariant of work trees: no step of one plan touches the tree
   of another (source.go AddWorktree, Remove, PruneWorktrees). *)
THEOREM TreesAccounted == Spec => []TreeInv
<1>1. Init => TreeInv
  BY CacheAssumption DEF Init, TreeInv, Kept
<1>2. ASSUME TypeInv, TreeInv, [Next]_vars PROVE TreeInv'
  <2> USE <1>2
  <2>1. CASE UpstreamMoves
    BY <2>1 DEF UpstreamMoves, store, trees, learned, TreeInv, Kept, TypeInv, TypeOK
  <2>2. ASSUME NEW r \in Plan, Cancel(r) PROVE TreeInv'
    BY <2>2 DEF Cancel, store, trees, learned, TreeInv, Kept, TypeInv, TypeOK
  <2>3. ASSUME NEW r \in Plan, Stop(r) PROVE TreeInv'
    BY <2>3 DEF Stop, Fail, Go, store, trees, learned, TreeInv, Kept, TypeInv, TypeOK
  <2>4. ASSUME NEW r \in Plan, Open(r) PROVE TreeInv'
    BY <2>4 DEF Open, Fail, Go, store, trees, learned, TreeInv, Kept, TypeInv, TypeOK
  <2>5. ASSUME NEW r \in Plan, Clone(r) PROVE TreeInv'
    BY <2>5 DEF Clone, Fail, Go, store, trees, learned, TreeInv, Kept, TypeInv, TypeOK
  <2>6. ASSUME NEW r \in Plan, Fetch(r) PROVE TreeInv'
    BY <2>6 DEF Fetch, Fail, Go, store, trees, learned, TreeInv, Kept, TypeInv, TypeOK
  <2>7. ASSUME NEW r \in Plan, Resolve(r) PROVE TreeInv'
    BY <2>7 DEF Resolve, Fail, Go, store, trees, learned, TreeInv, Kept, TypeInv, TypeOK
  <2>8. ASSUME NEW r \in Plan, Lock(r) PROVE TreeInv'
    BY <2>8 DEF Lock, store, trees, learned, TreeInv, Kept, TypeInv, TypeOK
  <2>9. ASSUME NEW r \in Plan, Prune(r) PROVE TreeInv'
    BY <2>9 DEF Prune, Pruned, Stale, Collide, Fail, Go, store, trees, learned, TreeInv, Kept,
       TypeInv, TypeOK
  <2>10. ASSUME NEW r \in Plan, Add(r) PROVE TreeInv'
    BY <2>10 DEF Add, Collide, Fail, Go, store, trees, learned, TreeInv, Kept, TypeInv, TypeOK
  <2>11. ASSUME NEW r \in Plan, Checkout(r) PROVE TreeInv'
    BY <2>11 DEF Checkout, Go, store, trees, learned, TreeInv, Kept, TypeInv, TypeOK
  <2>12. ASSUME NEW r \in Plan, Work(r) PROVE TreeInv'
    BY <2>12 DEF Work, Go, store, trees, learned, TreeInv, Kept, TypeInv, TypeOK
  <2>13. ASSUME NEW r \in Plan, Compare(r) PROVE TreeInv'
    BY <2>13 DEF Compare, Go, store, trees, learned, TreeInv, Kept, TypeInv, TypeOK
  <2>14. ASSUME NEW r \in Plan, NothingToClean(r) PROVE TreeInv'
    BY <2>14 DEF NothingToClean, Go, store, trees, learned, TreeInv, Kept, TypeInv, TypeOK
  <2>15. ASSUME NEW r \in Plan, Remove(r) PROVE TreeInv'
    BY <2>15 DEF Remove, Detached, WithoutTree, Collide, After, Go, store, trees, learned,
       TreeInv, Kept, TypeInv, TypeOK
  <2>16. ASSUME NEW r \in Plan, Removed(r) PROVE TreeInv'
    <3>1. /\ UNCHANGED <<dirs, owned, canceled>> /\ entry'[r] = "none"
          /\ \A q \in Plan \ {r} : entry'[q] = entry[q] \/ (q \notin dirs /\ entry'[q] = "none")
          /\ \A q \in Plan \ {r} : met'[q] = met[q]
      <4>1. \A q \in Plan : Pruned[q] = entry[q] \/ (q \notin dirs /\ Pruned[q] = "none")
        BY DEF Pruned, Stale
      <4>2. Pruned \in [Plan -> {"none", "whole", "half", "locked"}]
        BY PrunedType DEF TypeInv
      <4> QED BY <2>16, <4>1, <4>2 DEF Removed, learned, TypeInv, TypeOK
    <3>2. /\ pc[r] = "removing" /\ pc'[r] \in {"compare", "ended"}
          /\ \A q \in Plan \ {r} : pc'[q] = pc[q]
      BY <2>16 DEF Removed, After, Go, TypeInv, TypeOK
    <3> QED BY <3>1, <3>2 DEF TreeInv, Kept
  <2>17. ASSUME NEW r \in Plan, Abandon(r) PROVE TreeInv'
    BY <2>17 DEF Abandon, After, Go, store, trees, learned, TreeInv, Kept, TypeInv, TypeOK
  <2>18. ASSUME NEW p \in Process, Crash(p) PROVE TreeInv'
    BY <2>18 DEF Crash, store, trees, learned, TreeInv, Kept, TypeInv, TypeOK
  <2>19. CASE UNCHANGED vars
    BY <2>19 DEF vars, store, trees, learned, TreeInv, Kept, TypeInv, TypeOK
  <2> QED
    BY <2>1, <2>2, <2>3, <2>4, <2>5, <2>6, <2>7, <2>8, <2>9, <2>10, <2>11, <2>12, <2>13, <2>14,
       <2>15, <2>16, <2>17, <2>18, <2>19
    DEF Next, Step, AllGone
<1> QED BY <1>1, <1>2, TypeAndLock, PTL DEF Spec

-----------------------------------------------------------------------------
(* Every variable of the cache and of its plans has its type, for any number
   of plans and processes (source.go, extract/plan.go). *)
THEOREM TypeCorrect == Spec => []TypeOK
BY TypeAndLock, PTL DEF TypeInv

(* A resolved commit stays in the history the cache tracks and above the
   anchor, and an alarm stays right, for any upstream history
   (source.go Fetch, extract/plan.go verifyAnchor). *)
THEOREM ResolvedStays == Spec => []ResolvedStaysReachable
<1>1. CacheInv => ResolvedStaysReachable
  BY DEF CacheInv, ResolvedStaysReachable
<1> QED BY <1>1, CacheSound, PTL

(* No plan's work tree is taken away by another plan
   (source.go Remove, PruneWorktrees). *)
THEOREM WorkIsUndisturbed == Spec => []WorkUndisturbed
<1>1. TreeInv => WorkUndisturbed
  BY DEF TreeInv, WorkUndisturbed
<1> QED BY <1>1, TreesAccounted, PTL

(* What an ended plan leaves behind has one of the named causes
   (extract/plan.go cleanup). *)
THEOREM LeftoversHaveCauses == Spec => []LeftoversExplained
<1>1. TreeInv => LeftoversExplained
  BY DEF TreeInv, Kept, LeftoversExplained
<1> QED BY <1>1, TreesAccounted, PTL

(* Only the holder of the lock adds to what it met, and within its process the
   lock keeps every other plan from being in the middle of a removal. *)
LEMMA OneRemoval ==
    ASSUME NEW r \in Plan, NEW q \in Halves(r), TypeInv, Holds(r), pc[q] = "removing"
    PROVE  process[q] # process[r]
  BY DEF Halves, TypeInv, LockInv, Holds

(* Within a process, work tree commands never meet a removal at work
   (source.go worktreeLocks). *)
THEOREM Serialized == Spec => SerializedWithin
<1> DEFINE Meets(r) == \A q \in met'[r] \ met[r] :
                          pc[q] = "removing" => process[q] # process[r]
<1>1. ASSUME TypeInv, [Next]_vars PROVE \A r \in Plan : Meets(r)
  <2> USE <1>1
  <2>1. CASE met' = met
    BY <2>1
  <2>2. ASSUME NEW r \in Plan, Holds(r), met' = [met EXCEPT ![r] = @ \cup Halves(r)]
        PROVE  \A s \in Plan : Meets(s)
    <3>1. ASSUME NEW s \in Plan, NEW q \in met'[s] \ met[s], pc[q] = "removing"
          PROVE  process[q] # process[s]
      <4>1. s = r /\ q \in Halves(r)
        BY <2>2, <3>1 DEF TypeInv, TypeOK
      <4> QED BY <2>2, <3>1, <4>1, OneRemoval
    <3> QED BY <3>1
  <2>3. ASSUME NEW r \in Plan, Prune(r) PROVE \A s \in Plan : Meets(s)
    BY <2>1, <2>2, <2>3 DEF Prune, Collide, trees
  <2>4. ASSUME NEW r \in Plan, Add(r) PROVE \A s \in Plan : Meets(s)
    BY <2>1, <2>2, <2>4 DEF Add, Collide, trees
  <2>5. ASSUME NEW r \in Plan, Remove(r) PROVE \A s \in Plan : Meets(s)
    BY <2>1, <2>2, <2>5 DEF Remove, Collide, trees
  <2>6. ASSUME NEW r \in Plan, Removed(r) PROVE \A s \in Plan : Meets(s)
    <3>1. Holds(r)
      BY <2>6 DEF Removed, TypeInv, LockInv
    <3> QED BY <2>1, <2>2, <2>6, <3>1 DEF Removed
  <2>7. CASE UpstreamMoves
    BY <2>1, <2>7 DEF UpstreamMoves, trees
  <2>8. ASSUME NEW r \in Plan,
               \/ Cancel(r) \/ Stop(r) \/ Open(r) \/ Clone(r) \/ Fetch(r) \/ Resolve(r)
               \/ Lock(r) \/ Checkout(r) \/ Work(r) \/ Compare(r)
               \/ NothingToClean(r) \/ Abandon(r)
        PROVE  met' = met
    BY <2>8 DEF Cancel, Stop, Open, Clone, Fetch, Resolve, Lock, Checkout, Work, Compare,
                NothingToClean, Abandon, trees
  <2>9. ASSUME NEW p \in Process, Crash(p) PROVE met' = met
    BY <2>9 DEF Crash, trees
  <2>10. CASE UNCHANGED vars
    BY <2>1, <2>10 DEF vars
  <2> QED
    BY <2>1, <2>3, <2>4, <2>5, <2>6, <2>7, <2>8, <2>9, <2>10 DEF Next, Step, AllGone
<1>2. ASSUME TypeInv, [Next]_vars
      PROVE  [\A r \in Plan : \A q \in met'[r] \ met[r] :
                pc[q] = "removing" => process[q] # process[r]]_vars
  BY <1>1, <1>2
<1> QED BY <1>2, TypeAndLock, PTL DEF Spec, SerializedWithin
=============================================================================

---------------------------- MODULE SourceCache ----------------------------
(***************************************************************************)
(* Extraction plans, in one process or several, that share one cache of    *)
(* the upstream repository and its work tree registrations                 *)
(* (tools/internal/source; extract: acquisition, the comparison of the     *)
(* cache's refs, and cleanup).  What a plan does inside its work tree is   *)
(* Extraction.                                                             *)
(*                                                                         *)
(* The cache tracks one upstream branch.  Git's own two steps of removing  *)
(* a work tree, its directory and then its registration, are kept apart,   *)
(* and a git process is killed, not asked, when its context ends.          *)
(***************************************************************************)
EXTENDS Naturals, FiniteSets

CONSTANTS Plan,      \* the runs of extract.Plan
          Process,   \* engine processes
          Commit,    \* upstream commits
          Descends,  \* pairs of a commit and one that descends from it
          Anchor,    \* the recorded anchor
          None,
          MaxMoves,  \* bound on moves of the upstream branch
          MaxCrashes \* bound on processes that die

ASSUME CacheAssumption ==
    /\ Anchor \in Commit
    /\ Descends \subseteq Commit \X Commit
    /\ \A c \in Commit : <<c, c>> \in Descends
    /\ \A a, b, c \in Commit :
        <<a, b>> \in Descends /\ <<b, c>> \in Descends => <<a, c>> \in Descends
    /\ \A a, b \in Commit : <<a, b>> \in Descends /\ <<b, a>> \in Descends => a = b
    /\ None \notin Plan \cup Commit
    /\ MaxMoves \in Nat /\ MaxCrashes \in Nat

VARIABLES
    process,  \* the process that runs each plan
    upstream, \* the branch at the upstream repository
    cache,    \* the cache directory: absent, unfinished or ready
    cached,   \* the branch in the cache
    holder,   \* who administers work trees, per process (worktreeLocks)
    entry,    \* git's registration of each plan's work tree
    dirs,     \* work tree directories on disk
    pc,       \* what each plan does next
    canceled, \* plans whose context has ended
    commit,   \* the commit each plan resolved
    seen,     \* the refs each plan recorded
    owned,    \* plans that have been handed their work tree
    alarm,    \* plans that reported that the cache changed
    met,      \* half deleted registrations that a command of a plan failed on
    moves, crashes

vars == <<process, upstream, cache, cached, holder, entry, dirs, pc, canceled, commit, seen,
          owned, alarm, met, moves, crashes>>
store == <<process, upstream, cache, cached, moves>>
trees == <<entry, dirs, met>>
learned == <<commit, seen, owned>>

Steps == {"open", "clone", "prune", "fetch", "resolve", "add", "checkout",
          "undo", "work", "compare", "cleanup", "removing", "ended", "dead"}
Gone == {"ended", "dead"}

Init ==
    /\ process \in [Plan -> Process]
    /\ upstream \in Commit
    /\ \/ cache = "absent" /\ cached = None
       \/ cache = "ready" /\ cached \in Commit
    /\ holder = [p \in Process |-> None]
    /\ entry = [r \in Plan |-> "none"] /\ dirs = {}
    /\ pc = [r \in Plan |-> "open"] /\ canceled = {}
    /\ commit = [r \in Plan |-> None] /\ seen = [r \in Plan |-> None] /\ owned = {}
    /\ alarm = {}
    /\ met = [r \in Plan |-> {}]
    /\ moves = 0 /\ crashes = 0

Go(r, step) == pc' = [pc EXCEPT ![r] = step]

(* A plan that fails still compares the refs and cleans up. *)
Fail(r) == Go(r, "compare")

Holds(r) == holder[process[r]] = r
Unlock(r) == holder' = [holder EXCEPT ![process[r]] = None]
-----------------------------------------------------------------------------
(* The surroundings: upstream moves its branch, forward or not, contexts end
   and processes die. *)

UpstreamMoves ==
    /\ moves < MaxMoves /\ moves' = moves + 1
    /\ \E c \in Commit \ {upstream} : upstream' = c
    /\ UNCHANGED <<process, cache, cached, holder, trees, pc, canceled, learned, alarm, crashes>>

Cancel(r) ==
    /\ pc[r] \notin Gone /\ r \notin canceled
    /\ canceled' = canceled \cup {r}
    /\ UNCHANGED <<store, holder, trees, pc, learned, alarm, crashes>>

Crash(p) ==
    LET live == {r \in Plan : process[r] = p /\ pc[r] \notin Gone} IN
    /\ crashes < MaxCrashes /\ crashes' = crashes + 1
    /\ live # {}
    /\ pc' = [r \in Plan |-> IF r \in live THEN "dead" ELSE pc[r]]
    /\ holder' = [holder EXCEPT ![p] = None]
    /\ UNCHANGED <<store, trees, canceled, learned, alarm>>

(* An ended context fails the next command; a plan that waits for the lock
   waits on. *)
Stop(r) ==
    /\ r \in canceled
    /\ pc[r] \in {"open", "fetch", "resolve", "work"}
    /\ Fail(r)
    /\ UNCHANGED <<store, holder, trees, canceled, learned, alarm, crashes>>
-----------------------------------------------------------------------------
(* Open: clone when there is no directory, refuse what is not a finished
   cache. *)

Open(r) ==
    /\ pc[r] = "open" /\ r \notin canceled
    /\ \/ cache = "ready" /\ Go(r, "prune") /\ UNCHANGED cache
       \/ cache = "absent" /\ cache' = "unfinished" /\ Go(r, "clone")
       \/ cache = "unfinished" /\ Fail(r) /\ UNCHANGED cache
    /\ UNCHANGED <<process, upstream, cached, moves, holder, trees, canceled, learned, alarm, crashes>>

(* git clone ends, fails and removes what it made, or is killed. *)
Clone(r) ==
    /\ pc[r] = "clone"
    /\ \/ /\ r \notin canceled
          /\ cache' = "ready" /\ cached' = upstream
          /\ Go(r, "prune")
       \/ /\ r \notin canceled
          /\ cache' = "absent" /\ Fail(r) /\ UNCHANGED cached
       \/ /\ r \in canceled
          /\ Fail(r) /\ UNCHANGED <<cache, cached>>
    /\ UNCHANGED <<process, upstream, moves, holder, trees, canceled, learned, alarm, crashes>>

(* Mutant: the refspecs are forced. *)
FetchForced(r) ==
    /\ pc[r] = "fetch" /\ r \notin canceled
    /\ \/ Go(r, "resolve") /\ UNCHANGED cached
       \/ cached' = upstream /\ Go(r, "resolve")
       \/ Fail(r) /\ UNCHANGED cached
    /\ UNCHANGED <<process, upstream, cache, moves, holder, trees, canceled, learned, alarm, crashes>>

(* Fetch, when it is asked for: refspecs are not forced. *)
Fetch(r) ==
    /\ pc[r] = "fetch" /\ r \notin canceled
    /\ \/ Go(r, "resolve") /\ UNCHANGED cached
       \/ <<cached, upstream>> \in Descends /\ cached' = upstream
          /\ Go(r, "resolve")
       \/ Fail(r) /\ UNCHANGED cached
    /\ UNCHANGED <<process, upstream, cache, moves, holder, trees, canceled, learned, alarm, crashes>>

(* Resolve, verifyAnchor and the list of refs to compare with later. *)
Resolve(r) ==
    /\ pc[r] = "resolve" /\ r \notin canceled
    /\ commit' = [commit EXCEPT ![r] = cached]
    /\ \/ /\ <<Anchor, cached>> \in Descends
          /\ seen' = [seen EXCEPT ![r] = cached]
          /\ Go(r, "add")
       \/ /\ <<Anchor, cached>> \notin Descends
          /\ Fail(r)
          /\ UNCHANGED seen
    /\ UNCHANGED <<store, holder, trees, canceled, owned, alarm, crashes>>
-----------------------------------------------------------------------------
(* Work tree administration.  A git command that enumerates registrations may
   fail on one that is half deleted. *)

Halves(r) == {q \in Plan \ {r} : entry[q] = "half"}
Stale(q) == q \notin dirs /\ entry[q] \in {"whole", "half"}
Pruned == [q \in Plan |-> IF Stale(q) THEN "none" ELSE entry[q]]

(* Mutant: nothing is waited for. *)
LockAtOnce(r) ==
    /\ pc[r] \in {"prune", "add", "undo", "cleanup"}
    /\ pc[r] = "cleanup" => r \in owned
    /\ ~Holds(r)
    /\ holder' = [holder EXCEPT ![process[r]] = r]
    /\ UNCHANGED <<store, trees, pc, canceled, learned, alarm, crashes>>

Lock(r) ==
    /\ pc[r] \in {"prune", "add", "undo", "cleanup"}
    /\ pc[r] = "cleanup" => r \in owned
    /\ holder[process[r]] = None
    /\ holder' = [holder EXCEPT ![process[r]] = r]
    /\ UNCHANGED <<store, trees, pc, canceled, learned, alarm, crashes>>

Collide(r) ==
    /\ Halves(r) # {}
    /\ met' = [met EXCEPT ![r] = @ \cup Halves(r)]
    /\ UNCHANGED <<entry, dirs>>

(* PruneWorktrees, before anything else. *)
Prune(r) ==
    /\ pc[r] = "prune" /\ Holds(r)
    /\ \/ r \notin canceled /\ entry' = Pruned /\ Go(r, "fetch") /\ UNCHANGED <<dirs, met>>
       \/ r \notin canceled /\ Collide(r) /\ Fail(r)
       \/ r \in canceled /\ Fail(r) /\ UNCHANGED trees
    /\ Unlock(r)
    /\ UNCHANGED <<store, canceled, learned, alarm, crashes>>

(* Mutant: the lock is kept when the command fails. *)
AddKeepsLock(r) ==
    /\ pc[r] = "add" /\ Holds(r)
    /\ \/ /\ r \notin canceled
          /\ entry' = [entry EXCEPT ![r] = "whole"] /\ dirs' = dirs \cup {r}
          /\ Go(r, "checkout") /\ UNCHANGED met
       \/ /\ r \notin canceled
          /\ Collide(r) /\ Fail(r)
       \/ /\ r \in canceled
          /\ \/ entry' = [entry EXCEPT ![r] = "locked"] /\ dirs' = dirs \cup {r} /\ UNCHANGED met
             \/ UNCHANGED trees
          /\ Fail(r)
    /\ pc'[r] = "checkout" => Unlock(r)
    /\ pc'[r] # "checkout" => UNCHANGED holder
    /\ UNCHANGED <<store, canceled, learned, alarm, crashes>>

(* AddWorktree, first half.  A killed command leaves its registration locked,
   as git has it while it sets the work tree up. *)
Add(r) ==
    /\ pc[r] = "add" /\ Holds(r)
    /\ \/ /\ r \notin canceled
          /\ entry' = [entry EXCEPT ![r] = "whole"] /\ dirs' = dirs \cup {r}
          /\ Go(r, "checkout") /\ UNCHANGED met
       \/ /\ r \notin canceled
          /\ Collide(r) /\ Fail(r)
       \/ /\ r \in canceled
          /\ \/ entry' = [entry EXCEPT ![r] = "locked"] /\ dirs' = dirs \cup {r} /\ UNCHANGED met
             \/ UNCHANGED trees
          /\ Fail(r)
    /\ Unlock(r)
    /\ UNCHANGED <<store, canceled, learned, alarm, crashes>>

(* The second half: the checkout runs without the lock. *)
Checkout(r) ==
    /\ pc[r] = "checkout"
    /\ \/ r \notin canceled /\ Go(r, "work") /\ owned' = owned \cup {r}
       \/ Go(r, "undo") /\ UNCHANGED owned
    /\ UNCHANGED <<store, holder, trees, canceled, commit, seen, alarm, crashes>>

Work(r) ==
    /\ pc[r] = "work" /\ r \notin canceled
    /\ Go(r, "compare")
    /\ UNCHANGED <<store, holder, trees, canceled, learned, alarm, crashes>>

(* assertCacheUnchanged *)
Compare(r) ==
    /\ pc[r] = "compare"
    /\ alarm' = IF seen[r] # None /\ seen[r] # cached THEN alarm \cup {r} ELSE alarm
    /\ Go(r, "cleanup")
    /\ UNCHANGED <<store, holder, trees, canceled, learned, crashes>>

NothingToClean(r) ==
    /\ pc[r] = "cleanup" /\ r \notin owned
    /\ Go(r, "ended")
    /\ UNCHANGED <<store, holder, trees, canceled, learned, alarm, crashes>>
-----------------------------------------------------------------------------
(* Worktree.Remove.  cleanup runs it on a context of its own, AddWorktree on
   the caller's. *)

(* Mutant: the whole work tree root is cleared. *)
WithoutAny(r) == {}
WithoutTree(r) == dirs \ {r}

(* Mutant: cleanup inherits the caller's context. *)
NeverDetached(r) == FALSE
Detached(r) == pc[r] = "cleanup"

After(step) == IF step = "undo" THEN "compare" ELSE "ended"

(* Mutant: the lock is kept when the context has ended. *)
RemoveKeepsLock(r) ==
    /\ pc[r] \in {"undo", "cleanup"} /\ Holds(r)
    /\ \/ /\ Detached(r) \/ r \notin canceled
          /\ dirs' = WithoutTree(r) /\ entry' = [entry EXCEPT ![r] = "half"]
          /\ Go(r, "removing") /\ UNCHANGED <<holder, met>>
       \/ /\ Detached(r) \/ r \notin canceled
          /\ Collide(r)
          /\ Go(r, After(pc[r])) /\ Unlock(r)
       \/ /\ ~Detached(r) /\ r \in canceled
          /\ Go(r, After(pc[r])) /\ UNCHANGED <<holder, trees>>
    /\ UNCHANGED <<store, canceled, learned, alarm, crashes>>

(* It lists the registrations and, unless that fails, deletes the directory
   and begins to delete the registration. *)
Remove(r) ==
    /\ pc[r] \in {"undo", "cleanup"} /\ Holds(r)
    /\ \/ /\ Detached(r) \/ r \notin canceled
          /\ dirs' = WithoutTree(r) /\ entry' = [entry EXCEPT ![r] = "half"]
          /\ Go(r, "removing") /\ UNCHANGED <<holder, met>>
       \/ /\ Detached(r) \/ r \notin canceled
          /\ Collide(r)
          /\ Go(r, After(pc[r])) /\ Unlock(r)
       \/ /\ ~Detached(r) /\ r \in canceled
          /\ Go(r, After(pc[r])) /\ Unlock(r) /\ UNCHANGED trees
    /\ UNCHANGED <<store, canceled, learned, alarm, crashes>>

(* The registration is gone and the others are pruned, unless that fails. *)
Removed(r) ==
    /\ pc[r] = "removing"
    /\ \/ entry' = [Pruned EXCEPT ![r] = "none"] /\ UNCHANGED <<dirs, met>>
       \/ /\ Halves(r) # {}
          /\ entry' = [entry EXCEPT ![r] = "none"]
          /\ met' = [met EXCEPT ![r] = @ \cup Halves(r)]
          /\ UNCHANGED dirs
    /\ Go(r, After(IF r \in owned THEN "cleanup" ELSE "undo")) /\ Unlock(r)
    /\ UNCHANGED <<store, canceled, learned, alarm, crashes>>

(* The removal that AddWorktree started is killed with its context. *)
Abandon(r) ==
    /\ pc[r] = "removing" /\ r \in canceled \ owned
    /\ Go(r, After("undo")) /\ Unlock(r)
    /\ UNCHANGED <<store, trees, canceled, learned, alarm, crashes>>

Step(r) ==
    \/ Stop(r) \/ Open(r) \/ Clone(r) \/ Fetch(r) \/ Resolve(r)
    \/ Lock(r) \/ Prune(r) \/ Add(r) \/ Checkout(r) \/ Work(r) \/ Compare(r)
    \/ NothingToClean(r) \/ Remove(r) \/ Removed(r)
    \/ Abandon(r)

AllGone == (\A r \in Plan : pc[r] \in Gone) /\ UNCHANGED vars

Next ==
    \/ UpstreamMoves
    \/ \E r \in Plan : Cancel(r) \/ Step(r)
    \/ \E p \in Process : Crash(p)
    \/ AllGone

Spec == Init /\ [][Next]_vars

(* A live process runs its plans. *)
FairSpec == Spec /\ \A r \in Plan : WF_vars(Step(r))
-----------------------------------------------------------------------------
(* Every variable has its type, and who holds a lock is at work trees. *)
TypeOK ==
    /\ process \in [Plan -> Process]
    /\ upstream \in Commit /\ cached \in Commit \cup {None}
    /\ cache \in {"absent", "unfinished", "ready"}
    /\ holder \in [Process -> Plan \cup {None}]
    /\ entry \in [Plan -> {"none", "whole", "half", "locked"}]
    /\ dirs \subseteq Plan /\ canceled \subseteq Plan /\ owned \subseteq Plan /\ alarm \subseteq Plan
    /\ pc \in [Plan -> Steps]
    /\ commit \in [Plan -> Commit \cup {None}] /\ seen \in [Plan -> Commit \cup {None}]
    /\ met \in [Plan -> SUBSET Plan]
    /\ \A p \in Process : holder[p] # None =>
        /\ process[holder[p]] = p
        /\ pc[holder[p]] \in {"prune", "add", "undo", "cleanup", "removing"}
    /\ moves \in 0..MaxMoves /\ crashes \in 0..MaxCrashes

(* Whatever upstream does with its branch, and whatever other plans fetch, the
   commit a plan resolved stays in the history the cache tracks and above the
   recorded anchor while the plan works on it; a plan that reported that the
   cache had changed stays right (source.go Fetch, extract/plan.go
   verifyAnchor, extract/transform.go assertCacheUnchanged). *)
ResolvedStaysReachable ==
    \A r \in Plan :
        /\ commit[r] # None => <<commit[r], cached>> \in Descends
        /\ pc[r] = "work" => <<Anchor, commit[r]>> \in Descends
        /\ r \in alarm => seen[r] # cached

(* No other plan's pruning, removal, failure or crash takes away the work tree
   a plan is filling or working in (source.go Remove, PruneWorktrees). *)
WorkUndisturbed ==
    \A r \in Plan : pc[r] \in {"checkout", "work"} => r \in dirs /\ entry[r] = "whole"

(* A plan's work tree command never fails on a registration that another plan
   of the same process is deleting at the moment (source.go worktreeLocks). *)
SerializedWithin ==
    [][\A r \in Plan : \A q \in met'[r] \ met[r] :
        pc[q] = "removing" => process[q] # process[r]]_vars

(* An ended plan leaves a directory or a registration only if its context ended
   before it was handed its work tree, or its removal met a half deleted
   registration of another process or of a removal that was killed
   (extract/plan.go cleanup). *)
LeftoversExplained ==
    \A r \in Plan : pc[r] = "ended" /\ (r \in dirs \/ entry[r] # "none") =>
        \/ r \in canceled \ owned
        \/ met[r] # {}

(* Every plan of a process that lives comes to its end: no error path keeps
   the administration lock (source.go AddWorktree, Remove). *)
EveryPlanEnds == \A r \in Plan : <>(pc[r] \in Gone)

(* A cancelled plan leaves no scratch directory (extract/plan.go cleanup and
   source.go AddWorktree say so). *)
CancelLeavesNothing == \A r \in Plan : pc[r] = "ended" => r \notin dirs
=============================================================================

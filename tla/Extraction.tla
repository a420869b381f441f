----------------------------- MODULE Extraction -----------------------------
(***************************************************************************)
(* One extraction plan in its own work tree (tools/internal/extract and    *)
(* patchset): materialize the roots sparsely, widen the tree to what the   *)
(* closure reaches, prune, anchor, apply the patch series with pruning     *)
(* reasserted after each patch, and measure the tree that is shipped.      *)
(*                                                                         *)
(* Git keeps three trees: the commit head, the index, and the work tree,   *)
(* which holds the directories that are materialized and what a patch      *)
(* writes outside them.  No other run touches this work tree.              *)
(***************************************************************************)
EXTENDS Sequences, Closure

CONSTANTS Plans,       \* the commit's source tree, the profile and the selected series
          WidenCeiling \* defaultWidenCeiling

Profiles ==
    [roots : (SUBSET Package) \ {{}}, prune : SUBSET File, required : SUBSET File,
     denied : SUBSET (Package \cup External), maxPackages : Nat, maxGrowth : Nat]

(* A patch maps each file it touches to what it expects and what it leaves. *)
IsPatch(patch) ==
    /\ DOMAIN patch \subseteq File
    /\ \A f \in DOMAIN patch :
        patch[f] \in [from : Contents \cup {Absent}, to : Contents \cup {Absent}]

IsSeries(patches) ==
    /\ patches \in Seq({patches[i] : i \in DOMAIN patches})
    /\ \A i \in DOMAIN patches : IsPatch(patches[i])

ASSUME PlanAssumption ==
    /\ \A plan \in Plans :
        /\ plan.upstream \in Trees
        /\ plan.profile \in Profiles
        /\ IsSeries(plan.series)
    /\ WidenCeiling \in Nat /\ WidenCeiling >= Cardinality(Package)

VARIABLES
    upstream, \* the source tree of the commit
    profile,  \* the profile
    series,   \* the patches to apply, in order
    stage,    \* what the plan does next
    why,      \* why it was refused
    canceled, \* whether its context has ended
    widened,  \* directories materialized beyond the roots
    rounds,   \* builds tried so far, while widening
    builder,  \* what the closure builder remembers
    at,       \* the patch to apply next
    head, index, tree, \* git's three trees
    result,   \* the last closure
    output    \* the file set handed on

vars == <<upstream, profile, series, stage, why, canceled, widened, rounds,
          builder, at, head, index, tree, result, output>>
inputs == <<upstream, profile, series>>
trees == <<head, index, tree>>

Stages == {"materialize", "closure", "anchor", "patch", "reassert", "rollback",
           "settle", "relocate", "done", "refused", "interrupted"}
Ended == {"done", "refused", "interrupted"}

(* What a sparse work tree shows of a commit. *)
Sparse(source, dirs) == [f \in File |-> IF Home[f] \in dirs THEN source[f] ELSE Absent]

Materialized == profile.roots \cup widened
NoClosure == [packages |-> {}, files |-> {}, removed |-> {}]
Measured(out) == [packages |-> out.packages, files |-> out.files, removed |-> out.removed]
Empty == [f \in File |-> Absent]

Init ==
    /\ \E plan \in Plans :
        upstream = plan.upstream /\ profile = plan.profile /\ series = plan.series
    /\ stage = "materialize" /\ why = "nothing" /\ canceled = FALSE
    /\ widened = {} /\ rounds = 0 /\ builder = NewBuilder /\ at = 1
    /\ head = upstream /\ index = upstream /\ tree = Empty
    /\ result = NoClosure /\ output = Empty
-----------------------------------------------------------------------------
(* The context ends: at the next check a plan stops, and the patch stage
   first rolls back. *)

Cancel ==
    /\ ~canceled /\ stage \notin Ended
    /\ canceled' = TRUE
    /\ UNCHANGED <<inputs, stage, why, widened, rounds, builder, at, trees, result, output>>

Interrupt ==
    /\ canceled /\ stage \notin Ended \cup {"patch", "reassert", "rollback"}
    /\ stage' = "interrupted"
    /\ UNCHANGED <<inputs, why, canceled, widened, rounds, builder, at, trees, result, output>>

Refuse(reason) == stage' = "refused" /\ why' = reason

Materialize ==
    /\ stage = "materialize" /\ ~canceled
    /\ tree' = Sparse(upstream, profile.roots)
    /\ stage' = "closure"
    /\ UNCHANGED <<inputs, why, canceled, widened, rounds, builder, at, head, index, result, output>>
-----------------------------------------------------------------------------
(* buildClosure: one round of the widening loop. *)

WidenBound ==
    (IF profile.maxPackages > 0 THEN profile.maxPackages ELSE WidenCeiling)
    + Cardinality(profile.roots) + 1

Widenable(out) == out.err = "missing" /\ out.missing \cap Materialized = {}

(* Worktree.SetPatterns: the pristine commit again, with the directory that
   was missing. *)
Rematerialize(dirs) ==
    /\ tree' = Sparse(upstream, Materialized \cup dirs)
    /\ index' = head

Round ==
    LET out == Build(builder, tree, profile) IN
    /\ stage = "closure" /\ ~canceled
    /\ rounds' = rounds + 1
    /\ builder' = out.builder
    /\ IF out.err = "none"
       THEN /\ tree' = out.tree
            /\ result' = Measured(out)
            /\ stage' = "anchor"
            /\ UNCHANGED <<why, widened, index>>
       ELSE IF ~Widenable(out)
       THEN /\ tree' = out.tree
            /\ Refuse(out.err)
            /\ UNCHANGED <<result, widened, index>>
       ELSE /\ widened' = widened \cup out.missing
            /\ Rematerialize(out.missing)
            /\ IF rounds' < WidenBound THEN UNCHANGED <<stage, why>>
                                       ELSE Refuse("growing")
            /\ UNCHANGED result
    /\ UNCHANGED <<inputs, canceled, at, head, output>>

(* A mutant: a commit of the index as it is. *)
AnchorUnstaged ==
    /\ stage = "anchor" /\ ~canceled
    /\ stage' = "patch"
    /\ UNCHANGED <<inputs, why, canceled, widened, rounds, builder, at, trees, result, output>>

(* writeScratchAnchor: the removals are staged and committed. *)
Anchor ==
    /\ stage = "anchor" /\ ~canceled
    /\ index' = Without(index, result.removed)
    /\ head' = index'
    /\ stage' = "patch"
    /\ UNCHANGED <<inputs, why, canceled, widened, rounds, builder, at, tree, result, output>>
-----------------------------------------------------------------------------
(* patchset.Apply *)

Clean == \A f \in File : Home[f] \in Materialized => tree[f] = index[f]

Patch == series[at]
Touches == DOMAIN Patch

(* A patch applies where its files are, or are not, as it needs them; where
   they have other contents a three way merge may go either way. *)
Placed == \A f \in Touches : (Patch[f].from = Absent) <=> (index[f] = Absent)
Exact == \A f \in Touches : Patch[f].from = index[f]

Patched(source, files) ==
    [f \in File |-> IF f \in files THEN Patch[f].to ELSE source[f]]

StartSeries ==
    /\ stage = "patch" /\ at = 1 /\ ~canceled
    /\ series = <<>> \/ ~Clean
    /\ IF series = <<>> THEN stage' = "settle" /\ UNCHANGED why
                        ELSE Refuse("dirty")
    /\ UNCHANGED <<inputs, canceled, widened, rounds, builder, at, trees, result, output>>

Applying == stage = "patch" /\ series # <<>> /\ (at = 1 => Clean)

Apply ==
    /\ Applying /\ ~canceled
    /\ Placed
    /\ tree' = Patched(tree, Touches)
    /\ index' = Patched(index, Touches)
    /\ stage' = "reassert"
    /\ UNCHANGED <<inputs, why, canceled, widened, rounds, builder, at, head, result, output>>

(* Git fails, or is stopped, and leaves behind whatever it had checked out and
   written. *)
Conflict ==
    /\ Applying
    /\ canceled \/ ~(Placed /\ Exact)
    /\ \E shown, files \in SUBSET Touches :
        /\ tree' = Patched([f \in File |-> IF f \in shown THEN index[f] ELSE tree[f]], files)
        /\ index' = Patched(index, files)
    /\ stage' = "rollback" /\ why' = "apply"
    /\ UNCHANGED <<inputs, canceled, widened, rounds, builder, at, head, result, output>>

(* Before the pass begins there is nothing to roll back. *)
CancelSeries ==
    /\ stage = "patch" /\ canceled
    /\ \/ at = 1 /\ stage' = "interrupted" /\ UNCHANGED why
       \/ series # <<>> /\ stage' = "rollback" /\ why' = "cancel"
    /\ UNCHANGED <<inputs, canceled, widened, rounds, builder, at, trees, result, output>>

(* The builder that pruned before prunes again. *)
Reassert ==
    LET out == Build(builder, tree, profile) IN
    /\ stage = "reassert" /\ ~canceled
    /\ builder' = out.builder
    /\ tree' = out.tree
    /\ IF out.err = "none"
       THEN /\ stage' = IF at = Len(series) THEN "settle" ELSE "patch"
            /\ at' = at + 1
            /\ UNCHANGED why
       ELSE stage' = "rollback" /\ why' = "reassert" /\ UNCHANGED at
    /\ UNCHANGED <<inputs, canceled, widened, rounds, head, index, result, output>>

(* The context ends before or while files are removed. *)
CancelReassert ==
    /\ stage = "reassert" /\ canceled
    /\ \E gone \in SUBSET {f \in profile.prune : tree[f] # Absent} :
        /\ tree' = Without(tree, gone)
        /\ builder' = [builder EXCEPT !.applied = @ \cup gone]
    /\ stage' = "rollback" /\ why' = "reassert"
    /\ UNCHANGED <<inputs, canceled, widened, rounds, at, head, index, result, output>>

(* A mutant: on the caller's context. *)
RollbackUnlessCanceled ==
    /\ stage = "rollback"
    /\ IF canceled THEN UNCHANGED <<tree, index>>
                   ELSE tree' = Sparse(head, Materialized) /\ index' = head
    /\ stage' = "refused"
    /\ UNCHANGED <<inputs, why, canceled, widened, rounds, builder, at, head, result, output>>

(* conflict: on a context of its own. *)
Rollback ==
    /\ stage = "rollback"
    /\ tree' = Sparse(head, Materialized)
    /\ index' = head
    /\ stage' = "refused"
    /\ UNCHANGED <<inputs, why, canceled, widened, rounds, builder, at, head, result, output>>
-----------------------------------------------------------------------------
(* settleClosure, relocate and finish. *)

(* A mutant: the closure of the tree before the patches. *)
SettleStale ==
    /\ stage = "settle" /\ ~canceled
    /\ stage' = "relocate"
    /\ UNCHANGED <<inputs, why, canceled, widened, rounds, builder, at, trees, result, output>>

Settle ==
    LET out == Build(builder, tree, profile) IN
    /\ stage = "settle" /\ ~canceled
    /\ builder' = out.builder
    /\ tree' = out.tree
    /\ IF out.err = "none"
       THEN result' = Measured(out) /\ stage' = "relocate" /\ UNCHANGED why
       ELSE Refuse(out.err) /\ UNCHANGED result
    /\ UNCHANGED <<inputs, canceled, widened, rounds, at, head, index, output>>

(* Two mutants: the whole tree is handed on, and the gates come last. *)
FinishAll ==
    /\ stage = "relocate" /\ ~canceled
    /\ \/ output' = tree /\ stage' = "done" /\ UNCHANGED why
       \/ Refuse("gate") /\ UNCHANGED output
    /\ UNCHANGED <<inputs, canceled, widened, rounds, builder, at, trees, result>>

FinishEarly ==
    /\ stage = "relocate" /\ ~canceled
    /\ output' = Without(tree, File \ result.files)
    /\ \/ stage' = "done" /\ UNCHANGED why
       \/ Refuse("gate")
    /\ UNCHANGED <<inputs, canceled, widened, rounds, builder, at, trees, result>>

(* The gates on the report may still refuse. *)
Finish ==
    /\ stage = "relocate" /\ ~canceled
    /\ \/ /\ output' = Without(tree, File \ result.files)
          /\ stage' = "done"
          /\ UNCHANGED why
       \/ Refuse("gate") /\ UNCHANGED output
    /\ UNCHANGED <<inputs, canceled, widened, rounds, builder, at, trees, result>>

Finished == stage \in Ended /\ UNCHANGED vars

Next ==
    \/ Cancel \/ Interrupt
    \/ Materialize \/ Round \/ Anchor
    \/ StartSeries \/ Apply \/ Conflict \/ CancelSeries
    \/ Reassert \/ CancelReassert \/ Rollback
    \/ Settle \/ Finish
    \/ Finished

Spec == Init /\ [][Next]_vars
-----------------------------------------------------------------------------
(* What the plan should compute: the least set of packages that holds the
   roots and what its files import, over the whole source tree. *)

Least(source, roots) ==
    {p \in Package : \A S \in SUBSET Package :
        (roots \subseteq S /\ \A q \in S : Package \cap ImportsOf(source, q) \subseteq S)
        => p \in S}

Touching(patches, f) == {i \in DOMAIN patches : f \in DOMAIN patches[i]}
WithPatches(source, patches) ==
    [f \in File |-> IF Touching(patches, f) = {} THEN source[f]
                    ELSE patches[Max(Touching(patches, f))][f].to]

(* The whole source tree as the profile describes it. *)
Described == Without(WithPatches(upstream, series), profile.prune)
PrePrune == Least(upstream, profile.roots)
WithinClosure == \A i \in DOMAIN series : \A f \in DOMAIN series[i] : Home[f] \in PrePrune

(* Every variable has its type, and an ended plan has handed on at most what
   its last closure selected. *)
TypeOK ==
    /\ stage \in Stages
    /\ why \in {"nothing", "missing", "prune", "result", "growing", "dirty", "apply",
                "reassert", "cancel", "gate"}
    /\ canceled \in BOOLEAN /\ widened \subseteq Package \ profile.roots
    /\ rounds \in 0..WidenBound /\ at \in 1..Len(series) + 1
    /\ builder \in Builders
    /\ head \in Trees /\ index \in Trees /\ tree \in Trees /\ output \in Trees
    /\ result.packages \subseteq Package /\ result.files \subseteq File
    /\ output # Empty => stage = "done"

(* A plan that widened package by package, pruned, patched and measured what
   it had materialized ships exactly what the profile describes over the whole
   upstream tree: every file of the least closure, as patched, and nothing
   else.  For series that touch only packages the closure reaches before
   patching (extract/plan.go buildClosure, applyPatches, settleClosure). *)
ShipsWhatIsDescribed ==
    stage = "done" /\ WithinClosure =>
        /\ result.packages = Least(Described, profile.roots)
        /\ output = Sparse(Described, result.packages)

(* The measurement the report calls pre-prune is the one of the pristine
   upstream closure, however often the tree was widened, patched and built
   (closure.go Build, baseline). *)
BaselineIsPristine ==
    builder.baseline # None => builder.baseline = Counts(upstream, PrePrune)

(* A prune entry that never named a file of the upstream closure stops the
   run: absence is taken for a removal only where this plan removed the file
   (prune.go validatePruneTargets). *)
PruneIsAsserted ==
    stage = "done" =>
        \A f \in profile.prune : upstream[f] # Absent /\ Home[f] \in PrePrune

(* A series that failed or was stopped leaves the tree and the index as the
   anchor has them, whatever was merged, removed or half done
   (patchset/apply.go conflict). *)
AllOrNothing ==
    stage = "refused" /\ why \in {"apply", "reassert", "cancel"} =>
        tree = Sparse(head, Materialized) /\ index = head

(* The tree the patch pass starts from is the one the anchor committed, so a
   pass is never refused for a dirty tree (patchset/apply.go requireCleanHead,
   extract/plan.go writeScratchAnchor). *)
NeverDirty == why # "dirty"

(* A package that is shipped is shipped whole: each of its files, as upstream
   and the series leave it, unless it is pruned (closure.go, package
   granularity). *)
PackagesAreWhole ==
    stage = "done" =>
        \A f \in File : Home[f] \in result.packages => output[f] = Described[f]
=============================================================================

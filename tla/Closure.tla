------------------------------ MODULE Closure ------------------------------
(***************************************************************************)
(* The package granular import closure of a materialized source tree, and  *)
(* the pruning asserted against it (tools/internal/closure).               *)
(*                                                                         *)
(* A tree maps each Go file to the imports it declares, or to Absent.      *)
(* Directories are numbered in their sorted order.  Companion files,       *)
(* tests, embeds and assets are left out, and so are recursive roots.      *)
(***************************************************************************)
EXTENDS Integers, FiniteSets, FiniteSetsExt

CONSTANTS Package,  \* package directories of the source module
          File,     \* its Go files
          Home,     \* the directory of each file
          External, \* imports outside the source module
          None      \* the baseline of a builder that has not measured yet

ASSUME ClosureAssumption ==
    /\ IsFiniteSet(Package) /\ Package = 1..Cardinality(Package)
    /\ IsFiniteSet(File)
    /\ Home \in [File -> Package]
    /\ External \subseteq Int \ (Package \cup {-1})
    /\ None \notin [packages : Nat, files : Nat]

Absent == {-1} \* in the place of a file's imports
Contents == SUBSET (Package \cup External)
Trees == [File -> Contents \cup {Absent}]

FilesOf(tree, p) == {f \in File : Home[f] = p /\ tree[f] # Absent}
FilesIn(tree, packages) == UNION {FilesOf(tree, p) : p \in packages}
Without(tree, files) == [f \in File |-> IF f \in files THEN Absent ELSE tree[f]]

ImportsOf(tree, p) == UNION {tree[f] : f \in FilesOf(tree, p)}
ImportedBy(tree, packages) == UNION {ImportsOf(tree, p) : p \in packages}
-----------------------------------------------------------------------------
(* The traversal, level by level. *)

Levels(tree, seeds) ==
    LET level[k \in 0..Cardinality(Package)] ==
            IF k = 0 THEN seeds
            ELSE Package \cap ImportedBy(tree, level[k - 1])
    IN level

Reached(tree, seeds) ==
    UNION {Levels(tree, seeds)[k] : k \in 0..Cardinality(Package)}

Unreadable(tree, packages) == {p \in packages : FilesOf(tree, p) = {}}

(* The directory the traversal fails on: the first of the first level that
   has one with no Go file. *)
FirstMissing(tree, seeds) ==
    LET levels == Levels(tree, seeds)
        k == Min({n \in DOMAIN levels : Unreadable(tree, levels[n]) # {}})
    IN Min(Unreadable(tree, levels[k]))

Complete(tree, seeds) == Unreadable(tree, Reached(tree, seeds)) = {}

Counts(tree, packages) ==
    [packages |-> Cardinality(packages), files |-> Cardinality(FilesIn(tree, packages))]
-----------------------------------------------------------------------------
(* One build.  A profile names roots, files to prune, files to require,
   imports to deny and the two package limits, where 0 is no limit; a builder
   remembers what it removed and the first measurement. *)

NewBuilder == [applied |-> {}, baseline |-> None]
Builders == [applied : SUBSET File,
             baseline : {None} \cup [packages : Nat, files : Nat]]

(* checkLastFile: a package may lose its importers, not its last file. *)
Emptied(tree, targets) == {p \in Package :
    FilesOf(tree, p) # {} /\ FilesOf(tree, p) \subseteq targets}

(* A mutant: every build measures anew. *)
BaselinedAgain(b, tree, packages) == [b EXCEPT !.baseline = Counts(tree, packages)]

(* The first measurement stays. *)
Baselined(b, tree, packages) ==
    IF b.baseline # None THEN b ELSE [b EXCEPT !.baseline = Counts(tree, packages)]

(* A mutant: a file that is absent is taken for one that was removed. *)
PruneRefusedIfPresent(b, tree, profile) ==
    LET targets == {f \in profile.prune : tree[f] # Absent} IN
    \/ \E f \in targets : Home[f] \notin Reached(tree, profile.roots)
    \/ Emptied(tree, targets) # {}

PruneRefused(b, tree, profile) ==
    LET targets == {f \in profile.prune : tree[f] # Absent} IN
    \/ \E f \in profile.prune \ targets : f \notin b.applied
    \/ \E f \in targets : Home[f] \notin Reached(tree, profile.roots)
    \/ Emptied(tree, targets) # {}

Denied(tree, packages, profile) ==
    profile.denied \cap ImportedBy(tree, packages) # {}

OverLimit(packages, profile) ==
    \/ profile.maxPackages > 0 /\ Cardinality(packages) > profile.maxPackages
    \/ profile.maxGrowth > 0
       /\ Cardinality(packages) - Cardinality(profile.roots) > profile.maxGrowth

Outcome(err, missing, b, tree, packages, removed) ==
    [err |-> err, missing |-> missing, builder |-> b, tree |-> tree,
     packages |-> packages, files |-> FilesIn(tree, packages), removed |-> removed]

Build(b, tree, profile) ==
    LET pre == Reached(tree, profile.roots)
        measured == Baselined(b, tree, pre)
        targets == {f \in profile.prune : tree[f] # Absent}
        pruned == Without(tree, targets)
        done == [measured EXCEPT !.applied = @ \cup targets]
        post == Reached(pruned, profile.roots)
    IN  IF ~Complete(tree, profile.roots)
        THEN Outcome("missing", {FirstMissing(tree, profile.roots)}, b, tree, {}, {})
        ELSE IF PruneRefused(b, tree, profile)
        THEN Outcome("prune", {}, measured, tree, {}, {})
        ELSE IF ~Complete(pruned, profile.roots)
        THEN Outcome("missing", {FirstMissing(pruned, profile.roots)}, done, pruned, {}, {})
        ELSE IF \/ Denied(pruned, post, profile)
                \/ ~profile.required \subseteq FilesIn(pruned, post)
                \/ OverLimit(post, profile)
        THEN Outcome("result", {}, done, pruned, {}, {})
        ELSE Outcome("none", {}, done, pruned, post, targets)
=============================================================================

----------------------------- MODULE Generation -----------------------------
(***************************************************************************)
(* The generation of one module (tools/internal/generate): two extraction  *)
(* passes, staging versions, local compatibility, module metadata, facade, *)
(* type proof, dependency decision with its copies, provenance, and one    *)
(* write at the end.  Each phase works partly on the files it holds in     *)
(* memory and partly on the scratch modules on disk, and the go command    *)
(* only ever sees the disk; what is published is composed from memory.     *)
(*                                                                         *)
(* A part stands for all files of one origin: their upstream commit, the   *)
(* edits made to them and, through the profile, the modules they import.   *)
(* Module versions are the pinned one or a raised one.                     *)
(***************************************************************************)
EXTENDS Naturals, Sequences, FiniteSets

CONSTANTS Commits,   \* the commits the release tag may name
          Profiles,  \* the profiles, and what the upstream code makes of them
          Deps,      \* what a required module requires in turn
          Raises,    \* pairs: requiring the first raises the second's version
          Apiserver, \* the staging module local compatibility replaces
          Staged,    \* the staging module whose package may be copied
          MaxRetags, \* bound on moves of the upstream tag
          MaxKills,  \* bound on killed runs
          None

VARIABLES profile,  \* the profile and options of the run
          ref,      \* the commit the upstream tag names
          phase,    \* the step about to run
          pass,     \* the two extraction results in memory
          disk,     \* the two scratch modules
          root,     \* the commit the source module and the versions are of
          report,   \* the module metadata that would be published
          facade,   \* the generated facade, in memory
          copies,   \* the copied packages, in memory
          records,  \* the parts the provenance accounts for
          proof,    \* the commit the type policy was proved on
          loaded,   \* the parts the last load of the module type checked
          files,    \* the composed tree and its licence
          output,   \* the published tree
          trees,    \* the registered work trees, and those the run recorded
          scratch,  \* the directories outside the output that exist
          failure, retags, kills

memory == <<pass, root, report, facade, copies, records, proof, loaded, files>>
outside == <<output, trees, scratch>>
bounds == <<profile, ref, retags, kills>>
vars == <<memory, outside, bounds, phase, disk, failure>>

(* A part, and what of a profile bears on it: the modules its upstream code
   imports, those its rewritten code would, and the answers of the analyses. *)
Name == {"code", "pruned", "facade", "copy", "compat"}
Module == DOMAIN Deps
Parts == [name : Name, commit : Commits \cup {None}, edits : SUBSET {"compat", "staging"}]
Metadata == [require : SUBSET Module, raised : SUBSET Module]
Profile == [imports : [Name -> SUBSET Module], pins : SUBSET Module, forbidden : SUBSET Module,
            local : BOOLEAN, copy : BOOLEAN, partial : BOOLEAN, prune : {"some", "none", "vacuous"},
            sameApi : BOOLEAN, substitutes : BOOLEAN, strict : BOOLEAN, notices : BOOLEAN,
            keep : BOOLEAN]

ASSUME GenerationAssumption ==
    /\ Deps \in [Module -> SUBSET Module] /\ Raises \subseteq Module \X Module
    /\ {Apiserver, Staged} \subseteq Module
    /\ Profiles \subseteq Profile
    /\ MaxRetags \in Nat /\ MaxKills \in Nat
    /\ None \notin Commits \cup Nat
    /\ None \notin [parts : SUBSET Parts, metadata : Metadata,
                   licence : Commits \cup {None}, run : Nat]

Passes == {"pre", "post"}
Phases == <<"extract-pre", "extract-post", "passes", "staging", "compatibility",
            "module-pre", "module-post", "facade", "types", "install", "decide",
            "copies", "reconcile", "forbidden", "provenance", "output", "cleanup">>
Working == {Phases[i] : i \in 1..(Len(Phases) - 1)}
Extracts(p) == IF p = "pre" THEN "extract-pre" ELSE "extract-post"
Verifies(p) == IF p = "pre" THEN "module-pre" ELSE "module-post"

-----------------------------------------------------------------------------
(* Parts, what they import, and the go command. *)

Part(name, commit, edits) == [name |-> name, commit |-> commit, edits |-> edits]
Edited(parts, edit) == {[p EXCEPT !.edits = @ \cup {edit}] : p \in parts}
Names(parts) == {p.name : p \in parts}

Replaced(edits) == {m \in {Apiserver, Staged} :
                       (m = Apiserver /\ "compat" \in edits) \/ (m = Staged /\ "staging" \in edits)}
Imports(part) == profile.imports[part.name] \ Replaced(part.edits)
Direct(parts) == UNION {Imports(p) : p \in parts}
Needs(parts) == Direct(parts) \cup UNION {Deps[m] : m \in Direct(parts)}

NoMetadata == [require |-> {}, raised |-> {}]
(* `go mod tidy`: what the parts need, each version raised to what another
   requirement asks for, and never lowered again. *)
Tidy(parts, metadata) ==
    LET needs == Needs(parts)
    IN [require |-> needs,
        raised  |-> {m \in needs : m \in metadata.raised \/ \E n \in needs : <<n, m>> \in Raises}]

(* `go mod tidy -diff`. *)
IsTidy(tree) == Tidy(tree.parts, tree.metadata) = tree.metadata

(* A load type checks: every module is required and every package that an
   edit refers to is there.  Rewriting the imports of a staging module goes
   by its prefix, packages that are not copied included. *)
Loads(tree) ==
    /\ Needs(tree.parts) \subseteq tree.metadata.require
    /\ \A p \in tree.parts :
          /\ "compat" \in p.edits => "compat" \in Names(tree.parts)
          /\ "staging" \in p.edits => "copy" \in Names(tree.parts) /\ ~profile.partial

Local == profile.local
Forbidden == profile.forbidden \cup (IF Local THEN {Apiserver} ELSE {})
Pins == profile.pins

-----------------------------------------------------------------------------
(* The driver: the phases run in their order, and a phase that refuses, fails
   or is cancelled leads to the cleanup. *)

Proceed == \E i \in 1..(Len(Phases) - 1) : phase = Phases[i] /\ phase' = Phases[i + 1]
Refuse == phase' = "cleanup" /\ failure' = failure \cup {phase}

NoPass == [commit |-> None, parts |-> {}]
NoTree == [parts |-> {}, metadata |-> NoMetadata]
NoFiles == [parts |-> {}, metadata |-> NoMetadata, licence |-> None, run |-> None]
Forgotten ==
    /\ pass' = [p \in Passes |-> NoPass]
    /\ root' = None
    /\ report' = NoMetadata
    /\ facade' = {}
    /\ copies' = {}
    /\ records' = {}
    /\ proof' = None
    /\ loaded' = {}
    /\ files' = NoFiles

(* A run starts from an empty scratch root, whatever a killed one left in it;
   one that cannot even start ends without the cleanup. *)
newRun ==
    /\ phase = "start"
    /\ Forgotten
    /\ disk' = [p \in Passes |-> NoTree]
    /\ \/ phase' = Phases[1] /\ failure' = {} /\ scratch' = scratch \cup {"work"}
       \/ phase' = "ended" /\ failure' = {"options"} /\ UNCHANGED scratch
    /\ UNCHANGED <<output, trees, bounds>>

(* A failure of the go command, of git, of a read or a write, or a cancelled
   context, at any step.  What the step wrote is in the scratch root. *)
Fail ==
    /\ phase \in Working
    /\ Refuse
    /\ UNCHANGED <<memory, disk, outside, bounds>>

-----------------------------------------------------------------------------
(* Extraction, staging versions and compatibility. *)

Tree(p) == <<kills, p>>
Baseline == IF profile.prune = "some" THEN {"pruned"} ELSE {}
(* The files of a pass: the pre-prune one holds what pruning takes away. *)
Extracted(p, commit) ==
    {Part(n, commit, {}) : n \in {"code"} \cup (IF p = "pre" THEN Baseline ELSE {})}

(* Mutant of plan: a work tree is recorded only when its pass succeeds. *)
planRecordedLate(p) ==
    /\ phase = Extracts(p)
    /\ LET known == {t \in trees.registered : t[1] = kills} \cup {Tree(p)}
       IN \/ /\ Proceed
             /\ pass' = [pass EXCEPT ![p] = [commit |-> ref, parts |-> Extracted(p, ref)]]
             /\ disk' = [disk EXCEPT ![p].parts = Extracted(p, ref)]
             /\ records' = IF p = "post" THEN {"code"} ELSE {}
             /\ trees' = [trees EXCEPT !.registered = known, !.recorded = @ \cup {Tree(p)}]
             /\ UNCHANGED failure
          \/ /\ Refuse
             /\ trees' = [trees EXCEPT !.registered = known]
             /\ UNCHANGED <<pass, disk, records>>
    /\ UNCHANGED <<root, report, facade, copies, proof, loaded, files, output, scratch, bounds>>

(* One pass.  The first thing it does in the shared cache is to prune the
   registrations whose directory is gone, and from then on it has a linked
   work tree of its own, kept for the later phases.  A refusal still reports
   it; a runtime failure reports nothing. *)
plan(p) ==
    /\ phase = Extracts(p)
    /\ LET known == {t \in trees.registered : t[1] = kills} \cup {Tree(p)}
       IN \/ /\ Proceed
             /\ pass' = [pass EXCEPT ![p] = [commit |-> ref, parts |-> Extracted(p, ref)]]
             /\ disk' = [disk EXCEPT ![p].parts = Extracted(p, ref)]
             /\ records' = IF p = "post" THEN {"code"} ELSE {}
             /\ trees' = [trees EXCEPT !.registered = known, !.recorded = @ \cup {Tree(p)}]
             /\ UNCHANGED failure
          \/ /\ Refuse
             /\ trees' = [trees EXCEPT !.registered = known, !.recorded = @ \cup {Tree(p)}]
             /\ UNCHANGED <<pass, disk, records>>
          \/ /\ Refuse
             /\ trees' = [trees EXCEPT !.registered = known, !.unreported = @ \cup {Tree(p)}]
             /\ UNCHANGED <<pass, disk, records>>
    /\ UNCHANGED <<root, report, facade, copies, proof, loaded, files, output, scratch, bounds>>

(* Mutant of checkPasses: only the prune list is judged. *)
checkPruneOnly ==
    /\ phase = "passes"
    /\ IF profile.prune # "vacuous" THEN Proceed /\ UNCHANGED failure ELSE Refuse
    /\ UNCHANGED <<memory, disk, outside, bounds>>

(* The tag may have moved between the two passes, and a prune list may select
   nothing. *)
checkPasses ==
    /\ phase = "passes"
    /\ IF pass["pre"].commit = pass["post"].commit /\ profile.prune # "vacuous"
       THEN Proceed /\ UNCHANGED failure
       ELSE Refuse
    /\ UNCHANGED <<memory, disk, outside, bounds>>

(* The source module is read, and its staging modules are pinned, at the
   commit the second pass extracted. *)
runStaging ==
    /\ phase = "staging"
    /\ root' = pass["post"].commit
    /\ Proceed
    /\ UNCHANGED <<pass, report, facade, copies, records, proof, loaded, files>>
    /\ UNCHANGED <<disk, outside, bounds, failure>>

(* Local mode edits both passes, adds the replacement packages, and writes both
   scratch modules anew. *)
Replacement(p) == Part("compat", pass[p].commit, {})
Compatible(p) == Edited(pass[p].parts, "compat") \cup {Replacement(p)}
runCompatibility ==
    /\ phase = "compatibility"
    /\ Proceed
    /\ IF Local
       THEN /\ pass' = [p \in Passes |-> [pass[p] EXCEPT !.parts = Compatible(p)]]
            /\ disk' = [p \in Passes |-> [disk[p] EXCEPT !.parts = Compatible(p)]]
            /\ records' = records \cup {"compat"}
       ELSE UNCHANGED <<pass, disk, records>>
    /\ UNCHANGED <<root, report, facade, copies, proof, loaded, files, outside, bounds, failure>>

-----------------------------------------------------------------------------
(* The module metadata and the facade. *)

(* The generated go.mod is installed, tidied and compared: no version may have
   been raised, and only local mode may have gained a requirement. *)
Verified(metadata) == metadata.raised = {} /\ (Local \/ metadata.require \subseteq Pins)
Verify(p) ==
    /\ phase = Verifies(p)
    /\ LET metadata == Tidy(disk[p].parts, NoMetadata)
       IN IF Verified(metadata)
          THEN /\ Proceed
               /\ disk' = [disk EXCEPT ![p].metadata = metadata]
               /\ report' = metadata
               /\ UNCHANGED failure
          ELSE Refuse /\ UNCHANGED <<disk, report>>
    /\ UNCHANGED <<pass, root, facade, copies, records, proof, loaded, files, outside, bounds>>

FacadeEdits == IF Local THEN {"compat"} ELSE {}
(* Both modules are loaded, a facade is generated from each, and the two must
   declare the same API. *)
runFacade ==
    /\ phase = "facade"
    /\ IF (\A p \in Passes : Loads(disk[p])) /\ profile.sameApi
       THEN /\ Proceed
            /\ facade' = {Part("facade", pass["post"].commit, FacadeEdits)}
            /\ UNCHANGED failure
       ELSE Refuse /\ UNCHANGED facade
    /\ UNCHANGED <<pass, disk, root, report, copies, records, proof, loaded, files, outside, bounds>>

(* The substitutions are proved on the sources of the first pass, outside both
   generated modules. *)
Upstream == pass["pre"].commit
runTypes ==
    /\ phase = "types"
    /\ proof' = Upstream
    /\ IF profile.substitutes THEN Proceed /\ UNCHANGED failure ELSE Refuse
    /\ UNCHANGED <<pass, disk, root, report, facade, copies, records, loaded, files, outside, bounds>>

-----------------------------------------------------------------------------
(* The dependency phase. *)

Post == disk["post"]

(* The facade joins the module on disk, whose metadata must not change. *)
installFacade ==
    /\ phase = "install"
    /\ LET tree == [Post EXCEPT !.parts = @ \cup facade]
       IN /\ disk' = [disk EXCEPT !["post"] = tree]
          /\ IF IsTidy(tree) THEN Proceed /\ UNCHANGED failure ELSE Refuse
    /\ UNCHANGED <<memory, outside, bounds>>

(* The complete module is loaded and the policy decides.  Copied packages and
   retained files are rewritten in memory. *)
decide ==
    /\ phase = "decide"
    /\ IF Loads(Post)
       THEN /\ loaded' = Post.parts
            /\ IF profile.copy
               THEN /\ copies' = {Part("copy", root, {"staging"})}
                    /\ pass' = [pass EXCEPT !["post"].parts = Edited(@, "staging")]
                    /\ records' = records \cup {"copy"}
                    /\ Proceed
               ELSE phase' = "forbidden" /\ UNCHANGED <<copies, pass, records>>
            /\ UNCHANGED failure
       ELSE Refuse /\ UNCHANGED <<loaded, copies, pass, records>>
    /\ UNCHANGED <<disk, root, report, facade, proof, files, outside, bounds>>

(* Mutant of Overwritten: the copies join the files as extracted. *)
CopiesOnly(parts) == parts \cup copies

(* The copies are written, the rewritten files written over the old ones, the
   metadata is tidied for good and the result loaded. *)
Overwritten(parts) == {p \in parts : p.name \notin Names(pass["post"].parts)} \cup pass["post"].parts \cup copies
installCopies ==
    /\ phase = "copies"
    /\ LET parts == Overwritten(Post.parts)
           tree == [parts |-> parts, metadata |-> Tidy(parts, Post.metadata)]
       IN /\ disk' = [disk EXCEPT !["post"] = tree]
          /\ IF Loads(tree) THEN loaded' = parts /\ Proceed /\ UNCHANGED failure
                            ELSE Refuse /\ UNCHANGED loaded
    /\ UNCHANGED <<pass, root, report, facade, copies, records, proof, files, outside, bounds>>

OnlyLost(metadata) == /\ metadata.require \subseteq report.require
                      /\ metadata.raised \subseteq report.raised
(* The new metadata replaces the old if it only lost requirements, and the
   modules the decision counted on losing must be gone. *)
refreshModuleReport ==
    /\ phase = "reconcile"
    /\ \E predicted \in SUBSET {Staged} :
          IF OnlyLost(Post.metadata) /\ Post.metadata.require \cap predicted = {}
          THEN report' = Post.metadata /\ Proceed /\ UNCHANGED failure
          ELSE Refuse /\ UNCHANGED report
    /\ UNCHANGED <<pass, disk, root, facade, copies, records, proof, loaded, files, outside, bounds>>

InFiles == Direct(pass["post"].parts \cup copies)
InMetadata == report.require
InBuild == Post.metadata.require
(* No forbidden module among the imports in memory, the requirements, and what
   the build of the module on disk consists of. *)
checkForbiddenModules ==
    /\ phase = "forbidden"
    /\ IF (InFiles \cup InMetadata \cup InBuild) \cap Forbidden = {}
       THEN Proceed /\ UNCHANGED failure
       ELSE Refuse
    /\ UNCHANGED <<memory, disk, outside, bounds>>

-----------------------------------------------------------------------------
(* Provenance, the write, and the way out. *)

Relocated(parts) == Names(parts) \ {"facade"}
Licence == pass["post"].commit
Composed == [parts |-> pass["post"].parts \cup facade \cup copies, metadata |-> report,
             licence |-> Licence, run |-> kills]
(* The licence is read at the commit, the tree is composed from memory, and the
   records must describe exactly the relocated packages in it. *)
runProvenance ==
    /\ phase = "provenance"
    /\ IF Relocated(Composed.parts) = records
       THEN files' = Composed /\ Proceed /\ UNCHANGED failure
       ELSE Refuse /\ UNCHANGED files
    /\ UNCHANGED <<pass, disk, root, report, facade, copies, records, proof, loaded, outside, bounds>>

(* The tree is written beside its destination, which must not exist, and renamed;
   a write that fails removes what it wrote, or fails to. *)
Materialize ==
    \/ output # None /\ Refuse /\ UNCHANGED <<output, scratch>>
    \/ output = None /\ output' = files /\ Proceed /\ UNCHANGED <<scratch, failure>>
    \/ /\ output = None
       /\ phase' = "cleanup"
       /\ failure' = failure \cup {"output", "temp"}
       /\ scratch' = scratch \cup {"temp"}
       /\ UNCHANGED output

(* The notices are judged before the write. *)
checkStrict == profile.strict => ~profile.notices
runOutput ==
    /\ phase = "output"
    /\ IF checkStrict THEN Materialize ELSE Refuse /\ UNCHANGED <<output, scratch>>
    /\ UNCHANGED <<memory, disk, trees, bounds>>

(* The recorded work trees are unregistered one by one, then the scratch root is
   removed, on a context of its own. *)
cleanup ==
    /\ phase = "cleanup"
    /\ phase' = "ended"
    /\ IF profile.keep
       THEN UNCHANGED <<trees, scratch, failure>>
       ELSE \E stuck \in SUBSET trees.recorded, removed \in BOOLEAN :
               /\ trees' = [trees EXCEPT !.registered = (@ \ trees.recorded) \cup (@ \cap stuck)]
               /\ scratch' = IF removed THEN scratch \ {"work"} ELSE scratch
               /\ failure' = IF stuck = {} /\ removed THEN failure ELSE failure \cup {"cleanup"}
    /\ UNCHANGED <<memory, disk, output, bounds>>

-----------------------------------------------------------------------------
(* The upstream repository moves the tag; the process is killed, leaving its
   scratch root, and started again. *)

Retag ==
    /\ retags < MaxRetags
    /\ phase \in Working
    /\ retags' = retags + 1
    /\ ref' \in Commits \ {ref}
    /\ UNCHANGED <<memory, outside, disk, profile, phase, failure, kills>>

Kill ==
    /\ kills < MaxKills
    /\ phase \in Working \cup {"cleanup"}
    /\ kills' = kills + 1
    /\ phase' = "start"
    /\ Forgotten
    /\ trees' = [trees EXCEPT !.recorded = {}]
    /\ \/ UNCHANGED scratch
       \/ phase = "output" /\ scratch' = scratch \cup {"temp"}
    /\ UNCHANGED <<disk, output, failure, profile, ref, retags>>

NoTrees == [registered |-> {}, recorded |-> {}, unreported |-> {}]
Init ==
    /\ profile \in Profiles /\ ref \in Commits
    /\ phase = "start"
    /\ pass = [p \in Passes |-> NoPass]
    /\ disk = [p \in Passes |-> NoTree]
    /\ root = None /\ proof = None
    /\ report = NoMetadata
    /\ facade = {} /\ copies = {} /\ records = {} /\ loaded = {}
    /\ files = NoFiles
    /\ output \in {None, NoFiles}
    /\ trees = NoTrees
    /\ scratch = {} /\ failure = {}
    /\ retags = 0 /\ kills = 0

execute ==
    \/ \E p \in Passes : plan(p) \/ Verify(p)
    \/ checkPasses \/ runStaging \/ runCompatibility \/ runFacade \/ runTypes
    \/ installFacade \/ decide \/ installCopies \/ refreshModuleReport \/ checkForbiddenModules
    \/ runProvenance \/ runOutput

Next == newRun \/ execute \/ Fail \/ cleanup \/ Retag \/ Kill
Spec == Init /\ [][Next]_vars

-----------------------------------------------------------------------------
(* Properties. *)

Published == output # None /\ output.run = kills

Files == [parts : SUBSET Parts, metadata : Metadata,
          licence : Commits \cup {None}, run : 0..MaxKills \cup {None}]
Trees == (0..MaxKills) \X Passes

TypeOK ==
    /\ profile \in Profiles /\ ref \in Commits
    /\ phase \in Working \cup {"start", "cleanup", "ended"}
    /\ pass \in [Passes -> [commit : Commits \cup {None}, parts : SUBSET Parts]]
    /\ disk \in [Passes -> [parts : SUBSET Parts, metadata : Metadata]]
    /\ {root, proof} \subseteq Commits \cup {None}
    /\ report \in Metadata
    /\ facade \subseteq Parts /\ copies \subseteq Parts /\ loaded \subseteq Parts
    /\ records \subseteq Name
    /\ files \in Files /\ output \in Files \cup {None}
    /\ trees \in [registered : SUBSET Trees, recorded : SUBSET Trees, unreported : SUBSET Trees]
    /\ scratch \subseteq {"work", "temp"}
    /\ retags \in 0..MaxRetags /\ kills \in 0..MaxKills

(* What is published is what the go command last type checked: the composed
   files are those of the loaded module, the go.mod beside them states what they
   need, at the approved versions, with no forbidden module. *)
AsLoaded == output.parts = loaded
Described == output.metadata.require = Needs(output.parts)
Approved == /\ output.metadata.raised = {}
            /\ Local \/ output.metadata.require \subseteq Pins
            /\ Needs(output.parts) \cap Forbidden = {}
OutputIsProved == Published => AsLoaded /\ Described /\ Approved

(* Everything a published module rests on is of one upstream commit, however the
   tag moved meanwhile: its files, the baseline its API was compared with, its
   versions, its type proof and its licence. *)
OneCommit ==
    Published => Cardinality({p.commit : p \in output.parts}
                             \cup {pass[p].commit : p \in Passes}
                             \cup {root, proof, output.licence}) = 1

OwnTrees == {t \in trees.registered : t[1] = kills}
(* A run that refuses publishes nothing, one that succeeds did, and neither
   leaves a work tree registered or a scratch directory behind unless it was
   asked to or says so. *)
EndsClean ==
    phase = "ended" =>
        /\ Published <=> failure \subseteq {"cleanup"}
        /\ \/ profile.keep
           \/ failure \cap {"cleanup", "options"} # {}
           \/ OwnTrees \subseteq trees.unreported /\ "work" \notin scratch
        /\ "temp" \in scratch => "temp" \in failure \/ kills > 0

(* "The linked work trees are unregistered through Git before the scratch root is
   removed, so the shared cache is not left holding administrative entries
   pointing at directories that no longer exist" (generate.go:537). *)
CacheIsClean ==
    phase = "ended" /\ "work" \notin scratch /\ "cleanup" \notin failure
        => OwnTrees = {}
=============================================================================

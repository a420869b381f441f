-------------------------- MODULE GenerationProofs --------------------------
(***************************************************************************)
(* Proofs about Generation for any profiles, modules, commits, and moves   *)
(* of the upstream tag and killed runs.                                    *)
(***************************************************************************)
EXTENDS Generation, FiniteSetTheorems, TLAPS

-----------------------------------------------------------------------------
(* The inductive invariant, by what the phases behind it have established. *)

(* The phases from one on, along the way without copies and the way with. *)
Leaving == {"forbidden", "provenance", "output"}
Copying == {"copies", "reconcile"}
Installing == {"types", "install", "decide"}
Planned == {"staging", "compatibility", "module-pre", "module-post", "facade"}
           \cup Installing \cup Copying \cup Leaving

(* One commit: the second pass and what was made of it, and from the comparison
   of the passes on the first as well. *)
One == pass["post"].commit
Extraction ==
    /\ phase \in {"passes"} \cup Planned =>
        \A p \in pass["post"].parts : p.name # "facade" /\ p.commit = One
    /\ phase \in Planned => pass["pre"].commit = One
    /\ phase \in Planned \ {"staging"} => root = One
    /\ phase \in {"install", "decide"} \cup Copying \cup Leaving => proof = One
    /\ phase \in Installing \cup Copying \cup Leaving =>
        \A p \in facade : p.name = "facade" /\ p.commit = One
    /\ phase \in Copying \cup Leaving => \A p \in copies : p.commit = One

(* Memory and disk agree: before the facade is installed, after it, while the
   edits of the copies are only in memory, and once they are written. *)
Whole == pass["post"].parts \cup facade \cup copies
Agreement ==
    /\ phase \in {"passes", "staging", "compatibility", "module-pre", "module-post", "facade",
                  "types", "install"} =>
        disk["post"].parts = pass["post"].parts
    /\ phase \in Working \ (Copying \cup Leaving) => copies = {}
    /\ phase = "decide" => disk["post"].parts = Whole
    /\ phase = "copies" =>
        {p \in disk["post"].parts : p.name \notin Names(pass["post"].parts)} = facade
    /\ phase = "reconcile" => disk["post"].parts = Whole
    /\ phase \in {"reconcile"} \cup Leaving => loaded = Whole

(* The metadata was verified, and describes the module from its installation on,
   but for the copies until they are reconciled. *)
Description ==
    /\ phase \in {"facade"} \cup Installing \cup Copying \cup Leaving => Verified(report)
    /\ phase \in {"facade"} \cup Installing => disk["post"].metadata = report
    /\ phase = "decide" => report.require = Needs(disk["post"].parts)
    /\ phase = "reconcile" => disk["post"].metadata.require = Needs(disk["post"].parts)
    /\ phase \in Leaving => report.require = Needs(loaded)
    /\ phase \in {"provenance", "output"} => report.require \cap Forbidden = {}
    /\ phase = "output" => files = Composed

(* What a run has published stays what it was. *)
Kept ==
    /\ phase \in Working \cup {"start"} => ~Published
    /\ output # None /\ output.run # None => output.run <= kills
    /\ Published =>
        /\ AsLoaded /\ Described /\ Approved
        /\ \A p \in output.parts : p.commit = One
        /\ pass["pre"].commit = One /\ root = One /\ proof = One /\ output.licence = One

(* What a run says of itself, and what it has recorded for its cleanup. *)
Account ==
    /\ phase \in Working => failure = {}
    /\ phase = "cleanup" => (Published <=> failure = {}) /\ failure \subseteq Working \cup {"temp"}
    /\ \A t \in trees.registered :
        t[1] <= kills /\ (t[1] = kills => t \in trees.recorded \cup trees.unreported)
    /\ phase = "start" => OwnTrees = {}
    /\ "temp" \in scratch => kills > 0 \/ (phase \in {"cleanup", "ended"} /\ "temp" \in failure)

GenInv == TypeOK /\ Extraction /\ Agreement /\ Description /\ Kept /\ Account /\ EndsClean

-----------------------------------------------------------------------------
(* The order of the phases. *)

LEMMA ProceedIs ==
    ASSUME Proceed
    PROVE  /\ phase = "extract-pre" => phase' = "extract-post"
           /\ phase = "extract-post" => phase' = "passes"
           /\ phase = "passes" => phase' = "staging"
           /\ phase = "staging" => phase' = "compatibility"
           /\ phase = "compatibility" => phase' = "module-pre"
           /\ phase = "module-pre" => phase' = "module-post"
           /\ phase = "module-post" => phase' = "facade"
           /\ phase = "facade" => phase' = "types"
           /\ phase = "types" => phase' = "install"
           /\ phase = "install" => phase' = "decide"
           /\ phase = "decide" => phase' = "copies"
           /\ phase = "copies" => phase' = "reconcile"
           /\ phase = "reconcile" => phase' = "forbidden"
           /\ phase = "forbidden" => phase' = "provenance"
           /\ phase = "provenance" => phase' = "output"
           /\ phase = "output" => phase' = "cleanup"
  BY DEF Proceed, Phases

LEMMA WorkingIs ==
    Working = {"extract-pre", "extract-post", "passes", "staging", "compatibility",
               "module-pre", "module-post", "facade", "types", "install", "decide",
               "copies", "reconcile", "forbidden", "provenance", "output"}
  <1> DEFINE Listed == {"extract-pre", "extract-post", "passes", "staging", "compatibility",
                        "module-pre", "module-post", "facade", "types", "install", "decide",
                        "copies", "reconcile", "forbidden", "provenance", "output"}
  <1>1. ASSUME NEW p \in Working
        PROVE  p \in Listed
    BY DEF Working, Phases
  <1>2. ASSUME NEW p \in Listed
        PROVE  p \in Working
    BY 1 \in 1..16, 2 \in 1..16, 3 \in 1..16, 4 \in 1..16, 5 \in 1..16, 6 \in 1..16,
       7 \in 1..16, 8 \in 1..16, 9 \in 1..16, 10 \in 1..16, 11 \in 1..16, 12 \in 1..16,
       13 \in 1..16, 14 \in 1..16, 15 \in 1..16, 16 \in 1..16 DEF Working, Phases
  <1>3. QED
    BY <1>1, <1>2

LEMMA Moves ==
    /\ Proceed => phase \in Working /\ phase' \in Working \cup {"cleanup"}
    /\ Refuse => phase' = "cleanup"
  BY ProceedIs, WorkingIs DEF Proceed, Working, Refuse

-----------------------------------------------------------------------------
(* What the go command says of a set of parts. *)

LEMMA NeedsAre ==
    ASSUME NEW parts \in SUBSET Parts, profile \in Profiles
    PROVE  Needs(parts) \in SUBSET Module
  <1>1. \A p \in Parts : Imports(p) \subseteq Module
    BY GenerationAssumption DEF Imports, Parts, Profile
  <1>2. Direct(parts) \subseteq Module
    BY <1>1 DEF Direct
  <1>3. \A m \in Direct(parts) : Deps[m] \subseteq Module
    BY <1>2, GenerationAssumption
  <1>4. QED
    BY <1>2, <1>3 DEF Needs

LEMMA TidyIs ==
    ASSUME NEW parts \in SUBSET Parts, NEW metadata, profile \in Profiles
    PROVE  /\ Tidy(parts, metadata) \in Metadata
           /\ Tidy(parts, metadata).require = Needs(parts)
  BY NeedsAre DEF Tidy, Metadata

LEMMA EditedIs ==
    ASSUME NEW parts \in SUBSET Parts, NEW edit \in {"compat", "staging"}
    PROVE  /\ Edited(parts, edit) \in SUBSET Parts
           /\ Names(Edited(parts, edit)) = Names(parts)
           /\ \A p \in Edited(parts, edit) : \E q \in parts : p.name = q.name /\ p.commit = q.commit
  <1>1. \A p \in parts : /\ [p EXCEPT !.edits = @ \cup {edit}] \in Parts
                         /\ [p EXCEPT !.edits = @ \cup {edit}].name = p.name
                         /\ [p EXCEPT !.edits = @ \cup {edit}].commit = p.commit
    BY DEF Parts
  <1>2. QED
    BY <1>1 DEF Edited, Names

LEMMA PartIs ==
    ASSUME NEW name \in Name, NEW commit \in Commits \cup {None},
           NEW edits \in SUBSET {"compat", "staging"}
    PROVE  /\ Part(name, commit, edits) \in Parts
           /\ Part(name, commit, edits).name = name
           /\ Part(name, commit, edits).commit = commit
  BY DEF Part, Parts

LEMMA NothingIs ==
    /\ NoMetadata \in Metadata /\ NoTree \in [parts : SUBSET Parts, metadata : Metadata]
    /\ NoPass \in [commit : Commits \cup {None}, parts : SUBSET Parts]
    /\ NoFiles \in Files
  BY DEF NoMetadata, NoTree, NoPass, NoFiles, Metadata, Files

LEMMA TypeInit == Init => TypeOK
  BY NothingIs, GenerationAssumption DEF Init, TypeOK, NoTrees, Trees

LEMMA TypeStep == TypeOK /\ [Next]_vars => TypeOK'
  <1> SUFFICES ASSUME TypeOK, [Next]_vars
               PROVE  TypeOK'
    OBVIOUS
  <1> USE DEF TypeOK, memory, outside, bounds
  <1>1. CASE newRun
    <2>1. Phases[1] = "extract-pre"
      BY DEF Phases
    <2>2. phase' \in Working \cup {"ended"}
      BY <1>1, <2>1, WorkingIs DEF newRun
    <2>3. scratch' \subseteq {"work", "temp"}
      BY <1>1 DEF newRun
    <2>4. /\ pass' \in [Passes -> [commit : Commits \cup {None}, parts : SUBSET Parts]]
          /\ disk' \in [Passes -> [parts : SUBSET Parts, metadata : Metadata]]
      BY <1>1, NothingIs DEF newRun, Forgotten
    <2>5. /\ {root', proof'} \subseteq Commits \cup {None} /\ report' \in Metadata
          /\ facade' \subseteq Parts /\ copies' \subseteq Parts /\ loaded' \subseteq Parts
          /\ records' \subseteq Name /\ files' \in Files
      BY <1>1, NothingIs DEF newRun, Forgotten
    <2>6. UNCHANGED <<output, trees, bounds>>
      BY <1>1 DEF newRun
    <2>7. QED
      BY <2>2, <2>3, <2>4, <2>5, <2>6
  <1>2. ASSUME NEW p \in Passes, plan(p)
        PROVE  TypeOK'
    <2>1. Extracted(p, ref) \in SUBSET Parts
      BY <1>2, PartIs DEF Extracted, Baseline, Name
    <2>2. Tree(p) \in Trees
      BY DEF Tree, Trees
    <2>3. pass' \in [Passes -> [commit : Commits \cup {None}, parts : SUBSET Parts]]
      BY <1>2, <2>1 DEF plan
    <2>4. disk' \in [Passes -> [parts : SUBSET Parts, metadata : Metadata]]
      BY <1>2, <2>1 DEF plan
    <2>5. trees' \in [registered : SUBSET Trees, recorded : SUBSET Trees, unreported : SUBSET Trees]
      <3> DEFINE known == {t \in trees.registered : t[1] = kills} \cup {Tree(p)}
      <3>1. known \in SUBSET Trees
        BY <2>2
      <3>2. \/ trees' = [registered |-> known, recorded |-> trees.recorded \cup {Tree(p)},
                         unreported |-> trees.unreported]
            \/ trees' = [registered |-> known, recorded |-> trees.recorded,
                         unreported |-> trees.unreported \cup {Tree(p)}]
        BY <1>2 DEF plan
      <3> HIDE DEF known
      <3>3. QED
        BY <2>2, <3>1, <3>2
    <2>6. phase' \in Working \cup {"cleanup"} /\ records' \subseteq Name
      BY <1>2, Moves DEF plan, Name
    <2>7. QED
      BY <1>2, <2>3, <2>4, <2>5, <2>6 DEF plan
  <1>3. CASE checkPasses
    BY <1>3, Moves DEF checkPasses
  <1>4. CASE runStaging
    BY <1>4, Moves DEF runStaging, Passes
  <1>5. CASE runCompatibility
    <2>1. \A p \in Passes : Compatible(p) \in SUBSET Parts
      <3>1. \A p \in Passes : Replacement(p) \in Parts
        BY PartIs DEF Replacement, Name
      <3>2. \A p \in Passes : Edited(pass[p].parts, "compat") \in SUBSET Parts
        BY EditedIs
      <3>3. QED
        BY <3>1, <3>2 DEF Compatible
    <2>2. pass' \in [Passes -> [commit : Commits \cup {None}, parts : SUBSET Parts]]
      BY <1>5, <2>1 DEF runCompatibility
    <2>3. disk' \in [Passes -> [parts : SUBSET Parts, metadata : Metadata]]
      BY <1>5, <2>1 DEF runCompatibility
    <2>4. QED
      BY <1>5, <2>2, <2>3, Moves DEF runCompatibility, Name
  <1>6. ASSUME NEW p \in Passes, Verify(p)
        PROVE  TypeOK'
    <2>1. Tidy(disk[p].parts, NoMetadata) \in Metadata
      BY TidyIs
    <2>2. QED
      BY <1>6, <2>1, Moves DEF Verify
  <1>7. CASE runFacade
    <2>1. Part("facade", pass["post"].commit, FacadeEdits) \in Parts
      BY PartIs DEF FacadeEdits, Name, Passes
    <2>2. QED
      BY <1>7, <2>1, Moves DEF runFacade
  <1>8. CASE runTypes
    BY <1>8, Moves DEF runTypes, Upstream, Passes
  <1>9. CASE installFacade
    <2>1. disk' \in [Passes -> [parts : SUBSET Parts, metadata : Metadata]]
      BY <1>9 DEF installFacade, Post, Passes
    <2>2. QED
      BY <1>9, <2>1, Moves DEF installFacade
  <1>10. CASE decide
    <2>1. Part("copy", root, {"staging"}) \in Parts
      BY PartIs DEF Name
    <2>2. Edited(pass["post"].parts, "staging") \in SUBSET Parts
      BY EditedIs DEF Passes
    <2>3. pass' \in [Passes -> [commit : Commits \cup {None}, parts : SUBSET Parts]]
      BY <1>10, <2>2 DEF decide
    <2>4. Post.parts \in SUBSET Parts
      BY DEF Post, Passes
    <2>5. phase' \in Working \cup {"cleanup"}
      BY <1>10, Moves, WorkingIs DEF decide
    <2>6. QED
      BY <1>10, <2>1, <2>3, <2>4, <2>5 DEF decide, Name
  <1>11. CASE installCopies
    <2>1. Overwritten(Post.parts) \in SUBSET Parts
      BY DEF Overwritten, Post, Passes
    <2>2. Tidy(Overwritten(Post.parts), Post.metadata) \in Metadata
      BY <2>1, TidyIs
    <2>3. QED
      BY <1>11, <2>1, <2>2, Moves DEF installCopies
  <1>12. CASE refreshModuleReport
    <2>1. Post.metadata \in Metadata
      BY DEF Post, Passes
    <2>2. QED
      BY <1>12, <2>1, Moves DEF refreshModuleReport
  <1>13. CASE checkForbiddenModules
    BY <1>13, Moves DEF checkForbiddenModules
  <1>14. CASE runProvenance
    <2>1. Composed \in Files
      BY DEF Composed, Licence, Files, Passes
    <2>2. QED
      BY <1>14, <2>1, Moves DEF runProvenance
  <1>15. CASE runOutput
    <2>1. phase' \in Working \cup {"cleanup"}
      BY <1>15, Moves DEF runOutput, Materialize
    <2>2. output' \in Files \cup {None} /\ scratch' \subseteq {"work", "temp"}
      BY <1>15 DEF runOutput, Materialize
    <2>3. QED
      BY <1>15, <2>1, <2>2 DEF runOutput
  <1>16. CASE Fail
    BY <1>16 DEF Fail, Refuse
  <1>17. CASE cleanup
    BY <1>17 DEF cleanup
  <1>18. CASE Retag
    BY <1>18, GenerationAssumption DEF Retag
  <1>19. CASE Kill
    BY <1>19, NothingIs, GenerationAssumption DEF Kill, Forgotten
  <1>20. CASE UNCHANGED vars
    BY <1>20 DEF vars
  <1>21. QED
    BY <1>1, <1>2, <1>3, <1>4, <1>5, <1>6, <1>7, <1>8, <1>9, <1>10, <1>11, <1>12, <1>13,
       <1>14, <1>15, <1>16, <1>17, <1>18, <1>19, <1>20 DEF Next, execute

THEOREM TypeCorrect == Spec => []TypeOK
  BY TypeInit, TypeStep, PTL DEF Spec

-----------------------------------------------------------------------------
LEMMA NeedsStay ==
    ASSUME NEW parts, UNCHANGED profile
    PROVE  Needs(parts)' = Needs(parts)
  BY DEF Needs, Direct, Imports

LEMMA VerifiedStays ==
    ASSUME UNCHANGED profile, NEW metadata
    PROVE  Verified(metadata)' = Verified(metadata)
  BY DEF Verified, Local, Pins

LEMMA ForbiddenStays ==
    ASSUME UNCHANGED profile
    PROVE  Forbidden' = Forbidden
  BY DEF Forbidden, Local

(* One commit. *)
LEMMA ExtractionStep ==
    ASSUME TypeOK, Extraction, Agreement, [Next]_vars
    PROVE  Extraction'
  <1> USE DEF Extraction, Planned, Installing, Copying, Leaving, One, memory, outside, bounds
  <1>1. ASSUME phase' \in {"start", "cleanup", "ended", "extract-pre", "extract-post"}
        PROVE  Extraction'
    BY <1>1
  <1>2. ASSUME NEW p \in Passes, plan(p)
        PROVE  Extraction'
    <2>1. CASE p = "post" /\ Proceed
      <3>1. phase' = "passes"
        BY <1>2, <2>1, ProceedIs DEF plan, Extracts
      <3>2. pass'["post"] = [commit |-> ref, parts |-> Extracted("post", ref)]
        BY <1>2, <2>1, <3>1 DEF plan, Refuse, TypeOK
      <3>3. \A q \in Extracted("post", ref) : q.name # "facade" /\ q.commit = ref
        BY PartIs DEF Extracted, Part
      <3>4. QED
        BY <3>1, <3>2, <3>3
    <2>2. CASE ~(p = "post" /\ Proceed)
      BY <1>1, <1>2, <2>2, ProceedIs DEF plan, Extracts, Passes, Refuse
    <2>3. QED
      BY <2>1, <2>2
  <1>3. CASE checkPasses
    BY <1>3, ProceedIs DEF checkPasses, Refuse
  <1>4. CASE runStaging
    BY <1>4, ProceedIs DEF runStaging
  <1>5. CASE runCompatibility
    <2>1. phase = "compatibility" /\ phase' = "module-pre"
      BY <1>5, ProceedIs DEF runCompatibility
    <2>2. CASE Local
      <3>1. /\ pass'["post"].commit = One /\ pass'["post"].parts = Compatible("post")
            /\ pass'["pre"].commit = pass["pre"].commit
        BY <1>5, <2>2 DEF runCompatibility, TypeOK, Passes
      <3>2. pass["post"].parts \in SUBSET Parts /\ One \in Commits \cup {None}
        BY DEF TypeOK, Passes
      <3>3. /\ Replacement("post").name = "compat" /\ Replacement("post").commit = One
        BY <3>2, PartIs DEF Replacement, Name
      <3>4. \A q \in Compatible("post") : q.name # "facade" /\ q.commit = One
        BY <2>1, <3>2, <3>3, EditedIs DEF Compatible
      <3>5. QED
        BY <1>5, <2>1, <3>1, <3>4 DEF runCompatibility
    <2>3. CASE ~Local
      BY <1>5, <2>1, <2>3 DEF runCompatibility
    <2>4. QED
      BY <2>2, <2>3
  <1>6. ASSUME NEW p \in Passes, Verify(p)
        PROVE  Extraction'
    BY <1>6, ProceedIs DEF Verify, Verifies, Refuse, Passes
  <1>7. CASE runFacade
    <2>1. CASE Proceed
      <3>1. phase = "facade" /\ phase' = "types"
        BY <1>7, <2>1, ProceedIs DEF runFacade
      <3>2. facade' = {Part("facade", One, FacadeEdits)}
        BY <1>7, <3>1 DEF runFacade, Refuse
      <3>3. Part("facade", One, FacadeEdits).name = "facade" /\ Part("facade", One, FacadeEdits).commit = One
        BY DEF Part
      <3>4. QED
        BY <1>7, <3>1, <3>2, <3>3 DEF runFacade
    <2>2. CASE ~Proceed
      BY <1>1, <1>7, <2>2 DEF runFacade, Refuse
    <2>3. QED
      BY <2>1, <2>2
  <1>8. CASE runTypes
    BY <1>8, ProceedIs DEF runTypes, Refuse, Upstream
  <1>9. CASE installFacade
    BY <1>9, ProceedIs DEF installFacade, Refuse
  <1>10. CASE decide
    <2>1. CASE Proceed
      <3>1. phase = "decide" /\ phase' = "copies"
        BY <1>10, <2>1, ProceedIs DEF decide
      <3>2. /\ copies' = {Part("copy", root, {"staging"})}
            /\ pass' = [pass EXCEPT !["post"].parts = Edited(@, "staging")]
        BY <1>10, <3>1 DEF decide, Refuse
      <3>3. /\ pass'["post"].commit = One /\ pass'["post"].parts = Edited(pass["post"].parts, "staging")
            /\ pass'["pre"] = pass["pre"]
        BY <3>2 DEF TypeOK, Passes
      <3>4. pass["post"].parts \in SUBSET Parts
        BY DEF TypeOK, Passes
      <3>5. \A q \in Edited(pass["post"].parts, "staging") : q.name # "facade" /\ q.commit = One
        BY <3>1, <3>4, EditedIs
      <3>6. Part("copy", root, {"staging"}).commit = root
        BY DEF Part
      <3>7. QED
        BY <1>10, <3>1, <3>2, <3>3, <3>5, <3>6 DEF decide
    <2>2. CASE phase' = "forbidden"
      <3>1. phase = "decide" /\ UNCHANGED <<pass, copies>>
        BY <1>10, <2>2, ProceedIs DEF decide, Refuse
      <3>2. copies = {}
        BY <3>1, WorkingIs DEF Agreement
      <3>3. QED
        BY <1>10, <2>2, <3>1, <3>2 DEF decide
    <2>3. QED
      BY <1>1, <1>10, <2>1, <2>2 DEF decide, Refuse
  <1>11. CASE installCopies
    BY <1>11, ProceedIs DEF installCopies, Refuse
  <1>12. CASE refreshModuleReport
    BY <1>12, ProceedIs DEF refreshModuleReport, Refuse
  <1>13. CASE checkForbiddenModules
    BY <1>13, ProceedIs DEF checkForbiddenModules, Refuse
  <1>14. CASE runProvenance
    BY <1>14, ProceedIs DEF runProvenance, Refuse
  <1>15. CASE runOutput
    BY <1>1, <1>15, ProceedIs DEF runOutput, Materialize, Refuse
  <1>16. CASE newRun \/ Fail \/ cleanup \/ Kill
    <2>1. Phases[1] = "extract-pre"
      BY DEF Phases
    <2>2. QED
      BY <1>1, <1>16, <2>1 DEF newRun, Fail, Refuse, cleanup, Kill
  <1>17. CASE Retag \/ UNCHANGED vars
    BY <1>17 DEF Retag, vars
  <1>18. QED
    BY <1>2, <1>3, <1>4, <1>5, <1>6, <1>7, <1>8, <1>9, <1>10, <1>11, <1>12, <1>13, <1>14,
       <1>15, <1>16, <1>17 DEF Next, execute

(* Memory and disk. *)
LEMMA AgreementStep ==
    ASSUME TypeOK, Extraction, Agreement, [Next]_vars
    PROVE  Agreement'
  <1> USE DEF Agreement, Copying, Leaving, Whole, memory, outside, bounds
  <1>1. ASSUME phase' \in {"start", "cleanup", "ended"}
        PROVE  Agreement'
    BY <1>1, WorkingIs
  <1>2. ASSUME NEW p \in Passes, plan(p)
        PROVE  Agreement'
    <2>1. CASE p = "post" /\ Proceed
      <3>1. phase = "extract-post" /\ phase' = "passes"
        BY <1>2, <2>1, ProceedIs DEF plan, Extracts
      <3>2. /\ pass'["post"].parts = Extracted("post", ref)
            /\ disk'["post"].parts = Extracted("post", ref)
        BY <1>2, <2>1, <3>1 DEF plan, Refuse, TypeOK
      <3>3. QED
        BY <1>2, <3>1, <3>2, WorkingIs DEF plan
    <2>2. CASE p = "pre" /\ Proceed
      <3>1. phase = "extract-pre" /\ phase' = "extract-post"
        BY <1>2, <2>2, ProceedIs DEF plan, Extracts
      <3>2. QED
        BY <1>2, <3>1, WorkingIs DEF plan
    <2>3. CASE ~Proceed
      BY <1>1, <1>2, <2>3 DEF plan, Refuse
    <2>4. QED
      BY <2>1, <2>2, <2>3 DEF Passes
  <1>3. CASE checkPasses
    BY <1>1, <1>3, ProceedIs, WorkingIs DEF checkPasses, Refuse
  <1>4. CASE runStaging
    BY <1>4, ProceedIs, WorkingIs DEF runStaging
  <1>5. CASE runCompatibility
    <2>1. phase = "compatibility" /\ phase' = "module-pre"
      BY <1>5, ProceedIs DEF runCompatibility
    <2>2. disk'["post"].parts = pass'["post"].parts
      BY <1>5, <2>1 DEF runCompatibility, TypeOK, Passes
    <2>3. QED
      BY <1>5, <2>1, <2>2, WorkingIs DEF runCompatibility
  <1>6. ASSUME NEW p \in Passes, Verify(p)
        PROVE  Agreement'
    <2>1. CASE Proceed
      <3>1. /\ phase \in {"module-pre", "module-post"} /\ phase' \in {"module-post", "facade"}
        BY <1>6, <2>1, ProceedIs DEF Verify, Verifies
      <3>2. disk'["post"].parts = disk["post"].parts
        BY <1>6, <3>1 DEF Verify, Refuse, TypeOK, Passes
      <3>3. QED
        BY <1>6, <3>1, <3>2, WorkingIs DEF Verify
    <2>2. CASE ~Proceed
      BY <1>1, <1>6, <2>2 DEF Verify, Refuse
    <2>3. QED
      BY <2>1, <2>2
  <1>7. CASE runFacade
    BY <1>1, <1>7, ProceedIs, WorkingIs DEF runFacade, Refuse
  <1>8. CASE runTypes
    BY <1>1, <1>8, ProceedIs, WorkingIs DEF runTypes, Refuse
  <1>9. CASE installFacade
    <2>1. CASE Proceed
      <3>1. phase = "install" /\ phase' = "decide"
        BY <1>9, <2>1, ProceedIs DEF installFacade
      <3>2. disk'["post"].parts = disk["post"].parts \cup facade
        BY <1>9 DEF installFacade, Post, TypeOK, Passes
      <3>3. QED
        BY <1>9, <3>1, <3>2, WorkingIs DEF installFacade
    <2>2. CASE ~Proceed
      BY <1>1, <1>9, <2>2 DEF installFacade, Refuse
    <2>3. QED
      BY <2>1, <2>2
  <1>10. CASE decide
    <2>1. CASE Proceed
      <3>1. phase = "decide" /\ phase' = "copies"
        BY <1>10, <2>1, ProceedIs DEF decide
      <3>2. pass' = [pass EXCEPT !["post"].parts = Edited(@, "staging")]
        BY <1>10, <3>1 DEF decide, Refuse
      <3>3. pass'["post"].parts = Edited(pass["post"].parts, "staging")
        BY <3>2 DEF TypeOK, Passes
      <3>4. Names(pass'["post"].parts) = Names(pass["post"].parts)
        BY <3>3, EditedIs DEF TypeOK, Passes
      <3>5. disk["post"].parts = pass["post"].parts \cup facade
        BY <3>1, WorkingIs
      <3>6. "facade" \notin Names(pass["post"].parts) /\ \A q \in facade : q.name = "facade"
        BY <3>1 DEF Extraction, Planned, Installing, Names
      <3>7. {q \in disk["post"].parts : q.name \notin Names(pass["post"].parts)} = facade
        BY <3>5, <3>6 DEF Names
      <3>8. QED
        BY <1>10, <3>1, <3>4, <3>7, WorkingIs DEF decide
    <2>2. CASE phase' = "forbidden"
      <3>1. phase = "decide" /\ loaded' = disk["post"].parts /\ UNCHANGED <<pass, copies, facade, disk>>
        BY <1>10, <2>2, ProceedIs DEF decide, Refuse, Post
      <3>2. QED
        BY <2>2, <3>1, WorkingIs
    <2>3. QED
      BY <1>1, <1>10, <2>1, <2>2 DEF decide, Refuse
  <1>11. CASE installCopies
    <2>1. CASE Proceed
      <3>1. phase = "copies" /\ phase' = "reconcile"
        BY <1>11, <2>1, ProceedIs DEF installCopies
      <3>2. Overwritten(Post.parts) = Whole
        BY <3>1 DEF Overwritten, Post
      <3>3. loaded' = Overwritten(Post.parts) /\ disk'["post"].parts = Overwritten(Post.parts)
        BY <1>11, <3>1 DEF installCopies, Refuse, TypeOK, Passes
      <3>4. QED
        BY <1>11, <3>1, <3>2, <3>3, WorkingIs DEF installCopies
    <2>2. CASE ~Proceed
      BY <1>1, <1>11, <2>2 DEF installCopies, Refuse
    <2>3. QED
      BY <2>1, <2>2
  <1>12. CASE refreshModuleReport
    BY <1>1, <1>12, ProceedIs, WorkingIs DEF refreshModuleReport, Refuse
  <1>13. CASE checkForbiddenModules
    BY <1>1, <1>13, ProceedIs, WorkingIs DEF checkForbiddenModules, Refuse
  <1>14. CASE runProvenance
    BY <1>1, <1>14, ProceedIs, WorkingIs DEF runProvenance, Refuse
  <1>15. CASE runOutput
    BY <1>1, <1>15, ProceedIs DEF runOutput, Materialize, Refuse
  <1>16. CASE newRun
    <2>1. Phases[1] = "extract-pre" /\ copies' = {}
      BY <1>16 DEF Phases, newRun, Forgotten
    <2>2. QED
      BY <1>1, <1>16, <2>1, WorkingIs DEF newRun
  <1>17. CASE Fail \/ cleanup \/ Kill
    BY <1>1, <1>17 DEF Fail, Refuse, cleanup, Kill
  <1>18. CASE Retag \/ UNCHANGED vars
    BY <1>18 DEF Retag, vars
  <1>19. QED
    BY <1>2, <1>3, <1>4, <1>5, <1>6, <1>7, <1>8, <1>9, <1>10, <1>11, <1>12, <1>13, <1>14,
       <1>15, <1>16, <1>17, <1>18 DEF Next, execute

(* The metadata. *)
LEMMA DescriptionStep ==
    ASSUME TypeOK, Agreement, Description, [Next]_vars
    PROVE  Description'
  <1> USE DEF Description, Installing, Copying, Leaving, memory, outside, bounds
  <1>1. ASSUME phase' \in Working \cup {"start", "cleanup", "ended"},
               phase' \notin {"facade", "types", "install", "decide", "copies", "reconcile",
                            "forbidden", "provenance", "output"}
        PROVE  Description'
    BY <1>1
  <1>2. ASSUME NEW p \in Passes, plan(p)
        PROVE  Description'
    BY <1>1, <1>2, ProceedIs, WorkingIs DEF plan, Extracts, Refuse, Passes
  <1>3. CASE checkPasses \/ runStaging \/ runCompatibility
    BY <1>1, <1>3, ProceedIs, WorkingIs DEF checkPasses, runStaging, runCompatibility, Refuse
  <1>4. ASSUME NEW p \in Passes, Verify(p)
        PROVE  Description'
    <2>1. CASE p = "post" /\ Proceed
      <3>1. phase = "module-post" /\ phase' = "facade"
        BY <1>4, <2>1, ProceedIs DEF Verify, Verifies
      <3>2. /\ Verified(report') /\ disk'["post"].metadata = report'
        BY <1>4, <2>1, <3>1 DEF Verify, Refuse, TypeOK
      <3>3. Verified(report)'
        BY <1>4, <3>2, VerifiedStays DEF Verify
      <3>4. QED
        BY <3>1, <3>2, <3>3
    <2>2. CASE ~(p = "post" /\ Proceed)
      BY <1>1, <1>4, <2>2, ProceedIs, WorkingIs DEF Verify, Verifies, Refuse, Passes
    <2>3. QED
      BY <2>1, <2>2
  <1>5. CASE runFacade \/ runTypes
    <2>1. CASE Proceed
      <3>1. Verified(report)' = Verified(report)
        BY <1>5, VerifiedStays DEF runFacade, runTypes
      <3>2. QED
        BY <1>5, <2>1, <3>1, ProceedIs DEF runFacade, runTypes
    <2>2. CASE ~Proceed
      BY <1>1, <1>5, <2>2 DEF runFacade, runTypes, Refuse
    <2>3. QED
      BY <2>1, <2>2
  <1>6. CASE installFacade
    <2>1. CASE Proceed
      <3>1. phase = "install" /\ phase' = "decide"
        BY <1>6, <2>1, ProceedIs DEF installFacade
      <3>2. Verified(report)' = Verified(report)
        BY <1>6, VerifiedStays DEF installFacade
      <3>3. disk'["post"] = [Post EXCEPT !.parts = @ \cup facade] /\ IsTidy(disk'["post"])
        BY <1>6, <3>1 DEF installFacade, Refuse, Post, TypeOK, Passes
      <3>4. disk'["post"].metadata = disk["post"].metadata
        BY <3>3 DEF Post, TypeOK, Passes
      <3>5. disk'["post"].metadata.require = Needs(disk'["post"].parts)
        BY <3>3 DEF IsTidy, Tidy
      <3>6. Needs(disk["post"].parts)' = Needs(disk'["post"].parts)
        BY <1>6, NeedsStay DEF installFacade
      <3>7. QED
        BY <1>6, <3>1, <3>2, <3>4, <3>5, <3>6 DEF installFacade
    <2>2. CASE ~Proceed
      BY <1>1, <1>6, <2>2 DEF installFacade, Refuse
    <2>3. QED
      BY <2>1, <2>2
  <1>7. CASE decide
    <2>1. CASE Proceed
      <3>1. phase = "decide" /\ phase' = "copies"
        BY <1>7, <2>1, ProceedIs DEF decide
      <3>2. Verified(report)' = Verified(report)
        BY <1>7, VerifiedStays DEF decide
      <3>3. QED
        BY <1>7, <3>1, <3>2 DEF decide
    <2>2. CASE phase' = "forbidden"
      <3>1. phase = "decide" /\ loaded' = disk["post"].parts /\ UNCHANGED <<report, profile>>
        BY <1>7, <2>2, ProceedIs DEF decide, Refuse, Post
      <3>2. Verified(report)' = Verified(report)
        BY <1>7, VerifiedStays DEF decide
      <3>3. Needs(loaded)' = Needs(disk["post"].parts)
        BY <3>1, NeedsStay
      <3>4. QED
        BY <2>2, <3>1, <3>2, <3>3
    <2>3. QED
      BY <1>1, <1>7, <2>1, <2>2 DEF decide, Refuse
  <1>8. CASE installCopies
    <2>1. CASE Proceed
      <3>1. phase = "copies" /\ phase' = "reconcile"
        BY <1>8, <2>1, ProceedIs DEF installCopies
      <3>2. Verified(report)' = Verified(report)
        BY <1>8, VerifiedStays DEF installCopies
      <3>3. PICK parts : disk'["post"] = [parts |-> parts, metadata |-> Tidy(parts, Post.metadata)]
        BY <1>8 DEF installCopies, TypeOK, Passes
      <3>4. disk'["post"].metadata.require = Needs(disk'["post"].parts)
        BY <3>3 DEF Tidy
      <3>5. Needs(disk["post"].parts)' = Needs(disk'["post"].parts)
        BY <1>8, NeedsStay DEF installCopies
      <3>6. QED
        BY <1>8, <3>1, <3>2, <3>4, <3>5 DEF installCopies
    <2>2. CASE ~Proceed
      BY <1>1, <1>8, <2>2 DEF installCopies, Refuse
    <2>3. QED
      BY <2>1, <2>2
  <1>9. CASE refreshModuleReport
    <2>1. CASE Proceed
      <3>1. phase = "reconcile" /\ phase' = "forbidden"
        BY <1>9, <2>1, ProceedIs DEF refreshModuleReport
      <3>2. report' = disk["post"].metadata /\ OnlyLost(report')
        BY <1>9, <3>1 DEF refreshModuleReport, Refuse, Post
      <3>3. Verified(report')
        BY <3>1, <3>2 DEF OnlyLost, Verified
      <3>4. Verified(report)' = Verified(report')
        BY <1>9, VerifiedStays DEF refreshModuleReport
      <3>5. Needs(loaded)' = Needs(loaded)
        BY <1>9, NeedsStay DEF refreshModuleReport
      <3>6. loaded = disk["post"].parts
        BY <3>1 DEF Agreement
      <3>7. QED
        BY <1>9, <3>1, <3>2, <3>3, <3>4, <3>5, <3>6 DEF refreshModuleReport
    <2>2. CASE ~Proceed
      BY <1>1, <1>9, <2>2 DEF refreshModuleReport, Refuse
    <2>3. QED
      BY <2>1, <2>2
  <1>10. CASE checkForbiddenModules \/ runProvenance
    <2>1. CASE Proceed
      <3>1. \/ phase = "forbidden" /\ phase' = "provenance"
            \/ phase = "provenance" /\ phase' = "output"
        BY <1>10, <2>1, ProceedIs DEF checkForbiddenModules, runProvenance
      <3>2. /\ Verified(report)' = Verified(report) /\ Needs(loaded)' = Needs(loaded)
            /\ Forbidden' = Forbidden
        BY <1>10, VerifiedStays, NeedsStay, ForbiddenStays DEF checkForbiddenModules, runProvenance
      <3>3. report.require \cap Forbidden = {}
        BY <1>10, <3>1 DEF checkForbiddenModules, runProvenance, Refuse, InMetadata
      <3>4. phase' = "output" => files' = Composed'
        BY <1>10, <3>1 DEF checkForbiddenModules, runProvenance, Refuse, Composed, Licence
      <3>5. UNCHANGED <<report, loaded>>
        BY <1>10 DEF checkForbiddenModules, runProvenance
      <3>6. QED
        BY <3>1, <3>2, <3>3, <3>4, <3>5
    <2>2. CASE ~Proceed
      BY <1>1, <1>10, <2>2 DEF checkForbiddenModules, runProvenance, Refuse
    <2>3. QED
      BY <2>1, <2>2
  <1>11. CASE runOutput
    BY <1>1, <1>11, ProceedIs DEF runOutput, Materialize, Refuse
  <1>12. CASE newRun
    <2>1. Phases[1] = "extract-pre"
      BY DEF Phases
    <2>2. QED
      BY <1>1, <1>12, <2>1, WorkingIs DEF newRun
  <1>13. CASE Fail \/ cleanup \/ Kill
    BY <1>1, <1>13 DEF Fail, Refuse, cleanup, Kill
  <1>14. CASE Retag \/ UNCHANGED vars
    <2>1. /\ Verified(report)' = Verified(report) /\ Forbidden' = Forbidden
          /\ Needs(loaded)' = Needs(loaded) /\ Composed' = Composed
          /\ Needs(disk["post"].parts)' = Needs(disk["post"].parts)
      BY <1>14, VerifiedStays, NeedsStay, ForbiddenStays DEF Retag, vars, Composed, Licence
    <2>2. QED
      BY <1>14, <2>1 DEF Retag, vars
  <1>15. QED
    BY <1>2, <1>3, <1>4, <1>5, <1>6, <1>7, <1>8, <1>9, <1>10, <1>11, <1>12, <1>13, <1>14
       DEF Next, execute

(* What is published. *)
LEMMA KeptStep ==
    ASSUME TypeOK, Extraction, Agreement, Description, Kept, [Next]_vars
    PROVE  Kept'
  <1> USE DEF Kept, Published, memory, outside, bounds
  <1>1. ASSUME phase \in Working \cup {"start"}, UNCHANGED <<output, kills>>
        PROVE  Kept'
    BY <1>1
  <1>2. CASE newRun
    BY <1>1, <1>2 DEF newRun
  <1>3. ASSUME NEW p \in Passes, plan(p) \/ Verify(p)
        PROVE  Kept'
    BY <1>1, <1>3, WorkingIs DEF plan, Verify, Extracts, Verifies
  <1>4. CASE \/ checkPasses \/ runStaging \/ runCompatibility \/ runFacade \/ runTypes
             \/ installFacade \/ decide
    BY <1>1, <1>4, WorkingIs DEF checkPasses, runStaging, runCompatibility, runFacade, runTypes,
                                 installFacade, decide
  <1>5. CASE \/ installCopies \/ refreshModuleReport \/ checkForbiddenModules
             \/ runProvenance \/ Fail \/ Retag
    BY <1>1, <1>5, WorkingIs DEF installCopies, refreshModuleReport, checkForbiddenModules,
                                 runProvenance, Fail, Retag
  <1>6. CASE runOutput
    <2>1. phase = "output" /\ phase' = "cleanup"
      BY <1>6, ProceedIs DEF runOutput, Materialize, Refuse
    <2>2. CASE output' = output
      BY <1>1, <1>6, <2>1, <2>2, WorkingIs DEF runOutput
    <2>3. CASE output' # output
      <3>1. output' = Composed /\ UNCHANGED <<memory, bounds>>
        BY <1>6, <2>1, <2>3 DEF runOutput, Materialize, Description
      <3>2. /\ output'.parts = Whole /\ output'.metadata = report
            /\ output'.licence = One /\ output'.run = kills
        BY <3>1 DEF Composed, Licence, Whole, One
      <3>3. loaded = Whole /\ report.require = Needs(loaded) /\ Verified(report)
            /\ report.require \cap Forbidden = {}
        BY <2>1 DEF Agreement, Description, Leaving
      <3>4. /\ \A p \in Whole : p.commit = One
            /\ pass["pre"].commit = One /\ root = One /\ proof = One
        BY <2>1 DEF Extraction, Planned, Installing, Copying, Leaving, Whole
      <3>5. /\ Needs(output.parts)' = Needs(loaded) /\ Forbidden' = Forbidden
            /\ Local' = Local /\ Pins' = Pins
        BY <3>1, <3>2, <3>3, NeedsStay, ForbiddenStays DEF Local, Pins
      <3>6. AsLoaded'
        BY <3>1, <3>2, <3>3 DEF AsLoaded
      <3>7. Described'
        BY <3>2, <3>3, <3>5 DEF Described
      <3>8. Approved'
        BY <3>2, <3>3, <3>5 DEF Approved, Verified
      <3>9. \A p \in output'.parts : p.commit = One'
        BY <3>1, <3>2, <3>4 DEF One
      <3>10. One' = One /\ kills' = kills /\ kills \in Nat
        BY <3>1, GenerationAssumption DEF One, TypeOK
      <3>11. QED
        BY <2>1, <3>1, <3>2, <3>4, <3>6, <3>7, <3>8, <3>9, <3>10, WorkingIs
    <2>4. QED
      BY <2>2, <2>3
  <1>7. CASE cleanup \/ UNCHANGED vars
    <2>1. UNCHANGED <<memory, output, bounds>>
      BY <1>7 DEF cleanup, vars
    <2>2. /\ AsLoaded' = AsLoaded /\ One' = One
      BY <2>1 DEF AsLoaded, One
    <2>3. Needs(output.parts)' = Needs(output.parts) /\ Forbidden' = Forbidden
          /\ Local' = Local /\ Pins' = Pins
      BY <2>1, NeedsStay, ForbiddenStays DEF Local, Pins
    <2>4. Described' = Described /\ Approved' = Approved
      BY <2>1, <2>3 DEF Described, Approved
    <2>5. phase' = phase \/ phase' \notin Working \cup {"start"}
      BY <1>7, WorkingIs DEF cleanup, vars
    <2>6. QED
      BY <2>1, <2>2, <2>4, <2>5
  <1>8. CASE Kill
    <2>1. output' = output /\ kills' = kills + 1 /\ kills \in Nat
      BY <1>8, GenerationAssumption DEF Kill, TypeOK
    <2>2. output # None /\ output.run # None => output.run \in Nat
      BY GenerationAssumption DEF TypeOK, Files
    <2>3. QED
      BY <2>1, <2>2, GenerationAssumption
  <1>9. QED
    BY <1>2, <1>3, <1>4, <1>5, <1>6, <1>7, <1>8 DEF Next, execute

LEMMA ComposedIs ==
    ASSUME TypeOK
    PROVE  Composed # None
  <1>1. Composed \in [parts : SUBSET Parts, metadata : Metadata,
                     licence : Commits \cup {None}, run : Nat]
    BY GenerationAssumption DEF TypeOK, Composed, Licence, Passes
  <1>2. QED
    BY <1>1, GenerationAssumption

(* What a run says and has recorded. *)
LEMMA AccountStep ==
    ASSUME TypeOK, Description, Kept, Account, [Next]_vars
    PROVE  Account'
  <1> USE DEF Account, Published, memory, outside, bounds
  <1>1. ASSUME phase \in Working, UNCHANGED <<output, trees, scratch, kills>>,
               (phase' \in Working /\ UNCHANGED failure) \/ Refuse
        PROVE  Account'
    BY <1>1, WorkingIs DEF Refuse, Kept
  <1>2. CASE newRun
    <2>1. phase = "start" /\ ((phase' \in Working /\ failure' = {}) \/ phase' = "ended")
      <3>1. Phases[1] = "extract-pre"
        BY DEF Phases
      <3>2. QED
        BY <1>2, <3>1, WorkingIs DEF newRun
    <2>2. UNCHANGED <<trees, kills>> /\ ("temp" \in scratch' => "temp" \in scratch)
      BY <1>2 DEF newRun
    <2>3. QED
      BY <2>1, <2>2, WorkingIs
  <1>3. ASSUME NEW p \in Passes, plan(p)
        PROVE  Account'
    <2>1. phase \in Working /\ UNCHANGED <<output, scratch, kills>>
      BY <1>3, WorkingIs DEF plan, Extracts
    <2>2. (phase' \in Working /\ UNCHANGED failure) \/ Refuse
      BY <1>3, <2>1, ProceedIs, WorkingIs DEF plan, Extracts, Passes
    <2>3. /\ \A t \in trees'.registered : t \in trees.registered \/ t = Tree(p)
          /\ trees.recorded \subseteq trees'.recorded
          /\ trees.unreported \subseteq trees'.unreported
          /\ Tree(p) \in trees'.recorded \cup trees'.unreported
      BY <1>3 DEF plan, TypeOK
    <2>4. Tree(p)[1] <= kills
      BY GenerationAssumption DEF Tree, TypeOK
    <2>5. \A t \in trees'.registered :
            t[1] <= kills /\ (t[1] = kills => t \in trees'.recorded \cup trees'.unreported)
      BY <2>3, <2>4
    <2>6. QED
      BY <2>1, <2>2, <2>5, WorkingIs DEF Refuse, Kept
  <1>4. ASSUME NEW p \in Passes, Verify(p)
        PROVE  Account'
    BY <1>1, <1>4, ProceedIs, WorkingIs DEF Verify, Verifies, Passes
  <1>5. CASE checkPasses \/ runStaging \/ runCompatibility \/ runFacade \/ runTypes
    BY <1>1, <1>5, ProceedIs, WorkingIs
       DEF checkPasses, runStaging, runCompatibility, runFacade, runTypes
  <1>6. CASE installFacade \/ decide \/ installCopies
    BY <1>1, <1>6, ProceedIs, WorkingIs DEF installFacade, decide, installCopies
  <1>7. CASE refreshModuleReport \/ checkForbiddenModules \/ runProvenance
    BY <1>1, <1>7, ProceedIs, WorkingIs
       DEF refreshModuleReport, checkForbiddenModules, runProvenance
  <1>8. CASE runOutput
    <2>1. phase = "output" /\ failure = {} /\ ~Published /\ UNCHANGED <<trees, kills>>
      BY <1>8, WorkingIs DEF runOutput, Kept
    <2>2. CASE Refuse /\ UNCHANGED <<output, scratch>>
      BY <1>1, <2>1, <2>2, WorkingIs
    <2>3. CASE output' = files /\ Proceed /\ UNCHANGED <<scratch, failure>>
      <3>1. output' = Composed /\ phase' = "cleanup"
        BY <2>1, <2>3, ProceedIs DEF Description
      <3>2. output' # None /\ output'.run = kills
        BY <3>1, ComposedIs DEF Composed
      <3>3. QED
        BY <2>1, <2>3, <3>1, <3>2, WorkingIs
    <2>4. CASE /\ phase' = "cleanup" /\ failure' = failure \cup {"output", "temp"}
               /\ scratch' = scratch \cup {"temp"} /\ UNCHANGED output
      BY <2>1, <2>4, WorkingIs
    <2>5. QED
      BY <1>8, <2>2, <2>3, <2>4 DEF runOutput, Materialize
  <1>9. CASE Fail
    BY <1>1, <1>9 DEF Fail
  <1>10. CASE cleanup
    <2>1. phase' = "ended" /\ trees'.registered \subseteq trees.registered
          /\ trees'.recorded = trees.recorded /\ trees'.unreported = trees.unreported
      BY <1>10 DEF cleanup, TypeOK
    <2>2. scratch' \subseteq scratch /\ failure \subseteq failure' /\ kills' = kills /\ phase = "cleanup"
      BY <1>10 DEF cleanup
    <2>3. QED
      BY <2>1, <2>2, WorkingIs
  <1>11. CASE Retag
    BY <1>1, <1>11 DEF Retag
  <1>12. CASE Kill
    <2>1. phase' = "start" /\ kills' = kills + 1 /\ kills \in Nat
      BY <1>12, GenerationAssumption DEF Kill, TypeOK
    <2>2. trees'.registered = trees.registered
      BY <1>12 DEF Kill, TypeOK
    <2>3. \A t \in trees.registered : t[1] \in Nat /\ t[1] <= kills
      BY GenerationAssumption DEF TypeOK, Trees
    <2>4. \A t \in trees'.registered : t[1] <= kills' /\ t[1] # kills'
      BY <2>1, <2>2, <2>3
    <2>5. OwnTrees' = {}
      BY <2>4 DEF OwnTrees
    <2>6. QED
      BY <2>1, <2>4, <2>5, WorkingIs
  <1>13. CASE UNCHANGED vars
    BY <1>13 DEF vars, OwnTrees
  <1>14. QED
    BY <1>2, <1>3, <1>4, <1>5, <1>6, <1>7, <1>8, <1>9, <1>10, <1>11, <1>12, <1>13
       DEF Next, execute

LEMMA EndsCleanStep ==
    ASSUME TypeOK, Kept, Account, EndsClean, [Next]_vars
    PROVE  EndsClean'
  <1> USE DEF EndsClean, memory, outside, bounds
  <1>1. CASE newRun
    <2>1. phase' = "ended" => failure' = {"options"} /\ scratch' = scratch /\ UNCHANGED <<output, kills>>
      <3>1. Phases[1] # "ended"
        BY DEF Phases
      <3>2. QED
        BY <1>1, <3>1 DEF newRun
    <2>2. phase = "start"
      BY <1>1 DEF newRun
    <2>3. QED
      BY <2>1, <2>2 DEF Account, Kept, Published
  <1>2. CASE cleanup
    <2>1. Published' = Published /\ phase = "cleanup" /\ UNCHANGED <<profile, kills>>
      BY <1>2 DEF cleanup, Published
    <2>2. failure' \in {failure, failure \cup {"cleanup"}} /\ scratch' \subseteq scratch
      BY <1>2 DEF cleanup
    <2>3. Published <=> failure' \subseteq {"cleanup"}
      BY <2>1, <2>2, WorkingIs DEF Account
    <2>4. CASE ~profile.keep /\ "cleanup" \notin failure'
      <3>1. trees'.registered = trees.registered \ trees.recorded /\ "work" \notin scratch'
            /\ trees'.unreported = trees.unreported
        BY <1>2, <2>4 DEF cleanup, TypeOK
      <3>2. OwnTrees' \subseteq trees'.unreported
        BY <2>1, <3>1 DEF OwnTrees, Account
      <3>3. QED
        BY <2>1, <2>2, <2>3, <3>1, <3>2 DEF Account
    <2>5. CASE profile.keep \/ "cleanup" \in failure'
      BY <2>1, <2>2, <2>3, <2>5 DEF Account
    <2>6. QED
      BY <2>4, <2>5
  <1>3. ASSUME phase' # "ended"
        PROVE  EndsClean'
    BY <1>3
  <1>4. CASE UNCHANGED vars
    BY <1>4 DEF vars, Published, OwnTrees
  <1>5. CASE execute
    BY <1>3, <1>5, Moves, WorkingIs
       DEF execute, plan, Verify, checkPasses, runStaging, runCompatibility, runFacade, runTypes,
           installFacade, decide, installCopies, refreshModuleReport, checkForbiddenModules,
           runProvenance, runOutput, Materialize
  <1>6. CASE Fail \/ Retag \/ Kill
    BY <1>3, <1>6, WorkingIs DEF Fail, Refuse, Retag, Kill
  <1>7. QED
    BY <1>1, <1>2, <1>4, <1>5, <1>6 DEF Next

LEMMA GenInit == Init => GenInv
  <1> SUFFICES ASSUME Init
               PROVE  GenInv
    OBVIOUS
  <1>1. phase = "start" /\ ~Published /\ trees.registered = {} /\ scratch = {}
    BY GenerationAssumption DEF Init, Published, NoFiles, NoTrees
  <1>2. Extraction /\ Agreement /\ Description
    BY <1>1, WorkingIs DEF Extraction, Agreement, Description, Planned, Installing, Copying, Leaving
  <1>3. Kept
    BY <1>1, GenerationAssumption DEF Init, Kept, NoFiles
  <1>4. Account /\ EndsClean
    BY <1>1, WorkingIs DEF Account, EndsClean, OwnTrees
  <1>5. QED
    BY <1>2, <1>3, <1>4, TypeInit DEF GenInv

THEOREM GenHolds == Spec => []GenInv
  <1>1. GenInv /\ [Next]_vars => GenInv'
    BY TypeStep, ExtractionStep, AgreementStep, DescriptionStep, KeptStep, AccountStep,
       EndsCleanStep DEF GenInv
  <1>2. QED
    BY <1>1, GenInit, PTL DEF Spec

(* generate.go: what a run publishes is what the go command type checked last,
   although it is composed from memory and the go command saw the disk: the same
   files, with a go.mod that states what they need at the approved versions, and
   no forbidden module. *)
THEOREM OutputProved == Spec => []OutputIsProved
  <1>1. GenInv => OutputIsProved
    BY DEF GenInv, Kept, OutputIsProved
  <1>2. QED
    BY <1>1, GenHolds, PTL

(* generate.go: everything a published module rests on is of one upstream commit,
   however often the tag moved during the run. *)
THEOREM OutputOfOneCommit == Spec => []OneCommit
  <1>1. GenInv => OneCommit
    <2> SUFFICES ASSUME GenInv, Published
                 PROVE  Cardinality({p.commit : p \in output.parts}
                                    \cup {pass[p].commit : p \in Passes}
                                    \cup {root, proof, output.licence}) = 1
      BY DEF OneCommit
    <2>1. /\ \A p \in output.parts : p.commit = One
          /\ \A p \in Passes : pass[p].commit = One
          /\ root = One /\ proof = One /\ output.licence = One
      BY DEF GenInv, Kept, Passes, One
    <2>2. {p.commit : p \in output.parts} \cup {pass[p].commit : p \in Passes}
              \cup {root, proof, output.licence} = {One}
      BY <2>1
    <2>3. QED
      BY <2>2, FS_Singleton
  <1>2. QED
    BY <1>1, GenHolds, PTL

(* generate.go:520: a run that refuses has published nothing and one that succeeds
   has; neither leaves a work tree it knows of registered, or scratch files,
   unless it was asked to or says so. *)
THEOREM RunsEndClean == Spec => []EndsClean
  BY GenHolds, PTL DEF GenInv
=============================================================================

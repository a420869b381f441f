---------------------------- MODULE ControlPlane ----------------------------
(***************************************************************************)
(* Setup and upgrade of a derived repository (tools/internal/setup and     *)
(* tools/internal/upgrade): a manifest is planned from the work tree,      *)
(* approved by its hash, planned again, and applied file by file through   *)
(* temporary files, by a run that can fail, be cancelled or be killed      *)
(* between any two of its writes.                                          *)
(*                                                                         *)
(* A path stands for the files of one kind.  A content is who wrote it,    *)
(* for which engine release and for which profile: what setup composes is  *)
(* a function of the last two.  The operator edits, resets, commits,       *)
(* approves and starts runs.                                               *)
(***************************************************************************)
EXTENDS Naturals, FiniteSets

CONSTANTS Releases,      \* the engine releases, numbers from 1
          Profiles,      \* the versions of the profile, numbers from 1
          MaxInterrupts, \* bound on failed, cancelled and killed runs
          MaxEdits,      \* bound on the operator's edits
          TempsIgnored   \* the repository's ignore patterns match *.tmp

VARIABLES head,       \* what HEAD records
          disk,       \* what the work tree holds
          temps,      \* the temporary files: of which command, beside which path
          stage,      \* whether the scratch directory exists
          approved,   \* the manifest the operator approved, if any
          run,        \* the run in progress
          interrupts, edits

vars == <<head, disk, temps, stage, approved, run, interrupts, edits>>

ASSUME ControlPlaneAssumption ==
    /\ Releases = 1..Cardinality(Releases) /\ 1 \in Releases
    /\ Profiles = 1..Cardinality(Profiles) /\ 1 \in Profiles
    /\ MaxInterrupts \in Nat /\ MaxEdits \in Nat
    /\ TempsIgnored \in BOOLEAN

-----------------------------------------------------------------------------
(* The files, in the order of their paths: the two workflows, what a derived
   repository keeps, the template's docs, the root go.mod, the profile, the
   shim, its go.mod and go.sum, the engine's sources, and an ignored file in a
   directory of the template. *)
Order == [ci |-> 1, sync |-> 2, readme |-> 3, docs |-> 4, rootmod |-> 5, profile |-> 6,
          main |-> 7, toolsmod |-> 8, toolssum |-> 9, source |-> 10, stray |-> 11]
Paths == DOMAIN Order
Kept == "readme"
Stray == "stray"
IgnoredPaths == {Stray}

TemplateOwned == {"ci", "sync", "main", "toolsmod", "toolssum", "docs", "source", Stray}
OwnedFiles == {"ci", "toolsmod", "toolssum"}
OwnedDirs == {"ci", "sync", "main", "docs", "source", Stray}
Workflows == {"ci", "sync"}
Retained == {Kept, "profile"}
TemplateMarkers == {"profile", "source", "main"}
UpgradeOwned == {"ci", "sync", "main", "toolsmod", "toolssum"}

Content(by, release, profile) == [by |-> by, release |-> release, profile |-> profile]
Absent == Content("nobody", 0, 0)
Template == Content("template", 0, 0)
Edited == Content("operator", 0, 0)
ProfileText(profile) == Content("profile", 0, profile)

(* What setup composes, byte for byte from its inputs. *)
WorkflowText(profile) == Content("setup", 0, profile)
ShimModule(release) == Content("setup", release, 0)
ShimSums(release) == Content("setup", release, 0)
ShimProgram == Content("setup", 0, 0)
RootModule == Content("setup", 0, 0)
Composed(path, release, profile) ==
    CASE path \in Workflows -> WorkflowText(profile)
      [] path = "toolsmod" -> ShimModule(release)
      [] path = "toolssum" -> ShimSums(release)
      [] path = "main" -> ShimProgram
      [] OTHER -> RootModule
SetupPayload(sum) == {"rootmod", "toolsmod", "main", "ci", "sync"}
                     \cup (IF sum THEN {"toolssum"} ELSE {})

Tracked == {p \in Paths : head[p] # Absent}
OnDisk == {p \in Paths : disk[p] # Absent}

(* git status, which leaves ignored files out. *)
Clean ==
    /\ \A p \in Tracked : disk[p] = head[p]
    /\ OnDisk \ Tracked \subseteq IgnoredPaths
    /\ ~stage
    /\ temps = {} \/ TempsIgnored

ProfileOf(tree) == tree["profile"].profile

-----------------------------------------------------------------------------
(* setup.newRun: measure and classify.  A path that is composed is written,
   one that is kept is left, one the template owns is removed. *)
IsTemplate == TemplateMarkers \subseteq Tracked /\ "rootmod" \notin Tracked
MayWrite(path) ==
    IF path \notin Tracked THEN disk[path] = Absent
    ELSE path \in TemplateOwned /\ (path \in Workflows => path \in OwnedFiles)
NothingUnderOwned(payload) == OwnedDirs \cap OnDisk \subseteq Tracked \cup payload

SetupAccepts(sum) ==
    /\ Clean
    /\ IsTemplate
    /\ \A p \in SetupPayload(sum) : MayWrite(p)
    /\ NothingUnderOwned(SetupPayload(sum))

Written(path, kind, release, profile, previous) ==
    [path |-> path, kind |-> kind, content |-> Composed(path, release, profile), previous |-> previous]
Deleted(path) == [path |-> path, kind |-> "delete", content |-> Absent, previous |-> disk[path]]

(* The manifest binds what is written and what is deleted, not what a write
   replaces. *)
SetupActions(release, sum) ==
    {Written(p, IF p \in Tracked THEN "replace" ELSE "create", release, ProfileOf(disk), Absent) :
        p \in SetupPayload(sum)}
    \cup {Deleted(p) : p \in (Tracked \cap TemplateOwned) \ (SetupPayload(sum) \cup Retained)}

(* What is next: writes come first, and each kind in the order of paths. *)
Writes(todo) == {action \in todo : action.kind # "delete"}
CurrentInPathOrder(todo) == todo
Current(todo) == IF Writes(todo) # {} THEN Writes(todo) ELSE todo
First(todo) ==
    CHOOSE action \in Current(todo) :
        \A other \in Current(todo) : Order[action.path] <= Order[other.path]

SetupManifest(release, sum) ==
    [op |-> "setup", release |-> release, profile |-> ProfileOf(disk), sum |-> sum,
     actions |-> SetupActions(release, sum), kept |-> Tracked \cap Retained]

-----------------------------------------------------------------------------
(* upgrade.Plan: only forward, only over tracked files, and only those whose
   content differs.  A migrated profile is one more file. *)
Pin == disk["toolsmod"].release

UpgradePayload(profile) ==
    UpgradeOwned \cup (IF profile = ProfileOf(disk) THEN {} ELSE {"profile"})
UpgradeContent(path, release, profile) ==
    IF path = "profile" THEN ProfileText(profile) ELSE Composed(path, release, profile)

IsDerived == {"rootmod", "profile"} \subseteq Tracked /\ disk["toolsmod"].by = "setup"
ForwardOnly(release) == Pin < release
Forward(release) == Pin <= release
UpgradeAccepts(release, profile) ==
    /\ Clean
    /\ IsDerived
    /\ Forward(release)
    /\ UpgradePayload(profile) \cap OnDisk \subseteq Tracked

OutdatedIfNewer(release, profile) ==
    {p \in UpgradePayload(profile) : Pin < release /\ disk[p] # UpgradeContent(p, release, profile)}
Outdated(release, profile) ==
    {p \in UpgradePayload(profile) : disk[p] # UpgradeContent(p, release, profile)}

UpgradeManifest(release, profile) ==
    [op |-> "upgrade", release |-> release, profile |-> profile, sum |-> TRUE,
     actions |-> {[path |-> p, kind |-> IF p \in OnDisk THEN "update" ELSE "create",
                   content |-> UpgradeContent(p, release, profile), previous |-> disk[p]] :
                       p \in Outdated(release, profile)},
     kept |-> UpgradePayload(profile) \ Outdated(release, profile)]

(* What the two commands can be asked for: the profile on disk, or for an
   upgrade a later one of the same repository. *)
SetupRequests == Releases \X BOOLEAN
UpgradeRequests == {q \in Releases \X Profiles : ProfileOf(disk) <= q[2]}

(* What they answer now: nothing when they refuse. *)
Manifests ==
    {SetupManifest(q[1], q[2]) : q \in {r \in SetupRequests : SetupAccepts(r[2])}}
    \cup {UpgradeManifest(q[1], q[2]) : q \in {r \in UpgradeRequests : UpgradeAccepts(r[1], r[2])}}

-----------------------------------------------------------------------------
Idle == [phase |-> "idle"]
None == [op |-> "none"]
Finished(manifest) == [phase |-> "finished", manifest |-> manifest]
Active == run.phase \notin {"idle", "finished"}

TemplateTree ==
    [p \in Paths |->
        CASE p = "profile" -> ProfileText(1)
          [] p \in {"ci", "main", "toolsmod", "docs", "source", Kept} -> Template
          [] OTHER -> Absent]

Init ==
    /\ head = TemplateTree
    /\ disk \in {head, [head EXCEPT ![Stray] = Edited]}
    /\ temps = {} /\ stage = FALSE
    /\ approved = None /\ run = Idle
    /\ interrupts = 0 /\ edits = 0

(* Plan, whose manifest the operator reads and approves. *)
Approve ==
    /\ ~Active /\ approved = None
    /\ approved' \in Manifests
    /\ run' = Idle
    /\ UNCHANGED <<head, disk, temps, stage, interrupts, edits>>

(* Apply plans again and compares hashes: another manifest is a refusal. *)
Begin(manifest) ==
    CASE manifest.op = "setup" ->
            [phase |-> "stage", manifest |-> manifest, todo |-> manifest.actions]
      [] manifest.actions = {} -> Finished(manifest)
      [] OTHER -> [phase |-> "preflight", manifest |-> manifest, todo |-> manifest.actions]
Apply ==
    /\ ~Active /\ approved # None
    /\ run' = IF approved \in Manifests THEN Begin(approved) ELSE Idle
    /\ approved' = None
    /\ UNCHANGED <<head, disk, temps, stage, interrupts, edits>>

(* stage: the payload is written into a scratch directory, read back and
   compared, and the directory is removed whatever came of it. *)
Stage ==
    /\ run.phase = "stage"
    /\ stage' = ~stage
    /\ run' = IF stage THEN [run EXCEPT !.phase = "write"] ELSE run
    /\ UNCHANGED <<head, disk, temps, approved, interrupts, edits>>

(* Preflight: every file is still what the plan read. *)
Preflight ==
    /\ run.phase = "preflight"
    /\ run' = IF \A action \in run.todo : disk[action.path] = action.previous
              THEN [run EXCEPT !.phase = "write"] ELSE Idle
    /\ UNCHANGED <<head, disk, temps, stage, approved, interrupts, edits>>

Doing == First(run.todo)
Temp == <<run.manifest.op, Doing.path>>
Stepped(rest) ==
    IF rest = {} THEN Finished(run.manifest)
    ELSE [run EXCEPT !.phase = "write", !.todo = rest]

(* writeAtomic: the temporary file.  Setup writes over one that is there,
   upgrade refuses it. *)
WriteTemp ==
    /\ run.phase = "write" /\ run.todo # {} /\ Doing.kind # "delete"
    /\ IF run.manifest.op = "upgrade" /\ Temp \in temps
       THEN run' = Idle /\ UNCHANGED temps
       ELSE temps' = temps \cup {Temp} /\ run' = [run EXCEPT !.phase = "rename"]
    /\ UNCHANGED <<head, disk, stage, approved, interrupts, edits>>

Rename ==
    /\ run.phase = "rename"
    /\ disk' = [disk EXCEPT ![Doing.path] = Doing.content]
    /\ temps' = temps \ {Temp}
    /\ run' = Stepped(run.todo \ {Doing})
    /\ UNCHANGED <<head, stage, approved, interrupts, edits>>

(* A deletion whose file is no longer the one that was approved ends the
   run.  The directories deletions empty hold nothing git records. *)
DeletableUnchecked(action) == disk[action.path] # Absent
Deletable(action) == disk[action.path] = action.previous
Delete ==
    /\ run.phase = "write" /\ run.todo # {} /\ Doing.kind = "delete"
    /\ IF Deletable(Doing)
       THEN disk' = [disk EXCEPT ![Doing.path] = Absent] /\ run' = Stepped(run.todo \ {Doing})
       ELSE run' = Idle /\ UNCHANGED disk
    /\ UNCHANGED <<head, temps, stage, approved, interrupts, edits>>

(* A failed write, rename or cancellation removes what it can; a kill leaves
   everything. *)
Fail ==
    /\ Active /\ interrupts < MaxInterrupts
    /\ run' = Idle
    /\ stage' = FALSE
    /\ temps' = IF run.phase = "rename" THEN temps \ {Temp} ELSE temps
    /\ interrupts' = interrupts + 1
    /\ UNCHANGED <<head, disk, approved, edits>>
Kill ==
    /\ Active /\ interrupts < MaxInterrupts
    /\ run' = Idle
    /\ interrupts' = interrupts + 1
    /\ UNCHANGED <<head, disk, temps, stage, approved, edits>>

-----------------------------------------------------------------------------
(* "git checkout -- . && git clean -fd". *)
Restored(path) ==
    IF path \in Tracked THEN head[path]
    ELSE IF path \in IgnoredPaths THEN disk[path] ELSE Absent
Reset ==
    /\ ~Active /\ run.phase # "finished" /\ ~Clean
    /\ run' = Idle
    /\ disk' = [p \in Paths |-> Restored(p)]
    /\ stage' = FALSE
    /\ temps' = IF TempsIgnored THEN temps ELSE {}
    /\ UNCHANGED <<head, approved, interrupts, edits>>

(* What a finished run wrote is committed; of an upgrade, also half of it. *)
Commit ==
    /\ ~Active /\ ~Clean /\ ~stage /\ (temps = {} \/ TempsIgnored)
    /\ run.phase = "finished" \/ "rootmod" \in Tracked
    /\ head' = [p \in Paths |-> IF p \in IgnoredPaths THEN head[p] ELSE disk[p]]
    /\ UNCHANGED <<disk, temps, stage, approved, run, interrupts, edits>>

(* An edit before a run, or of a file a setup under way is to remove. *)
Edit ==
    \E p \in {"ci", "source", Stray} :
        /\ edits < MaxEdits
        /\ Active => run.manifest.op = "setup" /\ p \notin SetupPayload(TRUE)
        /\ disk[p] # Absent
        /\ disk' = [disk EXCEPT ![p] = Edited]
        /\ run' = IF Active THEN run ELSE Idle
        /\ edits' = edits + 1
        /\ UNCHANGED <<head, temps, stage, approved, interrupts>>

(* The runbook's answer to a file in the way. *)
RemoveStray ==
    /\ ~Active /\ disk[Stray] # Absent
    /\ disk' = [disk EXCEPT ![Stray] = Absent]
    /\ UNCHANGED <<head, temps, stage, approved, run, interrupts, edits>>

-----------------------------------------------------------------------------
RunStep == Stage \/ Preflight \/ WriteTemp \/ Rename \/ Delete
Next == Approve \/ Apply \/ RunStep \/ Fail \/ Kill \/ Reset \/ Commit \/ Edit \/ RemoveStray
Spec == Init /\ [][Next]_vars

Latest(manifest) ==
    /\ manifest.release = Cardinality(Releases)
    /\ manifest.op = "upgrade" => manifest.profile = Cardinality(Profiles)

(* A run that is let finish does; the operator restores or commits a tree
   that is not clean, and comes back for the latest release. *)
FairSpec ==
    /\ Spec
    /\ WF_vars(RunStep) /\ WF_vars(Apply) /\ WF_vars(Reset) /\ WF_vars(RemoveStray)
    /\ SF_vars(Commit)
    /\ SF_vars(Approve /\ Latest(approved'))

-----------------------------------------------------------------------------
(* What each variable holds. *)
Contents == [by : {"nobody", "template", "setup", "operator", "profile"},
             release : {0} \cup Releases, profile : {0} \cup Profiles]
Actions == [path : Paths, kind : {"create", "replace", "update", "delete"},
            content : Contents, previous : Contents]
TypeOK ==
    /\ head \in [Paths -> Contents] /\ disk \in [Paths -> Contents]
    /\ temps \subseteq {"setup", "upgrade"} \X Paths
    /\ stage \in BOOLEAN
    /\ approved = None \/ approved.actions \subseteq Actions
    /\ run.phase \in {"idle", "stage", "preflight", "write", "rename", "finished"}
    /\ Active => run.todo \subseteq Actions
    /\ interrupts \in 0..MaxInterrupts /\ edits \in 0..MaxEdits

(* setup/apply.go:84-91 and upgrade.go's preflight: whatever was edited before
   the run or, of what it is to remove, during it, a run removes and replaces
   only what HEAD holds, so nothing the operator wrote is lost. *)
KeepsWork ==
    [][RunStep => \A p \in Paths : disk'[p] # disk[p] => disk[p] \in {Absent, head[p]}]_vars

(* docs/conflict-runbook.md:265: a run that stopped anywhere left files
   present rather than missing. *)
PresentBeforeMissing ==
    (\E p \in Tracked : disk[p] = Absent) =>
        \A p \in SetupPayload(FALSE) : disk[p] # Absent

(* A run that says it applied its manifest left every file setup owns as that
   release and profile compose it, whatever half-applied tree it started
   from. *)
AppliedIsWhole ==
    run.phase = "finished" =>
        LET m == run.manifest
            owned == IF m.op = "setup" THEN SetupPayload(m.sum) ELSE UpgradeOwned
        IN  /\ \A p \in owned : disk[p] = Composed(p, m.release, m.profile)
            /\ OwnedDirs \cap OnDisk \subseteq owned

(* setup/apply.go:47-49: an interrupted run is never a dead end: restored or
   committed, the repository ends at the latest release and profile. *)
UpToDate ==
    /\ \A p \in UpgradeOwned : head[p] = Composed(p, Cardinality(Releases), Cardinality(Profiles))
    /\ ProfileOf(head) = Cardinality(Profiles)
Completes == <>[]UpToDate
=============================================================================

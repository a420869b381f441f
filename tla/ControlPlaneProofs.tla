------------------------- MODULE ControlPlaneProofs -------------------------
(***************************************************************************)
(* Proofs about ControlPlane: that a run replaces and removes only what    *)
(* HEAD holds, that what stops anywhere leaves files present rather than   *)
(* missing, and that what is reported applied is whole, for any engine     *)
(* releases, profiles, interruptions and edits.                            *)
(***************************************************************************)
EXTENDS ControlPlane, WellFoundedInduction, TLAPS

-----------------------------------------------------------------------------
(* Manifests, and the files each of them accounts for. *)
IsManifest(m) ==
    /\ m = [op |-> m.op, release |-> m.release, profile |-> m.profile, sum |-> m.sum,
            actions |-> m.actions, kept |-> m.kept]
    /\ m.op \in {"setup", "upgrade"} /\ m.release \in Releases /\ m.profile \in {0} \cup Profiles
    /\ m.sum \in BOOLEAN /\ m.actions \subseteq Actions
    /\ \A a, b \in m.actions : a.path = b.path => a = b
Accounted(m) == IF m.op = "setup" THEN SetupPayload(m.sum) ELSE UpgradeOwned

(* What the template leaves in directories that setup owns: nothing of it is
   in a derived repository. *)
Leftovers == {"docs", "source", Stray}

Shape ==
    /\ TypeOK
    /\ run.phase = "finished" => IsManifest(run.manifest)
    /\ Active => /\ run = [phase |-> run.phase, manifest |-> run.manifest, todo |-> run.todo]
                 /\ IsManifest(run.manifest) /\ run.todo \subseteq run.manifest.actions
                 /\ run.phase = "rename" => run.todo # {} /\ First(run.todo).kind # "delete"

(* HEAD holds no ignored file, and once setup has been committed nothing it
   removes. *)
HeadInv ==
    /\ head[Stray] = Absent
    /\ "rootmod" \in Tracked => \A p \in Leftovers : head[p] = Absent /\ disk[p] = Absent

(* What is to be written is there as HEAD holds it or not at all, and what is
   to be removed was planned as HEAD holds it. *)
Safe(tree, files, m, todo) ==
    \A a \in todo :
        IF a.kind = "delete"
        THEN m.op = "setup" /\ a.previous = tree[a.path] /\ a.path \notin Accounted(m)
        ELSE /\ files[a.path] \in {Absent, tree[a.path]} /\ a.content # Absent
             /\ a.path \in Accounted(m) \cup {"profile"}
             /\ a.path \in Accounted(m) => a.content = Composed(a.path, m.release, m.profile)

(* Every file of the manifest is as it should be or still to be written, and
   every other one in the owned directories is still to be removed. *)
Due(files, m, todo) ==
    /\ \A p \in Accounted(m) :
        \/ files[p] = Composed(p, m.release, m.profile)
        \/ \E a \in todo : a.path = p /\ a.kind # "delete" /\ a.content = Composed(p, m.release, m.profile)
    /\ \A p \in OwnedDirs \ Accounted(m) : files[p] = Absent \/ \E a \in todo : a.path = p

RunInv ==
    /\ Active => Safe(head, disk, run.manifest, run.todo) /\ Due(disk, run.manifest, run.todo)
    /\ run.phase = "finished" => Due(disk, run.manifest, {})

ControlInv == Shape /\ HeadInv /\ RunInv /\ PresentBeforeMissing

-----------------------------------------------------------------------------
(* Paths and contents. *)

LEMMA PathsAre ==
    Paths = {"ci", "sync", "readme", "docs", "rootmod", "profile",
             "main", "toolsmod", "toolssum", "source", "stray"}
  BY DEF Paths, Order

LEMMA Numbers == /\ 1 \in Releases /\ 1 \in Profiles
                 /\ MaxInterrupts \in Nat /\ MaxEdits \in Nat
                 /\ 0 \in 0..MaxInterrupts /\ 0 \in 0..MaxEdits
<1>1. \A n \in Nat : 0 \in 0..n
  OBVIOUS
<1> QED BY <1>1, ControlPlaneAssumption

LEMMA OrderType == \A p \in Paths : Order[p] \in Nat
  BY PathsAre DEF Order

LEMMA ComposedType ==
    ASSUME NEW p, NEW release \in Releases, NEW profile \in {0} \cup Profiles
    PROVE  Composed(p, release, profile) \in Contents /\ Composed(p, release, profile) # Absent
  BY DEF Composed, WorkflowText, ShimModule, ShimSums, ShimProgram, RootModule, Content, Contents, Absent

LEMMA ContentTypes ==
    /\ Absent \in Contents /\ Template \in Contents /\ Edited \in Contents
    /\ Template # Absent /\ Edited # Absent
    /\ \A profile \in {0} \cup Profiles :
        ProfileText(profile) \in Contents /\ ProfileText(profile) # Absent
  BY DEF Absent, Template, Edited, ProfileText, Content, Contents

LEMMA PayloadPaths ==
    /\ \A sum \in BOOLEAN : SetupPayload(FALSE) \subseteq SetupPayload(sum)
                            /\ SetupPayload(sum) \subseteq SetupPayload(TRUE)
    /\ SetupPayload(TRUE) \subseteq Paths \ Leftovers
    /\ UpgradeOwned \subseteq Paths \ Leftovers
    /\ \A profile : UpgradePayload(profile) \subseteq Paths \ Leftovers
  BY PathsAre DEF SetupPayload, UpgradeOwned, UpgradePayload, Leftovers, Stray

LEMMA Least ==
    ASSUME NEW S, S \subseteq Nat, S # {}
    PROVE  \E n \in S : \A m \in S : n <= m
<1> DEFINE Less == OpToRel(<, Nat)
<1>1. \A x, y \in Nat : <<x, y>> \in Less <=> x < y
  BY DEF OpToRel
<1>2. IsWellFoundedOn(Less, Nat)
  BY NatLessThanWellFounded
<1> HIDE DEF Less
<1>3. PICK n \in S : \A m \in S : <<m, n>> \notin Less
  BY <1>2, WFMin
<1>4. \A m \in S : m \in Nat /\ n \in Nat /\ ~(m < n)
  BY <1>1, <1>3
<1> QED BY <1>4

(* There is a next step while anything is left to do, and a deletion is next
   only when nothing is left to write. *)
LEMMA FirstIs ==
    ASSUME NEW todo, todo \subseteq Actions, todo # {}
    PROVE  /\ First(todo) \in todo
           /\ First(todo).kind = "delete" => \A a \in todo : a.kind = "delete"
<1> DEFINE C == Current(todo)
           Places == {Order[a.path] : a \in C}
<1>1. C \subseteq todo /\ C # {} /\ ((C = todo /\ Writes(todo) = {}) \/ C = Writes(todo))
  BY DEF Current, Writes
<1> HIDE DEF C
<1>2. Places \subseteq Nat /\ Places # {}
  BY <1>1, OrderType DEF Actions
<1>3. PICK n \in Places : \A m \in Places : n <= m
  BY <1>2, Least
<1>4. \E a \in C : \A b \in C : Order[a.path] <= Order[b.path]
  BY <1>3
<1>5. First(todo) \in C
  BY <1>4 DEF First, C
<1> QED BY <1>1, <1>5 DEF Writes

-----------------------------------------------------------------------------
(* What a manifest that is planned now promises. *)

LEMMA SetupPlanned ==
    ASSUME TypeOK, HeadInv, NEW release \in Releases, NEW sum \in BOOLEAN, SetupAccepts(sum),
           NEW m, m = SetupManifest(release, sum)
    PROVE  m.op = "setup" /\ IsManifest(m) /\ Safe(head, disk, m, m.actions) /\ Due(disk, m, m.actions)
<1> DEFINE payload == SetupPayload(sum)
           gone == (Tracked \cap TemplateOwned) \ (payload \cup Retained)
           Write(p) == Written(p, IF p \in Tracked THEN "replace" ELSE "create", release, ProfileOf(disk), Absent)
<1>1. /\ m = [op |-> "setup", release |-> release, profile |-> ProfileOf(disk), sum |-> sum,
              actions |-> SetupActions(release, sum), kept |-> Tracked \cap Retained]
      /\ ProfileOf(disk) \in {0} \cup Profiles
  BY PathsAre DEF SetupManifest, TypeOK, Contents, ProfileOf
<1>2. m.actions = {Write(p) : p \in payload} \cup {Deleted(p) : p \in gone}
  BY <1>1 DEF SetupActions
<1>3. payload \subseteq Paths \ Leftovers /\ payload \subseteq SetupPayload(TRUE) /\ gone \subseteq Paths
  BY PayloadPaths DEF Tracked
<1>4. \A p \in payload : Composed(p, release, ProfileOf(disk)) \in Contents
                         /\ Composed(p, release, ProfileOf(disk)) # Absent
  BY <1>1, ComposedType
<1>5. \A p \in payload : disk[p] \in {Absent, head[p]}
  BY DEF SetupAccepts, MayWrite, Clean, Tracked
<1>6. \A p \in gone : disk[p] = head[p] /\ p \notin payload
  BY DEF SetupAccepts, Clean
<1>7. \A p \in payload : /\ Write(p) \in Actions /\ Write(p).path = p /\ Write(p).kind # "delete"
                         /\ Write(p).content = Composed(p, release, ProfileOf(disk))
  BY <1>3, <1>4, ContentTypes DEF Written, Actions
<1>8. \A p \in gone : /\ Deleted(p) \in Actions /\ Deleted(p).path = p /\ Deleted(p).kind = "delete"
                      /\ Deleted(p).previous = disk[p]
  BY <1>3, ContentTypes DEF Deleted, Actions, TypeOK
<1>9. \A p \in (OwnedDirs \cap OnDisk) \ payload : p \in gone
  BY DEF SetupAccepts, NothingUnderOwned, OwnedDirs, TemplateOwned, Retained, Kept, Stray
<1> HIDE DEF payload, gone, Write
<1>10. m.op = "setup" /\ m.release = release /\ m.profile = ProfileOf(disk) /\ m.sum = sum
  BY <1>1
<1>11. m.actions \subseteq Actions /\ \A a, b \in m.actions : a.path = b.path => a = b
  BY <1>2, <1>6, <1>7, <1>8
<1>12. IsManifest(m)
  BY <1>1, <1>10, <1>11 DEF IsManifest
<1>13. Accounted(m) = payload
  BY <1>10 DEF Accounted, payload
<1>14. Safe(head, disk, m, m.actions)
  <2> SUFFICES ASSUME NEW a \in m.actions
               PROVE  IF a.kind = "delete"
                      THEN m.op = "setup" /\ a.previous = head[a.path] /\ a.path \notin Accounted(m)
                      ELSE /\ disk[a.path] \in {Absent, head[a.path]} /\ a.content # Absent
                           /\ a.path \in Accounted(m) \cup {"profile"}
                           /\ a.path \in Accounted(m) => a.content = Composed(a.path, m.release, m.profile)
    BY DEF Safe
  <2>1. CASE \E p \in payload : a = Write(p)
    <3>1. PICK p \in payload : a = Write(p)
      BY <2>1
    <3>2. a.path = p /\ a.kind # "delete" /\ a.content # Absent
          /\ a.content = Composed(p, m.release, m.profile)
      BY <3>1, <1>4, <1>7, <1>10
    <3> QED BY <3>2, <1>5, <1>13
  <2>2. CASE \E p \in gone : a = Deleted(p)
    <3>1. PICK p \in gone : a = Deleted(p)
      BY <2>2
    <3>2. a.path = p /\ a.kind = "delete" /\ a.previous = disk[p]
      BY <3>1, <1>8
    <3> QED BY <3>2, <1>6, <1>10, <1>13
  <2> QED BY <2>1, <2>2, <1>2
<1>15. Due(disk, m, m.actions)
  <2>1. ASSUME NEW p \in Accounted(m)
        PROVE  \E a \in m.actions : a.path = p /\ a.kind # "delete"
                                    /\ a.content = Composed(p, m.release, m.profile)
    BY <2>1, <1>2, <1>7, <1>10, <1>13
  <2>2. ASSUME NEW p \in (OwnedDirs \cap OnDisk) \ Accounted(m)
        PROVE  \E a \in m.actions : a.path = p
    BY <2>2, <1>2, <1>8, <1>9, <1>13
  <2>3. OwnedDirs \subseteq Paths
    BY PathsAre DEF OwnedDirs, Stray
  <2> QED BY <2>1, <2>2, <2>3 DEF Due, OnDisk
<1> QED BY <1>10, <1>12, <1>14, <1>15

LEMMA UpgradePlanned ==
    ASSUME TypeOK, HeadInv, NEW release \in Releases, NEW profile \in Profiles, UpgradeAccepts(release, profile),
           NEW m, m = UpgradeManifest(release, profile)
    PROVE  m.op = "upgrade" /\ IsManifest(m) /\ Safe(head, disk, m, m.actions) /\ Due(disk, m, m.actions)
<1> DEFINE payload == UpgradePayload(profile)
           stale == Outdated(release, profile)
           Update(p) == [path |-> p, kind |-> IF p \in OnDisk THEN "update" ELSE "create",
                         content |-> UpgradeContent(p, release, profile), previous |-> disk[p]]
<1>1. /\ m = [op |-> "upgrade", release |-> release, profile |-> profile, sum |-> TRUE,
              actions |-> {Update(p) : p \in stale}, kept |-> payload \ stale]
  BY DEF UpgradeManifest
<1>2. m.op = "upgrade" /\ m.release = release /\ m.profile = profile /\ m.sum = TRUE
      /\ m.actions = {Update(p) : p \in stale}
  BY <1>1
<1>3. payload \subseteq Paths \ Leftovers /\ stale \subseteq payload /\ UpgradeOwned \subseteq payload
  BY PayloadPaths DEF Outdated, UpgradePayload
<1>4. \A p \in payload : UpgradeContent(p, release, profile) \in Contents
                         /\ UpgradeContent(p, release, profile) # Absent
  BY ComposedType, ContentTypes DEF UpgradeContent
<1>5. \A p \in payload : disk[p] \in {Absent, head[p]}
  BY <1>3 DEF UpgradeAccepts, Clean, Tracked, OnDisk
<1>6. \A p \in stale : /\ Update(p) \in Actions /\ Update(p).path = p /\ Update(p).kind # "delete"
                       /\ Update(p).content = UpgradeContent(p, release, profile)
  BY <1>3, <1>4 DEF Actions, TypeOK
<1>7. \A p \in UpgradeOwned : /\ UpgradeContent(p, release, profile) = Composed(p, release, profile)
                              /\ p \in stale \/ disk[p] = Composed(p, release, profile)
  BY <1>3 DEF UpgradeContent, UpgradeOwned, Outdated
<1>8. \A p \in OwnedDirs \ UpgradeOwned : disk[p] = Absent
  <2>1. "rootmod" \in Tracked
    BY DEF UpgradeAccepts, IsDerived
  <2>2. OwnedDirs \subseteq UpgradeOwned \cup Leftovers
    BY DEF OwnedDirs, UpgradeOwned, Leftovers
  <2> QED BY <2>1, <2>2 DEF HeadInv
<1> HIDE DEF payload, stale, Update
<1>9. IsManifest(m)
  <2>1. m.actions \subseteq Actions /\ \A a, b \in m.actions : a.path = b.path => a = b
    BY <1>2, <1>6
  <2> QED BY <1>1, <1>2, <2>1 DEF IsManifest
<1>10. Accounted(m) = UpgradeOwned
  BY <1>2 DEF Accounted
<1>11. Safe(head, disk, m, m.actions)
  <2>1. payload \subseteq UpgradeOwned \cup {"profile"}
    BY DEF payload, UpgradePayload
  <2> QED BY <2>1, <1>2, <1>3, <1>4, <1>5, <1>6, <1>7, <1>10 DEF Safe
<1>12. Due(disk, m, m.actions)
  BY <1>2, <1>6, <1>7, <1>8, <1>10 DEF Due
<1> QED BY <1>2, <1>9, <1>11, <1>12

LEMMA Planned ==
    ASSUME TypeOK, HeadInv, NEW m \in Manifests
    PROVE  IsManifest(m) /\ Safe(head, disk, m, m.actions) /\ Due(disk, m, m.actions)
<1>1. \/ \E release \in Releases, sum \in BOOLEAN : SetupAccepts(sum) /\ m = SetupManifest(release, sum)
      \/ \E release \in Releases, profile \in Profiles :
            UpgradeAccepts(release, profile) /\ m = UpgradeManifest(release, profile)
  BY DEF Manifests, SetupRequests, UpgradeRequests
<1> QED BY <1>1, SetupPlanned, UpgradePlanned

-----------------------------------------------------------------------------
(* A run, and what it has left to do. *)
Running(m, todo, phase) ==
    /\ run = [phase |-> phase, manifest |-> m, todo |-> todo]
    /\ phase \in {"stage", "preflight", "write", "rename"}
    /\ IsManifest(m) /\ todo \subseteq m.actions /\ todo \subseteq Actions
    /\ Safe(head, disk, m, todo) /\ Due(disk, m, todo)
    /\ phase = "rename" => todo # {} /\ First(todo).kind # "delete"

LEMMA RunIs ==
    ASSUME ControlInv, Active
    PROVE  \E m, todo, phase : Running(m, todo, phase)
<1>1. Running(run.manifest, run.todo, run.phase)
  BY DEF ControlInv, Shape, RunInv, Running, IsManifest, TypeOK, Active
<1> QED BY <1>1

LEMMA SameTree ==
    ASSUME HeadInv, PresentBeforeMissing, head' = head, disk' = disk
    PROVE  HeadInv' /\ PresentBeforeMissing'
  BY DEF HeadInv, PresentBeforeMissing, Tracked

LEMMA Resting ==
    ASSUME TypeOK', HeadInv', PresentBeforeMissing',
           \/ run'.phase = "idle"
           \/ run'.phase = "finished" /\ IsManifest(run'.manifest) /\ Due(disk', run'.manifest, {})
    PROVE  ControlInv'
  BY DEF ControlInv, Shape, RunInv, Active

LEMMA Continuing ==
    ASSUME TypeOK', HeadInv', PresentBeforeMissing', NEW m, NEW todo, NEW phase, Running(m, todo, phase)'
    PROVE  ControlInv'
<1>1. run'.phase = phase /\ run'.manifest = m /\ run'.todo = todo /\ phase # "finished"
  BY DEF Running
<1>2. RunInv'
  BY <1>1 DEF RunInv, Running
<1>3. Shape'
  BY <1>1 DEF Shape, Running
<1> QED BY <1>2, <1>3 DEF ControlInv

(* One write done: the rest is as safe, and the file is accounted for. *)
LEMMA Wrote ==
    ASSUME NEW m, IsManifest(m), NEW todo, todo \subseteq m.actions, NEW files, NEW tree,
           DOMAIN files = Paths, Safe(tree, files, m, todo), Due(files, m, todo),
           NEW a \in todo, a.kind # "delete", a.path \in Paths,
           NEW next, next = [files EXCEPT ![a.path] = a.content]
    PROVE  Safe(tree, next, m, todo \ {a}) /\ Due(next, m, todo \ {a})
<1>1. \A b \in todo \ {a} : b.path # a.path
  BY DEF IsManifest
<1>2. next[a.path] = a.content /\ \A p : p # a.path => next[p] = files[p]
  OBVIOUS
<1>3. Safe(tree, next, m, todo \ {a})
  BY <1>1, <1>2 DEF Safe
<1>4. Due(next, m, todo \ {a})
  <2>1. a.path \in Accounted(m) => a.content = Composed(a.path, m.release, m.profile)
    BY DEF Safe
  <2>2. a.path \in OwnedDirs => a.path \in Accounted(m)
    BY DEF Safe, OwnedDirs, Stray
  <2>3. ASSUME NEW p \in Accounted(m)
        PROVE  \/ next[p] = Composed(p, m.release, m.profile)
               \/ \E b \in todo \ {a} : b.path = p /\ b.kind # "delete"
                                        /\ b.content = Composed(p, m.release, m.profile)
    BY <2>1, <1>2 DEF Due
  <2>4. ASSUME NEW p \in OwnedDirs \ Accounted(m)
        PROVE  next[p] = Absent \/ \E b \in todo \ {a} : b.path = p
    BY <2>2, <1>2 DEF Due
  <2> QED BY <2>3, <2>4 DEF Due
<1> QED BY <1>3, <1>4

(* One deletion done, when only deletions were left. *)
LEMMA Removed ==
    ASSUME NEW m, IsManifest(m), NEW todo, todo \subseteq m.actions, NEW files, NEW tree,
           DOMAIN files = Paths, Safe(tree, files, m, todo), Due(files, m, todo),
           NEW a \in todo, \A b \in todo : b.kind = "delete", a.path \in Paths,
           NEW next, next = [files EXCEPT ![a.path] = Absent]
    PROVE  /\ Safe(tree, next, m, todo \ {a}) /\ Due(next, m, todo \ {a})
           /\ m.op = "setup" /\ \A p \in Accounted(m) : next[p] = Composed(p, m.release, m.profile)
<1>1. next[a.path] = Absent /\ \A p : p # a.path => next[p] = files[p]
  OBVIOUS
<1>2. m.op = "setup" /\ a.path \notin Accounted(m)
  BY DEF Safe
<1>3. \A p \in Accounted(m) : next[p] = Composed(p, m.release, m.profile)
  BY <1>1, <1>2 DEF Due
<1>4. Safe(tree, next, m, todo \ {a})
  BY DEF Safe
<1>5. Due(next, m, todo \ {a})
  BY <1>1, <1>3 DEF Due
<1> QED BY <1>2, <1>3, <1>4, <1>5

-----------------------------------------------------------------------------
(* Steps. *)

LEMMA InitInv == Init => ControlInv
<1> SUFFICES ASSUME Init PROVE ControlInv
  OBVIOUS
<1>1. head \in [Paths -> Contents] /\ disk \in [Paths -> Contents]
  <2>1. 1 \in {0} \cup Profiles
    BY Numbers
  <2>2. head \in [Paths -> Contents]
    BY <2>1, Numbers, ContentTypes DEF Init, TemplateTree
  <2> QED BY <2>2, ContentTypes DEF Init
<1>2. head[Stray] = Absent /\ head["rootmod"] = Absent
  BY PathsAre DEF Init, TemplateTree, Stray, Kept
<1>3. \A p \in Paths : head[p] # Absent => disk[p] # Absent
  BY <1>1, ContentTypes DEF Init
<1>4. HeadInv /\ PresentBeforeMissing
  BY <1>2, <1>3 DEF HeadInv, PresentBeforeMissing, Tracked
<1>5. TypeOK /\ run.phase = "idle"
  BY <1>1, Numbers DEF Init, TypeOK, Idle, Active
<1> QED BY <1>4, <1>5 DEF ControlInv, Shape, RunInv, Active

LEMMA ApproveKeeps == ASSUME ControlInv, Approve PROVE ControlInv'
<1>1. TypeOK' /\ run'.phase = "idle"
  <2>1. IsManifest(approved')
    BY Planned DEF Approve, ControlInv, Shape
  <2> QED BY <2>1 DEF Approve, ControlInv, Shape, TypeOK, Idle, Active, IsManifest
<1>2. HeadInv' /\ PresentBeforeMissing'
  BY SameTree DEF Approve, ControlInv
<1> QED BY <1>1, <1>2, Resting

LEMMA ApplyKeeps == ASSUME ControlInv, Apply PROVE ControlInv'
<1>1. HeadInv' /\ PresentBeforeMissing'
  BY SameTree DEF Apply, ControlInv
<1>2. ASSUME approved \notin Manifests PROVE ControlInv'
  <2>1. TypeOK' /\ run'.phase = "idle"
    BY <1>2 DEF Apply, ControlInv, Shape, TypeOK, Idle, Active, None
  <2> QED BY <1>1, <2>1, Resting
<1>3. ASSUME approved \in Manifests PROVE ControlInv'
  <2>1. PICK m : m = approved /\ IsManifest(m) /\ Safe(head, disk, m, m.actions) /\ Due(disk, m, m.actions)
    BY <1>3, Planned DEF ControlInv, Shape
  <2>2. m.actions \subseteq Actions
    BY <2>1 DEF IsManifest
  <2>3. CASE run'.phase \in {"stage", "preflight"}
    <3>1. PICK phase \in {"stage", "preflight"} : run' = [phase |-> phase, manifest |-> m, todo |-> m.actions]
      BY <1>3, <2>1, <2>3 DEF Apply, Begin, Finished
    <3>2. Running(m, m.actions, phase)'
      BY <2>1, <2>2, <3>1 DEF Running, Apply
    <3>3. TypeOK'
      BY <2>2, <3>1 DEF Apply, ControlInv, Shape, TypeOK, None
    <3> QED BY <1>1, <3>2, <3>3, Continuing
  <2>4. CASE run'.phase \notin {"stage", "preflight"}
    <3>1. run' = [phase |-> "finished", manifest |-> m] /\ m.actions = {}
      BY <1>3, <2>1, <2>4 DEF Apply, Begin, Finished
    <3>2. TypeOK'
      BY <3>1 DEF Apply, ControlInv, Shape, TypeOK, None, Active
    <3>3. run'.phase = "finished" /\ IsManifest(run'.manifest) /\ Due(disk', run'.manifest, {})
      BY <2>1, <3>1 DEF Apply
    <3> QED BY <1>1, <3>2, <3>3, Resting
  <2> QED BY <2>3, <2>4
<1> QED BY <1>2, <1>3

LEMMA StageKeeps == ASSUME ControlInv, Stage PROVE ControlInv'
<1>1. HeadInv' /\ PresentBeforeMissing'
  BY SameTree DEF Stage, ControlInv
<1>2. PICK m, todo, phase : Running(m, todo, phase)
  BY RunIs DEF Stage, Active
<1>3. PICK next \in {"stage", "write"} : run' = [phase |-> next, manifest |-> m, todo |-> todo]
  BY <1>2 DEF Stage, Running
<1>4. Running(m, todo, next)'
  BY <1>2, <1>3 DEF Running, Stage
<1>5. TypeOK'
  BY <1>2, <1>3 DEF Stage, ControlInv, Shape, TypeOK, Running
<1> QED BY <1>1, <1>4, <1>5, Continuing

LEMMA PreflightKeeps == ASSUME ControlInv, Preflight PROVE ControlInv'
<1>1. HeadInv' /\ PresentBeforeMissing'
  BY SameTree DEF Preflight, ControlInv
<1>2. PICK m, todo, phase : Running(m, todo, phase)
  BY RunIs DEF Preflight, Active
<1>3. CASE run' = Idle
  <2>1. TypeOK' /\ run'.phase = "idle"
    BY <1>3 DEF Preflight, ControlInv, Shape, TypeOK, Idle, Active
  <2> QED BY <1>1, <2>1, Resting
<1>4. CASE run' # Idle
  <2>1. run' = [phase |-> "write", manifest |-> m, todo |-> todo]
    BY <1>2, <1>4 DEF Preflight, Running
  <2>2. Running(m, todo, "write")'
    BY <1>2, <2>1 DEF Running, Preflight
  <2>3. TypeOK'
    BY <1>2, <2>1 DEF Preflight, ControlInv, Shape, TypeOK, Running
  <2> QED BY <1>1, <2>2, <2>3, Continuing
<1> QED BY <1>3, <1>4

LEMMA WriteTempKeeps == ASSUME ControlInv, WriteTemp PROVE ControlInv'
<1>1. HeadInv' /\ PresentBeforeMissing'
  BY SameTree DEF WriteTemp, ControlInv
<1>2. PICK m, todo, phase : Running(m, todo, phase)
  BY RunIs DEF WriteTemp, Active
<1>3. First(todo) \in todo /\ todo # {} /\ run.todo = todo /\ run.manifest = m
  BY <1>2, FirstIs DEF Running, WriteTemp
<1>4. temps' \subseteq {"setup", "upgrade"} \X Paths
  BY <1>2, <1>3 DEF WriteTemp, Temp, Doing, Running, IsManifest, Actions, ControlInv, Shape, TypeOK
<1>5. CASE run' = Idle
  <2>1. TypeOK' /\ run'.phase = "idle"
    BY <1>4, <1>5 DEF WriteTemp, ControlInv, Shape, TypeOK, Idle, Active
  <2> QED BY <1>1, <2>1, Resting
<1>6. CASE run' # Idle
  <2>1. run' = [phase |-> "rename", manifest |-> m, todo |-> todo]
    BY <1>2, <1>6 DEF WriteTemp, Running
  <2>2. Running(m, todo, "rename")'
    BY <1>2, <1>3, <2>1 DEF Running, WriteTemp, Doing
  <2>3. TypeOK'
    BY <1>2, <1>4, <2>1 DEF WriteTemp, ControlInv, Shape, TypeOK, Running
  <2> QED BY <1>1, <2>2, <2>3, Continuing
<1> QED BY <1>5, <1>6

LEMMA RenameKeeps ==
    ASSUME ControlInv, Rename
    PROVE  /\ ControlInv'
           /\ \A p \in Paths : disk'[p] # disk[p] => disk[p] \in {Absent, head[p]}
<1>1. PICK m, todo, phase : Running(m, todo, phase)
  BY RunIs DEF Rename, Active
<1>2. run.todo = todo /\ run.manifest = m /\ todo # {} /\ First(todo).kind # "delete"
  BY <1>1 DEF Running, Rename
<1>3. PICK a \in todo : a = First(todo) /\ a.kind # "delete" /\ a.path \in Paths /\ a.content \in Contents
  BY <1>1, <1>2, FirstIs DEF Running, Actions
<1>4. head' = head /\ disk' = [disk EXCEPT ![a.path] = a.content] /\ run' = Stepped(todo \ {a})
      /\ temps' \subseteq temps
  BY <1>2, <1>3 DEF Rename, Doing
<1>5. disk \in [Paths -> Contents] /\ disk' \in [Paths -> Contents]
  BY <1>3, <1>4 DEF ControlInv, Shape, TypeOK
<1>6. Safe(head, disk', m, todo \ {a}) /\ Due(disk', m, todo \ {a})
  BY <1>1, <1>3, <1>4, <1>5, Wrote DEF Running
<1>7. /\ disk[a.path] \in {Absent, head[a.path]} /\ a.content # Absent
      /\ a.path \notin Leftovers
  <2>1. Accounted(m) \subseteq Paths \ Leftovers /\ "profile" \notin Leftovers
    BY <1>1, PayloadPaths DEF Accounted, Leftovers, Stray, Running, IsManifest
  <2> QED BY <1>1, <1>3, <2>1 DEF Running, Safe
<1>8. \A p \in Paths : disk'[p] # disk[p] => p = a.path
  BY <1>4, <1>5
<1>9. HeadInv' /\ PresentBeforeMissing'
  <2>1. HeadInv'
    BY <1>4, <1>5, <1>7, <1>8, PathsAre DEF HeadInv, Tracked, Leftovers, Stray, ControlInv
  <2>2. \A p \in Paths : disk'[p] = Absent => disk[p] = Absent
    BY <1>4, <1>5, <1>7, <1>8
  <2>3. SetupPayload(FALSE) \subseteq Paths /\ Tracked' = Tracked /\ Tracked \subseteq Paths
    BY <1>4, PayloadPaths DEF Tracked
  <2> QED BY <2>1, <2>2, <2>3 DEF PresentBeforeMissing, ControlInv
<1>10. CASE todo \ {a} = {}
  <2>1. run' = [phase |-> "finished", manifest |-> m]
    BY <1>2, <1>4, <1>10 DEF Stepped, Finished
  <2>2. TypeOK'
    BY <1>4, <1>5, <2>1 DEF Rename, ControlInv, Shape, TypeOK, Active
  <2>3. run'.phase = "finished" /\ run'.manifest = m /\ IsManifest(m) /\ Due(disk', m, {})
    BY <1>1, <1>6, <1>10, <2>1 DEF Running
  <2> QED BY <1>7, <1>8, <1>9, <2>2, <2>3, Resting
<1>11. CASE todo \ {a} # {}
  <2>1. run' = [phase |-> "write", manifest |-> m, todo |-> todo \ {a}]
    BY <1>1, <1>2, <1>4, <1>11 DEF Stepped, Running
  <2>2. Running(m, todo \ {a}, "write")'
    BY <1>1, <1>4, <1>6, <2>1 DEF Running
  <2>3. TypeOK'
    <3>1. run'.phase = "write" /\ run'.todo = todo \ {a} /\ todo \ {a} \subseteq Actions
      BY <1>1, <2>1 DEF Running
    <3> QED BY <1>4, <1>5, <3>1 DEF Rename, ControlInv, Shape, TypeOK
  <2> QED BY <1>7, <1>8, <1>9, <2>2, <2>3, Continuing
<1> QED BY <1>10, <1>11

LEMMA DeleteKeeps ==
    ASSUME ControlInv, Delete
    PROVE  /\ ControlInv'
           /\ \A p \in Paths : disk'[p] # disk[p] => disk[p] \in {Absent, head[p]}
<1>1. PICK m, todo, phase : Running(m, todo, phase)
  BY RunIs DEF Delete, Active
<1>2. run.todo = todo /\ run.manifest = m /\ todo # {}
  BY <1>1 DEF Running, Delete
<1>3. PICK a \in todo : /\ a = First(todo) /\ a.path \in Paths
                        /\ \A b \in todo : b.kind = "delete"
  BY <1>1, <1>2, FirstIs DEF Running, Actions, Delete, Doing
<1>4. head' = head /\ temps' = temps
  BY DEF Delete
<1>5. CASE ~Deletable(a)
  <2>1. run' = Idle /\ disk' = disk
    BY <1>2, <1>3, <1>5 DEF Delete, Doing
  <2>2. HeadInv' /\ PresentBeforeMissing'
    BY <1>4, <2>1, SameTree DEF ControlInv
  <2>3. TypeOK' /\ run'.phase = "idle"
    BY <1>4, <2>1 DEF Delete, ControlInv, Shape, TypeOK, Idle, Active
  <2> QED BY <2>1, <2>2, <2>3, Resting
<1>6. CASE Deletable(a)
  <2>1. disk' = [disk EXCEPT ![a.path] = Absent] /\ run' = Stepped(todo \ {a})
    BY <1>2, <1>3, <1>6 DEF Delete, Doing
  <2>2. disk \in [Paths -> Contents] /\ disk' \in [Paths -> Contents]
    BY <1>3, <2>1, ContentTypes DEF ControlInv, Shape, TypeOK
  <2>3. /\ Safe(head, disk', m, todo \ {a}) /\ Due(disk', m, todo \ {a})
        /\ m.op = "setup" /\ \A p \in Accounted(m) : disk'[p] = Composed(p, m.release, m.profile)
    <3>1. IsManifest(m) /\ todo \subseteq m.actions /\ Safe(head, disk, m, todo) /\ Due(disk, m, todo)
      BY <1>1 DEF Running
    <3>2. DOMAIN disk = Paths
      BY <2>2
    <3>3. a \in todo /\ a.path \in Paths /\ (\A b \in todo : b.kind = "delete")
      BY <1>3
    <3>4. disk' = [disk EXCEPT ![a.path] = Absent]
      BY <2>1
    <3>5. Safe(head, disk', m, todo \ {a}) /\ Due(disk', m, todo \ {a})
      BY <3>1, <3>2, <3>3, <3>4, Removed
    <3>6. m.op = "setup" /\ a.path \notin Accounted(m)
      BY <3>1, <3>3 DEF Safe
    <3>7. \A p \in Accounted(m) : disk[p] = Composed(p, m.release, m.profile)
      BY <3>1, <3>3 DEF Due
    <3>8. \A p \in Accounted(m) : disk'[p] = disk[p]
      <4>1. Accounted(m) \subseteq Paths
        BY <3>1, PayloadPaths DEF IsManifest, Accounted
      <4> QED BY <2>2, <3>4, <3>6, <4>1
    <3> QED BY <3>5, <3>6, <3>7, <3>8
  <2>4. disk[a.path] = head[a.path]
    BY <1>1, <1>3, <1>6 DEF Running, Safe, Deletable
  <2>5. \A p \in Paths : disk'[p] # disk[p] => p = a.path /\ disk'[p] = Absent
    BY <2>1, <2>2
  <2>6. HeadInv'
    BY <1>4, <2>5, PathsAre DEF HeadInv, Tracked, Leftovers, Stray, ControlInv
  <2>7. PresentBeforeMissing'
    <3>1. SetupPayload(FALSE) \subseteq Accounted(m)
      BY <1>1, <2>3, PayloadPaths DEF Accounted, Running, IsManifest
    <3>2. \A p \in Accounted(m) : disk'[p] # Absent
      BY <1>1, <2>3, ComposedType DEF Running, IsManifest
    <3> QED BY <3>1, <3>2 DEF PresentBeforeMissing
  <2>8. CASE todo \ {a} = {}
    <3>1. run' = [phase |-> "finished", manifest |-> m]
      BY <1>2, <2>1, <2>8 DEF Stepped, Finished
    <3>2. TypeOK'
      BY <1>4, <2>2, <3>1 DEF Delete, ControlInv, Shape, TypeOK, Active
    <3>3. run'.phase = "finished" /\ run'.manifest = m /\ IsManifest(m) /\ Due(disk', m, {})
      BY <1>1, <2>3, <2>8, <3>1 DEF Running
    <3> QED BY <2>4, <2>5, <2>6, <2>7, <3>2, <3>3, Resting
  <2>9. CASE todo \ {a} # {}
    <3>1. run' = [phase |-> "write", manifest |-> m, todo |-> todo \ {a}]
      BY <1>1, <1>2, <2>1, <2>9 DEF Stepped, Running
    <3>2. Running(m, todo \ {a}, "write")'
      BY <1>1, <1>4, <2>3, <3>1 DEF Running
    <3>3. run'.phase = "write" /\ run'.todo = todo \ {a} /\ todo \ {a} \subseteq Actions
      BY <1>1, <3>1 DEF Running
    <3>4. TypeOK'
      BY <1>4, <2>2, <3>3 DEF Delete, ControlInv, Shape, TypeOK
    <3> QED BY <2>4, <2>5, <2>6, <2>7, <3>2, <3>4, Continuing
  <2> QED BY <2>8, <2>9
<1> QED BY <1>5, <1>6

LEMMA InterruptKeeps == ASSUME ControlInv, Fail \/ Kill PROVE ControlInv'
<1>1. HeadInv' /\ PresentBeforeMissing'
  BY SameTree DEF Fail, Kill, ControlInv
<1>2. interrupts' \in 0..MaxInterrupts
  BY Numbers DEF Fail, Kill, ControlInv, Shape, TypeOK
<1>3. run' = Idle /\ head' = head /\ disk' = disk /\ approved' = approved /\ edits' = edits
      /\ temps' \subseteq temps /\ stage' \in BOOLEAN
  BY DEF Fail, Kill, ControlInv, Shape, TypeOK
<1>4. TypeOK' /\ run'.phase = "idle"
  BY <1>2, <1>3 DEF ControlInv, Shape, TypeOK, Idle, Active
<1> QED BY <1>1, <1>4, Resting

LEMMA ResetKeeps == ASSUME ControlInv, Reset PROVE ControlInv'
<1>1. /\ head' = head /\ disk' \in [Paths -> Contents] /\ run' = Idle
      /\ \A p \in Paths : disk'[p] = Restored(p)
  BY ContentTypes DEF Reset, Restored, ControlInv, Shape, TypeOK
<1>2. TypeOK' /\ run'.phase = "idle"
  <2>1. temps' \subseteq temps /\ stage' \in BOOLEAN
    BY DEF Reset
  <2> QED BY <1>1, <2>1 DEF Reset, ControlInv, Shape, TypeOK, Idle, Active
<1>3. HeadInv'
  BY <1>1, PathsAre DEF HeadInv, Tracked, Leftovers, Stray, Restored, IgnoredPaths, ControlInv
<1>4. \A p \in Tracked' : p \in Paths /\ disk'[p] = head'[p] /\ head'[p] # Absent
  BY <1>1 DEF Tracked, Restored
<1>5. PresentBeforeMissing'
  BY <1>4 DEF PresentBeforeMissing
<1> QED BY <1>2, <1>3, <1>5, Resting

LEMMA CommitKeeps == ASSUME ControlInv, Commit PROVE ControlInv'
<1>1. /\ disk' = disk /\ run' = run /\ ~Active /\ head \in [Paths -> Contents] /\ disk \in [Paths -> Contents]
      /\ head' \in [Paths -> Contents]
      /\ \A p \in Paths : head'[p] = IF p = Stray THEN head[p] ELSE disk[p]
  BY DEF Commit, ControlInv, Shape, TypeOK, IgnoredPaths
<1>2. TypeOK'
  BY <1>1 DEF Commit, ControlInv, Shape, TypeOK, Active
<1>3. head'[Stray] = Absent
  BY <1>1, PathsAre DEF ControlInv, HeadInv, Stray
<1>4. \A p \in Leftovers : disk[p] = Absent
  <2>1. CASE run.phase = "finished"
    <3>1. IsManifest(run.manifest) /\ Due(disk, run.manifest, {})
      BY <2>1 DEF ControlInv, Shape, RunInv
    <3>2. Leftovers \subseteq OwnedDirs \ Accounted(run.manifest)
      BY <3>1, PayloadPaths DEF IsManifest, Accounted, Leftovers, OwnedDirs, Stray
    <3> QED BY <3>1, <3>2 DEF Due
  <2>2. CASE "rootmod" \in Tracked
    BY <2>2 DEF ControlInv, HeadInv
  <2> QED BY <2>1, <2>2 DEF Commit
<1>5. HeadInv'
  <2>1. \A p \in Leftovers : head'[p] = Absent /\ disk'[p] = Absent
    BY <1>1, <1>3, <1>4, PathsAre DEF Leftovers, Stray
  <2> QED BY <1>3, <2>1 DEF HeadInv
<1>6. \A p \in Tracked' : disk'[p] # Absent
  BY <1>1, <1>3 DEF Tracked
<1>7. PresentBeforeMissing'
  BY <1>6 DEF PresentBeforeMissing
<1>8. run'.phase = run.phase /\ run.phase \in {"idle", "finished"}
      /\ (run.phase = "finished" => IsManifest(run'.manifest) /\ Due(disk', run'.manifest, {}))
  BY <1>1 DEF ControlInv, Shape, RunInv, Active
<1> QED BY <1>2, <1>5, <1>7, <1>8, Resting

LEMMA EditKeeps == ASSUME ControlInv, Edit PROVE ControlInv'
<1>1. PICK p \in {"ci", "source", Stray} :
        /\ Active => run.manifest.op = "setup" /\ p \notin SetupPayload(TRUE)
        /\ disk[p] # Absent
        /\ disk' = [disk EXCEPT ![p] = Edited]
        /\ run' = IF Active THEN run ELSE Idle
        /\ edits < MaxEdits /\ edits' = edits + 1
        /\ UNCHANGED <<head, temps, stage, approved, interrupts>>
  BY DEF Edit
<1>2. p \in Paths
  BY <1>1, PathsAre DEF Stray
<1>3. disk \in [Paths -> Contents] /\ disk' \in [Paths -> Contents]
  BY <1>1, ContentTypes DEF ControlInv, Shape, TypeOK
<1>4. edits' \in 0..MaxEdits
  BY <1>1, Numbers DEF ControlInv, Shape, TypeOK
<1>5. \A q \in Paths : (disk'[q] = Absent <=> disk[q] = Absent) /\ (q # p => disk'[q] = disk[q])
  BY <1>1, <1>3, ContentTypes
<1>6. HeadInv'
  BY <1>1, <1>5, PathsAre DEF ControlInv, HeadInv, Tracked, Leftovers, Stray
<1>7. PresentBeforeMissing'
  <2>1. SetupPayload(FALSE) \subseteq Paths /\ Tracked' = Tracked /\ Tracked \subseteq Paths
    BY <1>1, PayloadPaths DEF Tracked
  <2> QED BY <1>5, <2>1 DEF ControlInv, PresentBeforeMissing
<1>8. CASE ~Active
  <2>1. TypeOK' /\ run'.phase = "idle"
    BY <1>1, <1>3, <1>4, <1>8 DEF ControlInv, Shape, TypeOK, Idle, Active
  <2> QED BY <1>6, <1>7, <2>1, Resting
<1>9. CASE Active
  <2>1. PICK m, todo, phase : Running(m, todo, phase)
    BY <1>9, RunIs
  <2>2. run' = run /\ m.op = "setup" /\ p \notin SetupPayload(TRUE)
    BY <1>1, <1>9, <2>1 DEF Running
  <2>3. p \notin Accounted(m) \cup {"profile"} /\ Accounted(m) \cup OwnedDirs \subseteq Paths
    BY <1>1, <2>1, <2>2, PayloadPaths, PathsAre DEF Accounted, Running, IsManifest, Stray, OwnedDirs
  <2>4. Safe(head, disk', m, todo)
    <3>1. \A a \in todo : a.path \in Paths
      BY <2>1 DEF Running, Actions
    <3> QED BY <1>5, <2>1, <2>2, <2>3, <3>1 DEF Safe, Running
  <2>5. Due(disk', m, todo)
    BY <1>5, <2>1, <2>3 DEF Due, Running
  <2>6. Running(m, todo, phase)'
    BY <1>1, <2>1, <2>2, <2>4, <2>5 DEF Running
  <2>7. TypeOK'
    BY <1>1, <1>3, <1>4, <2>2 DEF ControlInv, Shape, TypeOK, Active
  <2> QED BY <1>6, <1>7, <2>6, <2>7, Continuing
<1> QED BY <1>8, <1>9

LEMMA RemoveStrayKeeps == ASSUME ControlInv, RemoveStray PROVE ControlInv'
<1>1. /\ disk' = [disk EXCEPT ![Stray] = Absent] /\ run' = run /\ head' = head /\ ~Active
      /\ disk \in [Paths -> Contents] /\ disk' \in [Paths -> Contents]
  BY ContentTypes DEF RemoveStray, ControlInv, Shape, TypeOK
<1>2. TypeOK'
  BY <1>1 DEF RemoveStray, ControlInv, Shape, TypeOK, Active
<1>3. \A q \in Paths : disk'[q] = IF q = Stray THEN Absent ELSE disk[q]
  BY <1>1
<1>4. HeadInv'
  BY <1>1, <1>3, PathsAre DEF ControlInv, HeadInv, Tracked, Leftovers, Stray
<1>5. PresentBeforeMissing'
  <2>1. Stray \notin Tracked /\ Tracked' = Tracked /\ Tracked \subseteq Paths
    BY <1>1 DEF ControlInv, HeadInv, Tracked
  <2>2. SetupPayload(FALSE) \subseteq Paths \ {Stray}
    BY PayloadPaths DEF Leftovers
  <2> QED BY <1>3, <2>1, <2>2 DEF ControlInv, PresentBeforeMissing
<1>6. run'.phase = run.phase /\ run.phase \in {"idle", "finished"}
  BY <1>1 DEF ControlInv, Shape, TypeOK, Active
<1>7. ASSUME run.phase = "finished"
      PROVE  IsManifest(run'.manifest) /\ Due(disk', run'.manifest, {})
  <2>1. PICK m : m = run.manifest /\ IsManifest(m) /\ Due(disk, m, {})
    BY <1>7 DEF ControlInv, Shape, RunInv
  <2>2. Accounted(m) \subseteq Paths \ {Stray} /\ OwnedDirs \subseteq Paths
    BY <2>1, PayloadPaths, PathsAre DEF Accounted, IsManifest, Leftovers, OwnedDirs, Stray
  <2>3. Due(disk', m, {})
    BY <1>3, <2>1, <2>2 DEF Due
  <2> QED BY <1>1, <2>1, <2>3
<1> QED BY <1>2, <1>4, <1>5, <1>6, <1>7, Resting

-----------------------------------------------------------------------------
(* Theorems. *)

(* The control plane's state is coherent at every moment: a run's manifest is
   the one planned from the tree it works on, what is left of it is safe and
   sufficient, and HEAD is a template or a derived repository. *)
THEOREM ControlHolds == Spec => []ControlInv
<1>1. ControlInv /\ [Next]_vars => ControlInv'
  <2> SUFFICES ASSUME ControlInv, [Next]_vars PROVE ControlInv'
    OBVIOUS
  <2>1. CASE UNCHANGED vars
    BY <2>1 DEF vars, ControlInv, Shape, TypeOK, HeadInv, RunInv, PresentBeforeMissing, Active, Tracked
  <2>2. CASE Next
    BY <2>2, ApproveKeeps, ApplyKeeps, StageKeeps, PreflightKeeps, WriteTempKeeps, RenameKeeps, DeleteKeeps,
       InterruptKeeps, ResetKeeps, CommitKeeps, EditKeeps, RemoveStrayKeeps DEF Next, RunStep
  <2> QED BY <2>1, <2>2
<1> QED BY InitInv, <1>1, PTL DEF Spec

(* Every variable holds what the code's types let it hold. *)
THEOREM TypeCorrect == Spec => []TypeOK
<1>1. ControlInv => TypeOK
  BY DEF ControlInv, Shape
<1> QED BY <1>1, ControlHolds, PTL

(* A run of setup or upgrade replaces and removes only what HEAD holds: an
   edit made before it, or during it to a file that setup is to remove, is not
   lost (ControlPlane's Edit makes no others: a replaced file is not looked at
   again). *)
THEOREM WorkKept == Spec => KeepsWork
<1>1. ControlInv /\ [Next]_vars
        => [RunStep => \A p \in Paths : disk'[p] # disk[p] => disk[p] \in {Absent, head[p]}]_vars
  <2> SUFFICES ASSUME ControlInv, RunStep
               PROVE  \A p \in Paths : disk'[p] # disk[p] => disk[p] \in {Absent, head[p]}
    OBVIOUS
  <2>1. CASE Stage \/ Preflight \/ WriteTemp
    BY <2>1 DEF Stage, Preflight, WriteTemp
  <2> QED BY <2>1, RenameKeeps, DeleteKeeps DEF RunStep
<1> QED BY <1>1, ControlHolds, PTL DEF Spec, KeepsWork

(* A run that stopped anywhere has left every file setup composes present if
   it has removed any: the writes come first. *)
THEOREM NothingMissing == Spec => []PresentBeforeMissing
<1>1. ControlInv => PresentBeforeMissing
  BY DEF ControlInv
<1> QED BY <1>1, ControlHolds, PTL

(* A run that says it applied its manifest, setup or upgrade, from a clean
   tree or one half applied before, left all of it in place and nothing else
   in the directories it owns. *)
THEOREM AppliedWhole == Spec => []AppliedIsWhole
<1>1. ControlInv => AppliedIsWhole
  BY DEF ControlInv, Shape, RunInv, AppliedIsWhole, Due, Accounted, OnDisk
<1> QED BY <1>1, ControlHolds, PTL
=============================================================================

# Soapbox, modelled and proved

Soapbox extracts packages of a large Go module (Kubernetes, in its own
profile) into a small module of their own, replays the upstream history of
those packages into a destination repository, and publishes upstream's
releases there, unattended and append-only. The engine is the Go module under
`src/tools`. This directory holds TLA+ models of its stateful parts, the TLC
configurations that check them, and TLAPS proofs of the results that matter
most. Source paths below are relative to `src/tools/internal` unless they start
with `src/`.

Contents: [the system](#the-system) · [the modules](#the-modules) ·
[the runs](#the-runs) · [fairness](#fairness) · [the proofs](#the-proofs) ·
[where code and words disagree](#where-code-and-words-disagree) ·
[what is not modelled](#what-is-not-modelled) · [the plan](#the-plan)

## The system

A run of the engine is one process, started by a scheduled workflow or by an
operator. Nothing outlives it but four things, which it shares with other runs
and with people:

* the **destination repository**: a branch, release tags, a state ref whose
  commits hold the state record, and one progress ref for each release that is
  being replayed;
* the **upstream repository**, which others move;
* the **source cache**, a bare clone of upstream and its work tree
  registrations, shared by the plans of one process or several;
* the **version index**, a local file of upstream versions, and the files of
  the control plane that setup and upgrade write.

### Components

| component | code | state it keeps | operations | what makes it correct |
|---|---|---|---|---|
| publisher | `publish` | none beyond a run: plan, manifest, digest | plan, apply a scope, confirm | refs only move forward, tags never, no move that was not approved, a claim of success is true |
| push runner | `gitcli` PushAtomic | none | fast-forward proof, leased atomic push | a stale lease or an unproved move sends nothing |
| synchronization planning | `sync` reconcile, discover, chunk, finalize, writeverify | a run's discovery | discover, replay a chunk, checkpoint, finalize, reconcile, verify writes | one release at a time, resumable after any failure, reaches a fixed point |
| synchronization apply | `sync/apply.go` | outcome of each half | the two halves of a publication | bookkeeping first; what is reported is true |
| state record | `state` | cursors, tracks, tags, branch, epochs, digests | encode, merge, validate, store, load | successors forget and rewind nothing, and claim nothing that is not there; a commit is believed when it is what the engine would write |
| source cache | `source` | bare clone, work tree registrations, a lock per cache in the process | open, clone, fetch, resolve, add and remove work trees, prune | what was resolved stays reachable; plans do not disturb each other; nothing is left over |
| extraction plan | `extract` | work tree, scratch anchor, closure builder | acquire, materialize, widen, prune, patch, settle, transform, hand on | ships what the profile describes of the whole tree, or restores and refuses |
| package closure | `closure` | what the builder pruned and first measured | build, copy plan | the least closure, asserted pruning, limits; embeds hold what they did |
| patch series | `patchset` | none beyond the pass | select, load, apply with rollback | all or nothing; pruning holds after every patch |
| commit graph and mapping | `gitgraph` | none | walk, order, merge bases, read claims | agrees with the definitions of graph theory; a claim is found where it was put |
| replay, release projection | `replay`, `release`, `sync/dag.go` | source to destination mapping | prefilter, collapse, write, resume | one image for each source commit, ancestry kept, nothing skipped, the same from any resumption point |
| git object writer | `treebuild`, `gitcli/object.go` | objects in the repository | write and read back trees, commits, tags | a tree is complete or there is none |
| version index | `gomodmap` | the index file | restore, resolve, load, merge, rename | a pin carries the code; what is recorded is what the run resolved and extends the record |
| setup, upgrade | `setup`, `upgrade` | control plane files | plan, stage, preflight, apply file by file | an interrupted run can be run again and loses nobody's work |
| relocation | `relocate` | a staging directory | project paths, check, compose, materialize | the tree appears whole or not at all, and reads back as composed |
| generation | `generate`, `modgen`, `provenance` | files in memory, scratch modules on disk | two passes and a pipeline of phases | what is published is what was proved, of one commit; runs end clean |
| rewriting | `rewrite` | none | directives, imports, notice, verification | formatting and comments survive, or the file is refused |
| facade | `facade` | none | generate, manifest, compare | a consumer can name what it is given; equal manifests, equal packages |
| dependency policy, module graph | `deppolicy`, `modulegraph` | none | gates on proposed copies | a copy is worth what the profile asked, and no identity is split |
| type swap | `typeswap` | none | prove an internal package dead or replaceable | only dead packages go |
| configuration | `config` | none | decode, validate | an accepted profile is one that every phase accepts |
| surroundings | `cli`, `actionsctx`, `ghapi`, `gocli`, `doctor`, `gostate` | none | dispatch, query, execute, classify, report | |

### How they interact

`cli` starts `sync.Reconcile`, which loops: *discover* reads the destination
and its state record; the *source cache* fetches upstream and lists its
releases; a pending release is *replayed* one chunk of commits at a time, each
commit through *generation* (whose first phases are an *extraction plan* in a
work tree of its own), written as git objects and recorded in a successor of
the state record; *apply* hands each resulting set of refs to the *publisher*,
which plans it, waits for the approval of its digest, and pushes it in two
scopes, the engine's bookkeeping first and the refs consumers see second. When
no release is pending, one *write verification* pushes a state commit that
changes nothing, and the run ends. All communication between runs is through
the refs of the destination, by git pushes that carry leases.

### What is hard about it

* Several runs, operators who push to the branch, and upstream, all at any time.
* A run may die, and a connection drop, between any two effects. A push that
  was given up on may still commit.
* What was read is used long after: a manifest waits for approval, a branch
  moves while a release is replayed, a branch of the cache moves while a plan works.
* A publication has two halves and no transaction over both; the record can be
  written neither before nor together with what it records.
* A plan widens, resets, prunes and patches one work tree over and over while a
  builder remembers what it saw in earlier rounds; its context may end anywhere.
* A run's files exist twice, in memory and on disk, and the go command sees one
  of the two.
* A decision is taken on one view (before pruning, by name, by line) and acted
  on in another.
* Bounds at their limit: rounds of widening, chunks, a chunk with nothing to write.

`PROJECT.json` lists each hazard at the line where it bites, with the
properties that cover it, or why none does.

## The modules

| module | stands for |
|---|---|
| `AppendOnlyRefs` | abstract: what the publisher promises about a destination's refs |
| `GitPush` | git's leased atomic push, as the engine calls it (operators; external) |
| `Publish` | the publisher under the two scopes of `sync/apply.go`; implements `AppendOnlyRefs` |
| `PublishProofs` | proofs about `Publish` |
| `ReleaseLine` | abstract: one release at a time, recorded only once it is there |
| `Sync` | the synchronization loop over the state record; implements `ReleaseLine` |
| `SyncProofs` | proofs about `Sync` |
| `CommitGraph` | `gitgraph` as operators, next to the definitions they compute |
| `Replay` | the replay of a release's history into destination commits, on `CommitGraph` |
| `ReplayProofs` | proofs about `CommitGraph` and `Replay` |
| `VersionIndex` | several planning runs on the index of staging versions |
| `VersionIndexProofs` | proofs about `VersionIndex`, `StateRecord` and `DependencyPolicy` |
| `Closure` | package closure and asserted pruning (operators on trees) |
| `Extraction` | one extraction plan, on top of `Closure`, with the patch series |
| `ExtractionProofs` | proofs about `Closure` and `Extraction` |
| `SourceCache` | several extraction plans on one source cache |
| `SourceCacheProofs` | proofs about `SourceCache` |
| `Generation` | the phases of a generation, on memory and disk, with failures |
| `GenerationProofs` | proofs about `Generation` |
| `ControlPlane` | setup and upgrade, file by file, with an operator |
| `ControlPlaneProofs` | proofs about `ControlPlane` |
| `Trailers`, `StagingVersions`, `StateRecord`, `FileTree`, `DependencyPolicy`, `TypeSwap`, `Facade`, `Interop`, `Rewrite`, `Provenance`, `Profile` | the engine's pure decisions, as operators |
| `MCPolicies` | asks each of those every question of a small domain |
| `MC*` | the instances that TLC checks |

An operator introduced by a comment that calls it a *mutant* is no part of a
model. It is a plausible bug in the operator it stands next to, and substituting
it breaks the property it is paired with in `PROJECT.json`.

### Publish

`remote` is the destination. For each run, `request` is what the layer above
asks for, `seen` what discovery observed, `plan` the manifest's actions (old
and new object of each ref), `approval` the plan whose digest was approved,
`scope` the half being applied, and `said` the outcome it reports. `wire` is
what the server was sent and has not decided.

| action | code |
|---|---|
| `Observe`, `Plan` | discovery, then `Publisher.Plan`: object types, namespaces, agreement with what was observed, forward moves (`publish/plan.go`) |
| `Approve` | the approval of a manifest's digest |
| `Apply` | digest, drift of the scope, recheck of local objects, nothing to do, or a batch to push (`publish/apply.go`) |
| `Connect` | `gitcli.PushAtomic`: the proof of fast-forward, then git's advertisement and lease comparison |
| `ServerDecides` | git's transaction: all refs, or none |
| `Confirm` | the read after the push; the next scope, or a report (`sync/apply.go`) |
| `Drop`, `Crash`, `OutsidePush` | the connection, the process, other writers |

The drift check and the advertisement are two reads, and the server's
transaction comes later still: writers step in between. `Stores` varies what a
run's repository holds when it applies, and what a reader compares is objects
and ancestry only. Digests are modelled by equality of plans.

### Sync

A destination commit is the sequence its linear history consists of: setup,
operator commits, images of source commits. Generation is a function of source
commit and release (`Image`); commits in `Contextual` generate differently for
different releases. The state ref holds a sequence of records with cursors,
tracks, tags and the branch, as in `state/state.go`. `Merges` is
`state.MergeWith` within one epoch.

| action | code |
|---|---|
| `Start` | a workflow's checkout |
| `Discover` | discovery with all its refusals (`BranchVerified`, `TagsAgree`, `ProgressAgrees`), then the decision: adopt, first release, one chunk, finalize, verify |
| `Send` | the publisher, its reads merged into one |
| `ServerDecides`, `Settle` | the transaction, and what follows a confirmed push: loop, the other half, reconciliation, end; a refusal otherwise |
| `Crash`, `OperatorPush`, `Upstream` | a run's death, the operators, a release upstream |

`Stretches` and `Advanced` are the chunk: as few of the commits ahead as are
`Enough`, which is `ChunkSize` of them, and for the first chunk of a track one
that is written, so that no source commit shares the branch's commit; and the
track they leave. `pc = "broken"` marks a record that the engine's own
merge would refuse.

### Closure and Extraction

A tree maps Go files to the packages they import, or `Absent`. `Build` is
`closure.Builder.Build`: traversal level by level, asserted pruning, required
files, denied imports, limits; the builder's memory (`applied`, `baseline`) is
passed in and out. `Extraction` runs it in a work tree that shows only
materialized directories:

| action | code |
|---|---|
| `Materialize`, `Round` | the roots, then build, reset, widen (`extract/plan.go` buildClosure), up to `WidenBound` |
| `Anchor` | the scratch commit that patches apply to |
| `StartSeries`, `Apply`, `Conflict`, `Reassert`, `Rollback` | `patchset/apply.go`: the clean tree it requires, `git apply --3way --index`, the pruning after each patch, the reset on failure |
| `Settle`, `Finish` | the fixed point after patching (settleClosure), the gates and the file set that is handed on |
| `Cancel`, `Interrupt`, `CancelSeries`, `CancelReassert` | the end of the context, wherever it is looked at |

Git's behaviour at two places matters and is modelled as git has it: applying a
patch to a directory outside the sparse set writes the files it touches and no
others, and `reset --hard` restores the sparse state.

### SourceCache

Each plan goes through `Open`, `Clone`, `Prune`, `Fetch`, `Resolve`, `Add`,
`Checkout`, `Work`, `Compare`, `Remove` and `Removed`, each with the ways it fails; `holder`
is the in-process lock around work tree administration, `entry` git's
registrations, `dirs` the directories. Removal takes two steps, as in git, and
another process may see the registration in between (`"half"`). A context that
ends (`Cancel`) kills git commands, and one that sets up a work tree leaves its
registration locked. `Crash` takes a whole process, with its lock.

### Replay and CommitGraph

Source commits are numbered in the order git logs them; a source tree is a
version of each path, and a generated tree is the commit it was generated at. A
run begins with the published position and a chunk size (`Begin`); each `Step`
takes a source commit through the prefilter by watched paths, the choice of
destination parents, and collapse or writing; the first chunk of a track goes on
until it has written something (`NextCandidate`), and ends in a `Checkpoint` or the
`Release`. `Lose` takes a run at any point, and what was not checkpointed is
unreachable. `CommitGraph` has the topological order, the
closest mapped ancestors and the merge bases twice: as `gitgraph` walks the DAG,
and by definition (`MatchesReference`). Its loops are recursive functions on the
number of turns taken (`Only`, `AddNew`, `Ready` and `NextOut`), which the prover can
reason about turn by turn. `ClosureAssumption` is all that is asked of
generation: what it reports depends on nothing but what it reports.

The prefilter is proved for the lines it is right about, and the attempt showed
which these are. `Prefiltered` asks that first parents lead back to the anchor and
to where the run began. With the anchor alone it is false of longer histories than
the run's: of the six commits `<<>>, <<0>>, <<1>>, <<1>>, <<2, 3, 4>>, <<5>>` (the parents
of each) and chunks of 4, a side line that left
below a checkpoint is, in the next run, compared with its own past and given the
checkpoint's tree. `Trailers` models where in a message the
mapping is claimed (`gitgraph/mapping.go` reads what `treebuild/commit.go` wrote).

### VersionIndex and StagingVersions

The index file is a function from commits to answers. A planning run restores
the recorded mapping (`Restore`), pins the commits of a chunk (`Lookup`, `Resolve`,
`Save`, `Rename`: loading and merging, and replacing the file, are separate
steps), and pushes a record of what the file holds (`Snapshot`, `Push`). Runs share a file or have one each, and the staging repositories
may answer differently later. `StagingVersions` is how a pin is found: the
publishing bot's claims between two release tags, code against metadata, and the
check of what the go command resolved.

### Generation

A part of the module is all files of one origin, with the upstream commit it is
of, the edits made to it and the modules it imports. Each action is a phase of
`run.execute`, and works on what the run holds in memory, on the scratch modules
on disk, or on both; the go command only sees the disk. A phase may refuse,
fail, be cancelled or be killed; `cleanup` and the write at the end follow the
code. What an analysis answers is an input, drawn from the profiles of
`MCGeneration`: each combination of what upstream imports, what the facade
exports, what is copied, compatibility mode, pins and forbidden modules, and one
variant for each other answer.

### ControlPlane

A path stands for the files of one kind, and a content for who wrote it, for
which engine release and profile. `Approve` plans a manifest, `Apply` plans it
again and compares, and `Stage`, `Preflight`, `WriteTemp`, `Rename` and `Delete`
are the writes, in the order of the code; `Fail` and `Kill` stop a run between
any two. The operator edits, resets, commits, removes strays and approves.

### The pure decisions

| module | code | what is checked of it |
|---|---|---|
| `Trailers` | claims in commit messages | `ClaimTaken`: whatever a message ends with, the claim that is added is the one that is read |
| `CommitGraph` | `gitgraph` | `GraphMatches`: walks agree with the definitions |
| `StagingVersions` | `gomodmap` staging and resolve | `PinsCarryTheCode`: no pin, or one with the commit's code |
| `DependencyPolicy` | `deppolicy`, and the dependency phase after it | `Delivered`: a copy that is published fits its ceilings and brings what was asked |
| `Interop` | the interoperability gate | `Delivered`: it finds just the types a consumer can see |
| `Profile` | `config/validate.go`, and the phases' checks of their options | `Delivered`: what the validator accepts no phase refuses |
| `FileTree` | `relocate`, `treebuild` | `FilesKept`: what is on disk reads back, a Git tree is complete or absent |
| `Rewrite` | `rewrite` | `FilesKept`: formatted, comments where they were, no marker that dangles |
| `Provenance` | the copy plan, records of provenance, `go:embed` | `FilesKept`: a directive embeds what it did, every file has its record |
| `TypeSwap` | `typeswap` | `PrunedIsDead`: nothing retained needs what is pruned |
| `StateRecord` | `state` | `RecordKept`: over chains of three records nothing is lost; a commit is believed as written |
| `Facade` | `facade` | `SurfaceIsNameable`: leaks are found, forwarders mean what they forward to, manifests tell |

They have no state beyond a call, so `MCPolicies` is a specification of
questions: `Raise` picks a topic, an `Ask` action puts any question of the
topic's domain, and `Answer` lets the invariants look at it. `Topics` is the set
of topics a run asks, and `Divergent` adds to the domains the values on which
the code is known to disagree with its words ([below](#where-code-and-words-disagree)).

## The runs

All bounds are CONSTANTS in the `.cfg` files, but for the one constraint named
below; nothing else limits the models. Deadlock is checked where a process is
always able to go on (`extract_plans`, `cache_plans`, the `sync` runs); the
others may come to their end, and say `CHECK_DEADLOCK FALSE`.

| run | instance | distinct states | shows |
|---|---|---|---|
| `publish` | two runs at most: first releases of different engines, or one run that retags, reconciles, checkpoints or misnames; operator pushes, a lossy repository, 1 fault, symmetry | 588 643 | what is reported published is or was there (`ReportedIsThere`), one of two racing runs wins and its halves fit (`OneWinner`, `TagInBranch`), nothing moves that was not approved (`MovesAsApproved`), a consumer half only follows its bookkeeping (`BookkeepingFirst`), and `AppendOnlyRefs` is implemented (`AppendOnly`) |
| `sync_race` | 2 runs from the setup commit, 6 source commits on 2 lines, 3 releases, tagged in any order, chunks of 1, 1 crash, 1 operator commit at any time, symmetry | 304 454 | the record claims only what is there (`RecordIsTrue`), a tag is the replay of exactly its release (`TagsAreReplays`) and is accounted for (`NothingUnaccounted`), and `ReleaseLine` is implemented (`OneReleaseAtATime`) |
| `sync_converge` | 2 runs after the first release, 1 crash, 1 operator commit while nothing is due | 69 231 | runs reach the fixed point and stay there (`Converges`); no record is built that the merge refuses (`NeverBroken`) |
| `replay_history` | 8 shapes of a history of four commits above the anchor, every choice of trees for a module of two packages, chunks of 1 or 3, a run lost at any point | 40 000 | `OneImage`, `AncestryKept`, `Prefiltered`, `NothingSkipped` |
| `index_saves` | 3 planning runs, two in turn on one file and one on its own, deaths at any point, 1 change of the staging repositories | 1 011 698 | `OwnEvidence`, `RecordExtends` |
| `extract_plans` | every import graph of 3 packages and 5 files, with files missing, under small profiles; series of up to 2 patches on 3 trees under 3 profiles | 280 625 | `ShipsWhatIsDescribed`, `AllOrNothing` |
| `cache_plans` | 2 plans of one process or two, 3 upstream commits, 1 move of the branch in either direction, 1 crash | 417 128 | `ResolvedStaysReachable`, `WorkUndisturbed`, `LeftoversExplained`, `SerializedWithin`, `EveryPlanEnds` |
| `generation` | 296 profiles, one move of the upstream tag, one killed run, any phase refusing, failing or cancelled, symmetry of the two commits | 1 064 473 | `OutputIsProved`, `OneCommit`, `EndsClean` |
| `control_plane` | 3 engine releases, 2 profiles, 3 interruptions, 2 edits | 27 661 | `PresentBeforeMissing`, `AppliedIsWhole`, `KeepsWork`, `Completes` |
| `policies` | the domains of the pure decisions | 515 358 | the table above |
| `replay_revert`, `sync_operator` | the smallest that shows it | | disagreements, [below](#where-code-and-words-disagree) |

Each state machine has a type invariant. All of them are proved
(`TypeCorrect`, `Types`), and so they are not among the runs' properties, which
are about the code.

Why the bounds are enough:

* **Two runs**: every interference in this code is between one actor's read and
  its own later write, so a second actor that does everything at any time
  exhibits it. A third adds a second interference of the same kind.
* **One fault**: a death is placed at every step, and what it leaves (either
  half, neither, or a push that lands later) meets a complete run from then on.
  Deaths on top of deaths are covered by the proofs, where there are proofs, and
  are not explored for `Sync`.
* **Focused** (`MCPublish`): the constraint leaves the two-run race to first
  releases, and gives every other kind of request a run of its own. Two runs of
  which one retags add nothing that an operator's push or a lost reply does not.
* **Source commits**: four give a release with relevant and irrelevant commits
  and a track of several chunks; six add a second line and a release inside another's range.
* **Three packages, five files**: a chain, a cycle, a package reached in two
  ways, one that only a prunable file reaches, a package that would be emptied.
  Two patches are enough for one that fails after one that applied, and for one
  that undoes another.
* **Replay shapes**: a line, a side branch, a long one, one that left below the
  range, one merged twice, an octopus, a second root, and one into which the anchor
  was merged: each rule of `sync/dag.go` on parents has the shape that needs it.
* **Questions**: messages of 5 lines hold a block, a line that ends it and a claim;
  graphs of 5 commits a criss-cross merge; 3 records the two merges that could
  together undo what each alone keeps; `MaxShapeDepth` 5 a type that is nested once
  more than its declaration; `MaxMarked` 5 lines a comment, two markers and
  what surrounds them.
* **Control plane**: two releases of engine upgrade after a setup, and one interruption
  for each of the three runs.
* **Three upstream commits**, in a line around the anchor: below, at and above
  it, so that fetches are refused, do nothing, or move.

## Fairness

`Sync` assumes that workflows are scheduled again and again (the cron
expression setup writes, `setup/workflows.go:37`), that a run which can take its next step does (a
process the scheduler runs, with timeouts on its commands), and that the
server answers a client that waits. Weak fairness of `Start`, `Discover`,
`Send`, `Settle` and `Answered`, for each run, says this and no more: no
fairness for crashes, operators, upstream, or pushes of dead runs. Without
fairness of starts nothing would ever be published, since the engine does
nothing between runs.

`SourceCache` assumes weak fairness of each plan's steps: a live process runs
its goroutines, and a Go mutex is handed on. It does not assume that any
command succeeds, that a context ends, or that a process lives.

`ControlPlane` assumes that a run which is let work finishes (weak fairness of
its steps), that the operator applies what was approved, restores or commits a
tree that is not clean and removes a file in the way (weak fairness of `Apply`,
`Reset`, `RemoveStray`), and that commits and an approval of the latest release
and profile come again and again between the runs that interrupt them (strong
fairness of `Commit` and of that approval: each is disabled while a run is
active). `Completes` then says that no interrupted tree is a dead end.

The other modules have safety properties only.

## The proofs

`PublishProofs` proves, for any runs, refs, objects, requests and number of
faults:

| theorem | states |
|---|---|
| `TypeCorrect` | `Spec => []TypeOK` |
| `PushSafe` | plans and pushes in flight are forward and for one audience |
| `PublisherIsAppendOnly` | `Spec => AppendOnly`, the refinement of `AppendOnlyRefs` |
| `ApprovedMoves` | `Spec => MovesAsApproved` |
| `ReportsHold` | `Spec => []ReportedIsThere` |
| `BookkeepingGoesFirst` | `Spec => BookkeepingFirst` |
| `OneWins` | `Spec => []OneWinner` |
| `TagsInBranches` | `Spec => []TagInBranch` |

The assumptions are those the module states: refs of different namespaces
differ (`NamespaceAssumption`, from `config` validation), ancestry is reflexive
and transitive (`ObjectAssumption`), requests are well formed
(`RequestAssumption`), and a request with a release tag has the branch that contains it,
which is how `sync/finalize.go` asks, while nobody else creates release tags
(`ReleaseAssumption`). `AppendOnly` is not inductive: that a transaction moves
refs forward is not visible in the refs. `PushInv` strengthens it: every plan
holds only moves proved forward from the value the plan records
(`PlansForward`), what is in flight came out of such a plan and carries the
same old value, and for one audience (`WireForward`), and a run that is pushing
holds the approved plan (`PushChecked`). The lease then does the work: a move
lands on the value it was proved from, or not at all. `ReportedIsThere` rests
on `ReportInv`: a run that waits has its message out, what it reports belongs
to its plan, a consumer half comes after its bookkeeping, and what was left out
of a push as up to date had been reached, which no later step undoes because
refs only move forward. `OneWinner` follows from it: when a run reports, the
destination holds what it pushed and has reached what others reported. The proof
showed how far it goes: with a third run, or another writer, two runs may
report different objects if one descends from the other, since a push
that finds its ref up to date succeeds; unrelated objects, and tags, never.
`TagInBranch` needs `CarryInv`: a plan that moves a tag has its branch, and what
is sent has both unless the destination's branch contains the tag's commit
already, because it was omitted as reached or was up to date in the advertisement.

`SourceCacheProofs` proves, for any number of plans and processes and any
upstream history:

| theorem | states |
|---|---|
| `TypeCorrect` | `Spec => []TypeOK` |
| `ResolvedStays` | `Spec => []ResolvedStaysReachable` |
| `WorkIsUndisturbed` | `Spec => []WorkUndisturbed` |
| `LeftoversHaveCauses` | `Spec => []LeftoversExplained` |
| `Serialized` | `Spec => SerializedWithin` |

`CacheAssumption` says that descent is a partial order on commits: git's
histories have no cycles. Three inductive invariants carry these. `LockInv`: a
removal holds the lock of its process until it ends, and a plan that waits to
clean up has a tree. `CacheInv`: at most one plan clones, and nothing is resolved
before the cache is ready; so when a clone sets the cache's branch, no plan
depends on it, and a fetch, which is not forced, only adds descendants.
Antisymmetry gives the alarm: a branch that has left a commit never returns to
it. `TreeInv`: where a plan's directory and registration are at each of its
steps. It is what `LeftoversExplained` lacks, whose own states say nothing
about a plan that is still on its way.

`VersionIndexProofs` proves, for any number of runs, index files, commits, chunk
sizes and changes of the staging repositories:

| theorem | states |
|---|---|
| `TypeCorrect` | `Spec => []TypeOK` |
| `IndexHolds` | `Spec => []IndexInv`, if runs take turns on a file |
| `PlansOwnEvidence` | `Spec => []OwnEvidence`, likewise |
| `RecordsExtend` | `Spec => RecordExtends`, likewise |

That runs take turns (`~Overlap`) is what the workflow's concurrency group gives
the scheduled runs; without it the theorems are false, as
`MCVersionIndex_overlap` shows. `OwnEvidence` speaks of a run that has planned
only. `IndexInv` says at each phase what the run's file holds (`RunInv`): after
the restoration exactly the mapping of the record the run began with, later
that and what was pinned, because nobody else writes the file meanwhile
(`Serial`), and which commits are still to come (`CursorInv`), so that a new
entry never meets an old one.

`GenerationProofs` proves, for any profiles, requirements between modules,
commits, moves of the tag and killed runs:

| theorem | states |
|---|---|
| `TypeCorrect` | `Spec => []TypeOK` |
| `GenHolds` | `Spec => []GenInv` |
| `OutputProved` | `Spec => []OutputIsProved` |
| `OutputOfOneCommit` | `Spec => []OneCommit` |
| `RunsEndClean` | `Spec => []EndsClean` |

`GenerationAssumption` only types the constants. `GenInv` is a conjunct for each
thing a phase hands to later ones: the parts of each pass and on disk
(`Extraction`), one commit from the comparison of the passes on (`Agreement`),
the metadata against what memory and disk hold (`Description`), what was
composed and written (`Kept`), and the registrations and directories a run has
to account for (`Account`). `OutputIsProved` is about memory, which is what is
published, and the proof about the disk; `Description` is where they meet, and
says which edits are still to reach the disk at each phase.

`SyncProofs` proves, for any runs, source histories, releases, chunk sizes,
deaths and operator commits:

| theorem | states |
|---|---|
| `TypeCorrect` | `Spec => []TypeOK` |
| `SyncHolds` | `Spec => []SyncInv` |
| `RecordTrue` | `Spec => []RecordIsTrue` |
| `AllAccounted` | `Spec => []NothingUnaccounted` |
| `ReleasesInLine` | `Spec => OneReleaseAtATime`, the refinement of `ReleaseLine` |
| `ReplaysTagged` | `Spec => []TagsAreReplays` |
| `RecordsMerge` | `~Backports /\ Spec => []NeverBroken` |

`SourceAssumption` numbers releases and commits so that parents come first,
gives releases commits of their own, and says of ancestry that it is transitive and,
as there are no merge commits, that a commit's ancestors are in line. No push is written together with what it
records, and a push compares only the refs it moves: a record is true because
of what its writer saw earlier, and nothing in the push repeats it. `SyncInv` says
what keeps it so:

* `RemoteInv`: every record in the state's history is coherent by itself, the last
  one's claims hold, every tag is accounted for, and at most one release is unrecorded;
* `WireInv`: a push in flight, of a live or a dead run, either extends the state that
  its lease names by a coherent successor, or moves the branch and creates one tag
  whose commit the record accounts for;
* `JobInv`: what a plan of each kind was made from, and what still holds of it.

The argument has three steps. The state's history only grows, so its lease
fails if anything was recorded since the plan was made. A release always moves
the branch, because a finished track never ends where the recorded branch is (one
source commit, one image); so the branch's lease fails if any release was
published since. And nobody plans a release while another is unrecorded. A
late push of a dead run therefore changes nothing or is still true. The first
release is the exception the model shows well: its record precedes its tag, by
a cursor without a tag, and adoption finds it by that cursor.

The last two theorems are about what the records say, so their invariants speak
of `Around`: every record that is the destination's, that a push in flight would make
its own, or that a plan holds. `AroundStep` shows that a step adds to it at most one, a
`NewRecord`: the first one, a checkpoint's, or one that accounts for a release.

* `ReplayInv` says of each of them (`OfReplays`) that every cursor is what its
  release becomes, the replay of its history that ends with its own commit, and that
  every track has got to some commit on the way there (`Becoming`, `Reaches`); and
  (`Bare`) that before the first record the branch shows no image. A chunk starts
  where the record has the branch or the track, and `Based` allows only operator commits above it,
  so what it writes prolongs a replay by one stretch of the history. The lemmas about
  replays (`Joined` and those after it) put stretches together, and `ImagesOf` is computed by
  recursion over a segment, so what it holds is shown by smallest counterexample.
  `TagsAreReplays` then follows from `NothingUnaccounted`: a tag is at a cursor or at a
  finished track. Nothing is asked of the order in which releases are tagged.
* `LineInv` adds, when they are tagged in order, where each record stands on the
  line: the branch is at the last recorded release with all cursors at or before it,
  and the track ahead of it with an image of its own (`InLine`); and a release has a track only
  when every released one below it is recorded (`InOrder`), so there is at most one track.
  Two claims of one record then agree because they are of different commits with
  different images or are the same (`LineCorresponds`), and the successors that a run builds,
  a chunk further (`ChunkMerges`) or a release accounted for (`AccountingMerges`), pass the merge.
  Without `Enough` the first chunk of a track may have no image of its own, and the theorem
  is false, as it is without the order of tags
  ([below](#where-code-and-words-disagree)).

`ControlPlaneProofs` proves, for any engine releases, profiles, edits and
interrupted runs, and whether or not temporary files are ignored:

| theorem | states |
|---|---|
| `TypeCorrect` | `Spec => []TypeOK` |
| `ControlHolds` | `Spec => []ControlInv` |
| `WorkKept` | `Spec => KeepsWork` |
| `NothingMissing` | `Spec => []PresentBeforeMissing` |
| `AppliedWhole` | `Spec => []AppliedIsWhole` |

`ControlPlaneAssumption` numbers releases and profiles from 1. The hard part
is that a manifest may have been planned on a tree which another run left half
applied, or which an operator committed half applied. `ControlInv` therefore
says nothing of how a tree came to be, only what a run still owes it. `Safe`:
the file of each pending write is absent or as HEAD holds it, and each pending
deletion was planned as HEAD holds it and is of nothing the manifest accounts
for. `Due`: each file the manifest accounts for is composed or pending, and what
else is in the owned directories is pending removal. `HeadInv` closes the loop
over commits: once the root `go.mod` is tracked, nothing that setup removes is
left, in HEAD or on disk; so an upgrade, which never looks there, may call
itself complete. An edit during a setup turns a pending deletion into one that
is refused, which `Safe` allows for: it speaks of what was planned. Since a
deletion is only done when no write is pending, `Due` makes everything present
before anything is missing.

`ExtractionProofs` proves, for any tree, imports, profile and series of patches:

| theorem | states |
|---|---|
| `ReachedIsLeast` | the traversal, level by level, finds the least closed set of packages |
| `TypeCorrect` | `Spec => []TypeOK` |
| `PlanHolds` | `Spec => []PlanInv` |
| `ShipsTheDescribed` | `Spec => []ShipsWhatIsDescribed` |
| `SeriesIsAllOrNothing` | `Spec => []AllOrNothing` |
| `BaselineStays` | `Spec => []BaselineIsPristine` |
| `PruneWasAsserted` | `Spec => []PruneIsAsserted` |
| `NeverRefusedDirty` | `Spec => []NeverDirty` |

`PlanAssumption` types the plans. `ReachedIsLeast` is an induction that the
prover can do, by smallest counterexample: among the levels up to the number of
packages one adds nothing, by counting, and from there on none does. It turns
what a build computes on a part of a tree into a statement about the whole
one: a closure that met no missing directory lies in what is materialized, and
is that of the whole tree (`WholeClosure`). `PlanInv` carries this
through a plan. Until the closure is found the trees are the commit's
(`Pristine`), and what the builder remembers, though from smaller trees and
other rounds, is true of the whole commit's closure (`Remembered`), which is
why a file it once removed is not taken for one that was never there
(`Asserted`). From the anchor on the work tree shows the commit after the
patches so far, pruned (`Shown`); between a patch and its reassertion only
outside the prune list. A rollback needs none of this: it restores
what the anchor committed. `BaselineIsPristine`, `PruneIsAsserted` and
`NeverDirty` are stated in `Extraction` and belong to no run; TLC checked them
on the instance of `MCExtraction_plans`.

`VersionIndexProofs` also proves, of the pure decisions:

| theorem | states |
|---|---|
| `ChainsAreKept` | `ChainKept` of any chain of accepted records |
| `PublishedCopyDelivers` | `CopyDelivers` of any proposal |
| `WholeCopyIsClean` | `WholeCopyLeavesNoOriginal` of any proposal |

These have no specification and no constants: the hypotheses say what a question
is. `IsDocument` and `IsProposal` are the types of the code; `IsChain` says that
each record is what some proposal was merged into; `IsLineage` says that the
ancestry `git` answers about is transitive, which is all that is asked of it.
One merge keeps what `RecordStep` lists, and it lists less than `ChainKept`
needs to compose: a finished backfill may leave the record, so that the later
record need not mention it (`TracksFinish` looks for the record where it was
done), and destination positions compare only within an epoch, so that a chain
that leaves an epoch and returns to it promises nothing about them
(`OneEpoch` is of the whole stretch). Both are why the statement is
about stretches and the induction, by smallest counterexample, is over their
length. A copied package passed every gate within its limit or by an override
that names it; a gate is judged once for all, so whoever is copied beside it
did too (`GateIs`). The gates measure every candidate that passed the
correctness gates, of which the copy is a part, and the lines of a part are at
most those of the whole. `WholeCopyIsClean` needs `FacadeSpells`: the facade, which
is never rewritten, imports a candidate only to spell a type that crosses the
boundary or is asserted. Then the retained packages are closed under what is
left (`LeftWithin`). TLC found both hypotheses true of every proposal that
`MCPolicies` asks about.

`ReplayProofs` proves, of any graph (the first table) and for any histories of any
length, chunk sizes and lost runs (the second):

| theorem | states |
|---|---|
| `SearchFinds` | the walk from a commit finds the least closed set it is in |
| `LineIs` | the first-parent line is the least one that holds its head and each first parent |
| `SortOrders` | Kahn's order of an acyclic graph holds every commit once, after its parents |
| `RangeIs`, `WholeRange` | what a range is, and that it is all of the graph a run is given |
| `BasesAreBest` | the common ancestors without a common child are those no other contains |
| `MappedAre`, `DedupeCovers` | the images of mapped parents; what deduplication removes is contained in what it keeps |

| theorem | states |
|---|---|
| `Invariant` | `Spec => []IInv` |
| `Types` | `Spec => []TypeOK` |
| `Identity` | `Spec => []OneImage` |
| `Ancestry` | `Spec => []AncestryKept` |
| `Prefilter` | `Spec => []Prefiltered` |
| `Counts` | `Spec => []NothingSkipped` |
| `Completion` | `Spec => []Finalizable` |
| `Advances` | `Spec => FastForward` |

`SourceAssumption` numbers commits so that parents come first, which any
acyclic history allows; `ClosureAssumption` is above. The loops are reasoned about through
what they compute: a set of ancestors is the least set that is closed under
parents, so two graphs that agree on such a set have the same ancestors in it
(source and what a run is given; what a run wrote and what will be published).
`OneImage` and `AncestryKept` speak of what is published and what a run wrote
together, and neither alone survives a step. `IInv` takes the two apart. Between
runs (`Settled`), the objects published are those the progress ref reaches, their
trailers name ancestors of the position, and the mapping keeps ancestry
(`Position`); the counters are the sizes of the ranges they stand for (`Counted`). During a run
(`Running`), what it wrote begins with the published destination, every other
commit of it is the image of the source it names, each follows its parents,
and all of it builds on the destination (`Journal`); what is pending comes parents
first and completes the mapping to the range (`Queue`). Sources in the range are
not below the position, so a trailer of the run meets none that is published but
the position's own, which both map to the same commit: the two halves
join (`ObjectsJoin`). A step keeps ancestry because the
images of a commit's parents are all known when it is reached, and what is
deduplicated is contained in what is kept. A checkpoint publishes what its
endpoint reaches, and every object of the run that the next one could
build on is there, because the mapping keeps ancestry (`PositionAdvances`). The counters add up
because the range from the anchor is the disjoint union of the ranges of its
chunks (`ApartAdds`). `Shows` is the prefilter: along a line of first parents that
leads to where the run began, what is shown has the module of its commit
and the watched paths include all that module is made of; so a commit that touches no watched path
leaves every path of it as it was (`SameModule`), and by `ClosureAssumption` the module is the same.
`StartCollapses` and `DestinationIs` say what the parents of an image are at the
first commit and afterwards.

Only model-checked: that `CommitGraph` agrees with `Reach` (`GraphMatches`; the
theorems above speak of least sets instead) and computes `CommonAnchor` by
`FoldLeft` right; the pure decisions other than the above (text, types and
trees, mostly by recursion over data), and that a believed commit is one
the engine would write (`BelievedAsWritten`, over maps built with `@@`); and the liveness properties `Converges`, `EveryPlanEnds` and
`Completes`, since liveness under
fairness (and ENABLED) is beyond the prover. The library's induction theorems
take an operator as a parameter, which its backends cannot instantiate; an
induction over numbers can go by smallest counterexample instead, as above.

## Where code and words disagree

Two runs are expected to be violated; `PROJECT.json` quotes the lines.

1. `replay_revert`: a side line that changes a watched package and takes the change
   back, merged into a mainline without changes, can be neither collapsed nor
   written (`sync/dag.go:258`): one component judges the merge against its first source parent,
   the other against its destination parent. `docs/replay-model.md:82` says that
   such a merge collapses. Every run over the range ends in the same error.
2. `sync_operator`: an operator commit pushed while a release is being replayed
   blocks it for ever. The track continues from its own commit, so the
   finished track is no fast-forward of the branch.

TLC finds the others violated too (`tlc -config <cfg> <module>`): in a kept
configuration, or, where the table names a topic, in `MCPolicies.cfg` with
`Topics` set to those named, `Divergent = TRUE` and the invariant given.

| configuration | what the code does |
|---|---|
| `MCPublish_report` | when git accepted a push and the read that confirms it fails, or sees a ref that has moved on, `publish/apply.go:250` returns a plain error; `sync/apply.go` reports nothing for that half, which the conflict runbook reads as "never ran" |
| `MCSync_first` | a crash between the halves of the very first release leaves a record without a branch; every later discovery insists that the branch be at the record's cursor, and no run pushes it there |
| `MCExtraction_whole` | a patch that imports a new package and edits one of its files ships that file alone: `git apply --3way --index` materializes only what it touches, and later builds take the directory for complete |
| `MCSourceCache_leak` | a plan cancelled while its work tree is added or filled leaves it behind: `AddWorktree` removes it on the context that has just ended |
| `MCGeneration_leak` | `extract.Plan` returns no result when it fails at run time (`extract/extract.go:442`), so generation never records the kept work tree and its cleanup leaves the registration, against `generate/generate.go:537` and `extract/extract.go:98`; the next plan's pruning heals it |
| `MCVersionIndex_overlap` | two runs on one index file load, merge and rename (`gomodmap/store.go:154`): the later rename drops what the earlier one added |
| topic `copy`, `CopyIsClean` | the diamond gate (`deppolicy/diamond.go:54`) looks at the candidates that are proposed, not at those that are copied in the end, so a partial copy may leave an original beside its copy, which the comment at lines 25-30 excludes |
| topic `tree`, `LinksAreLexical` | `relocate/relocate.go:699` resolves links lexically: with a link through a directory that is itself a link, or that is not there, what the file system opens is not what was checked |
| topics `facade`, `forward`, `manifests`, `interop`, `SurfaceIsNameable` | exported fields promoted through an unexported embedded struct are reachable, and `facade/leak.go:163`, the manifest and the interoperability walk all miss them; a manifest spells a type through alias names, so an alias that is retargeted is not noticed; `deppolicy/interop.go:52` does not look at the type arguments of a type it has seen |
| topics `layout`, `embeds`, `MaxMarked = 4`, `MaxRecords = 0`, `FilesKept` | `strandedSeparators` (`rewrite/gofile.go:175`) stops at a removed marker, so a separator between two removed ones, at the start or in mid-comment stays, and gofmt would drop it; `absorbAround` takes the only blank line when it lies between two removed markers, so that a floating comment becomes a doc comment and a legitimate file is refused; an asset glob that names a file of a nested module makes a directive embed what upstream did not, since the nested `go.mod` is not copied |
| topic `profile`, `Delivered` | `config/validate.go` takes, and every generation refuses: a state ref below the branch (git keeps no ref below another), a progress namespace other than the engine's (`sync/chunk.go:253`), no exports at all, an export of the source module's root package, an alias of an unexported symbol, a facade file that ends in `_test.go`, is `doc.go` or differs from the assertions file only in case, and an override at a minor of 0. Its comment at line 610 sets out to refuse "rather than validating and then failing to generate". Two more were met in reading: an assertion against an unexported interface, and an asset glob such as `a[b/c]d`, well formed as a whole and malformed by element |

Others were met while reading or modelling, and have neither:

* *Publication.* The comment at `publish/apply.go:200` says that the leases of unchanged refs
  hold at the server during a reconciliation; git compares the lease of a ref
  that is up to date with the advertisement only. `state/merge.go:240` says that a finished
  track's progress ref is deleted; the publisher cannot delete refs.
* *Extraction.* `extract/plan.go:439` bounds the rounds of widening by the ceiling on packages
  after pruning and says that it adds no second limit; a file that is about to be pruned
  and reaches more than `maxPackages + 2 * roots` packages is refused as "still growing".
  `src/docs/conflict-runbook.md:92` says that a patch which reintroduces a
  pruned path fails; it is pruned again (`extract/plan.go:628`).
  `extract/plan.go:293` takes a changed cache for this plan's own doing; another plan's
  fetch has the same effect (`alarm` in `SourceCache`).
* *Replay.* A side line that left below the range is given the tree of the position the run began from; a
  release that does not descend from an anchor that was merged from a side is refused.
* *State.* A merge compares adjacent records only: a profile may change and change
  back, and one source commit may have another image in another epoch; the growth of
  the mapping is counted, not compared.
* *Messages.* A message whose trailer block is followed by a blank line and one of
  whitespace alone is refused.
* *Generation.* Copying one of several imported packages of a staging module always ends as
  a run-time error at the load after the copy (`generate/copy.go:379`). `checkForbiddenImports`
  reads files and copies but not the facade. The files that gofmt changes after the last
  load, and the root `doc.go`, are never type checked. A failure of the cleanup after success returns an error with the
  output on disk. A run cancelled right after it made its scratch root leaves it empty.
* *Facade.* An assertion on an interface in a dependency's internal package passes the
  facade's checks, and the generated file does not compile. `aliasTypeParams` does not
  rename a type parameter that equals an import's name. The comment on `parameterNames` about the scope of
  parameters is not Go's rule, and does no harm.
* *Type swap.* Constants, functions and aliases are only checked for a name outside;
  `unassignedFields` accepts an assignment of a literal or of another field, against the
  comment at `typeswap/conversion.go:113`; `isPruned` matches by the end of a path.
* *Rewriting.* No default rule covers `k8s:deepcopy-gen:interfaces`, which the comment on
  `rewriteDirectiveValue` cites. A package at the repository's root would own no record of provenance.
* *Setup and upgrade.* Where the repository ignores upgrade's temporary files (`TempsIgnored`),
  the one that a killed upgrade leaves behind survives `git clean -fd`, and
  `upgrade/upgrade.go:681`, which creates it exclusively, refuses every later upgrade;
  `setup/apply.go:47` says that `git checkout -- . && git clean -fd` restores exactly. Setup does not
  look again at files that it replaces between plan and write.

And there are states from which no run goes on, outside what `sync_converge`
covers: an operator commit between the first release and its adoption, or
between a release's consumer push and its reconciliation; a lower release that
is tagged after a higher one when the two generate different images, or when the
track of the higher one has passed a commit of its range that touches nothing watched; a release
on another line, which the replay refuses and which blocks those after it. The
engine documents the last. In all of them it refuses and does no damage.

The third is why `NeverBroken` is stated for releases tagged in their order. Two tracks that
share a line share their images, and stand at different commits with one image when nothing
watched lies between: the record then gives an image two sources. And the replay of a
release always writes its own commit (`sync/dag.go:354`), which a track on its way to
a higher release leaves out when it touches nothing watched: the record gives a commit
two images. The record's own check (`state/state.go:560`) refuses either in every later run.
`MCSync_race.cfg` shows it with `NeverBroken` as the invariant, `N = 5`,
`Side = {}`, `ReleasedAt = {1, 4, 5}`, `Relevant = {1, 2, 5}`, `Contextual = {}`,
`ChunkSize = 3`, `FirstTags = {1, 3}`: release 2 is tagged after the first chunk of
release 3. With every commit watched TLC finds no such state.

## What is not modelled

* *Publisher, synchronization*: dry runs and the wording of manifests; a change of the
  profile's epoch and a local `sync -state-commit` in `Sync` (epochs are in `StateRecord`); two release
  tags at one source commit; merge commits in `Sync` (they are in `Replay`).
* *Extraction, cache*: test files and recursive roots of the closure; the loading and
  selection of patches; a rollback that fails itself; the audit of the cache's
  configuration and offline runs. A plan's resolution and its list of refs are one
  step, and so are the removal of a directory and the first step of removing its registration.
* *Generation*: paths, credentials, the report, the text of compatibility edits and of
  `go.mod`, the rendering of evidence files. The answers of an analysis are inputs; the
  analyses themselves are among the pure decisions.
* *Pure decisions*: line endings and the text of values in `Rewrite`; proto files;
  URLs, names and the spelling of single words in `Profile`; the cost gates beyond those of
  `DependencyPolicy`; staging histories in which the coinciding release tags name the same commit.
* *Version index*: a record's anchor is always mapped. *Control plane*: ignore patterns that match
  composed paths.
* `gocli`, `ghapi`, `doctor`, `cli`, `actionsctx`, `gostate`: one call at a time, no state beyond it.

## The plan

Every state machine is modelled, checked and proved. What could still be proved:

1. `NeverBroken` of `Sync` for releases tagged in any order over commits that all touch
   watched paths.
2. More of the decisions without recursion: `TypeSwap` (a package
   that is found dead has no surviving importer) and `Profile`.

The project is kept to a dozen runs so that all of it can be checked in
minutes. Disagreements that the code has settled give their runs back.

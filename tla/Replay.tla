------------------------------- MODULE Replay -------------------------------
(***************************************************************************)
(* Replay of a release's source history (tools/internal/sync/dag.go and    *)
(* chunk.go over tools/internal/replay): the source commits between a      *)
(* published anchor and a pending release become destination commits,      *)
(* chunk by chunk, by runs that may die at any point.                      *)
(*                                                                         *)
(* Source commits are 1..N in the order git logs them, parents first: 1 is *)
(* the published anchor, N the release, and 0 the history below.  A source *)
(* tree is a version of each path.  A generated tree is the source commit  *)
(* it was generated at, because the NOTICE in it names that commit.  A     *)
(* destination commit is its provenance trailer (0: none), its tree and    *)
(* its parents: the same replay writes the same object again.              *)
(*                                                                         *)
(* Unpublished objects are unreachable, so only a published checkpoint     *)
(* outlives a run.  The push itself is module Publish, discovery is Sync.  *)
(***************************************************************************)
EXTENDS CommitGraph

CONSTANTS N,         \* the release commit
          Histories, \* parent lists of 1..N and source trees of 0..N
          Closure(_),\* the paths generation reports for a source tree
          Profile,   \* the paths the profile names
          Sizes,     \* values determinism.chunkSize may take
          MaxLost    \* bound on runs that die or are refused

Commits == 1..N
Anchor == 1

ASSUME SourceAssumption ==
    /\ N \in Nat \ {0, 1}
    /\ \A h \in Histories : \A c \in Commits :
        /\ h.parents[c] \in Seq(0..(c - 1))
        /\ DOMAIN h.content = 0..N
    /\ Sizes \subseteq Nat \ {0}
    /\ MaxLost \in Nat

(* Generation depends on what it reports and on nothing else: a tree with the
   same versions of those paths has the same ones reported. *)
ASSUME ClosureAssumption ==
    \A h \in Histories : \A s, t \in 0..N :
        LET reported == Closure(h.content[s])
        IN  /\ DOMAIN h.content[s] = DOMAIN h.content[t]
            /\ reported \subseteq DOMAIN h.content[s]
            /\ (\A path \in reported : h.content[s][path] = h.content[t][path]) =>
                    Closure(h.content[t]) = reported

VARIABLES parents,   \* the source history
          content,   \* the source tree of each commit, and of the history below
          track,     \* the published position: state's track and progress ref
          published, \* destination commits reachable from what is published
          images,    \* what the published runs mapped each source commit to
          phase,     \* of the run at work
          candidates,\* mainline commits the chunk may end at
          pending,   \* source commits the candidate has still to replay
          mapping,   \* gitgraph.Mapping of the run
          written,   \* the epoch parent and the commits the run wrote
          shown,     \* dagRun.trees: the tree reported for each source commit
          watched,   \* dagRun.watched
          lost       \* how many runs were lost

source == <<parents, content>>
position == <<track, published, images>>
run == <<candidates, pending, mapping, written, shown, watched>>
vars == <<source, position, phase, run, lost>>

(* One function over another, and a function with one value more. *)
Over(f, g) == [x \in DOMAIN f \cup DOMAIN g |-> IF x \in DOMAIN f THEN f[x] ELSE g[x]]
With(f, x, v) == Over([y \in {x} |-> v], f)

-----------------------------------------------------------------------------
(* The source range. *)

Source == [nodes |-> [c \in Commits |-> c], parents |-> parents, firstParent |-> FALSE]

(* git log head ^anchor, and the same along first parents, oldest first. *)
Between(anchor, head) ==
    Only(Source.nodes, Ancestors(Source, head) \ Ancestors(Source, anchor))
Mainline(anchor, head) ==
    Only(Reverse(FirstParentLine(Source, head)), Commits \ Ancestors(Source, anchor))

Remaining == Len(Between(track.source, N))

(* The chunk ends at the first mainline commit that makes it size commits
   long; the ones after it stand by. *)
Candidates(anchor, size) ==
    LET line == Mainline(anchor, N)
        long == {i \in DOMAIN line : Len(Between(anchor, line[i])) >= size}
        first == IF long = {} THEN Len(line) ELSE CHOOSE i \in long : \A j \in long : i <= j
    IN  SubSeq(line, first, Len(line))
Endpoint == Head(candidates)

(* The graph a run is given: the anchor and what the head adds to it. *)
Given(head) == [Source EXCEPT !.nodes = <<track.source>> \o Between(track.source, head)]

-----------------------------------------------------------------------------
(* The transform of one source commit: dagRun.transform. *)

FirstParent(c) == IF parents[c] = <<>> THEN {} ELSE {Head(parents[c])}
ChangedPaths(c) ==
    {path \in DOMAIN content[c] : \A p \in FirstParent(c) : content[p][path] # content[c][path]}

RelevantByPathsOnly(c) == ChangedPaths(c) \cap watched # {}
Relevant(c) == c = N \/ ChangedPaths(c) \cap watched # {}

Base == Head(written)
ShownBelow(c) ==
    IF FirstParent(c) \cap DOMAIN shown = {} THEN Base.tree ELSE shown[Head(parents[c])]

IsGenerated(c) == c # track.source /\ Relevant(c)
Transformed(c) ==
    IF c = track.source THEN Base.tree
    ELSE IF Relevant(c) THEN c
    ELSE ShownBelow(c)
Changed(c) == IsGenerated(c) /\ Transformed(c) # ShownBelow(c)
Forced(c) == IsGenerated(c) /\ c = N

-----------------------------------------------------------------------------
(* Its place in the destination: replay.step. *)

Graph(commits) ==
    [nodes |-> commits, parents |-> [d \in ToSet(commits) |-> d.parents], firstParent |-> FALSE]

DestinationParentsFirst(c) ==
    LET mapped == MappedParents(Given(Endpoint), c, mapping)
    IN  IF mapped = <<>> THEN <<Base>> ELSE <<Head(mapped)>>
DestinationParents(c) ==
    LET mapped == MappedParents(Given(Endpoint), c, mapping)
        apart == IF Len(mapped) > 1 THEN DedupeParents(Graph(written), mapped) ELSE mapped
    IN  IF apart = <<>> THEN <<Base>> ELSE apart

IsMerge(c) == Len(DestinationParents(c)) > 1
Unchanged(c) == Transformed(c) = DestinationParents(c)[1].tree
Collapses(c) == ~IsMerge(c) /\ Unchanged(c) /\ ~Forced(c)

(* The claim and the trees have to agree wherever there is one baseline. *)
Contradicts(c) == ~IsMerge(c) /\ Unchanged(c) = Changed(c)

(* treebuild.WriteCommit, or the commit it collapses onto. *)
ImageOf(c) ==
    IF Collapses(c) THEN DestinationParents(c)[1]
    ELSE [source |-> c, tree |-> Transformed(c), parents |-> DestinationParents(c)]

-----------------------------------------------------------------------------
NoRunKeepsMapping ==
    /\ phase' = "idle"
    /\ candidates' = <<>> /\ pending' = <<>>
    /\ mapping' = mapping /\ shown' = <<>>
    /\ written' = <<>> /\ watched' = {}
NoRun ==
    /\ phase' = "idle"
    /\ candidates' = <<>> /\ pending' = <<>>
    /\ mapping' = <<>> /\ shown' = <<>>
    /\ written' = <<>> /\ watched' = {}

Published == [source |-> Anchor, tree |-> Anchor, parents |-> <<>>]

Init ==
    /\ \E h \in Histories : parents = h.parents /\ content = h.content
    /\ track = [source |-> Anchor, destination |-> Published, done |-> 0, total |-> 0]
    /\ published = <<Published>>
    /\ images = [c \in {Anchor} |-> Published]
    /\ phase = "idle"
    /\ candidates = <<>> /\ pending = <<>>
    /\ mapping = <<>> /\ shown = <<>>
    /\ written = <<>> /\ watched = {}
    /\ lost = 0

(* ReplayDAG for the first of heads: newDAGRun, seedWatched, newRun. *)
ProjectFromAnchor(heads) ==
    /\ candidates' = heads
    /\ phase' = "replaying"
    /\ pending' = RangeOf(Source, Anchor, {Head(heads)})
    /\ mapping' = <<>> /\ shown' = <<>>
    /\ written' = <<track.destination>>
    /\ watched' = Profile \cup Closure(content[track.source])
ProjectOntoPublished(heads) ==
    /\ candidates' = heads
    /\ phase' = "replaying"
    /\ pending' = RangeOf(Given(Head(heads)), track.source, {Head(heads)})
    /\ mapping' = <<>> /\ shown' = <<>>
    /\ written' = <<Head(published)>>
    /\ watched' = Profile \cup Closure(content[track.source])
ProjectUnseeded(heads) ==
    /\ candidates' = heads
    /\ phase' = "replaying"
    /\ pending' = RangeOf(Given(Head(heads)), track.source, {Head(heads)})
    /\ mapping' = <<>> /\ shown' = <<>>
    /\ written' = <<track.destination>>
    /\ watched' = Profile
Project(heads) ==
    /\ candidates' = heads
    /\ phase' = IF AnchorIsValid(Source, track.source, {Head(heads)}) THEN "replaying" ELSE "refused"
    /\ pending' = RangeOf(Given(Head(heads)), track.source, {Head(heads)})
    /\ mapping' = <<>> /\ shown' = <<>>
    /\ written' = <<track.destination>>
    /\ watched' = Profile \cup Closure(content[track.source])

(* PlanChunk up to its first candidate. *)
Begin(size) ==
    /\ phase = "idle" /\ track.source # N
    /\ track.total = 0 \/ track.done + Remaining = track.total
    /\ Project(Candidates(track.source, size))
    /\ UNCHANGED <<source, position, lost>>

(* One source commit: transformed, and collapsed or written. *)
Step ==
    /\ phase = "replaying" /\ pending # <<>>
    /\ LET c == Head(pending)
       IN  /\ shown' = With(shown, c, Transformed(c))
           /\ watched' = IF IsGenerated(c) THEN watched \cup Closure(content[c]) ELSE watched
           /\ IF Contradicts(c)
              THEN phase' = "contradicted" /\ UNCHANGED <<pending, mapping, written>>
              ELSE /\ mapping' = With(mapping, c, ImageOf(c))
                   /\ written' = IF Collapses(c) THEN written ELSE Append(written, ImageOf(c))
                   /\ pending' = Tail(pending)
                   /\ UNCHANGED phase
    /\ UNCHANGED <<source, position, candidates, lost>>

Objects == AddNew(published, written)
AdvancedWithAnchor == Cardinality(DOMAIN shown)
Advanced == Cardinality(DOMAIN shown) - 1
EndsHere == track.total # 0 \/ Len(written) > 1 \/ Endpoint = N

(* A first checkpoint that wrote nothing folds into the next mainline commit. *)
NextCandidate ==
    /\ phase = "replaying" /\ pending = <<>> /\ ~EndsHere
    /\ Project(Tail(candidates))
    /\ UNCHANGED <<source, position, lost>>

(* The chunk's state record and its progress ref, pushed together. *)
Checkpoint ==
    /\ phase = "replaying" /\ pending = <<>> /\ EndsHere
    /\ Advanced > 0
    /\ track' = [source |-> Endpoint, destination |-> mapping[Endpoint],
                 done |-> track.done + Advanced,
                 total |-> IF track.total = 0 THEN Remaining ELSE track.total]
    /\ published' =
            Only(Objects, Ancestors(Graph(Objects), mapping[Endpoint]))
    /\ images' = Over(images, mapping)
    /\ NoRun
    /\ UNCHANGED <<source, lost>>

(* PlanFinal of the completed track: the release is generated once more, its
   tree has to be the track's, and the tag names the track's own commit. *)
Release ==
    /\ phase = "idle" /\ track.source = N /\ track.done = track.total
    /\ track.destination.tree = N
    /\ phase' = "released"
    /\ UNCHANGED <<source, position, run, lost>>

(* A run dies, its budget ends, generation fails, or its push is refused. *)
Lose ==
    /\ phase \in {"replaying", "refused", "contradicted"}
    /\ lost < MaxLost
    /\ lost' = lost + 1
    /\ NoRun
    /\ UNCHANGED <<source, position>>

Next ==
    \/ \E size \in Sizes : Begin(size)
    \/ Step
    \/ NextCandidate
    \/ Checkpoint
    \/ Release
    \/ Lose

Spec == Init /\ [][Next]_vars

-----------------------------------------------------------------------------
(* Types of the variables: a run maps onto what it wrote or started from. *)
TypeOK ==
    /\ phase \in {"idle", "replaying", "refused", "contradicted", "released"}
    /\ track.source \in Commits /\ track.destination \in ToSet(published)
    /\ DOMAIN images \subseteq Commits
    /\ DOMAIN mapping \subseteq DOMAIN shown /\ DOMAIN shown \subseteq Commits
    /\ \A c \in DOMAIN mapping : mapping[c] \in ToSet(written)
    /\ lost \in 0..MaxLost

(* A source commit has one image, over all chunks, retries and chunk sizes:
   no two published or written commits carry one trailer. *)
OneImage ==
    /\ \A d, e \in ToSet(Objects) : d.source = e.source /\ d.source # 0 => d = e
    /\ \A c \in DOMAIN mapping \cap DOMAIN images : mapping[c] = images[c]

(* What a source commit builds on, its image builds on: collapse, the removal
   of contained parents and resumption at a checkpoint lose no ancestor. *)
AncestryKept ==
    LET known == Over(images, mapping)
    IN  \A a, b \in DOMAIN known :
            IsAncestor(Source, a, b) => IsAncestor(Graph(Objects), known[a], known[b])

(* What a module is made of. *)
Module(c) == [path \in Closure(content[c]) |-> content[c][path]]

(* A commit left ungenerated because no watched path changed has the module of
   the tree it was given, wherever first parents lead back to the published
   anchor and to where the run began.  (A side line that left below them is
   compared with its own past and given the run's first tree.) *)
Prefiltered ==
    \A c \in DOMAIN mapping :
        {Anchor, track.source} \subseteq ToSet(FirstParentLine(Source, c)) =>
            Module(mapping[c].tree) = Module(c)

(* The chunks account for every commit of the range, once. *)
NothingSkipped ==
    track.total # 0 =>
        /\ track.done = Len(Between(Anchor, track.source))
        /\ track.total = Len(Between(Anchor, N))

(* A track that reached its release can be finalized: its last tree is the
   one the release generates. *)
Finalizable ==
    track.source = N => track.done = track.total /\ track.destination.tree = N

(* The progress ref only fast forwards, and nothing published is dropped or
   mapped anew. *)
FastForward ==
    [][ /\ IsAncestor(Graph(published'), track.destination, track'.destination)
        /\ ToSet(published) \subseteq ToSet(published')
        /\ \A c \in DOMAIN images : images'[c] = images[c]]_position

(* docs/replay-model.md:82: a merge whose sides resolve to one destination
   commit collapses, or is written, like any ordinary commit. *)
CollapsedOrWritten == phase # "contradicted"
=============================================================================

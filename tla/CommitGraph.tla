---------------------------- MODULE CommitGraph ----------------------------
(***************************************************************************)
(* The commit graph (tools/internal/gitgraph): what the engine computes    *)
(* about an immutable DAG of commits, and the definitions those            *)
(* computations stand for.                                                 *)
(*                                                                         *)
(* A graph is a record: nodes, the commits in the order the caller walked  *)
(* them; parents, the parent list of each in git's order; and firstParent, *)
(* TRUE of a walk along first parents only.  A parent that is not a node   *)
(* is a boundary: it stays in the list and is not traversed.               *)
(***************************************************************************)
EXTENDS Naturals, Sequences, FiniteSets, SequencesExt

(* The elements of seq that are in set, in its order. *)
Only(seq, set) ==
    LET kept[n \in 0..Len(seq)] ==
            IF n = 0 THEN <<>>
            ELSE IF seq[n] \in set THEN Append(kept[n - 1], seq[n]) ELSE kept[n - 1]
    IN  kept[Len(seq)]

(* found and then the elements of seq it lacks, each where it first occurs. *)
AppendNew(found, x) == IF x \in ToSet(found) THEN found ELSE Append(found, x)
AddNew(found, seq) ==
    LET added[n \in 0..Len(seq)] ==
            IF n = 0 THEN found ELSE AppendNew(added[n - 1], seq[n])
    IN  added[Len(seq)]
Distinct(seq) == AddNew(<<>>, seq)

Nodes(g) == ToSet(g.nodes)
PresentParents(g, c) == Only(g.parents[c], Nodes(g))
BoundaryParents(g, c) == Only(g.parents[c], ToSet(g.parents[c]) \ Nodes(g))
Children(g, c) == {d \in Nodes(g) : c \in ToSet(g.parents[d])}
Roots(g) == Only(g.nodes, {c \in Nodes(g) : PresentParents(g, c) = <<>>})
HeadsOf(g) == Only(g.nodes, {c \in Nodes(g) : Children(g, c) = {}})

(* Kahn's algorithm: of the commits whose parents are all out, the heap
   yields the one the caller walked first.  An order that stops short of
   every commit is a cycle. *)
Ready(g, done) ==
    {i \in DOMAIN g.nodes :
        g.nodes[i] \notin done /\ ToSet(PresentParents(g, g.nodes[i])) \subseteq done}
NextOut(g, done) ==
    LET next == Ready(g, ToSet(done))
    IN  IF next = {} THEN done ELSE Append(done, g.nodes[Min(next)])
TopologicalOrder(g) ==
    LET out[n \in 0..Len(g.nodes)] == IF n = 0 THEN <<>> ELSE NextOut(g, out[n - 1])
    IN  out[Len(g.nodes)]

IsGraph(g) ==
    /\ IsInjective(g.nodes)
    /\ \A c \in Nodes(g) : c \notin ToSet(g.parents[c])
    /\ Len(TopologicalOrder(g)) = Len(g.nodes)

(* Every commit reachable from c, breadth first and in parent order. *)
BreadthFirst(g, c) ==
    LET queue[n \in 0..Len(g.nodes)] ==
            IF n = 0 THEN <<c>>
            ELSE LET found == queue[n - 1]
                 IN  IF n > Len(found) THEN found
                     ELSE AddNew(found, PresentParents(g, found[n]))
    IN  queue[Len(g.nodes)]

Ancestors(g, c) == ToSet(BreadthFirst(g, c))
IsAncestor(g, a, c) == a \in Ancestors(g, c)

FirstParentLine(g, head) ==
    LET line[n \in 0..Len(g.nodes)] ==
            IF n = 0 THEN <<head>>
            ELSE LET found == line[n - 1]
                     above == g.parents[Last(found)]
                 IN  IF above = <<>> \/ Head(above) \notin Nodes(g) THEN found
                     ELSE AppendNew(found, Head(above))
    IN  line[Len(g.nodes)]

(* A common ancestor is superseded when one of its children is common. *)
MergeBasesFirstParent(g, a, b) ==
    LET common == Ancestors(g, a) \cap Ancestors(g, b)
    IN  {c \in common : {d \in Children(g, c) : Head(g.parents[d]) = c} \cap common = {}}
MergeBases(g, a, b) ==
    LET common == Ancestors(g, a) \cap Ancestors(g, b)
    IN  {c \in common : Children(g, c) \cap common = {}}

(* Those that are not a proper ancestor of another. *)
Best(g, candidates) ==
    {c \in candidates : \A d \in candidates \ {c} : ~IsAncestor(g, c, d)}

DedupeParents(g, parents) ==
    Only(Distinct(parents), Best(g, ToSet(parents)))

(* The single best common ancestor of every head: {} and a set of several
   are the two refusals. *)
CommonAnchor(g, heads) ==
    FoldLeft(LAMBDA bases, head : Best(g, UNION {MergeBases(g, b, head) : b \in bases}),
             {Head(heads)}, Tail(heads))

AnchorIsValid(g, anchor, heads) ==
    anchor \in Nodes(g) /\ \A h \in heads : IsAncestor(g, anchor, h)

(* What the heads reach without the proper ancestors of the anchor. *)
RangeOf(g, anchor, heads) ==
    LET reached == UNION {Ancestors(g, h) : h \in heads}
        below == Ancestors(g, anchor) \ {anchor}
    IN  Only(TopologicalOrder(g), reached \ below)

(* The image of the closest ancestor that has one, as a sequence of at most
   one; at equal distance the first parent's line wins. *)
NearestMapped(g, c, mapping) ==
    LET mapped == Only(BreadthFirst(g, c), DOMAIN mapping)
    IN  IF mapped = <<>> THEN <<>> ELSE <<mapping[Head(mapped)]>>

FirstParentRefusal(g, c) == g.firstParent /\ Len(g.parents[c]) > 1

MappedParents(g, c, mapping) ==
    LET present == PresentParents(g, c)
        found[n \in 0..Len(present)] ==
            IF n = 0 THEN <<>> ELSE found[n - 1] \o NearestMapped(g, present[n], mapping)
    IN  Distinct(found[Len(present)])

-----------------------------------------------------------------------------
(* The definitions these stand for, by reachability alone. *)

Reach(g) ==
    LET step(pairs) ==
            pairs \cup {p \in Nodes(g) \X Nodes(g) :
                          \E e \in ToSet(g.parents[p[2]]) : <<p[1], e>> \in pairs}
        reach[n \in 0..Len(g.nodes)] ==
            IF n = 0 THEN {<<c, c>> : c \in Nodes(g)} ELSE step(reach[n - 1])
    IN  reach[Len(g.nodes)]

Maximal(reach, set) == {c \in set : \A d \in set \ {c} : <<c, d>> \notin reach}

MatchesReference(g) ==
    LET reach == Reach(g)
        order == TopologicalOrder(g)
        common(heads) == {a \in Nodes(g) : \A h \in heads : <<a, h>> \in reach}
    IN  /\ ToSet(order) = Nodes(g)
        /\ \A i, j \in DOMAIN order : <<order[i], order[j]>> \in reach => i <= j
        /\ \A a, b \in Nodes(g) :
            /\ IsAncestor(g, a, b) <=> <<a, b>> \in reach
            /\ MergeBases(g, a, b) = Maximal(reach, common({a, b}))
            /\ <<a, b>> \in reach =>
                ToSet(RangeOf(g, a, {b})) =
                    {c \in Nodes(g) : <<c, b>> \in reach /\ (<<c, a>> \in reach => c = a)}
        /\ \A i, j, k \in DOMAIN order : i < j /\ j < k =>
            LET heads == <<order[k], order[i], order[j]>>
            IN  /\ CommonAnchor(g, heads) = Maximal(reach, common(ToSet(heads)))
                /\ ToSet(DedupeParents(g, heads)) = Maximal(reach, ToSet(heads))
        /\ \A c \in Nodes(g) :
            LET line == FirstParentLine(g, c)
            IN  \A i \in 1..(Len(line) - 1) : Head(g.parents[line[i]]) = line[i + 1]
=============================================================================

-------------------------- MODULE ExtractionProofs --------------------------
(***************************************************************************)
(* Proofs about Closure and Extraction: that the traversal finds the least *)
(* closed set of packages of any tree, and that what a plan ships is what  *)
(* the profile describes over the whole upstream tree, however it widened, *)
(* pruned and patched its own part of it.                                  *)
(***************************************************************************)
EXTENDS Extraction, FiniteSetTheorems, WellFoundedInduction, TLAPS

-----------------------------------------------------------------------------
(* The closure of a tree.  Induction is by the smallest counterexample. *)

LEMMA Smallest ==
    ASSUME NEW S, S \subseteq Nat, S # {}
    PROVE  \E n \in S : \A m \in S : n <= m
<1> DEFINE Less == OpToRel(<, Nat)
<1>1. \A x, y \in Nat : <<x, y>> \in Less <=> x < y
  BY DEF OpToRel
<1>2. IsWellFoundedOn(Less, Nat)
  BY NatLessThanWellFounded
<1> HIDE DEF Less
<1>3. PICK n \in S : \A m \in S : <<m, n>> \notin Less
  BY <1>2, WFMin
<1>4. \A m \in S : m \in Nat /\ n \in Nat /\ ~(m < n)
  BY <1>1, <1>3
<1> QED BY <1>4

LEMMA Sizes == Cardinality(Package) \in Nat /\ Package \subseteq Nat
<1>1. Cardinality(Package) \in Nat
  BY ClosureAssumption, FS_CardinalityType
<1>2. \A n \in Nat : 1..n \subseteq Nat
  OBVIOUS
<1> QED BY <1>1, <1>2, ClosureAssumption

IsLevels(g, t, seeds, n) ==
    g = [k \in 0..n |-> IF k = 0 THEN seeds ELSE Package \cap ImportedBy(t, g[k - 1])]

(* The function that Levels denotes exists, up to any level. *)
LEMMA LevelsExist ==
    ASSUME NEW t, NEW seeds, NEW n \in Nat
    PROVE  \E g : IsLevels(g, t, seeds, n)
<1> DEFINE bad == {m \in Nat : ~ \E g : IsLevels(g, t, seeds, m)}
<1> SUFFICES ASSUME bad # {} PROVE FALSE
  OBVIOUS
<1>1. PICK m \in bad : \A k \in bad : m <= k
  BY Smallest
<1>2. m # 0
  <2> DEFINE g == [k \in 0..0 |-> seeds]
  <2>1. IsLevels(g, t, seeds, 0)
    BY DEF IsLevels
  <2> QED BY <2>1
<1>3. m - 1 \in Nat /\ m - 1 \notin bad
  BY <1>1, <1>2
<1>4. PICK g : IsLevels(g, t, seeds, m - 1)
  BY <1>3
<1> DEFINE h == [k \in 0..m |-> IF k = m THEN Package \cap ImportedBy(t, g[m - 1]) ELSE g[k]]
<1>5. \A k \in 0..(m - 1) : g[k] = IF k = 0 THEN seeds ELSE Package \cap ImportedBy(t, g[k - 1])
  BY <1>4 DEF IsLevels
<1>6. h[m] = Package \cap ImportedBy(t, h[m - 1]) /\ \A k \in 0..(m - 1) : h[k] = g[k]
  BY <1>2
<1>7. \A k \in 0..m : h[k] = IF k = 0 THEN seeds ELSE Package \cap ImportedBy(t, h[k - 1])
  <2> TAKE k \in 0..m
  <2>1. CASE k = m
    BY <1>2, <1>6, <2>1
  <2>2. CASE k # m
    <3>1. k \in 0..(m - 1) /\ (k # 0 => k - 1 \in 0..(m - 1))
      BY <2>2
    <3> HIDE DEF h
    <3> QED BY <1>5, <1>6, <3>1
  <2> QED BY <2>1, <2>2
<1>8. IsLevels(h, t, seeds, m)
  <2> DEFINE right == [k \in 0..m |-> IF k = 0 THEN seeds ELSE Package \cap ImportedBy(t, h[k - 1])]
  <2>1. h = [k \in 0..m |-> h[k]]
    OBVIOUS
  <2> HIDE DEF h
  <2>2. h = right
    BY <1>7, <2>1
  <2> QED BY <2>2 DEF IsLevels
<1> QED BY <1>1, <1>8

LEMMA LevelsAre ==
    ASSUME NEW t, NEW seeds, NEW L, L = Levels(t, seeds)
    PROVE  /\ DOMAIN L = 0..Cardinality(Package)
           /\ L[0] = seeds
           /\ \A k \in 1..Cardinality(Package) : L[k] = Package \cap ImportedBy(t, L[k - 1])
<1> DEFINE n == Cardinality(Package)
<1>1. n \in Nat
  BY Sizes
<1>0. L = CHOOSE g : g = [k \in 0..n |-> IF k = 0 THEN seeds ELSE Package \cap ImportedBy(t, g[k - 1])]
  BY DEF Levels
<1> HIDE DEF n
<1>2. \E g : IsLevels(g, t, seeds, n)
  BY <1>1, LevelsExist
<1>4. L = [k \in 0..n |-> IF k = 0 THEN seeds ELSE Package \cap ImportedBy(t, L[k - 1])]
  BY <1>0, <1>2 DEF IsLevels
<1>5. DOMAIN L = 0..n
  BY <1>4
<1>6. \A k \in 0..n : L[k] = IF k = 0 THEN seeds ELSE Package \cap ImportedBy(t, L[k - 1])
  BY <1>4
<1>7. 0 \in 0..n /\ \A k \in 1..n : k \in 0..n /\ k # 0
  BY <1>1
<1> QED BY <1>5, <1>6, <1>7 DEF n

Closed(t, S) == \A q \in S : Package \cap ImportsOf(t, q) \subseteq S

(* What is closed holds every level. *)
LEMMA LevelsWithin ==
    ASSUME NEW t, NEW seeds, NEW S \in SUBSET Package, seeds \subseteq S, Closed(t, S),
           NEW L, L = Levels(t, seeds)
    PROVE  \A k \in 0..Cardinality(Package) : L[k] \subseteq S
<1> DEFINE n == Cardinality(Package)
           bad == {k \in 0..n : ~(L[k] \subseteq S)}
<1> SUFFICES ASSUME bad # {} PROVE FALSE
  OBVIOUS
<1>1. n \in Nat
  BY Sizes
<1>2. PICK k \in bad : \A j \in bad : k <= j
  <2>1. bad \subseteq Nat
    BY <1>1
  <2> HIDE DEF bad
  <2> QED BY <2>1, Smallest
<1>3. L[0] = seeds /\ \A j \in 1..n : L[j] = Package \cap ImportedBy(t, L[j - 1])
  BY LevelsAre
<1> HIDE DEF n
<1>4. k \in 1..n
  BY <1>1, <1>2, <1>3
<1>5. k - 1 \in 0..n /\ k - 1 < k
  BY <1>1, <1>4
<1>6. L[k - 1] \subseteq S
  BY <1>2, <1>5
<1>7. L[k] \subseteq S
  BY <1>3, <1>4, <1>6 DEF ImportedBy, Closed
<1> QED BY <1>2, <1>7

(* The levels stop growing before they run out of packages. *)
LEMMA SomeLevelAddsNothing ==
    ASSUME NEW L, \A k \in 0..Cardinality(Package) : L[k] \subseteq Package
    PROVE  \E k \in 0..Cardinality(Package) : L[k] \subseteq UNION {L[j] : j \in 0..(k - 1)}
<1> DEFINE n == Cardinality(Package)
           Below(k) == UNION {L[j] : j \in 0..(k - 1)}
<1>1. n \in Nat
  BY Sizes
<1> SUFFICES ASSUME \A k \in 0..n : \E p \in L[k] : p \notin Below(k)
             PROVE  FALSE
  OBVIOUS
<1> DEFINE fresh == [k \in 0..n |-> CHOOSE p \in L[k] : p \notin Below(k)]
<1>2. \A k \in 0..n : fresh[k] \in L[k] /\ fresh[k] \notin Below(k)
  OBVIOUS
<1>3. fresh \in [0..n -> Package]
  BY <1>2
<1> HIDE DEF fresh
<1>4. IsFiniteSet(0..n) /\ Cardinality(0..n) = n + 1
  BY <1>1, FS_Interval
<1>5. IsFiniteSet(Package) /\ Cardinality(Package) < Cardinality(0..n)
  BY <1>1, <1>4, ClosureAssumption
<1>6. PICK i, j \in 0..n : i # j /\ fresh[i] = fresh[j]
  BY <1>3, <1>4, <1>5, FS_PigeonHole
<1>7. ASSUME NEW a \in 0..n, NEW c \in 0..n, a < c PROVE fresh[a] # fresh[c]
  <2>1. a \in 0..(c - 1)
    BY <1>1, <1>7
  <2> QED BY <1>2, <2>1
<1>8. i < j \/ j < i
  BY <1>1, <1>6
<1> QED BY <1>6, <1>7, <1>8

LEMMA ReachedIsClosed ==
    ASSUME NEW t, NEW seeds \in SUBSET Package
    PROVE  /\ Reached(t, seeds) \subseteq Package /\ seeds \subseteq Reached(t, seeds)
           /\ Closed(t, Reached(t, seeds))
<1> DEFINE n == Cardinality(Package)
<1>1. n \in Nat
  BY Sizes
<1>2. PICK L : L = Levels(t, seeds)
  OBVIOUS
<1>3. /\ L[0] = seeds
      /\ \A k \in 1..n : L[k] = Package \cap ImportedBy(t, L[k - 1])
  BY <1>2, LevelsAre
<1>4. Reached(t, seeds) = UNION {L[k] : k \in 0..n}
  BY <1>2 DEF Reached
<1> HIDE DEF n
<1>5. \A k \in 0..n : L[k] \subseteq Package
  <2> TAKE k \in 0..n
  <2>1. k = 0 \/ k \in 1..n
    BY <1>1
  <2> QED BY <1>3, <2>1
<1>6. PICK k \in 0..n : L[k] \subseteq UNION {L[j] : j \in 0..(k - 1)}
  BY <1>5, SomeLevelAddsNothing DEF n
<1> DEFINE kept == UNION {L[j] : j \in 0..(k - 1)}
<1>7. kept \subseteq Package /\ kept \subseteq Reached(t, seeds)
  <2>1. \A j \in 0..(k - 1) : j \in 0..n
    BY <1>1
  <2> QED BY <1>4, <1>5, <2>1
<1>8. seeds \subseteq kept
  <2>1. CASE k = 0
    BY <1>3, <1>6, <2>1
  <2>2. CASE k # 0
    <3>1. 0 \in 0..(k - 1)
      BY <1>1, <2>2
    <3> QED BY <1>3, <3>1
  <2> QED BY <2>1, <2>2
<1>9. Closed(t, kept)
  <2> SUFFICES ASSUME NEW j \in 0..(k - 1), NEW q \in L[j], NEW p \in Package \cap ImportsOf(t, q)
               PROVE  p \in kept
    BY DEF Closed
  <2>1. j + 1 \in 1..n /\ (j + 1) - 1 = j
    BY <1>1
  <2>2. p \in L[j + 1]
    BY <1>3, <2>1 DEF ImportedBy
  <2>3. CASE j + 1 = k
    BY <1>6, <2>2, <2>3
  <2>4. CASE j + 1 # k
    <3>1. j + 1 \in 0..(k - 1)
      BY <1>1, <2>4
    <3> QED BY <2>2, <3>1
  <2> QED BY <2>3, <2>4
<1> HIDE DEF kept
<1>10. \A m \in 0..n : L[m] \subseteq kept
  BY <1>2, <1>7, <1>8, <1>9, LevelsWithin DEF n
<1>11. Reached(t, seeds) = kept
  BY <1>4, <1>7, <1>10
<1> QED BY <1>7, <1>8, <1>9, <1>11

(* The levelwise traversal of walk.go computes the least closed set of
   packages that holds the roots, for trees of any size. *)
THEOREM ReachedIsLeast ==
    ASSUME NEW t, NEW seeds \in SUBSET Package
    PROVE  Reached(t, seeds) = Least(t, seeds)
<1>1. PICK L : L = Levels(t, seeds)
  OBVIOUS
<1>2. Reached(t, seeds) \in SUBSET Package /\ seeds \subseteq Reached(t, seeds) /\ Closed(t, Reached(t, seeds))
  BY ReachedIsClosed
<1>3. Least(t, seeds) \subseteq Reached(t, seeds)
  BY <1>2 DEF Least, Closed
<1>4. ASSUME NEW p \in Reached(t, seeds) PROVE p \in Least(t, seeds)
  <2>1. PICK k \in 0..Cardinality(Package) : p \in L[k]
    BY <1>1, <1>4 DEF Reached
  <2>2. \A S \in SUBSET Package : seeds \subseteq S /\ Closed(t, S) => p \in S
    BY <1>1, <2>1, LevelsWithin
  <2> QED BY <1>2, <1>4, <2>2 DEF Least, Closed
<1> QED BY <1>3, <1>4

LEMMA LeastIsClosed ==
    ASSUME NEW t, NEW seeds \in SUBSET Package
    PROVE  /\ Least(t, seeds) \subseteq Package /\ seeds \subseteq Least(t, seeds)
           /\ Closed(t, Least(t, seeds))
           /\ \A S \in SUBSET Package : seeds \subseteq S /\ Closed(t, S) => Least(t, seeds) \subseteq S
<1>1. \A S \in SUBSET Package : seeds \subseteq S /\ Closed(t, S) => Least(t, seeds) \subseteq S
  BY DEF Least, Closed
<1> QED BY <1>1, ReachedIsClosed, ReachedIsLeast

(* Two trees that agree on the closure of one have one closure. *)
LEMMA SameClosure ==
    ASSUME NEW t, NEW u, NEW seeds \in SUBSET Package,
           \A f \in File : Home[f] \in Least(t, seeds) => t[f] = u[f]
    PROVE  Least(u, seeds) = Least(t, seeds)
<1>1. \A p \in Least(t, seeds) : ImportsOf(t, p) = ImportsOf(u, p)
  BY DEF ImportsOf, FilesOf
<1>2. Closed(u, Least(t, seeds))
  BY <1>1, LeastIsClosed DEF Closed
<1>3. Least(u, seeds) \subseteq Least(t, seeds)
  BY <1>2, LeastIsClosed
<1>4. Closed(t, Least(u, seeds))
  BY <1>1, <1>3, LeastIsClosed DEF Closed
<1>5. Least(t, seeds) \subseteq Least(u, seeds)
  BY <1>4, LeastIsClosed
<1> QED BY <1>3, <1>5

-----------------------------------------------------------------------------
(* What a build answers. *)

LEMMA MinIs ==
    ASSUME NEW S, S \subseteq Nat, S # {}
    PROVE  Min(S) \in S
  BY Smallest DEF Min

LEMMA FirstMissingIs ==
    ASSUME NEW t, NEW seeds \in SUBSET Package, ~Complete(t, seeds)
    PROVE  FirstMissing(t, seeds) \in Package
<1>1. PICK L : L = Levels(t, seeds)
  OBVIOUS
<1>2. Reached(t, seeds) \subseteq Package /\ DOMAIN L = 0..Cardinality(Package)
  BY <1>1, ReachedIsClosed, LevelsAre
<1> DEFINE levels == {n \in DOMAIN L : Unreadable(t, L[n]) # {}}
<1>3. levels # {} /\ levels \subseteq Nat
  BY <1>1, <1>2, Sizes DEF Complete, Reached, Unreadable
<1> HIDE DEF levels
<1>4. PICK k \in levels : k = Min(levels)
  BY <1>3, MinIs
<1>5. Unreadable(t, L[k]) # {} /\ Unreadable(t, L[k]) \subseteq Package
  BY <1>1, <1>2, <1>4 DEF levels, Unreadable, Reached
<1>6. Unreadable(t, L[k]) \subseteq Nat
  BY <1>5, Sizes
<1>7. Min(Unreadable(t, L[k])) \in Package
  BY <1>5, <1>6, MinIs
<1>8. FirstMissing(t, seeds) = Min(Unreadable(t, L[k]))
  BY <1>1, <1>4 DEF FirstMissing, levels
<1> QED BY <1>7, <1>8

LEMMA ProfileIs ==
    ASSUME NEW prof \in Profiles
    PROVE  /\ prof.roots \in SUBSET Package /\ prof.prune \subseteq File
           /\ prof.maxPackages \in Nat
  BY DEF Profiles

Targets(t, prof) == {f \in prof.prune : t[f] # Absent}

LEMMA WithoutIs ==
    ASSUME NEW t \in Trees, NEW files
    PROVE  Without(t, files) \in Trees
  BY DEF Without, Trees

(* Removing what is there of the prune list removes the list. *)
LEMMA TargetsAre ==
    ASSUME NEW t \in Trees, NEW prof \in Profiles
    PROVE  Without(t, Targets(t, prof)) = Without(t, prof.prune)
  BY ProfileIs DEF Without, Trees, Targets

LEMMA CountsAre ==
    ASSUME NEW t, NEW packages \in SUBSET Package
    PROVE  Counts(t, packages) \in [packages : Nat, files : Nat]
<1>1. FilesIn(t, packages) \in SUBSET File
  BY DEF FilesIn, FilesOf
<1>2. IsFiniteSet(packages) /\ IsFiniteSet(FilesIn(t, packages))
  BY <1>1, ClosureAssumption, FS_Subset
<1>3. Cardinality(packages) \in Nat /\ Cardinality(FilesIn(t, packages)) \in Nat
  BY <1>2, FS_CardinalityType
<1> QED BY <1>3 DEF Counts

(* What a builder may know after a build. *)
Learned(b, t, prof, next) ==
    /\ next.applied \in {b.applied, b.applied \cup Targets(t, prof)}
    /\ next.applied # b.applied => Complete(t, prof.roots) /\ ~PruneRefused(b, t, prof)
    /\ next.baseline \in {b.baseline, Counts(t, Reached(t, prof.roots))}
    /\ next.baseline # b.baseline => b.baseline = None /\ Complete(t, prof.roots)

(* The answers of a build, and what a build that succeeds has found. *)
LEMMA BuildIs ==
    ASSUME NEW t \in Trees, NEW prof \in Profiles, NEW b \in Builders, NEW out, out = Build(b, t, prof)
    PROVE  /\ out.err \in {"none", "missing", "prune", "result"}
           /\ out.tree \in {t, Without(t, prof.prune)}
           /\ out.missing \subseteq Package /\ out.packages \subseteq Package
           /\ out.files \subseteq File /\ out.removed \subseteq File
           /\ Learned(b, t, prof, out.builder)
           /\ out.tree \in Trees /\ out.builder \in Builders
           /\ out.err = "none" =>
                /\ Complete(t, prof.roots) /\ ~PruneRefused(b, t, prof)
                /\ out.tree = Without(t, prof.prune) /\ Complete(out.tree, prof.roots)
                /\ out.packages = Least(out.tree, prof.roots)
                /\ out.files = FilesIn(out.tree, out.packages)
                /\ out.removed = Targets(t, prof)
                /\ b.baseline = None => out.builder.baseline = Counts(t, Reached(t, prof.roots))
<1> DEFINE pre == Reached(t, prof.roots)
           measured == Baselined(b, t, pre)
           pruned == Without(t, prof.prune)
           done == [measured EXCEPT !.applied = @ \cup Targets(t, prof)]
           post == Reached(pruned, prof.roots)
           found == \/ Denied(pruned, post, prof)
                    \/ ~prof.required \subseteq FilesIn(pruned, post)
                    \/ OverLimit(post, prof)
<1>1. out = IF ~Complete(t, prof.roots)
            THEN Outcome("missing", {FirstMissing(t, prof.roots)}, b, t, {}, {})
            ELSE IF PruneRefused(b, t, prof)
            THEN Outcome("prune", {}, measured, t, {}, {})
            ELSE IF ~Complete(pruned, prof.roots)
            THEN Outcome("missing", {FirstMissing(pruned, prof.roots)}, done, pruned, {}, {})
            ELSE IF found
            THEN Outcome("result", {}, done, pruned, {}, {})
            ELSE Outcome("none", {}, done, pruned, post, Targets(t, prof))
  <2>1. Without(t, {f \in prof.prune : t[f] # Absent}) = pruned
    BY TargetsAre DEF Targets
  <2> QED BY <2>1 DEF Build, Targets
<1>2. b = [applied |-> b.applied, baseline |-> b.baseline] /\ b.applied \subseteq File
  BY DEF Builders
<1>3. \/ measured = b
      \/ b.baseline = None /\ measured = [applied |-> b.applied, baseline |-> Counts(t, pre)]
  BY <1>2 DEF Baselined
<1>4. b.baseline = None => measured = [applied |-> b.applied, baseline |-> Counts(t, pre)]
  BY <1>2 DEF Baselined
<1>5. done = [applied |-> b.applied \cup Targets(t, prof), baseline |-> measured.baseline]
  BY <1>2, <1>3
<1>6. post \subseteq Package /\ post = Least(pruned, prof.roots) /\ FilesIn(pruned, post) \subseteq File
      /\ Targets(t, prof) \subseteq File /\ FilesIn(t, {}) = {} /\ FilesIn(pruned, {}) = {}
  BY ProfileIs, ReachedIsClosed, ReachedIsLeast DEF FilesIn, FilesOf, Targets
<1>7. /\ ~Complete(t, prof.roots) => FirstMissing(t, prof.roots) \in Package
      /\ ~Complete(pruned, prof.roots) => FirstMissing(pruned, prof.roots) \in Package
  BY ProfileIs, FirstMissingIs
<1>13. Counts(t, pre) \in [packages : Nat, files : Nat]
  BY ProfileIs, ReachedIsClosed, CountsAre
<1>14. /\ measured = [applied |-> b.applied, baseline |-> measured.baseline]
       /\ measured.applied = b.applied /\ measured.baseline \in {b.baseline, Counts(t, pre)}
       /\ measured.baseline # b.baseline => b.baseline = None
       /\ b.baseline = None => measured.baseline = Counts(t, pre)
  <2>1. CASE measured = b
    BY <1>2, <1>4, <2>1
  <2>2. CASE b.baseline = None /\ measured = [applied |-> b.applied, baseline |-> Counts(t, pre)]
    BY <2>2
  <2> QED BY <1>3, <2>1, <2>2
<1>15. /\ done.applied = b.applied \cup Targets(t, prof) /\ done.baseline = measured.baseline
       /\ done = [applied |-> done.applied, baseline |-> done.baseline]
  BY <1>5
<1>16. b.baseline \in {None} \cup [packages : Nat, files : Nat]
  BY DEF Builders
<1> HIDE DEF measured, done, post, pruned, found, pre, Targets
<1>17. measured \in Builders /\ done \in Builders
  <2>1. measured.baseline \in {None} \cup [packages : Nat, files : Nat]
    BY <1>13, <1>14, <1>16
  <2>2. measured.applied \subseteq File /\ done.applied \subseteq File
    BY <1>2, <1>6, <1>14, <1>15
  <2> QED BY <1>14, <1>15, <2>1, <2>2 DEF Builders
<1>18. t \in Trees /\ pruned \in Trees
  BY WithoutIs DEF pruned
<1>19. Learned(b, t, prof, b)
  BY DEF Learned
<1>20. Complete(t, prof.roots) => Learned(b, t, prof, measured)
  BY <1>14 DEF Learned, pre
<1>21. Complete(t, prof.roots) /\ ~PruneRefused(b, t, prof) => Learned(b, t, prof, done)
  BY <1>14, <1>15 DEF Learned, pre
<1>8. CASE ~Complete(t, prof.roots)
  <2>1. /\ out.err = "missing" /\ out.tree = t /\ out.missing = {FirstMissing(t, prof.roots)}
        /\ out.packages = {} /\ out.files = {} /\ out.removed = {} /\ out.builder = b
    BY <1>1, <1>6, <1>8 DEF Outcome
  <2> QED BY <1>7, <1>8, <1>18, <1>19, <2>1
<1>9. CASE Complete(t, prof.roots) /\ PruneRefused(b, t, prof)
  <2>1. /\ out.err = "prune" /\ out.tree = t /\ out.missing = {} /\ out.packages = {}
        /\ out.files = {} /\ out.removed = {} /\ out.builder = measured
    BY <1>1, <1>6, <1>9 DEF Outcome
  <2> QED BY <1>9, <1>17, <1>18, <1>20, <2>1
<1>10. CASE Complete(t, prof.roots) /\ ~PruneRefused(b, t, prof) /\ ~Complete(pruned, prof.roots)
  <2>1. /\ out.err = "missing" /\ out.tree = pruned /\ out.packages = {} /\ out.files = {}
        /\ out.missing = {FirstMissing(pruned, prof.roots)} /\ out.removed = {} /\ out.builder = done
    BY <1>1, <1>6, <1>10 DEF Outcome
  <2> QED BY <1>7, <1>10, <1>17, <1>18, <1>21, <2>1 DEF pruned
<1>11. CASE Complete(t, prof.roots) /\ ~PruneRefused(b, t, prof) /\ Complete(pruned, prof.roots) /\ found
  <2>1. /\ out.err = "result" /\ out.tree = pruned /\ out.missing = {} /\ out.packages = {}
        /\ out.files = {} /\ out.removed = {} /\ out.builder = done
    BY <1>1, <1>6, <1>11 DEF Outcome
  <2> QED BY <1>11, <1>17, <1>18, <1>21, <2>1 DEF pruned
<1>12. CASE Complete(t, prof.roots) /\ ~PruneRefused(b, t, prof) /\ Complete(pruned, prof.roots) /\ ~found
  <2>1. /\ out.err = "none" /\ out.tree = pruned /\ out.missing = {} /\ out.packages = post
        /\ out.files = FilesIn(pruned, post) /\ out.removed = Targets(t, prof) /\ out.builder = done
    BY <1>1, <1>12 DEF Outcome
  <2> QED BY <1>6, <1>12, <1>14, <1>15, <1>17, <1>18, <1>21, <2>1 DEF pre, pruned
<1> QED BY <1>8, <1>9, <1>10, <1>11, <1>12

(* A complete closure lies in what is materialized, and is that of the whole
   tree. *)
LEMMA WholeClosure ==
    ASSUME NEW u, NEW dirs, NEW seeds \in SUBSET Package, Complete(Sparse(u, dirs), seeds)
    PROVE  /\ Least(u, seeds) \subseteq dirs
           /\ Least(Sparse(u, dirs), seeds) = Least(u, seeds)
           /\ Reached(Sparse(u, dirs), seeds) = Least(u, seeds)
<1> DEFINE t == Sparse(u, dirs)
<1>1. Reached(t, seeds) = Least(t, seeds)
  BY ReachedIsLeast
<1>2. \A p \in Least(t, seeds) : FilesOf(t, p) # {}
  BY <1>1 DEF Complete, Unreadable
<1>3. Least(t, seeds) \subseteq dirs
  BY <1>2 DEF FilesOf, Sparse
<1>4. \A f \in File : Home[f] \in Least(t, seeds) => t[f] = u[f]
  BY <1>3 DEF Sparse
<1>5. Least(u, seeds) = Least(t, seeds)
  BY <1>4, SameClosure
<1> QED BY <1>1, <1>3, <1>5

-----------------------------------------------------------------------------
(* Sparse trees and series. *)

LEMMA SparseIs ==
    ASSUME NEW u \in Trees, NEW dirs, NEW files
    PROVE  /\ Sparse(u, dirs) \in Trees
           /\ Without(Sparse(u, dirs), files) = Sparse(Without(u, files), dirs)
           /\ u \in [File -> Contents \cup {Absent}] /\ Absent \notin Contents
<1>1. Absent \notin Contents
  BY Sizes, ClosureAssumption DEF Absent, Contents
<1> QED BY <1>1 DEF Sparse, Without, Trees

LEMMA SeriesIs ==
    ASSUME NEW s, IsSeries(s)
    PROVE  /\ Len(s) \in Nat /\ DOMAIN s = 1..Len(s)
           /\ s = <<>> <=> Len(s) = 0
           /\ \A i \in 1..Len(s) : IsPatch(s[i])
<1>1. PICK S : s \in Seq(S)
  BY DEF IsSeries
<1> QED BY <1>1 DEF IsSeries

(* The tree after the first n patches of a series. *)
AfterFirst(u, patches, n) ==
    [f \in File |-> LET touching == {i \in 1..n : f \in DOMAIN patches[i]}
                    IN IF touching = {} THEN u[f] ELSE patches[Max(touching)][f].to]

LEMMA AfterNone ==
    ASSUME NEW u \in Trees, NEW s
    PROVE  AfterFirst(u, s, 0) = u
<1>1. 1..0 = {}
  OBVIOUS
<1> QED BY <1>1 DEF AfterFirst, Trees

LEMMA AfterAll ==
    ASSUME NEW u, NEW s, IsSeries(s)
    PROVE  AfterFirst(u, s, Len(s)) = WithPatches(u, s)
<1>1. \A f \in File : Touching(s, f) = {i \in 1..Len(s) : f \in DOMAIN s[i]}
  BY SeriesIs DEF Touching
<1> QED BY <1>1 DEF AfterFirst, WithPatches

LEMMA MaxIs ==
    ASSUME NEW n \in Nat, NEW S \in SUBSET (1..n + 1), n + 1 \in S
    PROVE  Max(S) = n + 1
<1>1. \A y \in S : n + 1 >= y
  OBVIOUS
<1>2. \A x \in S : (\A y \in S : x >= y) => x = n + 1
  OBVIOUS
<1> QED BY <1>1, <1>2 DEF Max

LEMMA GreatestIs ==
    ASSUME NEW n \in Nat, NEW S \in SUBSET (1..n), S # {}
    PROVE  Max(S) \in S
<1> DEFINE rest == {n - i : i \in S}
<1>1. rest \subseteq Nat /\ rest # {}
  <2>1. \A i \in S : n - i \in Nat
    OBVIOUS
  <2>2. PICK i \in S : TRUE
    OBVIOUS
  <2>3. n - i \in rest
    OBVIOUS
  <2> QED BY <2>1, <2>3
<1>2. PICK k \in rest : \A m \in rest : k <= m
  <2> HIDE DEF rest
  <2> QED BY <1>1, Smallest
<1>3. PICK i \in S : k = n - i
  BY <1>2
<1>4. \A j \in S : i >= j
  BY <1>2, <1>3
<1> QED BY <1>4 DEF Max

LEMMA AfterStep ==
    ASSUME NEW u, NEW s, NEW n \in Nat, NEW f \in File
    PROVE  AfterFirst(u, s, n + 1)[f] =
               IF f \in DOMAIN s[n + 1] THEN s[n + 1][f].to ELSE AfterFirst(u, s, n)[f]
<1> DEFINE touching(k) == {i \in 1..k : f \in DOMAIN s[i]}
<1>1. CASE f \in DOMAIN s[n + 1]
  <2>1. n + 1 \in touching(n + 1) /\ touching(n + 1) \in SUBSET (1..n + 1)
    BY <1>1
  <2>2. Max(touching(n + 1)) = n + 1
    BY <2>1, MaxIs
  <2>3. AfterFirst(u, s, n + 1)[f] =
            IF touching(n + 1) = {} THEN u[f] ELSE s[Max(touching(n + 1))][f].to
    BY DEF AfterFirst
  <2> QED BY <1>1, <2>1, <2>2, <2>3
<1>2. CASE f \notin DOMAIN s[n + 1]
  <2>1. touching(n + 1) = touching(n)
    BY <1>2
  <2> QED BY <1>2, <2>1 DEF AfterFirst
<1> QED BY <1>1, <1>2

(* A patch whose packages are materialized, and pruning after it. *)
LEMMA PatchedIs ==
    ASSUME NEW u \in Trees, NEW s, NEW dirs, NEW files, NEW n \in Nat, NEW t, NEW next,
           \A f \in DOMAIN s[n + 1] : Home[f] \in dirs,
           t = Sparse(Without(AfterFirst(u, s, n), files), dirs),
           next = [f \in File |-> IF f \in DOMAIN s[n + 1] THEN s[n + 1][f].to ELSE t[f]]
    PROVE  \A f \in File \ files : next[f] = Sparse(AfterFirst(u, s, n + 1), dirs)[f]
<1> SUFFICES ASSUME NEW f \in File \ files
             PROVE  next[f] = Sparse(AfterFirst(u, s, n + 1), dirs)[f]
  OBVIOUS
<1>1. t[f] = IF Home[f] \in dirs THEN AfterFirst(u, s, n)[f] ELSE Absent
  BY DEF Sparse, Without
<1>2. Sparse(AfterFirst(u, s, n + 1), dirs)[f] =
          IF Home[f] \in dirs THEN AfterFirst(u, s, n + 1)[f] ELSE Absent
  BY DEF Sparse
<1> QED BY <1>1, <1>2, AfterStep

LEMMA ReassertedIs ==
    ASSUME NEW a, NEW dirs, NEW files, NEW t,
           \A f \in File \ files : t[f] = Sparse(a, dirs)[f]
    PROVE  Without(t, files) = Sparse(Without(a, files), dirs)
  BY DEF Without, Sparse

(* What is handed on of a sparse tree whose closure is materialized. *)
LEMMA ShippedIs ==
    ASSUME NEW d \in Trees, NEW dirs, NEW P, P \subseteq dirs, NEW t, t = Sparse(d, dirs)
    PROVE  Without(t, File \ FilesIn(t, P)) = Sparse(d, P)
<1>1. \A f \in File : f \in FilesIn(t, P) <=> Home[f] \in P /\ t[f] # Absent
  BY DEF FilesIn, FilesOf
<1> QED BY <1>1 DEF Without, Sparse

(* What a builder remembers is about the pristine closure of the whole tree. *)
Recalls(b, u, seeds) ==
    /\ \A f \in b.applied : u[f] # Absent /\ Home[f] \in Least(u, seeds)
    /\ b.baseline \in {None, Counts(u, Least(u, seeds))}

(* What a successful build of the commit finds. *)
IsPruned(u, dirs, prof, out) ==
    /\ Least(u, prof.roots) \subseteq dirs
    /\ out.builder.baseline # None
    /\ \A f \in prof.prune : u[f] # Absent /\ Home[f] \in Least(u, prof.roots)
    /\ out.removed = prof.prune
    /\ out.tree = Sparse(Without(u, prof.prune), dirs)

(* A build of the part of the commit that is materialized. *)
LEMMA FirstBuildIs ==
    ASSUME NEW u \in Trees, NEW dirs, NEW t, t = Sparse(u, dirs), NEW prof \in Profiles,
           NEW b \in Builders, Recalls(b, u, prof.roots), NEW out, out = Build(b, t, prof)
    PROVE  /\ Recalls(out.builder, u, prof.roots)
           /\ out.err = "none" => IsPruned(u, dirs, prof, out)
<1>1. t \in Trees /\ prof.roots \in SUBSET Package /\ prof.prune \subseteq File
  BY SparseIs, ProfileIs
<1> DEFINE pre == Least(u, prof.roots)
<1>2. ASSUME Complete(t, prof.roots)
      PROVE  pre \subseteq dirs /\ Reached(t, prof.roots) = pre
  BY <1>1, <1>2, WholeClosure
<1>3. ASSUME Complete(t, prof.roots)
      PROVE  Counts(t, Reached(t, prof.roots)) = Counts(u, pre)
  <2>1. \A f \in File : Home[f] \in pre => t[f] = u[f]
    BY <1>2, <1>3 DEF Sparse
  <2>2. FilesIn(t, pre) = FilesIn(u, pre)
    BY <2>1 DEF FilesIn, FilesOf
  <2> QED BY <1>2, <1>3, <2>2 DEF Counts
<1>4. ASSUME ~PruneRefused(b, t, prof), Complete(t, prof.roots)
      PROVE  /\ \A f \in prof.prune : u[f] # Absent /\ Home[f] \in pre
             /\ Targets(t, prof) = prof.prune
  <2>1. \A f \in prof.prune : t[f] = Absent => f \in b.applied
    BY <1>4 DEF PruneRefused
  <2>2. \A f \in prof.prune : t[f] # Absent => Home[f] \in pre
    BY <1>2, <1>4 DEF PruneRefused
  <2>3. \A f \in File : t[f] = IF Home[f] \in dirs THEN u[f] ELSE Absent
    BY DEF Sparse
  <2>4. \A f \in prof.prune : u[f] # Absent /\ Home[f] \in pre
    BY <1>1, <2>1, <2>2, <2>3 DEF Recalls
  <2> QED BY <1>1, <1>2, <1>4, <2>3, <2>4 DEF Targets
<1>5. Recalls(out.builder, u, prof.roots)
  <2>1. Learned(b, t, prof, out.builder)
    BY <1>1, BuildIs, Zenon
  <2>5. \A f \in out.builder.applied : u[f] # Absent /\ Home[f] \in pre
    BY <1>4, <2>1 DEF Recalls, Learned
  <2>6. out.builder.baseline \in {None, Counts(u, pre)}
    BY <1>3, <2>1 DEF Recalls, Learned
  <2> QED BY <2>5, <2>6 DEF Recalls
<1>6. ASSUME out.err = "none"
      PROVE  IsPruned(u, dirs, prof, out)
  <2>1. Complete(t, prof.roots) /\ ~PruneRefused(b, t, prof)
    BY <1>1, <1>6, BuildIs, Zenon
  <2>2. out.tree = Without(t, prof.prune) /\ out.removed = Targets(t, prof)
    BY <1>1, <1>6, BuildIs, Zenon
  <2>3. out.builder.baseline # None
    <3>1. b.baseline = None => out.builder.baseline = Counts(t, Reached(t, prof.roots))
      BY <1>1, <1>6, BuildIs, Zenon
    <3>2. Learned(b, t, prof, out.builder)
      BY <1>1, BuildIs, Zenon
    <3>3. Counts(t, Reached(t, prof.roots)) # None
      BY <1>1, ReachedIsClosed, CountsAre, ClosureAssumption
    <3> QED BY <3>1, <3>2, <3>3 DEF Learned
  <2>4. out.tree = Sparse(Without(u, prof.prune), dirs)
    BY <2>2, SparseIs
  <2> QED BY <1>2, <1>4, <2>1, <2>2, <2>3, <2>4 DEF IsPruned
<1> QED BY <1>5, <1>6

(* A later build, of a tree that the series has changed. *)
LEMMA LaterBuildIs ==
    ASSUME NEW u \in Trees, NEW t \in Trees, NEW prof \in Profiles, NEW b \in Builders,
           Recalls(b, u, prof.roots), b.baseline # None,
           \A f \in prof.prune : u[f] # Absent /\ Home[f] \in Least(u, prof.roots),
           NEW out, out = Build(b, t, prof)
    PROVE  Recalls(out.builder, u, prof.roots) /\ out.builder.baseline # None
<1>1. Learned(b, t, prof, out.builder)
  BY BuildIs, Zenon
<1> QED BY <1>1 DEF Learned, Recalls, Targets

-----------------------------------------------------------------------------
(* The inductive invariant: what each stage of a plan may rely on. *)

After(n) == AfterFirst(upstream, series, n)

HasPruned == {"anchor", "patch", "reassert", "rollback", "settle", "relocate", "done"}

Inputs == upstream \in Trees /\ profile \in Profiles /\ IsSeries(series)

Cursor ==
    /\ stage \in {"materialize", "closure", "anchor"} => at = 1
    /\ stage \in {"patch", "reassert"} /\ series # <<>> => at \in 1..Len(series)
    /\ stage = "reassert" => series # <<>>
    /\ stage = "materialize" => widened = {} /\ rounds = 0
    /\ stage = "closure" => rounds < WidenBound

(* Until the closure is found, the trees are those of the commit. *)
Pristine ==
    /\ stage \in {"materialize", "closure"} => head = upstream /\ index = upstream
    /\ stage = "closure" => tree = Sparse(upstream, Materialized)

Remembered == Recalls(builder, upstream, profile.roots)

Asserted ==
    stage \in HasPruned =>
        /\ PrePrune \subseteq Materialized
        /\ builder.baseline # None
        /\ \A f \in profile.prune : upstream[f] # Absent /\ Home[f] \in PrePrune

Anchored ==
    /\ stage = "anchor" =>
        /\ head = upstream /\ index = upstream
        /\ result.removed = profile.prune
    /\ stage = "patch" /\ at = 1 =>
        head = Without(upstream, profile.prune) /\ index = head
    /\ stage = "anchor" \/ (stage = "patch" /\ at = 1) =>
        tree = Sparse(Without(upstream, profile.prune), Materialized)

(* What the work tree shows of the described one, patch by patch. *)
Shown ==
    WithinClosure =>
        /\ stage = "patch" => tree = Sparse(Without(After(at - 1), profile.prune), Materialized)
        /\ stage = "reassert" =>
            \A f \in File \ profile.prune : tree[f] = Sparse(After(at), Materialized)[f]
        /\ stage \in {"settle", "relocate"} => tree = Sparse(Described, Materialized)

Selected ==
    stage = "relocate" /\ WithinClosure =>
        /\ result.packages = Least(Described, profile.roots)
        /\ result.packages \subseteq Materialized
        /\ result.files = FilesIn(tree, result.packages)

Failures == {"apply", "reassert", "cancel"}

Reasons ==
    /\ stage \notin {"rollback", "refused"} => why = "nothing"
    /\ stage = "rollback" => why \in Failures

PlanInv ==
    /\ Inputs /\ TypeOK /\ Cursor /\ Pristine /\ Remembered /\ Asserted /\ Anchored
    /\ Shown /\ Selected /\ Reasons
    /\ ShipsWhatIsDescribed /\ AllOrNothing /\ NeverDirty

-----------------------------------------------------------------------------
(* Initially, and step by step. *)

LEMMA BoundIs ==
    ASSUME Inputs
    PROVE  /\ WidenBound \in Nat \ {0}
           /\ profile \in Profiles
           /\ profile.roots \in SUBSET Package /\ profile.prune \subseteq File
<1>1. profile.roots \in SUBSET Package /\ profile.prune \subseteq File /\ profile.maxPackages \in Nat
  BY ProfileIs DEF Inputs
<1>2. Cardinality(profile.roots) \in Nat
  BY <1>1, ClosureAssumption, FS_Subset, FS_CardinalityType
<1> QED BY <1>1, <1>2, PlanAssumption DEF WidenBound, Inputs

LEMMA EmptyIs == Empty \in Trees
  BY DEF Empty, Trees

LEMMA PlanInit == Init => PlanInv
<1> SUFFICES ASSUME Init PROVE PlanInv
  OBVIOUS
<1>1. Inputs
  BY PlanAssumption DEF Init, Inputs
<1>2. TypeOK
  <2>1. builder \in Builders
    BY DEF Init, NewBuilder, Builders
  <2>2. at \in 1..Len(series) + 1 /\ rounds \in 0..WidenBound
    BY <1>1, BoundIs, SeriesIs DEF Init, Inputs
  <2>3. head \in Trees /\ index \in Trees /\ tree \in Trees /\ output \in Trees
    BY <1>1, EmptyIs DEF Init, Inputs
  <2> QED BY <2>1, <2>2, <2>3 DEF Init, TypeOK, Stages, NoClosure
<1>3. Remembered
  BY DEF Init, Remembered, Recalls, NewBuilder
<1>4. Cursor /\ Pristine /\ Asserted /\ Anchored /\ Shown /\ Selected /\ Reasons
  BY DEF Init, Cursor, Pristine, Asserted, HasPruned, Anchored, Shown, Selected, Reasons
<1>5. ShipsWhatIsDescribed /\ AllOrNothing /\ NeverDirty
  BY DEF Init, ShipsWhatIsDescribed, AllOrNothing, NeverDirty
<1> QED BY <1>1, <1>2, <1>3, <1>4, <1>5 DEF PlanInv

(* Steps that touch no tree: the context, and what it ends. *)
LEMMA CancelPlan == ASSUME PlanInv, Cancel PROVE PlanInv'
<1>1. Inputs' /\ TypeOK' /\ Remembered'
  BY DEF PlanInv, Cancel, Inputs, inputs, trees, TypeOK, Remembered, Materialized, WidenBound
<1>2. Cursor' /\ Pristine' /\ Asserted' /\ Anchored' /\ Reasons'
  BY DEF PlanInv, Cancel, inputs, trees, Cursor, WidenBound, Pristine, Asserted, HasPruned, PrePrune,
         Anchored, Reasons, Materialized
<1>3. Shown' /\ Selected' /\ ShipsWhatIsDescribed'
  BY DEF PlanInv, Cancel, inputs, trees, Shown, Selected, ShipsWhatIsDescribed, WithinClosure,
         PrePrune, Described, After, Materialized
<1>4. AllOrNothing' /\ NeverDirty'
  BY DEF PlanInv, Cancel, inputs, trees, AllOrNothing, NeverDirty, Materialized
<1> QED BY <1>1, <1>2, <1>3, <1>4 DEF PlanInv

LEMMA InterruptPlan == ASSUME PlanInv, Interrupt PROVE PlanInv'
<1>1. Inputs' /\ TypeOK' /\ Remembered'
  BY DEF PlanInv, Interrupt, Inputs, inputs, trees, TypeOK, Stages, Ended, Remembered, WidenBound
<1>2. Cursor' /\ Pristine' /\ Asserted' /\ Anchored' /\ Reasons'
  BY DEF PlanInv, Interrupt, Cursor, Pristine, Asserted, HasPruned, Anchored, Reasons, Ended
<1>3. Shown' /\ Selected' /\ ShipsWhatIsDescribed' /\ AllOrNothing' /\ NeverDirty'
  BY DEF PlanInv, Interrupt, Shown, Selected, ShipsWhatIsDescribed, AllOrNothing, NeverDirty
<1> QED BY <1>1, <1>2, <1>3 DEF PlanInv

(* The trees of the commit, as far as they are materialized. *)
LEMMA MaterializePlan == ASSUME PlanInv, Materialize PROVE PlanInv'
<1>1. upstream \in Trees /\ upstream' = upstream /\ profile' = profile /\ series' = series
  BY DEF PlanInv, Materialize, Inputs, inputs
<1>2. tree' \in Trees /\ tree' = Sparse(upstream, profile.roots \cup widened)
  BY <1>1, SparseIs DEF PlanInv, Materialize, Cursor
<1>3. Inputs' /\ TypeOK' /\ Remembered'
  BY <1>1, <1>2 DEF PlanInv, Materialize, Inputs, TypeOK, Stages, Remembered, WidenBound
<1>4. Cursor' /\ Pristine'
  BY <1>1, <1>2, BoundIs DEF PlanInv, Materialize, Cursor, Pristine, WidenBound, Materialized
<1>5. Asserted' /\ Anchored' /\ Reasons'
  BY DEF PlanInv, Materialize, Asserted, HasPruned, Anchored, Reasons
<1>6. Shown' /\ Selected' /\ ShipsWhatIsDescribed' /\ AllOrNothing' /\ NeverDirty'
  BY DEF PlanInv, Materialize, Shown, Selected, ShipsWhatIsDescribed, AllOrNothing, NeverDirty
<1> QED BY <1>3, <1>4, <1>5, <1>6 DEF PlanInv

(* A round succeeds, is refused, or widens the tree of the same commit. *)
LEMMA RoundPlan == ASSUME PlanInv, Round PROVE PlanInv'
<1> DEFINE dirs == profile.roots \cup widened
<1>1. PICK out : out = Build(builder, tree, profile)
  OBVIOUS
<1>2. /\ upstream \in Trees /\ profile \in Profiles /\ builder \in Builders
      /\ upstream' = upstream /\ profile' = profile /\ series' = series
      /\ tree = Sparse(upstream, dirs) /\ tree \in Trees
      /\ head = upstream /\ index = upstream /\ head' = head /\ stage = "closure"
      /\ at = 1 /\ at' = 1 /\ why = "nothing"
      /\ builder' = out.builder /\ rounds' = rounds + 1 /\ rounds \in Nat /\ rounds < WidenBound
      /\ output' = output /\ output \in Trees /\ canceled' \in BOOLEAN
  BY <1>1 DEF PlanInv, Round, Inputs, inputs, TypeOK, Pristine, Materialized, Cursor, Reasons
<1>3. Recalls(builder, upstream, profile.roots)
  BY DEF PlanInv, Remembered
<1>4. Recalls(out.builder, upstream, profile.roots)
  BY <1>1, <1>2, <1>3, FirstBuildIs, Zenon
<1>5. /\ out.err \in {"none", "missing", "prune", "result"}
      /\ out.tree \in Trees /\ out.builder \in Builders
      /\ out.missing \subseteq Package /\ out.packages \subseteq Package
      /\ out.files \subseteq File /\ out.removed \subseteq File
  BY <1>1, <1>2, BuildIs, Zenon
<1>6. Inputs' /\ Remembered'
  BY <1>2, <1>4 DEF PlanInv, Inputs, Remembered
<1>7. WidenBound \in Nat \ {0} /\ WidenBound' = WidenBound /\ profile.roots \in SUBSET Package
  BY <1>2, BoundIs DEF PlanInv, WidenBound
<1>8. widened \subseteq Package \ profile.roots
  BY DEF PlanInv, TypeOK
<1>9. CASE out.err = "none"
  <2>1. /\ tree' = out.tree /\ result' = Measured(out) /\ stage' = "anchor"
        /\ why' = why /\ widened' = widened /\ index' = index
    BY <1>1, <1>9 DEF Round
  <2>2. IsPruned(upstream, dirs, profile, out)
    BY <1>1, <1>2, <1>3, <1>9, FirstBuildIs, Zenon
  <2>3. TypeOK'
    BY <1>2, <1>5, <1>7, <1>8, <2>1 DEF PlanInv, TypeOK, Stages, Measured
  <2>4. Asserted' /\ Anchored'
    BY <1>2, <2>1, <2>2 DEF Asserted, Anchored, PrePrune, Materialized, Measured, IsPruned
  <2>5. Cursor' /\ Pristine' /\ Reasons'
    BY <1>2, <2>1 DEF Cursor, Pristine, Reasons
  <2>6. Shown' /\ Selected' /\ ShipsWhatIsDescribed' /\ AllOrNothing' /\ NeverDirty'
    BY <1>2, <2>1 DEF Shown, Selected, ShipsWhatIsDescribed, AllOrNothing, NeverDirty
  <2> QED BY <1>6, <2>3, <2>4, <2>5, <2>6 DEF PlanInv
<1>10. ASSUME stage' = "refused", why' \in {"missing", "prune", "result", "growing"},
              tree' \in Trees, index' \in Trees, result' = result,
              widened' \subseteq Package \ profile.roots
       PROVE  PlanInv'
  <2>1. TypeOK'
    BY <1>2, <1>5, <1>7, <1>10 DEF PlanInv, TypeOK, Stages
  <2>2. Cursor' /\ Pristine' /\ Asserted' /\ Anchored' /\ Reasons'
    BY <1>10 DEF Cursor, Pristine, Asserted, HasPruned, Anchored, Reasons
  <2>3. Shown' /\ Selected' /\ ShipsWhatIsDescribed' /\ AllOrNothing' /\ NeverDirty'
    BY <1>10 DEF Shown, Selected, ShipsWhatIsDescribed, AllOrNothing, NeverDirty
  <2> QED BY <1>6, <2>1, <2>2, <2>3 DEF PlanInv
<1>11. CASE out.err # "none" /\ ~Widenable(out)
  <2>1. /\ tree' = out.tree /\ stage' = "refused" /\ why' = out.err
        /\ result' = result /\ widened' = widened /\ index' = index
    BY <1>1, <1>11 DEF Round, Refuse
  <2> QED BY <1>2, <1>5, <1>8, <1>10, <1>11, <2>1
<1>12. CASE out.err # "none" /\ Widenable(out)
  <2>1. /\ widened' = widened \cup out.missing
        /\ tree' = Sparse(upstream, dirs \cup out.missing) /\ index' = head /\ result' = result
        /\ \/ rounds' < WidenBound /\ stage' = stage /\ why' = why
           \/ stage' = "refused" /\ why' = "growing"
    BY <1>1, <1>12 DEF Round, Refuse, Rematerialize, Materialized
  <2>2. tree' \in Trees /\ index' \in Trees /\ widened' \subseteq Package \ profile.roots
    BY <1>2, <1>5, <1>8, <1>12, <2>1, SparseIs DEF Widenable, Materialized
  <2>3. CASE stage' = "refused" /\ why' = "growing"
    BY <1>10, <2>1, <2>2, <2>3
  <2>4. CASE rounds' < WidenBound /\ stage' = stage /\ why' = why
    <3>1. TypeOK'
      BY <1>2, <1>5, <1>7, <2>1, <2>2, <2>4 DEF PlanInv, TypeOK
    <3>2. tree' = Sparse(upstream, profile.roots \cup widened')
      <4>1. dirs \cup out.missing = profile.roots \cup widened'
        BY <2>1
      <4> QED BY <2>1, <4>1
    <3>3. Cursor' /\ Pristine' /\ Reasons'
      BY <1>2, <1>7, <2>1, <2>4, <3>2 DEF Cursor, Pristine, Reasons, Materialized
    <3>4. Asserted' /\ Anchored'
      BY <1>2, <2>4 DEF Asserted, HasPruned, Anchored
    <3>5. Shown' /\ Selected' /\ ShipsWhatIsDescribed' /\ AllOrNothing' /\ NeverDirty'
      BY <1>2, <2>4 DEF Shown, Selected, ShipsWhatIsDescribed, AllOrNothing, NeverDirty
    <3> QED BY <1>6, <3>1, <3>3, <3>4, <3>5 DEF PlanInv
  <2> QED BY <2>1, <2>3, <2>4
<1> QED BY <1>9, <1>11, <1>12

LEMMA AnchorPlan == ASSUME PlanInv, Anchor PROVE PlanInv'
<1>1. /\ upstream \in Trees /\ upstream' = upstream /\ profile' = profile /\ series' = series
      /\ stage = "anchor" /\ stage' = "patch" /\ at = 1 /\ at' = 1 /\ why = "nothing" /\ why' = why
      /\ index = upstream /\ result.removed = profile.prune
      /\ index' = Without(upstream, profile.prune) /\ head' = index'
      /\ tree' = tree /\ widened' = widened /\ builder' = builder
      /\ tree = Sparse(Without(upstream, profile.prune), profile.roots \cup widened)
  BY DEF PlanInv, Anchor, Inputs, inputs, Cursor, Reasons, Anchored, Materialized
<1>2. Inputs' /\ Remembered'
  BY <1>1 DEF PlanInv, Inputs, Remembered
<1>3. TypeOK'
  BY <1>1, WithoutIs DEF PlanInv, Anchor, TypeOK, Stages, WidenBound
<1>4. Cursor' /\ Pristine' /\ Reasons'
  <2>1. series # <<>> => at' \in 1..Len(series)
    BY <1>1, SeriesIs DEF PlanInv, Inputs
  <2> QED BY <1>1, <2>1 DEF Cursor, Pristine, Reasons
<1>5. Asserted' /\ Anchored'
  BY <1>1 DEF PlanInv, Asserted, HasPruned, PrePrune, Anchored, Materialized
<1>6. Shown'
  <2>1. AfterFirst(upstream, series, at' - 1) = upstream
    BY <1>1, AfterNone
  <2> QED BY <1>1, <2>1 DEF Shown, After, Materialized
<1>7. Selected' /\ ShipsWhatIsDescribed' /\ AllOrNothing' /\ NeverDirty'
  BY <1>1 DEF Selected, ShipsWhatIsDescribed, AllOrNothing, NeverDirty
<1> QED BY <1>2, <1>3, <1>4, <1>5, <1>6, <1>7 DEF PlanInv

-----------------------------------------------------------------------------
(* The series. *)

LEMMA PatchIs ==
    ASSUME Inputs, at \in 1..Len(series)
    PROVE  \A source \in Trees : \A files \in SUBSET Touches : Patched(source, files) \in Trees
<1>1. IsPatch(series[at])
  BY SeriesIs DEF Inputs
<1>2. \A f \in Touches : f \in File /\ Patch[f].to \in Contents \cup {Absent}
  BY <1>1 DEF IsPatch, Patch, Touches
<1> QED BY <1>2 DEF Patched, Trees

(* The tree that the anchor committed is clean. *)
LEMMA AnchoredIsClean == ASSUME PlanInv, stage = "patch", at = 1 PROVE Clean
  BY DEF PlanInv, Anchored, Inputs, Clean, Sparse, Without

(* With no series there is nothing to apply. *)
LEMMA StartSeriesPlan == ASSUME PlanInv, StartSeries PROVE PlanInv'
<1>1. /\ upstream \in Trees /\ upstream' = upstream /\ profile' = profile /\ series' = series
      /\ series = <<>> /\ stage = "patch" /\ stage' = "settle" /\ at = 1 /\ why = "nothing" /\ why' = why
      /\ tree' = tree /\ widened' = widened /\ builder' = builder /\ head' = head /\ index' = index
      /\ at' = at /\ rounds' = rounds /\ canceled' = canceled /\ result' = result /\ output' = output
  BY AnchoredIsClean DEF PlanInv, StartSeries, Inputs, inputs, trees, Reasons
<1>2. Inputs' /\ Remembered' /\ TypeOK'
  BY <1>1 DEF PlanInv, Inputs, Remembered, TypeOK, Stages, WidenBound
<1>3. Cursor' /\ Pristine' /\ Reasons' /\ Asserted' /\ Anchored'
  BY <1>1 DEF PlanInv, Cursor, Pristine, Reasons, Asserted, HasPruned, PrePrune, Anchored, Materialized
<1>4. Shown'
  <2>1. tree = Sparse(Without(upstream, profile.prune), profile.roots \cup widened)
    BY <1>1 DEF PlanInv, Anchored, Materialized
  <2>2. AfterFirst(upstream, series, 0) = upstream /\ IsSeries(series) /\ Len(series) = 0
    BY <1>1, AfterNone, SeriesIs DEF PlanInv, Inputs
  <2>3. WithPatches(upstream, series) = upstream
    BY <2>2, AfterAll
  <2> QED BY <1>1, <2>1, <2>3 DEF Shown, Described, Materialized
<1>5. Selected' /\ ShipsWhatIsDescribed' /\ AllOrNothing' /\ NeverDirty'
  BY <1>1 DEF Selected, ShipsWhatIsDescribed, AllOrNothing, NeverDirty
<1> QED BY <1>2, <1>3, <1>4, <1>5 DEF PlanInv

LEMMA ApplyPlan == ASSUME PlanInv, Apply PROVE PlanInv'
<1> DEFINE dirs == profile.roots \cup widened
<1>1. /\ upstream \in Trees /\ upstream' = upstream /\ profile' = profile /\ series' = series
      /\ series # <<>> /\ stage = "patch" /\ stage' = "reassert" /\ why = "nothing" /\ why' = why
      /\ widened' = widened /\ builder' = builder /\ head' = head
      /\ at' = at /\ rounds' = rounds /\ canceled' = canceled /\ result' = result /\ output' = output
      /\ tree' = Patched(tree, Touches) /\ index' = Patched(index, Touches)
      /\ tree \in Trees /\ index \in Trees /\ at \in 1..Len(series) /\ IsSeries(series)
  BY DEF PlanInv, Apply, Applying, Inputs, inputs, Reasons, Cursor, TypeOK
<1>2. tree' \in Trees /\ index' \in Trees
  BY <1>1, PatchIs DEF PlanInv
<1>3. Inputs' /\ Remembered' /\ TypeOK'
  BY <1>1, <1>2 DEF PlanInv, Inputs, Remembered, TypeOK, Stages, WidenBound
<1>4. Cursor' /\ Pristine' /\ Reasons' /\ Asserted' /\ Anchored'
  BY <1>1 DEF PlanInv, Cursor, Pristine, Reasons, Asserted, HasPruned, PrePrune, Anchored, Materialized
<1>5. Shown'
  <2> SUFFICES ASSUME WithinClosure
               PROVE  \A f \in File \ profile.prune : tree'[f] = Sparse(AfterFirst(upstream, series, at), dirs)[f]
    BY <1>1 DEF Shown, WithinClosure, PrePrune, After, Materialized
  <2>1. PICK n \in Nat : n = at - 1 /\ n + 1 = at
    BY <1>1, SeriesIs
  <2>2. tree = Sparse(Without(AfterFirst(upstream, series, n), profile.prune), dirs)
    BY <1>1, <2>1 DEF PlanInv, Shown, After, Materialized
  <2>3. \A f \in DOMAIN series[n + 1] : Home[f] \in dirs
    <3>1. n + 1 \in DOMAIN series
      BY <1>1, <2>1, SeriesIs
    <3> QED BY <1>1, <3>1 DEF PlanInv, WithinClosure, Asserted, HasPruned, Materialized
  <2>4. tree' = [f \in File |-> IF f \in DOMAIN series[n + 1] THEN series[n + 1][f].to ELSE tree[f]]
    BY <1>1, <2>1 DEF Patched, Patch, Touches
  <2>5. \A f \in File \ profile.prune : tree'[f] = Sparse(AfterFirst(upstream, series, n + 1), dirs)[f]
    <3> HIDE DEF dirs
    <3>1. PICK next : next = tree'
      OBVIOUS
    <3>2. next = [f \in File |-> IF f \in DOMAIN series[n + 1] THEN series[n + 1][f].to ELSE tree[f]]
      BY <2>4, <3>1
    <3>3. upstream \in Trees
      BY <1>1
    <3>4. \A f \in File \ profile.prune : next[f] = Sparse(AfterFirst(upstream, series, n + 1), dirs)[f]
      BY <2>2, <2>3, <3>2, <3>3, PatchedIs
    <3> QED BY <3>1, <3>4
  <2> QED BY <2>1, <2>5
<1>6. Selected' /\ ShipsWhatIsDescribed' /\ AllOrNothing' /\ NeverDirty'
  BY <1>1 DEF Selected, ShipsWhatIsDescribed, AllOrNothing, NeverDirty
<1> QED BY <1>3, <1>4, <1>5, <1>6 DEF PlanInv

(* Whatever fails or is stopped during the series leads to the rollback. *)
LEMMA FailSeries ==
    ASSUME PlanInv, stage \in {"patch", "reassert"}, stage' = "rollback", why' \in Failures,
           tree' \in Trees, index' \in Trees, builder' \in Builders,
           Recalls(builder', upstream, profile.roots), builder'.baseline # None,
           at' \in 1..Len(series) + 1,
           UNCHANGED <<inputs, canceled, widened, rounds, head, result, output>>
    PROVE  PlanInv'
<1>1. upstream' = upstream /\ profile' = profile /\ series' = series
  BY DEF inputs
<1>2. Inputs' /\ Remembered'
  BY <1>1 DEF PlanInv, Inputs, Remembered
<1>3. TypeOK'
  BY <1>1 DEF PlanInv, TypeOK, Stages, WidenBound, Failures
<1>4. Cursor' /\ Pristine' /\ Reasons' /\ Asserted' /\ Anchored'
  BY <1>1 DEF PlanInv, Cursor, Pristine, Reasons, Asserted, HasPruned, PrePrune, Anchored, Materialized
<1>5. Shown' /\ Selected' /\ ShipsWhatIsDescribed' /\ AllOrNothing' /\ NeverDirty'
  BY DEF Shown, Selected, ShipsWhatIsDescribed, AllOrNothing, NeverDirty, Failures
<1> QED BY <1>2, <1>3, <1>4, <1>5 DEF PlanInv

LEMMA ConflictPlan == ASSUME PlanInv, Conflict PROVE PlanInv'
<1>1. /\ stage = "patch" /\ stage' = "rollback" /\ why' \in Failures
      /\ tree \in Trees /\ index \in Trees /\ builder \in Builders /\ builder' = builder
      /\ Recalls(builder, upstream, profile.roots) /\ builder.baseline # None
      /\ at \in 1..Len(series) /\ at' = at /\ at \in 1..Len(series) + 1
      /\ UNCHANGED <<inputs, canceled, widened, rounds, head, result, output>>
  BY DEF PlanInv, Conflict, Applying, TypeOK, Remembered, Asserted, HasPruned, Cursor, Failures
<1>2. PICK shown \in SUBSET Touches, files \in SUBSET Touches :
        /\ tree' = Patched([f \in File |-> IF f \in shown THEN index[f] ELSE tree[f]], files)
        /\ index' = Patched(index, files)
  BY DEF Conflict
<1>3. [f \in File |-> IF f \in shown THEN index[f] ELSE tree[f]] \in Trees
  BY <1>1 DEF Trees
<1>4. tree' \in Trees /\ index' \in Trees
  BY <1>1, <1>2, <1>3, PatchIs DEF PlanInv
<1> QED BY <1>1, <1>4, FailSeries

LEMMA CancelSeriesPlan == ASSUME PlanInv, CancelSeries PROVE PlanInv'
<1>1. /\ stage = "patch" /\ UNCHANGED <<inputs, canceled, widened, rounds, builder, at, trees, result, output>>
      /\ tree' = tree /\ index' = index /\ head' = head
      /\ upstream' = upstream /\ profile' = profile /\ series' = series
  BY DEF CancelSeries, inputs, trees
<1>2. CASE stage' = "rollback" /\ why' = "cancel"
  <2>1. /\ tree' \in Trees /\ index' \in Trees /\ builder' \in Builders
        /\ Recalls(builder', upstream, profile.roots) /\ builder'.baseline # None
        /\ at' \in 1..Len(series) + 1
    BY <1>1 DEF PlanInv, TypeOK, Remembered, Asserted, HasPruned
  <2> QED BY <1>1, <1>2, <2>1, FailSeries DEF Failures
<1>3. CASE stage' = "interrupted" /\ why' = why
  <2>1. Inputs' /\ Remembered' /\ TypeOK'
    BY <1>1, <1>3 DEF PlanInv, Inputs, Remembered, TypeOK, Stages, WidenBound
  <2>2. Cursor' /\ Pristine' /\ Reasons' /\ Asserted' /\ Anchored'
    BY <1>1, <1>3 DEF PlanInv, Cursor, Pristine, Reasons, Asserted, HasPruned, Anchored
  <2>3. Shown' /\ Selected' /\ ShipsWhatIsDescribed' /\ AllOrNothing' /\ NeverDirty'
    BY <1>1, <1>3 DEF PlanInv, Shown, Selected, ShipsWhatIsDescribed, AllOrNothing, NeverDirty
  <2> QED BY <2>1, <2>2, <2>3 DEF PlanInv
<1> QED BY <1>2, <1>3 DEF CancelSeries

LEMMA CancelReassertPlan == ASSUME PlanInv, CancelReassert PROVE PlanInv'
<1>1. /\ stage = "reassert" /\ stage' = "rollback" /\ why' \in Failures
      /\ tree \in Trees /\ index \in Trees /\ index' = index /\ builder \in Builders
      /\ Recalls(builder, upstream, profile.roots) /\ builder.baseline # None
      /\ at' = at /\ at \in 1..Len(series) + 1
      /\ UNCHANGED <<inputs, canceled, widened, rounds, head, result, output>>
      /\ \A f \in profile.prune : upstream[f] # Absent /\ Home[f] \in Least(upstream, profile.roots)
  BY DEF PlanInv, CancelReassert, TypeOK, Remembered, Asserted, HasPruned, PrePrune, Failures
<1>2. PICK gone \in SUBSET {f \in profile.prune : tree[f] # Absent} :
        /\ tree' = Without(tree, gone)
        /\ builder' = [builder EXCEPT !.applied = @ \cup gone]
  BY DEF CancelReassert
<1>3. tree' \in Trees /\ gone \subseteq profile.prune /\ gone \subseteq File
  BY <1>1, <1>2, WithoutIs, BoundIs DEF PlanInv
<1>4. builder' = [applied |-> builder.applied \cup gone, baseline |-> builder.baseline]
  BY <1>1, <1>2 DEF Builders
<1>5. builder' \in Builders
  BY <1>1, <1>3, <1>4 DEF Builders
<1>6. Recalls(builder', upstream, profile.roots) /\ builder'.baseline # None
  BY <1>1, <1>3, <1>4 DEF Recalls
<1> QED BY <1>1, <1>3, <1>5, <1>6, FailSeries

(* A build during or after the series. *)
LEMMA BuildAfter ==
    ASSUME PlanInv, stage \in HasPruned, NEW out, out = Build(builder, tree, profile)
    PROVE  /\ out.err \in {"none", "missing", "prune", "result"}
           /\ out.tree \in Trees /\ out.builder \in Builders
           /\ out.packages \subseteq Package /\ out.files \subseteq File
           /\ Recalls(out.builder, upstream, profile.roots) /\ out.builder.baseline # None
           /\ out.err = "none" => out.tree = Without(tree, profile.prune)
<1>1. /\ upstream \in Trees /\ profile \in Profiles /\ builder \in Builders /\ tree \in Trees
      /\ Recalls(builder, upstream, profile.roots) /\ builder.baseline # None
      /\ \A f \in profile.prune : upstream[f] # Absent /\ Home[f] \in Least(upstream, profile.roots)
  BY DEF PlanInv, Inputs, TypeOK, Remembered, Asserted, PrePrune
<1>2. /\ out.err \in {"none", "missing", "prune", "result"}
      /\ out.tree \in Trees /\ out.builder \in Builders
      /\ out.packages \subseteq Package /\ out.files \subseteq File
  BY <1>1, BuildIs, Zenon
<1>3. Recalls(out.builder, upstream, profile.roots) /\ out.builder.baseline # None
  BY <1>1, LaterBuildIs, Zenon
<1>4. out.err = "none" => out.tree = Without(tree, profile.prune)
  <2>1. ASSUME out.err = "none" PROVE out.tree = Without(tree, profile.prune)
    BY <1>1, <2>1, BuildIs, Zenon
  <2> QED BY <2>1
<1> QED BY <1>2, <1>3, <1>4

LEMMA ReassertPlan == ASSUME PlanInv, Reassert PROVE PlanInv'
<1> DEFINE dirs == profile.roots \cup widened
<1>1. PICK out : out = Build(builder, tree, profile)
  OBVIOUS
<1>2. /\ upstream \in Trees /\ upstream' = upstream /\ profile' = profile /\ series' = series
      /\ stage = "reassert" /\ why = "nothing" /\ IsSeries(series) /\ at \in 1..Len(series)
      /\ index \in Trees /\ index' = index /\ widened' = widened
      /\ builder' = out.builder /\ tree' = out.tree
      /\ UNCHANGED <<inputs, canceled, widened, rounds, head, result, output>>
  BY <1>1 DEF PlanInv, Reassert, Inputs, inputs, Reasons, Cursor, TypeOK
<1>3. /\ out.tree \in Trees /\ out.builder \in Builders
      /\ Recalls(out.builder, upstream, profile.roots) /\ out.builder.baseline # None
      /\ out.err = "none" => out.tree = Without(tree, profile.prune)
  BY <1>1, <1>2, BuildAfter DEF HasPruned
<1>4. Len(series) \in Nat
  BY <1>2, SeriesIs
<1>5. CASE out.err # "none"
  <2>1. stage' = "rollback" /\ why' = "reassert" /\ at' = at
    BY <1>1, <1>5 DEF Reassert
  <2> QED BY <1>2, <1>3, <1>4, <2>1, FailSeries DEF Failures
<1>6. CASE out.err = "none"
  <2>1. /\ stage' = IF at = Len(series) THEN "settle" ELSE "patch"
        /\ at' = at + 1 /\ why' = why
    BY <1>1, <1>6 DEF Reassert
  <2>2. Inputs' /\ Remembered'
    BY <1>2, <1>3 DEF PlanInv, Inputs, Remembered
  <2>3. TypeOK'
    BY <1>2, <1>3, <1>4, <2>1 DEF PlanInv, TypeOK, Stages, WidenBound
  <2>4. Cursor' /\ Pristine' /\ Reasons' /\ Asserted' /\ Anchored'
    BY <1>2, <1>3, <1>4, <2>1
       DEF PlanInv, Cursor, Pristine, Reasons, Asserted, HasPruned, PrePrune, Anchored, Materialized
  <2>5. Shown'
    <3> SUFFICES ASSUME WithinClosure
                 PROVE  /\ tree' = Sparse(Without(AfterFirst(upstream, series, at), profile.prune), dirs)
                        /\ at = Len(series) => tree' = Sparse(Described, dirs)
      BY <1>2, <1>4, <2>1 DEF Shown, WithinClosure, PrePrune, Described, After, Materialized
    <3>1. \A f \in File \ profile.prune : tree[f] = Sparse(AfterFirst(upstream, series, at), dirs)[f]
      BY <1>2 DEF PlanInv, Shown, After, Materialized
    <3>2. tree' = Sparse(Without(AfterFirst(upstream, series, at), profile.prune), dirs)
      <4>1. PICK a : a = AfterFirst(upstream, series, at)
        OBVIOUS
      <4>2. \A f \in File \ profile.prune : tree[f] = Sparse(a, dirs)[f]
        BY <3>1, <4>1
      <4>3. Without(tree, profile.prune) = Sparse(Without(a, profile.prune), dirs)
        <5> HIDE DEF dirs
        <5> QED BY <4>2, ReassertedIs
      <4> QED BY <1>2, <1>3, <1>6, <4>1, <4>3
    <3>3. AfterFirst(upstream, series, Len(series)) = WithPatches(upstream, series)
      BY <1>2, AfterAll
    <3> QED BY <3>2, <3>3 DEF Described
  <2>6. Selected' /\ ShipsWhatIsDescribed' /\ AllOrNothing' /\ NeverDirty'
    BY <1>2, <2>1 DEF Selected, ShipsWhatIsDescribed, AllOrNothing, NeverDirty
  <2> QED BY <2>2, <2>3, <2>4, <2>5, <2>6 DEF PlanInv
<1> QED BY <1>5, <1>6

LEMMA RollbackPlan == ASSUME PlanInv, Rollback PROVE PlanInv'
<1>1. /\ upstream' = upstream /\ profile' = profile /\ series' = series
      /\ stage' = "refused" /\ why' = why /\ why \in Failures /\ builder' = builder
      /\ head \in Trees /\ head' = head /\ index' = head /\ widened' = widened
      /\ tree' = Sparse(head, profile.roots \cup widened)
  BY DEF PlanInv, Rollback, inputs, Reasons, TypeOK, Materialized
<1>2. Inputs' /\ Remembered'
  BY <1>1 DEF PlanInv, Inputs, Remembered
<1>3. TypeOK'
  BY <1>1, SparseIs DEF PlanInv, Rollback, TypeOK, Stages, WidenBound
<1>4. Cursor' /\ Pristine' /\ Reasons' /\ Asserted' /\ Anchored'
  BY <1>1 DEF Cursor, Pristine, Reasons, Asserted, HasPruned, Anchored
<1>5. Shown' /\ Selected' /\ ShipsWhatIsDescribed' /\ NeverDirty'
  BY <1>1 DEF Shown, Selected, ShipsWhatIsDescribed, NeverDirty, Failures
<1>6. AllOrNothing'
  BY <1>1 DEF AllOrNothing, Materialized
<1> QED BY <1>2, <1>3, <1>4, <1>5, <1>6 DEF PlanInv

-----------------------------------------------------------------------------
(* What is measured at the end, and handed on. *)

LEMMA DescribedIs == ASSUME Inputs PROVE Described \in Trees
<1>1. WithPatches(upstream, series) \in Trees
  <2> SUFFICES ASSUME NEW f \in File, Touching(series, f) # {}
               PROVE  series[Max(Touching(series, f))][f].to \in Contents \cup {Absent}
    BY DEF WithPatches, Trees, Inputs
  <2>1. Touching(series, f) \in SUBSET (1..Len(series)) /\ Len(series) \in Nat
    BY SeriesIs DEF Inputs, Touching
  <2>2. Max(Touching(series, f)) \in Touching(series, f)
    BY <2>1, GreatestIs
  <2> QED BY <2>2 DEF Touching, Inputs, IsSeries, IsPatch
<1> QED BY <1>1, WithoutIs DEF Described

LEMMA SettlePlan == ASSUME PlanInv, Settle PROVE PlanInv'
<1> DEFINE dirs == profile.roots \cup widened
<1>1. PICK out : out = Build(builder, tree, profile)
  OBVIOUS
<1>2. /\ upstream \in Trees /\ upstream' = upstream /\ profile' = profile /\ series' = series
      /\ stage = "settle" /\ why = "nothing" /\ widened' = widened
      /\ builder' = out.builder /\ tree' = out.tree
      /\ UNCHANGED <<canceled, widened, rounds, at, head, index, output>>
      /\ profile \in Profiles /\ builder \in Builders /\ tree \in Trees
  BY <1>1 DEF PlanInv, Settle, Inputs, inputs, Reasons, TypeOK
<1>3. /\ out.err \in {"none", "missing", "prune", "result"}
      /\ out.tree \in Trees /\ out.builder \in Builders
      /\ out.packages \subseteq Package /\ out.files \subseteq File
      /\ Recalls(out.builder, upstream, profile.roots) /\ out.builder.baseline # None
      /\ out.err = "none" => out.tree = Without(tree, profile.prune)
  BY <1>1, <1>2, BuildAfter DEF HasPruned
<1>4. Inputs' /\ Remembered'
  BY <1>2, <1>3 DEF PlanInv, Inputs, Remembered
<1>5. CASE out.err # "none"
  <2>1. stage' = "refused" /\ why' = out.err /\ result' = result
    BY <1>1, <1>5 DEF Settle, Refuse
  <2>2. TypeOK'
    BY <1>2, <1>3, <1>5, <2>1 DEF PlanInv, TypeOK, Stages, WidenBound
  <2>3. Cursor' /\ Pristine' /\ Reasons' /\ Asserted' /\ Anchored'
    BY <2>1 DEF Cursor, Pristine, Reasons, Asserted, HasPruned, Anchored
  <2>4. Shown' /\ Selected' /\ ShipsWhatIsDescribed' /\ AllOrNothing' /\ NeverDirty'
    BY <1>3, <1>5, <2>1 DEF Shown, Selected, ShipsWhatIsDescribed, AllOrNothing, NeverDirty
  <2> QED BY <1>4, <2>2, <2>3, <2>4 DEF PlanInv
<1>6. CASE out.err = "none"
  <2>1. stage' = "relocate" /\ why' = why /\ result' = Measured(out)
    BY <1>1, <1>6 DEF Settle
  <2>2. TypeOK'
    BY <1>2, <1>3, <2>1 DEF PlanInv, TypeOK, Stages, WidenBound, Measured
  <2>3. Cursor' /\ Pristine' /\ Reasons' /\ Asserted' /\ Anchored'
    BY <1>2, <1>3, <2>1
       DEF PlanInv, Cursor, Pristine, Reasons, Asserted, HasPruned, PrePrune, Anchored, Materialized
  <2>4. ASSUME WithinClosure
        PROVE  /\ out.tree = Sparse(Described, dirs)
               /\ out.packages = Least(Described, profile.roots)
               /\ out.packages \subseteq dirs
               /\ out.files = FilesIn(out.tree, out.packages)
    <3>1. tree = Sparse(Described, dirs)
      BY <1>2, <2>4 DEF PlanInv, Shown, Materialized
    <3>2. out.tree = Sparse(Described, dirs)
      BY <1>3, <1>6, <3>1 DEF Sparse, Without, Described
    <3>3. out.files = FilesIn(out.tree, out.packages) /\ out.packages = Least(out.tree, profile.roots)
      BY <1>1, <1>2, <1>6, BuildIs, Zenon
    <3>4. Complete(out.tree, profile.roots)
      BY <1>1, <1>2, <1>6, BuildIs, Zenon
    <3>5. profile.roots \in SUBSET Package
      BY <1>2, ProfileIs
    <3>6. /\ Least(Sparse(Described, dirs), profile.roots) = Least(Described, profile.roots)
          /\ Least(Described, profile.roots) \subseteq dirs
      BY <3>2, <3>4, <3>5, WholeClosure
    <3> QED BY <3>2, <3>3, <3>6
  <2>5. Shown' /\ Selected'
    BY <1>2, <2>1, <2>4
       DEF Shown, Selected, WithinClosure, PrePrune, Described, Materialized, Measured
  <2>6. ShipsWhatIsDescribed' /\ AllOrNothing' /\ NeverDirty'
    BY <1>2, <2>1 DEF ShipsWhatIsDescribed, AllOrNothing, NeverDirty
  <2> QED BY <1>4, <2>2, <2>3, <2>5, <2>6 DEF PlanInv
<1> QED BY <1>5, <1>6

LEMMA FinishPlan == ASSUME PlanInv, Finish PROVE PlanInv'
<1>1. /\ upstream' = upstream /\ profile' = profile /\ series' = series
      /\ stage = "relocate" /\ why = "nothing" /\ tree \in Trees
      /\ builder' = builder /\ widened' = widened /\ result' = result /\ tree' = tree
      /\ UNCHANGED <<canceled, rounds, at, head, index>>
  BY DEF PlanInv, Finish, inputs, trees, Reasons, TypeOK
<1>2. Inputs' /\ Remembered'
  BY <1>1 DEF PlanInv, Inputs, Remembered
<1>3. CASE stage' = "refused" /\ why' = "gate" /\ output' = output
  <2>1. TypeOK'
    BY <1>1, <1>3 DEF PlanInv, TypeOK, Stages, WidenBound
  <2>2. Cursor' /\ Pristine' /\ Reasons' /\ Asserted' /\ Anchored'
    BY <1>3 DEF Cursor, Pristine, Reasons, Asserted, HasPruned, Anchored
  <2>3. Shown' /\ Selected' /\ ShipsWhatIsDescribed' /\ AllOrNothing' /\ NeverDirty'
    BY <1>3 DEF Shown, Selected, ShipsWhatIsDescribed, AllOrNothing, NeverDirty
  <2> QED BY <1>2, <2>1, <2>2, <2>3 DEF PlanInv
<1>4. CASE stage' = "done" /\ why' = why /\ output' = Without(tree, File \ result.files)
  <2>1. output' \in Trees
    BY <1>1, <1>4, WithoutIs
  <2>2. TypeOK'
    BY <1>1, <1>4, <2>1 DEF PlanInv, TypeOK, Stages, WidenBound
  <2>3. Cursor' /\ Pristine' /\ Reasons' /\ Asserted' /\ Anchored'
    BY <1>1, <1>4
       DEF PlanInv, Cursor, Pristine, Reasons, Asserted, HasPruned, PrePrune, Anchored, Materialized
  <2>4. Shown' /\ Selected' /\ AllOrNothing' /\ NeverDirty'
    BY <1>1, <1>4 DEF Shown, Selected, AllOrNothing, NeverDirty
  <2>5. ShipsWhatIsDescribed'
    <3> SUFFICES ASSUME WithinClosure
                 PROVE  /\ result.packages = Least(Described, profile.roots)
                        /\ output' = Sparse(Described, result.packages)
      BY <1>1, <1>4 DEF ShipsWhatIsDescribed, WithinClosure, PrePrune, Described
    <3>1. /\ result.packages = Least(Described, profile.roots)
          /\ result.packages \subseteq Materialized
          /\ result.files = FilesIn(tree, result.packages)
          /\ tree = Sparse(Described, Materialized)
      BY <1>1 DEF PlanInv, Selected, Shown
    <3>2. Described \in Trees
      BY DescribedIs DEF PlanInv
    <3>3. output' = Sparse(Described, result.packages)
      BY <1>4, <3>1, <3>2, ShippedIs
    <3> QED BY <3>1, <3>3
  <2> QED BY <1>2, <2>2, <2>3, <2>4, <2>5 DEF PlanInv
<1> QED BY <1>3, <1>4 DEF Finish, Refuse

LEMMA IdlePlan == ASSUME PlanInv, UNCHANGED vars PROVE PlanInv'
<1>1. Inputs' /\ TypeOK' /\ Remembered'
  BY DEF PlanInv, vars, Inputs, TypeOK, Remembered, WidenBound
<1>2. Cursor' /\ Pristine' /\ Asserted' /\ Anchored' /\ Reasons'
  BY DEF PlanInv, vars, Cursor, WidenBound, Pristine, Asserted, PrePrune, Anchored, Reasons, Materialized
<1>3. Shown' /\ Selected' /\ ShipsWhatIsDescribed'
  BY DEF PlanInv, vars, Shown, Selected, ShipsWhatIsDescribed, WithinClosure, PrePrune, Described,
         After, Materialized
<1>4. AllOrNothing' /\ NeverDirty'
  BY DEF PlanInv, vars, AllOrNothing, NeverDirty, Materialized
<1> QED BY <1>1, <1>2, <1>3, <1>4 DEF PlanInv

LEMMA PlanStep == PlanInv /\ [Next]_vars => PlanInv'
<1> SUFFICES ASSUME PlanInv, [Next]_vars PROVE PlanInv'
  OBVIOUS
<1>1. ASSUME Finished PROVE PlanInv'
  BY <1>1, IdlePlan DEF Finished
<1> QED
  BY <1>1, IdlePlan, CancelPlan, InterruptPlan, MaterializePlan, RoundPlan, AnchorPlan,
     StartSeriesPlan, ApplyPlan, ConflictPlan, CancelSeriesPlan, ReassertPlan,
     CancelReassertPlan, RollbackPlan, SettlePlan, FinishPlan DEF Next

(* The inductive invariant: what each stage of a plan may rely on. *)
THEOREM PlanHolds == Spec => []PlanInv
  BY PlanInit, PlanStep, PTL DEF Spec

(* Every variable of a plan keeps its type; what is handed on is handed on at
   the end. *)
THEOREM TypeCorrect == Spec => []TypeOK
<1>1. PlanInv => TypeOK
  BY DEF PlanInv
<1> QED BY <1>1, PlanHolds, PTL

(* A plan ships exactly what its profile describes over the whole upstream
   tree, for every import graph, profile and series within the closure
   (extract/plan.go buildClosure, applyPatches, settleClosure). *)
THEOREM ShipsTheDescribed == Spec => []ShipsWhatIsDescribed
<1>1. PlanInv => ShipsWhatIsDescribed
  BY DEF PlanInv
<1> QED BY <1>1, PlanHolds, PTL

(* A series that failed or was stopped leaves the anchor's tree and index
   (patchset/apply.go conflict). *)
THEOREM SeriesIsAllOrNothing == Spec => []AllOrNothing
<1>1. PlanInv => AllOrNothing
  BY DEF PlanInv
<1> QED BY <1>1, PlanHolds, PTL

(* The anchor leaves a clean tree, so no series is refused for a dirty one
   (extract/plan.go writeScratchAnchor, patchset/apply.go requireCleanHead). *)
THEOREM NeverRefusedDirty == Spec => []NeverDirty
<1>1. PlanInv => NeverDirty
  BY DEF PlanInv
<1> QED BY <1>1, PlanHolds, PTL

(* The baseline is that of the pristine closure of the whole upstream tree,
   however often the tree was widened, patched and built (closure.go Build). *)
THEOREM BaselineStays == Spec => []BaselineIsPristine
<1>1. PlanInv => BaselineIsPristine
  BY DEF PlanInv, Remembered, Recalls, BaselineIsPristine, PrePrune
<1> QED BY <1>1, PlanHolds, PTL

(* Every entry of the prune list of a plan that ends well named a file of the
   upstream closure (prune.go validatePruneTargets). *)
THEOREM PruneWasAsserted == Spec => []PruneIsAsserted
<1>1. PlanInv => PruneIsAsserted
  BY DEF PlanInv, Asserted, HasPruned, PruneIsAsserted
<1> QED BY <1>1, PlanHolds, PTL
=============================================================================

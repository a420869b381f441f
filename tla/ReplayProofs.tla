---------------------------- MODULE ReplayProofs ----------------------------
(***************************************************************************)
(* Proofs about CommitGraph and Replay: that gitgraph computes what its    *)
(* names say in every graph, and that a replay keeps the identity, the     *)
(* ancestry and the code of every source commit over any chunks, retries   *)
(* and crashes.                                                            *)
(***************************************************************************)
EXTENDS Replay, FiniteSetTheorems, WellFoundedInduction, TLAPS

-----------------------------------------------------------------------------
(* Induction over numbers, by smallest counterexample. *)

LEMMA Smallest ==
    ASSUME NEW S, S \subseteq Nat, S # {}
    PROVE  \E n \in S : \A m \in S : n <= m
<1> DEFINE Less == OpToRel(<, Nat)
<1>1. \A x, y \in Nat : <<x, y>> \in Less <=> x < y
  BY DEF OpToRel
<1>2. IsWellFoundedOn(Less, Nat)
  BY NatLessThanWellFounded
<1> HIDE DEF Less
<1>3. PICK n \in S : \A m \in S : <<m, n>> \notin Less
  BY <1>2, WFMin
<1>4. \A m \in S : m \in Nat /\ n \in Nat /\ ~(m < n)
  BY <1>1, <1>3
<1> QED BY <1>4

LEMMA UpTo ==
    ASSUME NEW n \in Nat, NEW P, 0 \in P, \A k \in 1..n : k - 1 \in P => k \in P
    PROVE  \A k \in 0..n : k \in P
<1> DEFINE bad == {k \in 0..n : k \notin P}
<1> SUFFICES ASSUME bad # {} PROVE FALSE
  OBVIOUS
<1>1. PICK k \in bad : \A j \in bad : k <= j
  <2>1. bad \subseteq Nat
    OBVIOUS
  <2> HIDE DEF bad
  <2> QED BY <2>1, Smallest
<1>2. k \in 1..n /\ k - 1 \in 0..n /\ ~(k <= k - 1)
  BY <1>1
<1>3. k - 1 \in P
  BY <1>1, <1>2
<1> QED BY <1>1, <1>2, <1>3

(* A function defined from its value one below exists, and stays in a set its
   step stays in. *)
IsIteration(f, n, base, step) ==
    f = [k \in 0..n |-> IF k = 0 THEN base ELSE step[<<k, f[k - 1]>>]]

LEMMA Iteration ==
    ASSUME NEW T, NEW n \in Nat, NEW base \in T, NEW step \in [(1..n) \X T -> T]
    PROVE  \E f \in [0..n -> T] : IsIteration(f, n, base, step)
<1> DEFINE P == {m \in 0..n : \E f \in [0..m -> T] : IsIteration(f, m, base, step)}
<1>1. 0 \in P
  <2> DEFINE f == [k \in 0..0 |-> base]
  <2>1. f \in [0..0 -> T] /\ IsIteration(f, 0, base, step)
    BY DEF IsIteration
  <2> HIDE DEF f
  <2> QED BY <2>1
<1>2. ASSUME NEW m \in 1..n, m - 1 \in P PROVE m \in P
  <2>1. PICK g \in [0..(m - 1) -> T] : IsIteration(g, m - 1, base, step)
    BY <1>2
  <2> DEFINE h == [k \in 0..m |-> IF k = m THEN step[<<m, g[m - 1]>>] ELSE g[k]]
  <2>2. \A k \in 0..(m - 1) : g[k] = IF k = 0 THEN base ELSE step[<<k, g[k - 1]>>]
    BY <2>1 DEF IsIteration
  <2>3. h[m] = step[<<m, h[m - 1]>>] /\ \A k \in 0..(m - 1) : h[k] = g[k]
    <3>1. m \in 0..m /\ m - 1 \in 0..m /\ m - 1 # m
          /\ \A k \in 0..(m - 1) : k \in 0..m /\ k # m
      OBVIOUS
    <3> QED BY <3>1
  <2>4. h \in [0..m -> T]
    <3>1. m - 1 \in 0..(m - 1) /\ m \in 1..n
      OBVIOUS
    <3>2. g[m - 1] \in T
      BY <2>1, <3>1
    <3>3. step[<<m, g[m - 1]>>] \in T
      BY <3>1, <3>2
    <3>4. \A k \in 0..m : k # m => k \in 0..(m - 1)
      OBVIOUS
    <3> QED BY <2>1, <3>3, <3>4
  <2>5. \A k \in 0..m : h[k] = IF k = 0 THEN base ELSE step[<<k, h[k - 1]>>]
    <3> TAKE k \in 0..m
    <3>1. CASE k = m
      BY <2>3, <3>1
    <3>2. CASE k # m
      <4>1. k \in 0..(m - 1) /\ (k # 0 => k - 1 \in 0..(m - 1))
        BY <3>2
      <4> HIDE DEF h
      <4> QED BY <2>2, <2>3, <4>1
    <3> QED BY <3>1, <3>2
  <2>6. IsIteration(h, m, base, step)
    <3> DEFINE right == [k \in 0..m |-> IF k = 0 THEN base ELSE step[<<k, h[k - 1]>>]]
    <3>1. h = [k \in 0..m |-> h[k]]
      OBVIOUS
    <3> HIDE DEF h
    <3>2. h = right
      BY <2>5, <3>1
    <3> QED BY <3>2 DEF IsIteration
  <2> HIDE DEF h
  <2> QED BY <2>4, <2>6
<1> HIDE DEF P
<1>3. n \in P
  BY <1>1, <1>2, UpTo
<1> QED BY <1>3 DEF P

(* How such a function is used: what the step is, in the terms of a definition. *)
LEMMA Iterated ==
    ASSUME NEW n \in Nat, NEW f, NEW base, NEW step, IsIteration(f, n, base, step)
    PROVE  /\ f[0] = base
           /\ \A k \in 1..n : f[k] = step[<<k, f[k - 1]>>]
<1>1. 0 \in 0..n /\ \A k \in 1..n : k \in 0..n /\ k # 0
  OBVIOUS
<1>2. \A k \in 0..n : f[k] = IF k = 0 THEN base ELSE step[<<k, f[k - 1]>>]
  BY DEF IsIteration
<1> QED BY <1>1, <1>2

-----------------------------------------------------------------------------
(* Sequences: what Only and Distinct keep. *)

IsKept(f, seq, X) ==
    f = [n \in 0..Len(seq) |->
            IF n = 0 THEN <<>>
            ELSE IF seq[n] \in X THEN Append(f[n - 1], seq[n]) ELSE f[n - 1]]

IsOnly(f, seq, X) ==
    /\ Only(seq, X) = f[Len(seq)]
    /\ f[0] = <<>>
    /\ \A k \in 1..Len(seq) :
         f[k] = IF seq[k] \in X THEN Append(f[k - 1], seq[k]) ELSE f[k - 1]

LEMMA OnlyIs ==
    ASSUME NEW S, NEW seq \in Seq(S), NEW X
    PROVE  \E f \in [0..Len(seq) -> Seq(S)] : IsOnly(f, seq, X)
<1> DEFINE n == Len(seq)
           step == [p \in (1..n) \X Seq(S) |->
                       IF seq[p[1]] \in X THEN Append(p[2], seq[p[1]]) ELSE p[2]]
<1>1. n \in Nat /\ <<>> \in Seq(S) /\ \A k \in 1..n : seq[k] \in S
  OBVIOUS
<1>2. step \in [(1..n) \X Seq(S) -> Seq(S)]
  BY <1>1
<1>3. \A k \in 1..n, s \in Seq(S) :
        step[<<k, s>>] = IF seq[k] \in X THEN Append(s, seq[k]) ELSE s
  OBVIOUS
<1> HIDE DEF step, n
<1>4. PICK g \in [0..n -> Seq(S)] : IsIteration(g, n, <<>>, step)
  BY <1>1, <1>2, Iteration
<1>5. \A k \in 0..n : k # 0 => k \in 1..n /\ g[k - 1] \in Seq(S)
  <2> TAKE k \in 0..n
  <2>1. k # 0 => k \in 1..n /\ k - 1 \in 0..n
    BY <1>1
  <2> QED BY <2>1
<1>6. IsKept(g, seq, X)
  <2>1. g = [k \in 0..n |-> IF k = 0 THEN <<>> ELSE step[<<k, g[k - 1]>>]]
    BY <1>4 DEF IsIteration
  <2>2. g = [k \in 0..n |-> IF k = 0 THEN <<>>
                            ELSE IF seq[k] \in X THEN Append(g[k - 1], seq[k]) ELSE g[k - 1]]
    BY <1>3, <1>5, <2>1
  <2> QED BY <2>2 DEF IsKept, n
<1>7. PICK f : f = CHOOSE h : IsKept(h, seq, X)
  OBVIOUS
<1>8. IsKept(f, seq, X) /\ Only(seq, X) = f[n]
  BY <1>6, <1>7 DEF Only, IsKept, n
<1>9. f[0] = <<>> /\ \A k \in 1..n : f[k] = IF seq[k] \in X THEN Append(f[k - 1], seq[k]) ELSE f[k - 1]
  <2>1. 0 \in 0..n /\ \A k \in 1..n : k \in 0..n /\ k # 0
    BY <1>1
  <2> QED BY <1>8, <2>1 DEF IsKept, n
<1>10. \A k \in 0..n : f[k] \in Seq(S)
  <2> DEFINE P == {k \in 0..n : f[k] \in Seq(S)}
  <2>1. 0 \in P
    <3>1. 0 \in 0..n
      BY <1>1
    <3> QED BY <1>1, <1>9, <3>1
  <2>2. ASSUME NEW k \in 1..n, k - 1 \in P PROVE k \in P
    <3>1. k \in 0..n /\ seq[k] \in S /\ f[k - 1] \in Seq(S)
      BY <1>1, <2>2
    <3>2. Append(f[k - 1], seq[k]) \in Seq(S)
      BY <3>1
    <3>3. f[k] \in {Append(f[k - 1], seq[k]), f[k - 1]}
      BY <1>9
    <3>4. f[k] \in Seq(S)
      BY <3>1, <3>2, <3>3
    <3> QED BY <3>1, <3>4
  <2> HIDE DEF P
  <2>3. \A k \in 0..n : k \in P
    BY <1>1, <2>1, <2>2, UpTo
  <2> QED BY <2>3 DEF P
<1>11. f \in [0..n -> Seq(S)]
  BY <1>8, <1>10 DEF IsKept, n
<1>12. IsOnly(f, seq, X)
  BY <1>8, <1>9 DEF IsOnly, n
<1> QED BY <1>11, <1>12 DEF n

LEMMA AppendIs ==
    ASSUME NEW S, NEW seq \in Seq(S), NEW x \in S
    PROVE  /\ Append(seq, x) \in Seq(S)
           /\ Len(Append(seq, x)) = Len(seq) + 1
           /\ \A i \in 1..Len(seq) : Append(seq, x)[i] = seq[i]
           /\ Append(seq, x)[Len(seq) + 1] = x
           /\ ToSet(Append(seq, x)) = ToSet(seq) \cup {x}
           /\ IsInjective(seq) /\ x \notin ToSet(seq) => IsInjective(Append(seq, x))
<1>1. /\ Append(seq, x) \in Seq(S) /\ Len(seq) \in Nat
      /\ Len(Append(seq, x)) = Len(seq) + 1
      /\ \A i \in 1..Len(seq) : Append(seq, x)[i] = seq[i]
      /\ Append(seq, x)[Len(seq) + 1] = x
      /\ DOMAIN Append(seq, x) = 1..(Len(seq) + 1) /\ DOMAIN seq = 1..Len(seq)
  OBVIOUS
<1>2. \A i : i \in 1..(Len(seq) + 1) <=> i \in 1..Len(seq) \/ i = Len(seq) + 1
  BY <1>1
<1>3. ToSet(Append(seq, x)) = ToSet(seq) \cup {x}
  BY <1>1, <1>2 DEF ToSet
<1>4. ASSUME IsInjective(seq), x \notin ToSet(seq) PROVE IsInjective(Append(seq, x))
  BY <1>1, <1>2, <1>4 DEF ToSet, IsInjective
<1> QED BY <1>1, <1>3, <1>4

LEMMA OnlyKeeps ==
    ASSUME NEW S, NEW seq \in Seq(S), NEW X
    PROVE  /\ Only(seq, X) \in Seq(S)
           /\ ToSet(Only(seq, X)) = ToSet(seq) \cap X
           /\ IsInjective(seq) => IsInjective(Only(seq, X))
           /\ ToSet(seq) \subseteq X => Only(seq, X) = seq
<1>0. PICK f \in [0..Len(seq) -> Seq(S)] : IsOnly(f, seq, X)
  BY OnlyIs
<1>1. /\ Only(seq, X) = f[Len(seq)]
      /\ f[0] = <<>>
      /\ \A k \in 1..Len(seq) :
           f[k] = IF seq[k] \in X THEN Append(f[k - 1], seq[k]) ELSE f[k - 1]
      /\ f \in [0..Len(seq) -> Seq(S)]
  BY <1>0 DEF IsOnly
<1> DEFINE n == Len(seq)
           Up(k) == {seq[i] : i \in 1..k}
<1>2. n \in Nat /\ DOMAIN seq = 1..n /\ \A k \in 1..n : seq[k] \in S
  OBVIOUS
<1>3. \A k \in 1..n : k - 1 \in 0..n /\ k \in 0..n /\ Up(k) = Up(k - 1) \cup {seq[k]}
  <2> TAKE k \in 1..n
  <2>1. \A i : i \in 1..k <=> i \in 1..(k - 1) \/ i = k
    BY <1>2
  <2> QED BY <1>2, <2>1
<1>4. Up(0) = {} /\ Up(n) = ToSet(seq)
  BY <1>2 DEF ToSet
<1> HIDE DEF n
<1>5. \A k \in 0..n : ToSet(f[k]) = Up(k) \cap X
  <2> DEFINE P == {k \in 0..n : ToSet(f[k]) = Up(k) \cap X}
  <2>1. 0 \in P
    BY <1>1, <1>2, <1>4 DEF ToSet
  <2>2. ASSUME NEW k \in 1..n, k - 1 \in P PROVE k \in P
    <3>1. f[k - 1] \in Seq(S) /\ seq[k] \in S /\ Up(k) = Up(k - 1) \cup {seq[k]}
      BY <1>1, <1>2, <1>3 DEF n
    <3>2. ToSet(f[k - 1]) = Up(k - 1) \cap X
      BY <2>2
    <3>3. f[k] = IF seq[k] \in X THEN Append(f[k - 1], seq[k]) ELSE f[k - 1]
      BY <1>1 DEF n
    <3> HIDE DEF Up
    <3>4. ToSet(f[k]) = Up(k) \cap X
      <4>1. CASE seq[k] \in X
        <5>1. ToSet(f[k]) = ToSet(f[k - 1]) \cup {seq[k]}
          BY <3>1, <3>3, <4>1, AppendIs
        <5> QED BY <3>1, <3>2, <4>1, <5>1
      <4>2. CASE seq[k] \notin X
        BY <3>1, <3>2, <3>3, <4>2
      <4> QED BY <4>1, <4>2
    <3> QED BY <1>3, <3>4
  <2> HIDE DEF P
  <2>3. \A k \in 0..n : k \in P
    BY <1>2, <2>1, <2>2, UpTo
  <2> QED BY <2>3 DEF P
<1>6. n \in 0..n
  BY <1>2
<1>7. ASSUME IsInjective(seq) PROVE IsInjective(Only(seq, X))
  <2> DEFINE P == {k \in 0..n : IsInjective(f[k])}
  <2>1. 0 \in P
    BY <1>1, <1>2 DEF IsInjective
  <2>2. ASSUME NEW k \in 1..n, k - 1 \in P PROVE k \in P
    <3>1. f[k - 1] \in Seq(S) /\ seq[k] \in S /\ k \in 0..n /\ IsInjective(f[k - 1])
          /\ ToSet(f[k - 1]) = Up(k - 1) \cap X
      BY <1>1, <1>2, <1>3, <1>5, <2>2 DEF n
    <3>2. seq[k] \notin Up(k - 1)
      BY <1>2, <1>7 DEF IsInjective
    <3>3. f[k] = IF seq[k] \in X THEN Append(f[k - 1], seq[k]) ELSE f[k - 1]
      BY <1>1 DEF n
    <3>4. IsInjective(Append(f[k - 1], seq[k]))
      <4> HIDE DEF Up
      <4> QED BY <3>1, <3>2, AppendIs
    <3> QED BY <3>1, <3>3, <3>4
  <2> HIDE DEF P
  <2>3. \A k \in 0..n : k \in P
    BY <1>2, <2>1, <2>2, UpTo
  <2> QED BY <1>1, <1>6, <2>3 DEF P, n
<1>8. ASSUME ToSet(seq) \subseteq X PROVE Only(seq, X) = seq
  <2> DEFINE P == {k \in 0..n : f[k] = SubSeq(seq, 1, k)}
  <2>1. 0 \in P
    BY <1>1, <1>2
  <2>2. ASSUME NEW k \in 1..n, k - 1 \in P PROVE k \in P
    <3>1. k \in 0..n /\ seq[k] \in X /\ k - 1 \in 0..n
      BY <1>2, <1>3, <1>8 DEF ToSet
    <3>2. f[k] = Append(SubSeq(seq, 1, k - 1), seq[k])
      BY <1>1, <2>2, <3>1 DEF n
    <3>3. Append(SubSeq(seq, 1, k - 1), seq[k]) = SubSeq(seq, 1, k)
      BY <1>2, <3>1 DEF n
    <3> QED BY <3>1, <3>2, <3>3
  <2> HIDE DEF P
  <2>3. \A k \in 0..n : k \in P
    BY <1>2, <2>1, <2>2, UpTo
  <2>4. Only(seq, X) = SubSeq(seq, 1, n)
    BY <1>1, <1>6, <2>3 DEF P, n
  <2> QED BY <2>4 DEF n
<1> QED BY <1>1, <1>4, <1>5, <1>6, <1>7, <1>8 DEF n

(* The first and the last survive when they are asked for. *)
LEMMA OnlyEnds ==
    ASSUME NEW S, NEW seq \in Seq(S), NEW X, seq # <<>>
    PROVE  /\ seq[1] \in X => Only(seq, X) # <<>> /\ Only(seq, X)[1] = seq[1]
           /\ seq[Len(seq)] \in X =>
                Only(seq, X) # <<>> /\ Only(seq, X)[Len(Only(seq, X))] = seq[Len(seq)]
<1>0. PICK f \in [0..Len(seq) -> Seq(S)] : IsOnly(f, seq, X)
  BY OnlyIs
<1>1. /\ Only(seq, X) = f[Len(seq)]
      /\ f[0] = <<>>
      /\ \A k \in 1..Len(seq) :
           f[k] = IF seq[k] \in X THEN Append(f[k - 1], seq[k]) ELSE f[k - 1]
      /\ f \in [0..Len(seq) -> Seq(S)]
  BY <1>0 DEF IsOnly
<1> DEFINE n == Len(seq)
<1>2. n \in Nat /\ n # 0 /\ n \in 1..n /\ 1 \in 1..n /\ \A k \in 1..n : seq[k] \in S /\ k - 1 \in 0..n
  OBVIOUS
<1> HIDE DEF n
<1>3. ASSUME seq[1] \in X PROVE Only(seq, X) # <<>> /\ Only(seq, X)[1] = seq[1]
  <2> DEFINE P == {k \in 0..n : k # 0 => Len(f[k]) > 0 /\ f[k][1] = seq[1]}
  <2>1. 0 \in P
    BY <1>2
  <2>2. ASSUME NEW k \in 1..n, k - 1 \in P PROVE k \in P
    <3>1. f[k - 1] \in Seq(S) /\ seq[k] \in S /\ k \in 0..n
          /\ f[k] = IF seq[k] \in X THEN Append(f[k - 1], seq[k]) ELSE f[k - 1]
      BY <1>1, <1>2 DEF n
    <3>2. CASE k = 1
      <4>1. f[k] = Append(<<>>, seq[1])
        BY <1>1, <1>3, <3>1, <3>2
      <4> QED BY <3>1, <4>1
    <3>3. CASE k # 1
      <4>1. k - 1 # 0 /\ Len(f[k - 1]) > 0 /\ f[k - 1][1] = seq[1]
        BY <1>2, <2>2, <3>3
      <4>2. Len(f[k]) > 0 /\ f[k][1] = seq[1]
        BY <3>1, <4>1
      <4> QED BY <3>1, <4>2
    <3> QED BY <3>2, <3>3
  <2> HIDE DEF P
  <2>3. \A k \in 0..n : k \in P
    BY <1>2, <2>1, <2>2, UpTo
  <2>4. n \in 0..n
    BY <1>2
  <2>5. Len(f[n]) > 0 /\ f[n][1] = seq[1]
    BY <1>2, <2>3, <2>4 DEF P
  <2> QED BY <1>1, <2>5 DEF n
<1>4. ASSUME seq[n] \in X
      PROVE  Only(seq, X) # <<>> /\ Only(seq, X)[Len(Only(seq, X))] = seq[n]
  <2>1. Only(seq, X) = Append(f[n - 1], seq[n]) /\ f[n - 1] \in Seq(S) /\ seq[n] \in S
    BY <1>1, <1>2, <1>4 DEF n
  <2> QED BY <2>1
<1> QED BY <1>3, <1>4 DEF n

(* What AddNew returns: the first sequence, and after it what it lacked. *)
IsAdded(f, found, seq) ==
    f = [n \in 0..Len(seq) |-> IF n = 0 THEN found ELSE AppendNew(f[n - 1], seq[n])]

IsAddNew(f, found, seq) ==
    /\ AddNew(found, seq) = f[Len(seq)]
    /\ f[0] = found
    /\ \A k \in 1..Len(seq) : f[k] = AppendNew(f[k - 1], seq[k])

LEMMA AddNewIs ==
    ASSUME NEW S, NEW found \in Seq(S), NEW seq \in Seq(S)
    PROVE  \E f \in [0..Len(seq) -> Seq(S)] : IsAddNew(f, found, seq)
<1> DEFINE n == Len(seq)
           step == [p \in (1..n) \X Seq(S) |-> AppendNew(p[2], seq[p[1]])]
<1>1. n \in Nat /\ \A k \in 1..n : seq[k] \in S
  OBVIOUS
<1>2. step \in [(1..n) \X Seq(S) -> Seq(S)]
  <2>1. ASSUME NEW p \in (1..n) \X Seq(S) PROVE AppendNew(p[2], seq[p[1]]) \in Seq(S)
    <3>1. p[2] \in Seq(S) /\ seq[p[1]] \in S
      BY <1>1
    <3>2. Append(p[2], seq[p[1]]) \in Seq(S)
      BY <3>1
    <3> QED BY <3>1, <3>2 DEF AppendNew
  <2> HIDE DEF n
  <2> QED BY <2>1
<1>3. \A k \in 1..n, s \in Seq(S) : step[<<k, s>>] = AppendNew(s, seq[k])
  OBVIOUS
<1> HIDE DEF step, n
<1>4. PICK g \in [0..n -> Seq(S)] : IsIteration(g, n, found, step)
  BY <1>1, <1>2, Iteration
<1>5. \A k \in 0..n : k # 0 => k \in 1..n /\ g[k - 1] \in Seq(S)
  <2> TAKE k \in 0..n
  <2>1. k # 0 => k \in 1..n /\ k - 1 \in 0..n
    BY <1>1
  <2> QED BY <2>1
<1>6. IsAdded(g, found, seq)
  <2>1. g = [k \in 0..n |-> IF k = 0 THEN found ELSE step[<<k, g[k - 1]>>]]
    BY <1>4 DEF IsIteration
  <2>2. g = [k \in 0..n |-> IF k = 0 THEN found ELSE AppendNew(g[k - 1], seq[k])]
    BY <1>3, <1>5, <2>1
  <2> QED BY <2>2 DEF IsAdded, n
<1>7. PICK f : f = CHOOSE h : IsAdded(h, found, seq)
  OBVIOUS
<1>8. IsAdded(f, found, seq) /\ AddNew(found, seq) = f[n]
  BY <1>6, <1>7 DEF AddNew, IsAdded, n
<1>9. f[0] = found /\ \A k \in 1..n : f[k] = AppendNew(f[k - 1], seq[k])
  <2>1. 0 \in 0..n /\ \A k \in 1..n : k \in 0..n /\ k # 0
    BY <1>1
  <2> QED BY <1>8, <2>1 DEF IsAdded, n
<1>10. \A k \in 0..n : f[k] \in Seq(S)
  <2> DEFINE P == {k \in 0..n : f[k] \in Seq(S)}
  <2>1. 0 \in P
    <3>1. 0 \in 0..n
      BY <1>1
    <3> QED BY <1>1, <1>9, <3>1
  <2>2. ASSUME NEW k \in 1..n, k - 1 \in P PROVE k \in P
    <3>1. k \in 0..n /\ seq[k] \in S /\ f[k - 1] \in Seq(S)
      BY <1>1, <2>2
    <3>2. Append(f[k - 1], seq[k]) \in Seq(S)
      BY <3>1
    <3>3. f[k] \in {Append(f[k - 1], seq[k]), f[k - 1]}
      BY <1>9 DEF AppendNew
    <3>4. f[k] \in Seq(S)
      BY <3>1, <3>2, <3>3
    <3> QED BY <3>1, <3>4
  <2> HIDE DEF P
  <2>3. \A k \in 0..n : k \in P
    BY <1>1, <2>1, <2>2, UpTo
  <2> QED BY <2>3 DEF P
<1>11. f \in [0..n -> Seq(S)]
  BY <1>8, <1>10 DEF IsAdded, n
<1>12. IsAddNew(f, found, seq)
  BY <1>8, <1>9 DEF IsAddNew, n
<1> QED BY <1>11, <1>12 DEF n

Extends(seq, found) ==
    /\ Len(found) <= Len(seq)
    /\ \A i \in 1..Len(found) : seq[i] = found[i]

LEMMA AddNewKeeps ==
    ASSUME NEW S, NEW found \in Seq(S), NEW seq \in Seq(S)
    PROVE  /\ AddNew(found, seq) \in Seq(S)
           /\ ToSet(AddNew(found, seq)) = ToSet(found) \cup ToSet(seq)
           /\ Extends(AddNew(found, seq), found)
           /\ IsInjective(found) => IsInjective(AddNew(found, seq))
<1>0. PICK f \in [0..Len(seq) -> Seq(S)] : IsAddNew(f, found, seq)
  BY AddNewIs
<1> DEFINE n == Len(seq)
           Up(k) == {seq[i] : i \in 1..k}
<1>1. AddNew(found, seq) = f[n] /\ f[0] = found
      /\ \A k \in 1..n : f[k] = AppendNew(f[k - 1], seq[k])
  BY <1>0 DEF IsAddNew
<1>2. n \in Nat /\ DOMAIN seq = 1..n /\ \A k \in 1..n : seq[k] \in S
  OBVIOUS
<1>3. \A k \in 1..n : k - 1 \in 0..n /\ k \in 0..n /\ Up(k) = Up(k - 1) \cup {seq[k]}
  <2> TAKE k \in 1..n
  <2>1. \A i : i \in 1..k <=> i \in 1..(k - 1) \/ i = k
    BY <1>2
  <2> QED BY <1>2, <2>1
<1>4. Up(0) = {} /\ Up(n) = ToSet(seq)
  BY <1>2 DEF ToSet
<1>5. f \in [0..n -> Seq(S)]
  OBVIOUS
<1> HIDE DEF n, Up
<1> DEFINE P == {k \in 0..n : /\ ToSet(f[k]) = ToSet(found) \cup Up(k)
                              /\ Extends(f[k], found)
                              /\ IsInjective(found) => IsInjective(f[k])}
<1>6. 0 \in P
  <2>1. 0 \in 0..n
    BY <1>2
  <2>2. Extends(found, found)
    BY DEF Extends
  <2> QED BY <1>1, <1>4, <2>1, <2>2
<1>7. ASSUME NEW k \in 1..n, k - 1 \in P PROVE k \in P
  <2>1. f[k - 1] \in Seq(S) /\ f[k] \in Seq(S) /\ seq[k] \in S /\ k \in 0..n
        /\ Up(k) = Up(k - 1) \cup {seq[k]}
    BY <1>2, <1>3, <1>5
  <2>2. ToSet(f[k - 1]) = ToSet(found) \cup Up(k - 1) /\ Extends(f[k - 1], found)
        /\ (IsInjective(found) => IsInjective(f[k - 1]))
    BY <1>7
  <2>3. f[k] = IF seq[k] \in ToSet(f[k - 1]) THEN f[k - 1] ELSE Append(f[k - 1], seq[k])
    BY <1>1 DEF AppendNew
  <2> HIDE DEF P
  <2>4. CASE seq[k] \in ToSet(f[k - 1])
    <3>1. ToSet(found) \cup Up(k - 1) = ToSet(found) \cup Up(k)
      BY <2>1, <2>2, <2>4
    <3>2. f[k] = f[k - 1]
      BY <2>3, <2>4
    <3> QED BY <2>1, <2>2, <3>1, <3>2 DEF P
  <2>5. CASE seq[k] \notin ToSet(f[k - 1])
    <3>1. f[k] = Append(f[k - 1], seq[k])
      BY <2>3, <2>5
    <3>2. ToSet(f[k]) = ToSet(f[k - 1]) \cup {seq[k]}
          /\ (IsInjective(f[k - 1]) => IsInjective(f[k]))
      BY <2>1, <2>5, <3>1, AppendIs
    <3>3. Extends(f[k], found)
      <4>1. Len(f[k]) = Len(f[k - 1]) + 1 /\ \A i \in 1..Len(f[k - 1]) : f[k][i] = f[k - 1][i]
        BY <2>1, <3>1, AppendIs
      <4>2. Len(f[k - 1]) \in Nat /\ Len(found) \in Nat
        BY <2>1
      <4> QED BY <2>2, <4>1, <4>2 DEF Extends
    <3>4. ToSet(f[k]) = ToSet(found) \cup Up(k)
      BY <2>1, <2>2, <3>2
    <3> QED BY <2>1, <2>2, <3>2, <3>3, <3>4 DEF P
  <2> QED BY <2>4, <2>5
<1> HIDE DEF P
<1>8. \A k \in 0..n : k \in P
  BY <1>2, <1>6, <1>7, UpTo
<1>9. n \in 0..n
  BY <1>2
<1>10. f[n] \in Seq(S) /\ ToSet(f[n]) = ToSet(found) \cup Up(n) /\ Extends(f[n], found)
       /\ (IsInjective(found) => IsInjective(f[n]))
  BY <1>5, <1>8, <1>9 DEF P
<1> QED BY <1>1, <1>4, <1>10

LEMMA DistinctKeeps ==
    ASSUME NEW S, NEW seq \in Seq(S)
    PROVE  /\ Distinct(seq) \in Seq(S)
           /\ ToSet(Distinct(seq)) = ToSet(seq)
           /\ IsInjective(Distinct(seq))
<1>1. <<>> \in Seq(S) /\ ToSet(<<>>) = {} /\ IsInjective(<<>>)
  BY DEF ToSet, IsInjective
<1>2. PICK none \in Seq(S) : none = <<>>
  BY <1>1
<1>3. /\ AddNew(none, seq) \in Seq(S)
      /\ ToSet(AddNew(none, seq)) = ToSet(none) \cup ToSet(seq)
      /\ IsInjective(none) => IsInjective(AddNew(none, seq))
  BY AddNewKeeps
<1> QED BY <1>1, <1>2, <1>3 DEF Distinct

-----------------------------------------------------------------------------
(* Graphs: what the walks compute. *)

IsWalked(g, S) ==
    /\ g.nodes \in Seq(S) /\ IsInjective(g.nodes)
    /\ \A c \in Nodes(g) : g.parents[c] \in Seq(S)

(* The parents the walks follow, and a set none of them leads out of. *)
Above(g, c) == ToSet(g.parents[c]) \cap Nodes(g)
Closed(g, A) == \A c \in A : Above(g, c) \subseteq A

LEMMA SeqOver ==
    ASSUME NEW S, NEW seq \in Seq(S), NEW X
    PROVE  ToSet(seq) \subseteq X <=> seq \in Seq(X)
<1>1. Len(seq) \in Nat /\ DOMAIN seq = 1..Len(seq) /\ seq = [i \in 1..Len(seq) |-> seq[i]]
  OBVIOUS
<1>2. ASSUME ToSet(seq) \subseteq X PROVE seq \in Seq(X)
  <2>1. \A i \in 1..Len(seq) : seq[i] \in X
    BY <1>1, <1>2 DEF ToSet
  <2> QED BY <1>1, <2>1
<1>3. ASSUME seq \in Seq(X) PROVE ToSet(seq) \subseteq X
  <2>1. \A i \in 1..Len(seq) : seq[i] \in X
    BY <1>3
  <2> QED BY <1>1, <2>1 DEF ToSet
<1> QED BY <1>2, <1>3

LEMMA SeqWider ==
    ASSUME NEW S, NEW T, S \subseteq T, NEW seq \in Seq(S)
    PROVE  seq \in Seq(T)
<1>1. ToSet(seq) \subseteq S
  BY SeqOver
<1>2. ToSet(seq) \subseteq T
  BY <1>1
<1> QED BY <1>2, SeqOver

LEMMA PresentIs ==
    ASSUME NEW S, NEW g, IsWalked(g, S), NEW c \in Nodes(g)
    PROVE  /\ PresentParents(g, c) \in Seq(S)
           /\ PresentParents(g, c) \in Seq(Nodes(g))
           /\ ToSet(PresentParents(g, c)) = Above(g, c)
<1>1. g.parents[c] \in Seq(S)
  BY DEF IsWalked
<1>2. /\ Only(g.parents[c], Nodes(g)) \in Seq(S)
      /\ ToSet(Only(g.parents[c], Nodes(g))) = ToSet(g.parents[c]) \cap Nodes(g)
  BY <1>1, OnlyKeeps
<1>3. Only(g.parents[c], Nodes(g)) \in Seq(Nodes(g))
  BY <1>2, SeqOver
<1> QED BY <1>2, <1>3 DEF PresentParents, Above

(* Sequences without repetition are as long as their sets are large. *)
LEMMA InjectiveLength ==
    ASSUME NEW S, NEW seq \in Seq(S), IsInjective(seq)
    PROVE  IsFiniteSet(ToSet(seq)) /\ Cardinality(ToSet(seq)) = Len(seq)
<1>1. Len(seq) \in Nat /\ DOMAIN seq = 1..Len(seq)
  OBVIOUS
<1>2. seq \in Bijection(1..Len(seq), ToSet(seq))
  <2>1. seq \in [1..Len(seq) -> ToSet(seq)]
    BY <1>1 DEF ToSet
  <2>2. \A x, y \in 1..Len(seq) : x # y => seq[x] # seq[y]
    BY <1>1 DEF IsInjective
  <2>3. \A t \in ToSet(seq) : \E s \in 1..Len(seq) : seq[s] = t
    BY <1>1 DEF ToSet
  <2> QED BY <2>1, <2>2, <2>3 DEF Bijection, Injection, Surjection
<1>3. IsFiniteSet(1..Len(seq)) /\ Cardinality(1..Len(seq)) = Len(seq)
  BY <1>1, FS_Interval
<1>4. IsFiniteSet(ToSet(seq)) /\ Cardinality(ToSet(seq)) = Cardinality(1..Len(seq))
  <2>1. ExistsBijection(1..Len(seq), ToSet(seq))
    BY <1>2 DEF ExistsBijection
  <2> QED BY <1>3, <2>1, FS_Bijection
<1> QED BY <1>3, <1>4

LEMMA FitsIn ==
    ASSUME NEW S, NEW all \in Seq(S), IsInjective(all),
           NEW seq \in Seq(S), IsInjective(seq), ToSet(seq) \subseteq ToSet(all)
    PROVE  /\ Len(seq) <= Len(all)
           /\ Len(seq) = Len(all) => ToSet(seq) = ToSet(all)
<1>1. /\ IsFiniteSet(ToSet(all)) /\ Cardinality(ToSet(all)) = Len(all)
      /\ Cardinality(ToSet(seq)) = Len(seq)
  BY InjectiveLength
<1>2. Cardinality(ToSet(seq)) <= Cardinality(ToSet(all))
      /\ (Cardinality(ToSet(seq)) = Cardinality(ToSet(all)) => ToSet(seq) = ToSet(all))
  BY <1>1, FS_Subset
<1> QED BY <1>1, <1>2

(* BreadthFirst's queue. *)
IsQueue(queue, g, c) ==
    queue = [n \in 0..Len(g.nodes) |->
                IF n = 0 THEN <<c>>
                ELSE LET found == queue[n - 1]
                     IN  IF n > Len(found) THEN found
                         ELSE AddNew(found, PresentParents(g, found[n]))]

IsSearch(queue, g, c) ==
    /\ BreadthFirst(g, c) = queue[Len(g.nodes)]
    /\ queue[0] = <<c>>
    /\ \A k \in 1..Len(g.nodes) :
        queue[k] = IF k > Len(queue[k - 1]) THEN queue[k - 1]
                   ELSE AddNew(queue[k - 1], PresentParents(g, queue[k - 1][k]))

LEMMA SearchIs ==
    ASSUME NEW S, NEW g, IsWalked(g, S), NEW c \in Nodes(g)
    PROVE  \E queue \in [0..Len(g.nodes) -> Seq(Nodes(g))] : IsSearch(queue, g, c)
<1> DEFINE n == Len(g.nodes)
           T == Seq(Nodes(g))
           next(k, s) == IF k > Len(s) THEN s ELSE AddNew(s, PresentParents(g, s[k]))
           step == [p \in (1..n) \X T |-> next(p[1], p[2])]
<1>1. n \in Nat
  BY DEF IsWalked
<1>2. PICK first \in T : first = <<c>>
  <2>1. <<c>> \in Seq(Nodes(g))
    OBVIOUS
  <2> QED BY <2>1
<1>3. \A k \in 1..n, s \in T : next(k, s) \in T
  <2> TAKE k \in 1..n, s \in T
  <2>1. CASE k > Len(s)
    BY <2>1
  <2>2. CASE ~(k > Len(s))
    <3>1. s[k] \in Nodes(g)
      BY <1>1, <2>2
    <3>2. PresentParents(g, s[k]) \in Seq(Nodes(g))
      BY <3>1, PresentIs
    <3>3. AddNew(s, PresentParents(g, s[k])) \in Seq(Nodes(g))
      BY <3>2, AddNewKeeps
    <3> QED BY <2>2, <3>3
  <2> QED BY <2>1, <2>2
<1> HIDE DEF next, n, T
<1>4. step \in [(1..n) \X T -> T]
  BY <1>3
<1>5. \A k \in 1..n, s \in T : step[<<k, s>>] = next(k, s)
  OBVIOUS
<1> HIDE DEF step
<1>6. PICK f \in [0..n -> T] : IsIteration(f, n, first, step)
  BY <1>1, <1>4, Iteration
<1>7. \A k \in 0..n : k # 0 => k \in 1..n /\ f[k - 1] \in T
  <2> TAKE k \in 0..n
  <2>1. k # 0 => k \in 1..n /\ k - 1 \in 0..n
    BY <1>1
  <2> QED BY <2>1
<1>8. IsQueue(f, g, c)
  <2>1. f = [k \in 0..n |-> IF k = 0 THEN first ELSE step[<<k, f[k - 1]>>]]
    BY <1>6 DEF IsIteration
  <2>2. f = [k \in 0..n |-> IF k = 0 THEN first ELSE next(k, f[k - 1])]
    BY <1>5, <1>7, <2>1
  <2> QED BY <1>2, <2>2 DEF IsQueue, n, next
<1>9. PICK queue : queue = CHOOSE q : IsQueue(q, g, c)
  OBVIOUS
<1>10. IsQueue(queue, g, c) /\ BreadthFirst(g, c) = queue[n]
  BY <1>8, <1>9 DEF BreadthFirst, IsQueue, n
<1>11. queue[0] = first /\ \A k \in 1..n : queue[k] = next(k, queue[k - 1])
  <2>1. 0 \in 0..n /\ \A k \in 1..n : k \in 0..n /\ k # 0
    BY <1>1
  <2>2. queue = [k \in 0..n |-> IF k = 0 THEN first ELSE next(k, queue[k - 1])]
    BY <1>2, <1>10 DEF IsQueue, n, next
  <2> QED BY <2>1, <2>2
<1>12. IsSearch(queue, g, c)
  BY <1>2, <1>10, <1>11 DEF IsSearch, n, next
<1>13. \A k \in 0..n : queue[k] \in T
  <2> DEFINE P == {k \in 0..n : queue[k] \in T}
  <2>1. 0 \in P
    BY <1>1, <1>2, <1>11
  <2>2. ASSUME NEW k \in 1..n, k - 1 \in P PROVE k \in P
    BY <1>1, <1>3, <1>11, <2>2
  <2> HIDE DEF P
  <2>3. \A k \in 0..n : k \in P
    BY <1>1, <2>1, <2>2, UpTo
  <2> QED BY <2>3 DEF P
<1>14. queue \in [0..n -> T]
  BY <1>10, <1>13 DEF IsQueue, n
<1> QED BY <1>12, <1>14 DEF n, T

(* The least set a commit is in that holds the parents of its own. *)
IsLeast(A, g, c) ==
    /\ c \in A /\ A \subseteq Nodes(g) /\ Closed(g, A)
    /\ \A B : c \in B /\ Closed(g, B) => A \subseteq B

(* gitgraph.go:Ancestors: in any graph, cycles and boundary parents included, the
   walk finds the commit and what its parents lead to, and nothing else; it meets
   the commit itself first. *)
THEOREM SearchFinds ==
    ASSUME NEW S, NEW g, IsWalked(g, S), NEW c \in Nodes(g)
    PROVE  /\ IsLeast(Ancestors(g, c), g, c)
           /\ BreadthFirst(g, c) \in Seq(Nodes(g)) /\ BreadthFirst(g, c) # <<>>
           /\ BreadthFirst(g, c)[1] = c
<1> DEFINE n == Len(g.nodes)
<1>0. PICK queue \in [0..n -> Seq(Nodes(g))] : IsSearch(queue, g, c)
  BY SearchIs
<1>1. /\ n \in Nat /\ g.nodes \in Seq(S) /\ IsInjective(g.nodes)
      /\ g.nodes \in Seq(Nodes(g)) /\ ToSet(g.nodes) = Nodes(g)
  <2>1. g.nodes \in Seq(S) /\ ToSet(g.nodes) = Nodes(g) /\ IsInjective(g.nodes)
    BY DEF IsWalked, Nodes
  <2> QED BY <2>1, SeqOver
<1>2. /\ BreadthFirst(g, c) = queue[n] /\ queue[0] = <<c>>
      /\ \A k \in 1..n :
          queue[k] = IF k > Len(queue[k - 1]) THEN queue[k - 1]
                     ELSE AddNew(queue[k - 1], PresentParents(g, queue[k - 1][k]))
  BY <1>0 DEF IsSearch
<1> HIDE DEF n
<1> DEFINE done(k) ==
        \A i \in 1..Len(queue[k]) : i <= k => Above(g, queue[k][i]) \subseteq ToSet(queue[k])
    least(k) == \A B : c \in B /\ Closed(g, B) => ToSet(queue[k]) \subseteq B
    P == {k \in 0..n : /\ IsInjective(queue[k]) /\ Len(queue[k]) > 0 /\ queue[k][1] = c
                       /\ done(k) /\ least(k)}
<1>3. 0 \in P
  <2>1. 0 \in 0..n
    BY <1>1
  <2>2. Len(queue[0]) = 1 /\ queue[0][1] = c /\ DOMAIN queue[0] = 1..1
    BY <1>2
  <2>3. IsInjective(queue[0]) /\ ToSet(queue[0]) = {c}
    BY <2>2 DEF IsInjective, ToSet
  <2>4. done(0)
    BY <2>2
  <2>5. least(0)
    BY <2>3
  <2> HIDE DEF done, least
  <2> QED BY <2>1, <2>2, <2>3, <2>4, <2>5
<1>4. ASSUME NEW k \in 1..n, k - 1 \in P PROVE k \in P
  <2>1. k - 1 \in 0..n /\ k \in 0..n /\ queue[k - 1] \in Seq(Nodes(g)) /\ k \in Nat
    BY <1>1
  <2>2. IsInjective(queue[k - 1]) /\ Len(queue[k - 1]) > 0 /\ queue[k - 1][1] = c
        /\ done(k - 1) /\ least(k - 1)
    BY <1>4
  <2> HIDE DEF P
  <2>3. PICK old \in Seq(Nodes(g)) : old = queue[k - 1]
    BY <2>1
  <2>4. CASE k > Len(old)
    <3>1. queue[k] = queue[k - 1]
      BY <1>2, <2>3, <2>4
    <3>2. done(k)
      <4>1. \A i \in 1..Len(old) : i <= k - 1
        BY <2>1, <2>3, <2>4
      <4> QED BY <2>2, <2>3, <3>1, <4>1
    <3> QED BY <2>1, <2>2, <3>1, <3>2 DEF P
  <2>5. CASE ~(k > Len(old))
    <3>1. PICK x \in Nodes(g) : x = old[k]
      BY <2>1, <2>3, <2>5
    <3>2. PICK pp \in Seq(Nodes(g)) : pp = PresentParents(g, x) /\ ToSet(pp) = Above(g, x)
      BY PresentIs
    <3>3. queue[k] = AddNew(old, pp)
      BY <1>2, <2>3, <2>5, <3>1, <3>2
    <3>4. PICK new \in Seq(Nodes(g)) : new = queue[k]
      BY <2>1
    <3>5. ToSet(new) = ToSet(old) \cup Above(g, x) /\ Extends(new, old) /\ IsInjective(new)
      BY <2>2, <2>3, <3>2, <3>3, <3>4, AddNewKeeps
    <3>6. Len(new) > 0 /\ new[1] = c /\ new[k] = x
      BY <2>1, <2>2, <2>3, <2>5, <3>1, <3>5 DEF Extends
    <3>7. done(k)
      <4> SUFFICES ASSUME NEW i \in 1..Len(new), i <= k
                   PROVE  Above(g, new[i]) \subseteq ToSet(new)
        BY <3>4
      <4>1. CASE i = k
        BY <3>5, <3>6, <4>1
      <4>2. CASE i # k
        <5>1. i <= k - 1 /\ i \in 1..Len(old) /\ new[i] = old[i]
          BY <2>1, <2>5, <3>5, <4>2 DEF Extends
        <5>2. Above(g, old[i]) \subseteq ToSet(old)
          BY <2>2, <2>3, <5>1
        <5> QED BY <3>5, <5>1, <5>2
      <4> QED BY <4>1, <4>2
    <3>8. least(k)
      <4> SUFFICES ASSUME NEW B, c \in B, Closed(g, B) PROVE ToSet(new) \subseteq B
        BY <3>4
      <4>1. ToSet(old) \subseteq B
        BY <2>2, <2>3
      <4>2. x \in ToSet(old)
        BY <2>1, <2>5, <3>1 DEF ToSet
      <4>3. Above(g, x) \subseteq B
        BY <4>1, <4>2 DEF Closed
      <4> QED BY <3>5, <4>1, <4>3
    <3> HIDE DEF done, least
    <3> QED BY <2>1, <3>4, <3>5, <3>6, <3>7, <3>8 DEF P
  <2> QED BY <2>4, <2>5
<1> HIDE DEF P
<1>5. n \in P
  <2>1. \A k \in 0..n : k \in P
    BY <1>1, <1>3, <1>4, UpTo
  <2>2. n \in 0..n
    BY <1>1
  <2> QED BY <2>1, <2>2
<1>6. PICK last \in Seq(Nodes(g)) : last = queue[n] /\ last = BreadthFirst(g, c)
  <2>1. n \in 0..n
    BY <1>1
  <2> QED BY <1>2, <2>1
<1>7. IsInjective(last) /\ Len(last) > 0 /\ last[1] = c /\ done(n) /\ least(n)
  BY <1>5, <1>6 DEF P
<1>8. ToSet(last) \subseteq Nodes(g)
  BY SeqOver
<1>9. Len(last) <= n
  <2>1. PICK all \in Seq(Nodes(g)) : all = g.nodes
    BY <1>1
  <2>2. Len(last) <= Len(all)
    BY <1>1, <1>7, <1>8, <2>1, FitsIn
  <2> QED BY <2>1, <2>2 DEF n
<1>10. Closed(g, ToSet(last))
  <2> SUFFICES ASSUME NEW x \in ToSet(last) PROVE Above(g, x) \subseteq ToSet(last)
    BY DEF Closed
  <2>1. PICK i \in 1..Len(last) : x = last[i]
    BY DEF ToSet
  <2>2. i <= n
    BY <1>1, <1>9
  <2> QED BY <1>6, <1>7, <2>1, <2>2
<1>11. c \in ToSet(last)
  BY <1>7 DEF ToSet
<1>12. IsLeast(ToSet(last), g, c)
  BY <1>6, <1>7, <1>8, <1>10, <1>11 DEF IsLeast
<1>13. Ancestors(g, c) = ToSet(last)
  BY <1>6 DEF Ancestors
<1>14. last # <<>>
  BY <1>7
<1> QED BY <1>6, <1>7, <1>12, <1>13, <1>14

(* Being an ancestor: of itself, of what is below, one parent at a time. *)
LEMMA AncestorsAre ==
    ASSUME NEW S, NEW g, IsWalked(g, S), NEW c \in Nodes(g)
    PROVE  /\ c \in Ancestors(g, c) /\ Ancestors(g, c) \subseteq Nodes(g)
           /\ Closed(g, Ancestors(g, c))
           /\ \A B : c \in B /\ Closed(g, B) => Ancestors(g, c) \subseteq B
<1>1. IsLeast(Ancestors(g, c), g, c)
  BY SearchFinds
<1> QED BY <1>1 DEF IsLeast

LEMMA AncestorsCompose ==
    ASSUME NEW S, NEW g, IsWalked(g, S), NEW c \in Nodes(g), NEW d \in Ancestors(g, c)
    PROVE  d \in Nodes(g) /\ Ancestors(g, d) \subseteq Ancestors(g, c)
<1>1. d \in Nodes(g) /\ Closed(g, Ancestors(g, c))
  BY AncestorsAre
<1>2. \A B : d \in B /\ Closed(g, B) => Ancestors(g, d) \subseteq B
  BY <1>1, AncestorsAre
<1> QED BY <1>1, <1>2

LEMMA AncestorsUnfold ==
    ASSUME NEW S, NEW g, IsWalked(g, S), NEW c \in Nodes(g)
    PROVE  Ancestors(g, c) = {c} \cup UNION {Ancestors(g, p) : p \in Above(g, c)}
<1> DEFINE A == {c} \cup UNION {Ancestors(g, p) : p \in Above(g, c)}
<1>1. Above(g, c) \subseteq Nodes(g)
  BY DEF Above
<1>2. Closed(g, A)
  <2> SUFFICES ASSUME NEW x \in A PROVE Above(g, x) \subseteq A
    BY DEF Closed
  <2>1. CASE x = c
    <3>1. \A p \in Above(g, c) : p \in Ancestors(g, p)
      BY <1>1, AncestorsAre
    <3> QED BY <2>1, <3>1
  <2>2. CASE x # c
    <3>1. PICK p \in Above(g, c) : x \in Ancestors(g, p)
      BY <2>2
    <3>2. Closed(g, Ancestors(g, p))
      BY <1>1, AncestorsAre
    <3> QED BY <3>1, <3>2 DEF Closed
  <2> QED BY <2>1, <2>2
<1>3. Ancestors(g, c) \subseteq A
  <2>1. c \in A
    OBVIOUS
  <2>2. \A B : c \in B /\ Closed(g, B) => Ancestors(g, c) \subseteq B
    BY AncestorsAre
  <2> HIDE DEF A
  <2> QED BY <1>2, <2>1, <2>2
<1>4. A \subseteq Ancestors(g, c)
  <2>1. c \in Ancestors(g, c) /\ Above(g, c) \subseteq Ancestors(g, c)
    BY AncestorsAre DEF Closed
  <2>2. \A p \in Above(g, c) : Ancestors(g, p) \subseteq Ancestors(g, c)
    BY <2>1, AncestorsCompose
  <2> QED BY <2>1, <2>2
<1> QED BY <1>3, <1>4

(* A graph inside another, with the same parents. *)
Within(g, h) ==
    /\ Nodes(g) \subseteq Nodes(h)
    /\ \A c \in Nodes(g) : g.parents[c] = h.parents[c]

LEMMA AncestorsGrow ==
    ASSUME NEW S, NEW g, IsWalked(g, S), NEW h, IsWalked(h, S), Within(g, h),
           NEW c \in Nodes(g)
    PROVE  /\ Ancestors(g, c) \subseteq Ancestors(h, c)
           /\ (\A x \in Nodes(g) : Above(h, x) \subseteq Nodes(g)) =>
                Ancestors(h, c) = Ancestors(g, c)
<1>1. c \in Nodes(h) /\ \A x \in Nodes(g) : Above(g, x) \subseteq Above(h, x)
  BY DEF Within, Above
<1>2. c \in Ancestors(h, c) /\ Closed(h, Ancestors(h, c))
  BY <1>1, AncestorsAre
<1>3. Ancestors(g, c) \subseteq Ancestors(h, c)
  <2> DEFINE B == Ancestors(h, c) \cap Nodes(g)
  <2>1. Closed(g, B)
    BY <1>1, <1>2 DEF Closed, Above
  <2>2. \A A : c \in A /\ Closed(g, A) => Ancestors(g, c) \subseteq A
    BY AncestorsAre
  <2>3. c \in B
    BY <1>2
  <2>4. Ancestors(g, c) \subseteq B
    BY <2>1, <2>2, <2>3
  <2> QED BY <2>4
<1>4. ASSUME \A x \in Nodes(g) : Above(h, x) \subseteq Nodes(g)
      PROVE  Ancestors(h, c) \subseteq Ancestors(g, c)
  <2>1. c \in Ancestors(g, c) /\ Ancestors(g, c) \subseteq Nodes(g) /\ Closed(g, Ancestors(g, c))
    BY AncestorsAre
  <2>2. Closed(h, Ancestors(g, c))
    BY <1>4, <2>1 DEF Closed, Above, Within
  <2>3. \A B : c \in B /\ Closed(h, B) => Ancestors(h, c) \subseteq B
    BY <1>1, AncestorsAre
  <2> QED BY <2>1, <2>2, <2>3
<1> QED BY <1>3, <1>4

-----------------------------------------------------------------------------
(* First parents: the line from a head is the least set that holds it and the
   first parent of each of its own. *)

Before(g, c) ==
    IF g.parents[c] = <<>> THEN {} ELSE {Head(g.parents[c])} \cap Nodes(g)
FirstClosed(g, A) == \A c \in A : Before(g, c) \subseteq A

NextOnLine(g, found) ==
    LET above == g.parents[Last(found)]
    IN  IF above = <<>> \/ Head(above) \notin Nodes(g) THEN found
        ELSE AppendNew(found, Head(above))

IsLine(line, g, head) ==
    line = [n \in 0..Len(g.nodes) |->
               IF n = 0 THEN <<head>>
               ELSE LET found == line[n - 1]
                        above == g.parents[Last(found)]
                    IN  IF above = <<>> \/ Head(above) \notin Nodes(g) THEN found
                        ELSE AppendNew(found, Head(above))]

IsDescent(line, g, head) ==
    /\ FirstParentLine(g, head) = line[Len(g.nodes)]
    /\ line[0] = <<head>>
    /\ \A k \in 1..Len(g.nodes) : line[k] = NextOnLine(g, line[k - 1])

(* What one step down does. *)
LEMMA NextOnLineIs ==
    ASSUME NEW S, NEW g, IsWalked(g, S), NEW found \in Seq(Nodes(g)), found # <<>>
    PROVE  /\ Last(found) \in ToSet(found) /\ Last(found) \in Nodes(g)
           /\ NextOnLine(g, found) \in Seq(Nodes(g)) /\ NextOnLine(g, found) # <<>>
           /\ NextOnLine(g, found)[1] = found[1]
           /\ IsInjective(found) => IsInjective(NextOnLine(g, found))
           /\ ToSet(NextOnLine(g, found)) = ToSet(found) \cup Before(g, Last(found))
           /\ \/ NextOnLine(g, found) = found
              \/ /\ Len(NextOnLine(g, found)) = Len(found) + 1
                 /\ Before(g, Last(found)) = {Last(NextOnLine(g, found))}
<1>1. Len(found) \in Nat /\ Len(found) > 0 /\ DOMAIN found = 1..Len(found)
      /\ Last(found) = found[Len(found)]
  BY DEF Last
<1>2. PICK x \in Nodes(g) : x = Last(found) /\ x \in ToSet(found)
  BY <1>1 DEF ToSet
<1>3. g.parents[x] \in Seq(S)
  BY DEF IsWalked
<1>4. CASE g.parents[x] = <<>> \/ Head(g.parents[x]) \notin Nodes(g)
  <2>1. NextOnLine(g, found) = found /\ Before(g, x) = {}
    BY <1>2, <1>4 DEF NextOnLine, Before
  <2> QED BY <1>2, <2>1
<1>5. CASE ~(g.parents[x] = <<>> \/ Head(g.parents[x]) \notin Nodes(g))
  <2>1. PICK y \in Nodes(g) : y = Head(g.parents[x])
    BY <1>5
  <2>2. NextOnLine(g, found) = AppendNew(found, y) /\ Before(g, x) = {y}
    BY <1>2, <1>5, <2>1 DEF NextOnLine, Before
  <2>3. CASE y \in ToSet(found)
    <3>1. NextOnLine(g, found) = found
      BY <2>2, <2>3 DEF AppendNew
    <3> QED BY <1>2, <2>2, <2>3, <3>1
  <2>4. CASE y \notin ToSet(found)
    <3>1. NextOnLine(g, found) = Append(found, y)
      BY <2>2, <2>4 DEF AppendNew
    <3>2. PICK new : new = Append(found, y)
      OBVIOUS
    <3>3. /\ new \in Seq(Nodes(g)) /\ Len(new) = Len(found) + 1
          /\ \A i \in 1..Len(found) : new[i] = found[i]
          /\ new[Len(found) + 1] = y /\ ToSet(new) = ToSet(found) \cup {y}
          /\ (IsInjective(found) => IsInjective(new))
      BY <2>4, <3>2, AppendIs
    <3>4. Last(new) = y /\ new # <<>> /\ new[1] = found[1]
      BY <1>1, <3>3 DEF Last
    <3> QED BY <1>2, <2>2, <3>1, <3>2, <3>3, <3>4
  <2> QED BY <2>3, <2>4
<1> QED BY <1>4, <1>5

LEMMA DescentIs ==
    ASSUME NEW S, NEW g, IsWalked(g, S), NEW head \in Nodes(g)
    PROVE  \E line \in [0..Len(g.nodes) -> Seq(Nodes(g)) \ {<<>>}] : IsDescent(line, g, head)
<1> DEFINE n == Len(g.nodes)
           T == Seq(Nodes(g)) \ {<<>>}
           step == [p \in (1..n) \X T |-> NextOnLine(g, p[2])]
<1>1. n \in Nat
  BY DEF IsWalked
<1>2. PICK first \in T : first = <<head>>
  <2>1. <<head>> \in Seq(Nodes(g)) /\ <<head>> # <<>>
    OBVIOUS
  <2> QED BY <2>1
<1>3. \A s \in T : NextOnLine(g, s) \in T
  BY NextOnLineIs
<1> HIDE DEF n, T
<1>4. step \in [(1..n) \X T -> T]
  BY <1>3
<1>5. \A k \in 1..n, s \in T : step[<<k, s>>] = NextOnLine(g, s)
  OBVIOUS
<1> HIDE DEF step
<1>6. PICK f \in [0..n -> T] : IsIteration(f, n, first, step)
  BY <1>1, <1>4, Iteration
<1>7. \A k \in 0..n : k # 0 => k \in 1..n /\ f[k - 1] \in T
  <2> TAKE k \in 0..n
  <2>1. k # 0 => k \in 1..n /\ k - 1 \in 0..n
    BY <1>1
  <2> QED BY <2>1
<1>8. IsLine(f, g, head)
  <2>1. f = [k \in 0..n |-> IF k = 0 THEN first ELSE step[<<k, f[k - 1]>>]]
    BY <1>6 DEF IsIteration
  <2>2. f = [k \in 0..n |-> IF k = 0 THEN first ELSE NextOnLine(g, f[k - 1])]
    BY <1>5, <1>7, <2>1
  <2> QED BY <1>2, <2>2 DEF IsLine, n, NextOnLine
<1>9. PICK line : line = CHOOSE l : IsLine(l, g, head)
  OBVIOUS
<1>10. IsLine(line, g, head) /\ FirstParentLine(g, head) = line[n]
  BY <1>8, <1>9 DEF FirstParentLine, IsLine, n
<1>11. line[0] = first /\ \A k \in 1..n : line[k] = NextOnLine(g, line[k - 1])
  <2>1. 0 \in 0..n /\ \A k \in 1..n : k \in 0..n /\ k # 0
    BY <1>1
  <2>2. line = [k \in 0..n |-> IF k = 0 THEN first ELSE NextOnLine(g, line[k - 1])]
    BY <1>2, <1>10 DEF IsLine, n, NextOnLine
  <2> QED BY <2>1, <2>2
<1>12. IsDescent(line, g, head)
  BY <1>2, <1>10, <1>11 DEF IsDescent, n
<1>13. \A k \in 0..n : line[k] \in T
  <2> DEFINE P == {k \in 0..n : line[k] \in T}
  <2>1. 0 \in P
    BY <1>1, <1>2, <1>11
  <2>2. ASSUME NEW k \in 1..n, k - 1 \in P PROVE k \in P
    BY <1>1, <1>3, <1>11, <2>2
  <2> HIDE DEF P
  <2>3. \A k \in 0..n : k \in P
    BY <1>1, <2>1, <2>2, UpTo
  <2> QED BY <2>3 DEF P
<1>14. line \in [0..n -> T]
  BY <1>10, <1>13 DEF IsLine, n
<1> QED BY <1>12, <1>14 DEF n, T

(* gitgraph.go:FirstParentLine: from the head, each commit once, the commit and
   every first parent of its own inside the graph, and nothing else. *)
THEOREM LineIs ==
    ASSUME NEW S, NEW g, IsWalked(g, S), NEW head \in Nodes(g)
    PROVE  /\ FirstParentLine(g, head) \in Seq(Nodes(g)) /\ FirstParentLine(g, head) # <<>>
           /\ FirstParentLine(g, head)[1] = head
           /\ IsInjective(FirstParentLine(g, head))
           /\ head \in ToSet(FirstParentLine(g, head))
           /\ ToSet(FirstParentLine(g, head)) \subseteq Nodes(g)
           /\ FirstClosed(g, ToSet(FirstParentLine(g, head)))
           /\ \A B : head \in B /\ FirstClosed(g, B) =>
                       ToSet(FirstParentLine(g, head)) \subseteq B
<1> DEFINE n == Len(g.nodes)
<1>0. PICK line \in [0..n -> Seq(Nodes(g)) \ {<<>>}] : IsDescent(line, g, head)
  BY DescentIs
<1>1. /\ n \in Nat /\ g.nodes \in Seq(S) /\ IsInjective(g.nodes)
      /\ g.nodes \in Seq(Nodes(g)) /\ ToSet(g.nodes) = Nodes(g)
  <2>1. g.nodes \in Seq(S) /\ ToSet(g.nodes) = Nodes(g) /\ IsInjective(g.nodes)
    BY DEF IsWalked, Nodes
  <2> QED BY <2>1, SeqOver
<1>2. /\ FirstParentLine(g, head) = line[n] /\ line[0] = <<head>>
      /\ \A k \in 1..n : line[k] = NextOnLine(g, line[k - 1])
  BY <1>0 DEF IsDescent
<1> HIDE DEF n
<1> DEFINE least(s) == \A B : head \in B /\ FirstClosed(g, B) => ToSet(s) \subseteq B
           inner(s) == \A x \in ToSet(s) \ {Last(s)} : Before(g, x) \subseteq ToSet(s)
           ended(s) == Before(g, Last(s)) \subseteq ToSet(s)
           good(s) == IsInjective(s) /\ s[1] = head /\ least(s) /\ inner(s)
           P == {k \in 0..n : good(line[k]) /\ (ended(line[k]) \/ Len(line[k]) = k + 1)}
<1>3. 0 \in P
  <2>0. PICK s : s = <<head>>
    OBVIOUS
  <2>1. s = line[0] /\ Len(s) = 1 /\ s[1] = head /\ DOMAIN s = 1..1 /\ Last(s) = head
    BY <1>2, <2>0 DEF Last
  <2>2. IsInjective(s) /\ ToSet(s) = {head}
    BY <2>1 DEF IsInjective, ToSet
  <2>3. good(s)
    BY <2>1, <2>2
  <2>4. 0 \in 0..n
    BY <1>1
  <2> HIDE DEF good, ended
  <2> QED BY <2>1, <2>3, <2>4
<1>4. ASSUME NEW k \in 1..n, k - 1 \in P PROVE k \in P
  <2>1. k - 1 \in 0..n /\ k \in 0..n /\ k \in Nat
    BY <1>1
  <2>2. PICK s \in Seq(Nodes(g)) : s = line[k - 1] /\ s # <<>> /\ good(s)
                                   /\ (ended(s) \/ Len(s) = k)
    <3>1. line[k - 1] \in Seq(Nodes(g)) \ {<<>>}
      BY <2>1
    <3>2. good(line[k - 1]) /\ (ended(line[k - 1]) \/ Len(line[k - 1]) = (k - 1) + 1)
      BY <1>4
    <3> HIDE DEF good, ended, P
    <3> QED BY <2>1, <3>1, <3>2
  <2>3. PICK t : t = line[k] /\ t = NextOnLine(g, s)
    BY <1>2, <2>2
  <2>4. /\ Last(s) \in ToSet(s) /\ t[1] = s[1]
        /\ (IsInjective(s) => IsInjective(t))
        /\ ToSet(t) = ToSet(s) \cup Before(g, Last(s))
        /\ \/ t = s
           \/ Len(t) = Len(s) + 1 /\ Before(g, Last(s)) = {Last(t)}
    BY <2>2, <2>3, NextOnLineIs
  <2> HIDE DEF P
  <2>5. CASE t = s
    <3>1. ended(t) /\ good(t)
      BY <2>2, <2>4, <2>5
    <3> HIDE DEF good, ended
    <3> QED BY <2>1, <2>3, <3>1 DEF P
  <2>6. CASE t # s
    <3>1. Len(t) = Len(s) + 1 /\ Before(g, Last(s)) = {Last(t)}
      BY <2>4, <2>6
    <3>2. least(t)
      <4> SUFFICES ASSUME NEW B, head \in B, FirstClosed(g, B) PROVE ToSet(t) \subseteq B
        OBVIOUS
      <4>1. ToSet(s) \subseteq B
        BY <2>2
      <4>2. Before(g, Last(s)) \subseteq B
        BY <2>4, <4>1 DEF FirstClosed
      <4> QED BY <2>4, <4>1, <4>2
    <3>3. inner(t)
      <4> SUFFICES ASSUME NEW x \in ToSet(t), x # Last(t) PROVE Before(g, x) \subseteq ToSet(t)
        OBVIOUS
      <4>1. x \in ToSet(s)
        BY <2>4, <3>1
      <4>2. CASE x = Last(s)
        BY <2>4, <4>2
      <4>3. CASE x # Last(s)
        <5>1. Before(g, x) \subseteq ToSet(s)
          BY <2>2, <4>1, <4>3
        <5> QED BY <2>4, <5>1
      <4> QED BY <4>2, <4>3
    <3>4. good(t)
      BY <2>2, <2>4, <3>2, <3>3
    <3>5. ended(t) \/ Len(t) = k + 1
      <4>1. CASE ended(s)
        <5>1. ToSet(t) = ToSet(s) /\ Last(t) \in ToSet(s)
          BY <2>4, <3>1, <4>1
        <5>2. IsInjective(t)
          BY <3>4
        <5>3. Len(t) = Len(s)
          <6>1. t \in Seq(Nodes(g))
            BY <2>2, <2>3, NextOnLineIs
          <6>2. Cardinality(ToSet(t)) = Len(t) /\ Cardinality(ToSet(s)) = Len(s)
            BY <2>2, <5>2, <6>1, InjectiveLength
          <6> QED BY <5>1, <6>2
        <5>4. Len(s) \in Nat
          OBVIOUS
        <5> QED BY <3>1, <5>3, <5>4
      <4>2. CASE Len(s) = k
        BY <3>1, <4>2
      <4> QED BY <2>2, <4>1, <4>2
    <3> HIDE DEF good, ended
    <3> QED BY <2>1, <2>3, <3>4, <3>5 DEF P
  <2> QED BY <2>5, <2>6
<1> HIDE DEF P
<1>5. n \in P
  <2>1. \A k \in 0..n : k \in P
    BY <1>1, <1>3, <1>4, UpTo
  <2>2. n \in 0..n
    BY <1>1
  <2> QED BY <2>1, <2>2
<1>6. PICK last \in Seq(Nodes(g)) : last = line[n] /\ last # <<>> /\ last = FirstParentLine(g, head)
  <2>1. n \in 0..n
    BY <1>1
  <2> QED BY <1>2, <2>1
<1>7. good(last) /\ (ended(last) \/ Len(last) = n + 1)
  BY <1>5, <1>6 DEF P
<1>8. ToSet(last) \subseteq Nodes(g)
  BY SeqOver
<1>9. ended(last)
  <2>1. PICK all \in Seq(Nodes(g)) : all = g.nodes
    BY <1>1
  <2>2. Len(last) <= Len(all)
    BY <1>1, <1>7, <1>8, <2>1, FitsIn
  <2>3. Len(last) <= n
    BY <2>1, <2>2 DEF n
  <2> HIDE DEF ended, good
  <2> QED BY <1>1, <1>7, <2>3
<1>10. FirstClosed(g, ToSet(last))
  BY <1>7, <1>9 DEF FirstClosed
<1>11. head \in ToSet(last)
  <2>1. 1 \in DOMAIN last
    BY <1>6
  <2> QED BY <1>7, <2>1 DEF ToSet
<1> QED BY <1>6, <1>7, <1>8, <1>10, <1>11

(* Where parents have smaller numbers, as in a source history. *)
IsNumbered(g) ==
    /\ IsWalked(g, Nat)
    /\ \A c \in Nodes(g) : \A p \in Above(g, c) : p < c

LEMMA LineUnfolds ==
    ASSUME NEW g, IsNumbered(g), NEW c \in Nodes(g)
    PROVE  /\ ToSet(FirstParentLine(g, c)) \subseteq Ancestors(g, c)
           /\ Before(g, c) \subseteq Above(g, c)
           /\ ToSet(FirstParentLine(g, c)) =
                {c} \cup UNION {ToSet(FirstParentLine(g, p)) : p \in Before(g, c)}
<1>1. IsWalked(g, Nat)
  BY DEF IsNumbered
<1>2. \A x \in Nodes(g) : Before(g, x) \subseteq Above(g, x) /\ Before(g, x) \subseteq Nodes(g)
  <2> TAKE x \in Nodes(g)
  <2>1. g.parents[x] \in Seq(Nat)
    BY <1>1 DEF IsWalked
  <2>2. g.parents[x] # <<>> => Head(g.parents[x]) \in ToSet(g.parents[x])
    <3>1. g.parents[x] # <<>> => 1 \in DOMAIN g.parents[x] /\ Head(g.parents[x]) = g.parents[x][1]
      BY <2>1
    <3> QED BY <3>1 DEF ToSet
  <2> QED BY <2>2 DEF Before, Above
<1>3. ToSet(FirstParentLine(g, c)) \subseteq Ancestors(g, c)
  <2>1. c \in Ancestors(g, c) /\ Closed(g, Ancestors(g, c)) /\ Ancestors(g, c) \subseteq Nodes(g)
    BY <1>1, AncestorsAre
  <2>2. FirstClosed(g, Ancestors(g, c))
    BY <1>2, <2>1 DEF FirstClosed, Closed
  <2>3. \A B : c \in B /\ FirstClosed(g, B) => ToSet(FirstParentLine(g, c)) \subseteq B
    BY <1>1, LineIs
  <2> QED BY <2>1, <2>2, <2>3
<1> DEFINE A == {c} \cup UNION {ToSet(FirstParentLine(g, p)) : p \in Before(g, c)}
<1>4. FirstClosed(g, A)
  <2> SUFFICES ASSUME NEW x \in A PROVE Before(g, x) \subseteq A
    BY DEF FirstClosed
  <2>1. CASE x = c
    <3>1. \A p \in Before(g, c) : p \in ToSet(FirstParentLine(g, p))
      BY <1>1, <1>2, LineIs
    <3> QED BY <2>1, <3>1
  <2>2. CASE x # c
    <3>1. PICK p \in Before(g, c) : x \in ToSet(FirstParentLine(g, p))
      BY <2>2
    <3>2. FirstClosed(g, ToSet(FirstParentLine(g, p)))
      BY <1>1, <1>2, LineIs
    <3> QED BY <3>1, <3>2 DEF FirstClosed
  <2> QED BY <2>1, <2>2
<1>5. ToSet(FirstParentLine(g, c)) \subseteq A
  <2>1. c \in A
    OBVIOUS
  <2>2. \A B : c \in B /\ FirstClosed(g, B) => ToSet(FirstParentLine(g, c)) \subseteq B
    BY <1>1, LineIs
  <2> HIDE DEF A
  <2> QED BY <1>4, <2>1, <2>2
<1>6. A \subseteq ToSet(FirstParentLine(g, c))
  <2>1. c \in ToSet(FirstParentLine(g, c)) /\ FirstClosed(g, ToSet(FirstParentLine(g, c)))
    BY <1>1, LineIs
  <2>2. ASSUME NEW p \in Before(g, c)
        PROVE  ToSet(FirstParentLine(g, p)) \subseteq ToSet(FirstParentLine(g, c))
    <3>1. p \in ToSet(FirstParentLine(g, c))
      BY <2>1 DEF FirstClosed
    <3>2. \A B : p \in B /\ FirstClosed(g, B) => ToSet(FirstParentLine(g, p)) \subseteq B
      BY <1>1, <1>2, LineIs
    <3> QED BY <2>1, <3>1, <3>2
  <2> QED BY <2>1, <2>2
<1> QED BY <1>2, <1>3, <1>5, <1>6

(* An ancestor has a smaller number, so two of each other are one. *)
LEMMA AncestorsDescend ==
    ASSUME NEW g, IsNumbered(g), NEW c \in Nodes(g), NEW a \in Ancestors(g, c)
    PROVE  a \in Nat /\ c \in Nat /\ a <= c
<1>1. IsWalked(g, Nat)
  BY DEF IsNumbered
<1>2. Nodes(g) \subseteq Nat
  <2>1. g.nodes \in Seq(Nat)
    BY <1>1 DEF IsWalked
  <2> QED BY <2>1, SeqOver DEF Nodes
<1> DEFINE B == {x \in Nodes(g) : x <= c}
<1>3. c \in B
  BY <1>2
<1>4. Closed(g, B)
  <2> SUFFICES ASSUME NEW x \in B, NEW p \in Above(g, x) PROVE p \in B
    BY DEF Closed
  <2>1. p < x /\ p \in Nodes(g)
    BY DEF IsNumbered, Above
  <2> QED BY <1>2, <2>1
<1>5. Ancestors(g, c) \subseteq B
  <2> HIDE DEF B
  <2> QED BY <1>1, <1>3, <1>4, AncestorsAre
<1> QED BY <1>2, <1>5

(* Two commits on one line are on the line of one of them. *)
LEMMA LineIsLinear ==
    ASSUME NEW g, IsNumbered(g), NEW c \in Nodes(g),
           NEW x \in ToSet(FirstParentLine(g, c)), NEW y \in ToSet(FirstParentLine(g, c))
    PROVE  x \in ToSet(FirstParentLine(g, y)) \/ y \in ToSet(FirstParentLine(g, x))
<1> DEFINE linear(d) ==
        \A a, b \in ToSet(FirstParentLine(g, d)) :
            a \in ToSet(FirstParentLine(g, b)) \/ b \in ToSet(FirstParentLine(g, a))
           bad == {d \in Nodes(g) : ~linear(d)}
<1>1. bad \subseteq Nat
  <2>1. g.nodes \in Seq(Nat)
    BY DEF IsWalked, IsNumbered
  <2> QED BY <2>1, SeqOver DEF Nodes
<1>2. ASSUME bad # {} PROVE FALSE
  <2>1. PICK d \in bad : \A e \in bad : d <= e
    <3> HIDE DEF bad
    <3> QED BY <1>1, <1>2, Smallest
  <2>2. d \in Nodes(g) /\ ToSet(FirstParentLine(g, d)) =
                {d} \cup UNION {ToSet(FirstParentLine(g, p)) : p \in Before(g, d)}
        /\ Before(g, d) \subseteq Above(g, d)
    BY LineUnfolds
  <2>3. PICK a, b \in ToSet(FirstParentLine(g, d)) :
            ~(a \in ToSet(FirstParentLine(g, b)) \/ b \in ToSet(FirstParentLine(g, a)))
    BY <2>1
  <2>4. a # d /\ b # d
    BY <2>3
  <2>5. PICK p \in Before(g, d) : a \in ToSet(FirstParentLine(g, p))
    BY <2>2, <2>3, <2>4
  <2>6. \A q \in Before(g, d) : q = p
    BY <2>5 DEF Before
  <2>7. b \in ToSet(FirstParentLine(g, p))
    BY <2>2, <2>3, <2>4, <2>6
  <2>8. p \in Nodes(g) /\ p < d
    BY <2>2, <2>5 DEF IsNumbered, Above
  <2>9. p \in bad
    BY <2>3, <2>5, <2>7, <2>8
  <2>10. p \in Nat /\ d \in Nat /\ d <= p
    <3> HIDE DEF bad
    <3> QED BY <1>1, <2>1, <2>9
  <2> QED BY <2>8, <2>10
<1> QED BY <1>2

-----------------------------------------------------------------------------
(* Kahn's algorithm: every commit once, after its parents. *)

IsOut(out, g) ==
    out = [n \in 0..Len(g.nodes) |-> IF n = 0 THEN <<>> ELSE NextOut(g, out[n - 1])]

IsSort(out, g) ==
    /\ TopologicalOrder(g) = out[Len(g.nodes)]
    /\ out[0] = <<>>
    /\ \A k \in 1..Len(g.nodes) : out[k] = NextOut(g, out[k - 1])

LEMMA ReadyIs ==
    ASSUME NEW S, NEW g, IsWalked(g, S), NEW done
    PROVE  /\ Ready(g, done) =
                {i \in 1..Len(g.nodes) : g.nodes[i] \notin done /\ Above(g, g.nodes[i]) \subseteq done}
           /\ Ready(g, done) # {} =>
                /\ Min(Ready(g, done)) \in Ready(g, done)
                /\ \A j \in Ready(g, done) : Min(Ready(g, done)) <= j
<1>1. DOMAIN g.nodes = 1..Len(g.nodes) /\ Len(g.nodes) \in Nat
      /\ \A i \in DOMAIN g.nodes : g.nodes[i] \in Nodes(g)
  BY DEF IsWalked, Nodes, ToSet
<1>2. \A i \in DOMAIN g.nodes : ToSet(PresentParents(g, g.nodes[i])) = Above(g, g.nodes[i])
  BY <1>1, PresentIs
<1>3. Ready(g, done) =
        {i \in 1..Len(g.nodes) : g.nodes[i] \notin done /\ Above(g, g.nodes[i]) \subseteq done}
  BY <1>1, <1>2 DEF Ready
<1>4. ASSUME Ready(g, done) # {}
      PROVE  \E i \in Ready(g, done) : \A j \in Ready(g, done) : i <= j
  <2>1. Ready(g, done) \subseteq Nat
    BY <1>1, <1>3
  <2> QED BY <1>4, <2>1, Smallest
<1> QED BY <1>3, <1>4 DEF Min

LEMMA SortIs ==
    ASSUME NEW S, NEW g, IsWalked(g, S)
    PROVE  \E out \in [0..Len(g.nodes) -> Seq(Nodes(g))] : IsSort(out, g)
<1> DEFINE n == Len(g.nodes)
           T == Seq(Nodes(g))
           step == [p \in (1..n) \X T |-> NextOut(g, p[2])]
<1>1. n \in Nat
  BY DEF IsWalked
<1>2. PICK first \in T : first = <<>>
  <2>1. <<>> \in Seq(Nodes(g))
    OBVIOUS
  <2> QED BY <2>1
<1>3. \A s \in T : NextOut(g, s) \in T
  <2> TAKE s \in T
  <2>1. CASE Ready(g, ToSet(s)) = {}
    BY <2>1 DEF NextOut
  <2>2. CASE Ready(g, ToSet(s)) # {}
    <3>1. PICK i \in 1..Len(g.nodes) : i = Min(Ready(g, ToSet(s)))
      BY <2>2, ReadyIs
    <3>2. g.nodes[i] \in Nodes(g)
      BY DEF IsWalked, Nodes, ToSet
    <3>3. NextOut(g, s) = Append(s, g.nodes[i])
      BY <2>2, <3>1 DEF NextOut
    <3>4. Append(s, g.nodes[i]) \in Seq(Nodes(g))
      BY <3>2
    <3> QED BY <3>3, <3>4
  <2> QED BY <2>1, <2>2
<1> HIDE DEF n, T
<1>4. step \in [(1..n) \X T -> T]
  BY <1>3
<1>5. \A k \in 1..n, s \in T : step[<<k, s>>] = NextOut(g, s)
  OBVIOUS
<1> HIDE DEF step
<1>6. PICK f \in [0..n -> T] : IsIteration(f, n, first, step)
  BY <1>1, <1>4, Iteration
<1>7. \A k \in 0..n : k # 0 => k \in 1..n /\ f[k - 1] \in T
  <2> TAKE k \in 0..n
  <2>1. k # 0 => k \in 1..n /\ k - 1 \in 0..n
    BY <1>1
  <2> QED BY <2>1
<1>8. IsOut(f, g)
  <2>1. f = [k \in 0..n |-> IF k = 0 THEN first ELSE step[<<k, f[k - 1]>>]]
    BY <1>6 DEF IsIteration
  <2>2. f = [k \in 0..n |-> IF k = 0 THEN first ELSE NextOut(g, f[k - 1])]
    BY <1>5, <1>7, <2>1
  <2> QED BY <1>2, <2>2 DEF IsOut, n
<1>9. PICK out : out = CHOOSE o : IsOut(o, g)
  OBVIOUS
<1>10. IsOut(out, g) /\ TopologicalOrder(g) = out[n]
  BY <1>8, <1>9 DEF TopologicalOrder, IsOut, n
<1>11. out[0] = first /\ \A k \in 1..n : out[k] = NextOut(g, out[k - 1])
  <2>1. 0 \in 0..n /\ \A k \in 1..n : k \in 0..n /\ k # 0
    BY <1>1
  <2>2. out = [k \in 0..n |-> IF k = 0 THEN first ELSE NextOut(g, out[k - 1])]
    BY <1>2, <1>10 DEF IsOut, n
  <2> QED BY <2>1, <2>2
<1>12. IsSort(out, g)
  BY <1>2, <1>10, <1>11 DEF IsSort, n
<1>13. \A k \in 0..n : out[k] \in T
  <2> DEFINE P == {k \in 0..n : out[k] \in T}
  <2>1. 0 \in P
    BY <1>1, <1>2, <1>11
  <2>2. ASSUME NEW k \in 1..n, k - 1 \in P PROVE k \in P
    BY <1>1, <1>3, <1>11, <2>2
  <2> HIDE DEF P
  <2>3. \A k \in 0..n : k \in P
    BY <1>1, <2>1, <2>2, UpTo
  <2> QED BY <2>3 DEF P
<1>14. out \in [0..n -> T]
  BY <1>10, <1>13 DEF IsOut, n
<1> QED BY <1>12, <1>14 DEF n, T

(* Every commit of seq comes after the parents it has. *)
ParentsFirst(g, seq) ==
    \A i \in 1..Len(seq) : \A p \in Above(g, seq[i]) : \E j \in 1..(i - 1) : seq[j] = p

(* gitgraph.go:sortTopologically: where no commit is its own ancestor (parents can
   then be numbered below their children), every commit comes out once, after all
   its parents, and a root that was walked first comes first. *)
THEOREM SortOrders ==
    ASSUME NEW g, IsNumbered(g)
    PROVE  /\ TopologicalOrder(g) \in Seq(Nodes(g))
           /\ IsInjective(TopologicalOrder(g))
           /\ ToSet(TopologicalOrder(g)) = Nodes(g)
           /\ ParentsFirst(g, TopologicalOrder(g))
           /\ g.nodes # <<>> /\ Above(g, g.nodes[1]) = {} =>
                TopologicalOrder(g) # <<>> /\ TopologicalOrder(g)[1] = g.nodes[1]
<1>0. IsWalked(g, Nat)
  BY DEF IsNumbered
<1> DEFINE n == Len(g.nodes)
<1>1. PICK out \in [0..n -> Seq(Nodes(g))] : IsSort(out, g)
  BY <1>0, SortIs
<1>2. /\ n \in Nat /\ g.nodes \in Seq(Nat) /\ IsInjective(g.nodes)
      /\ g.nodes \in Seq(Nodes(g)) /\ ToSet(g.nodes) = Nodes(g) /\ Nodes(g) \subseteq Nat
      /\ \A i \in 1..n : g.nodes[i] \in Nodes(g)
      /\ \A x \in Nodes(g) : \E i \in 1..n : g.nodes[i] = x
  <2>1. g.nodes \in Seq(Nat) /\ ToSet(g.nodes) = Nodes(g) /\ IsInjective(g.nodes)
    BY <1>0 DEF IsWalked, Nodes
  <2>2. Nodes(g) \subseteq Nat
    BY <2>1, SeqOver
  <2>3. g.nodes \in Seq(Nodes(g))
    BY <2>1, SeqOver
  <2>4. /\ n \in Nat /\ \A i \in 1..n : g.nodes[i] \in Nodes(g)
        /\ \A x \in Nodes(g) : \E i \in 1..n : g.nodes[i] = x
    BY <2>1 DEF ToSet
  <2> QED BY <2>1, <2>2, <2>3, <2>4
<1>3. /\ TopologicalOrder(g) = out[n] /\ out[0] = <<>>
      /\ \A k \in 1..n : out[k] = NextOut(g, out[k - 1])
  BY <1>1 DEF IsSort
<1>4. \A done \in Seq(Nodes(g)) : IsInjective(done) => Cardinality(ToSet(done)) = Len(done)
  BY InjectiveLength
<1>5. Cardinality(Nodes(g)) = n
  BY <1>2, InjectiveLength
<1> HIDE DEF n
<1> DEFINE first == Above(g, g.nodes[1]) = {}
           P == {k \in 0..n : /\ Len(out[k]) = k /\ IsInjective(out[k])
                              /\ ParentsFirst(g, out[k])
                              /\ first /\ k > 0 => out[k][1] = g.nodes[1]}
<1>6. 0 \in P
  <2>1. IsInjective(<<>>) /\ ParentsFirst(g, <<>>)
    BY DEF IsInjective, ParentsFirst
  <2>2. 0 \in 0..n
    BY <1>2
  <2> QED BY <1>3, <2>1, <2>2
<1>7. ASSUME NEW k \in 1..n, k - 1 \in P PROVE k \in P
  <2>1. k - 1 \in 0..n /\ k \in 0..n /\ k \in Nat
    BY <1>2
  <2>2. PICK s \in Seq(Nodes(g)) :
            /\ s = out[k - 1] /\ Len(s) = k - 1 /\ IsInjective(s) /\ ParentsFirst(g, s)
            /\ (first /\ k - 1 > 0 => s[1] = g.nodes[1])
    BY <1>7, <2>1
  <2> HIDE DEF P
  <2>3. ToSet(s) \subseteq Nodes(g) /\ ToSet(s) # Nodes(g)
    <3>1. ToSet(s) \subseteq Nodes(g)
      BY SeqOver
    <3>2. Cardinality(ToSet(s)) = k - 1
      BY <1>4, <2>2
    <3> QED BY <1>5, <2>1, <3>1, <3>2
  <2>4. PICK x \in Nodes(g) \ ToSet(s) : \A y \in Nodes(g) \ ToSet(s) : x <= y
    <3> DEFINE left == Nodes(g) \ ToSet(s)
    <3>1. left \subseteq Nat /\ left # {}
      BY <1>2, <2>3
    <3> HIDE DEF left
    <3>2. \E x \in left : \A y \in left : x <= y
      BY <3>1, Smallest
    <3> QED BY <3>2 DEF left
  <2>5. Above(g, x) \subseteq ToSet(s)
    <3> SUFFICES ASSUME NEW p \in Above(g, x), p \notin ToSet(s) PROVE FALSE
      OBVIOUS
    <3>1. p \in Nodes(g) /\ p < x /\ x <= p
      BY <2>4 DEF IsNumbered, Above
    <3> QED BY <1>2, <3>1
  <2>6. PICK next : next = Ready(g, ToSet(s))
    OBVIOUS
  <2>7. next = {i \in 1..n : g.nodes[i] \notin ToSet(s) /\ Above(g, g.nodes[i]) \subseteq ToSet(s)}
        /\ (next # {} => Min(next) \in next /\ \A j \in next : Min(next) <= j)
    BY <1>0, <2>6, ReadyIs DEF n
  <2>8. next # {}
    BY <1>2, <2>4, <2>5, <2>7
  <2>9. PICK i \in 1..n : i = Min(next) /\ g.nodes[i] \notin ToSet(s)
            /\ Above(g, g.nodes[i]) \subseteq ToSet(s) /\ \A j \in next : i <= j
    BY <2>7, <2>8
  <2>10. PICK y \in Nodes(g) : y = g.nodes[i]
    BY <1>2
  <2>11. PICK t : t = Append(s, y)
    OBVIOUS
  <2>12. out[k] = t
    BY <1>3, <2>2, <2>6, <2>8, <2>9, <2>10, <2>11 DEF NextOut
  <2>13. /\ t \in Seq(Nodes(g)) /\ Len(t) = k /\ IsInjective(t)
         /\ \A j \in 1..(k - 1) : t[j] = s[j]
         /\ t[k] = y
    <3>1. /\ Append(s, y) \in Seq(Nodes(g)) /\ Len(Append(s, y)) = Len(s) + 1
          /\ \A j \in 1..Len(s) : Append(s, y)[j] = s[j]
          /\ Append(s, y)[Len(s) + 1] = y
          /\ (IsInjective(s) /\ y \notin ToSet(s) => IsInjective(Append(s, y)))
      BY AppendIs
    <3> QED BY <2>1, <2>2, <2>9, <2>10, <2>11, <3>1
  <2>14. ParentsFirst(g, t)
    <3> SUFFICES ASSUME NEW j \in 1..k, NEW p \in Above(g, t[j])
                 PROVE  \E m \in 1..(j - 1) : t[m] = p
      BY <2>13 DEF ParentsFirst
    <3>1. CASE j = k
      <4>1. PICK m \in 1..(k - 1) : s[m] = p
        <5>1. p \in ToSet(s)
          BY <2>9, <2>10, <2>13, <3>1
        <5> QED BY <2>2, <5>1 DEF ToSet
      <4> QED BY <2>13, <3>1, <4>1
    <3>2. CASE j # k
      <4>1. j \in 1..(k - 1) /\ t[j] = s[j]
        BY <2>1, <2>13, <3>2
      <4>2. PICK m \in 1..(j - 1) : s[m] = p
        BY <2>2, <4>1 DEF ParentsFirst
      <4>3. m \in 1..(k - 1)
        BY <2>1, <4>1
      <4> QED BY <2>13, <4>2, <4>3
    <3> QED BY <3>1, <3>2
  <2>15. first => t[1] = g.nodes[1]
    <3>1. CASE k > 1
      BY <2>1, <2>2, <2>13, <3>1
    <3>2. CASE ~(k > 1)
      <4>1. k = 1 /\ ToSet(s) = {}
        BY <2>1, <2>2, <3>2 DEF ToSet
      <4>2. ASSUME first PROVE i = 1
        <5>1. 1 \in next
          BY <2>1, <2>7, <4>1, <4>2
        <5> QED BY <1>2, <2>9, <5>1
      <4> QED BY <2>10, <2>13, <4>1, <4>2
    <3> QED BY <3>1, <3>2
  <2> HIDE DEF first
  <2> QED BY <2>1, <2>12, <2>13, <2>14, <2>15 DEF P
<1> HIDE DEF P
<1>8. n \in P
  <2>1. \A k \in 0..n : k \in P
    BY <1>2, <1>6, <1>7, UpTo
  <2>2. n \in 0..n
    BY <1>2
  <2> QED BY <2>1, <2>2
<1>9. PICK order \in Seq(Nodes(g)) : order = out[n] /\ order = TopologicalOrder(g)
  <2>1. n \in 0..n
    BY <1>2
  <2> QED BY <1>3, <2>1
<1>10. /\ Len(order) = n /\ IsInjective(order) /\ ParentsFirst(g, order)
       /\ (first /\ n > 0 => order[1] = g.nodes[1])
  BY <1>8, <1>9 DEF P
<1>11. ToSet(order) = Nodes(g)
  <2>1. ToSet(order) \subseteq Nodes(g)
    BY SeqOver
  <2>2. PICK all \in Seq(Nodes(g)) : all = g.nodes
    BY <1>2
  <2>3. Len(order) = Len(all) => ToSet(order) = ToSet(all)
    BY <1>2, <1>10, <2>1, <2>2, FitsIn
  <2> QED BY <1>2, <1>10, <2>2, <2>3 DEF n
<1>12. g.nodes # <<>> => n > 0 /\ order # <<>>
  BY <1>2, <1>10 DEF n
<1> QED BY <1>9, <1>10, <1>11, <1>12

-----------------------------------------------------------------------------
(* gitgraph.go:Range: a range whose anchor is below its head and has nothing below
   it in the graph it was given is the whole graph, parents first, the anchor
   before all the rest. *)
THEOREM WholeRange ==
    ASSUME NEW g, IsNumbered(g), g.nodes # <<>>, Above(g, g.nodes[1]) = {},
           NEW h \in Nodes(g), Ancestors(g, h) = Nodes(g)
    PROVE  /\ RangeOf(g, g.nodes[1], {h}) \in Seq(Nodes(g))
           /\ IsInjective(RangeOf(g, g.nodes[1], {h}))
           /\ ToSet(RangeOf(g, g.nodes[1], {h})) = Nodes(g)
           /\ ParentsFirst(g, RangeOf(g, g.nodes[1], {h}))
           /\ RangeOf(g, g.nodes[1], {h}) # <<>>
           /\ RangeOf(g, g.nodes[1], {h})[1] = g.nodes[1]
<1>1. PICK order \in Seq(Nodes(g)) :
          /\ order = TopologicalOrder(g) /\ IsInjective(order) /\ ToSet(order) = Nodes(g)
          /\ ParentsFirst(g, order) /\ order # <<>> /\ order[1] = g.nodes[1]
  BY SortOrders
<1>2. PICK a \in Nodes(g) : a = g.nodes[1]
  <2>1. g.nodes \in Seq(Nat)
    BY DEF IsNumbered, IsWalked
  <2>2. 1 \in DOMAIN g.nodes
    BY <2>1
  <2> QED BY <2>2 DEF Nodes, ToSet
<1>3. Ancestors(g, a) = {a}
  <2>1. Ancestors(g, a) = {a} \cup UNION {Ancestors(g, p) : p \in Above(g, a)}
    BY AncestorsUnfold DEF IsNumbered
  <2> QED BY <1>2, <2>1
<1>4. RangeOf(g, a, {h}) =
        Only(order, (UNION {Ancestors(g, x) : x \in {h}}) \ (Ancestors(g, a) \ {a}))
  BY <1>1 DEF RangeOf
<1>5. (UNION {Ancestors(g, x) : x \in {h}}) \ (Ancestors(g, a) \ {a}) = Nodes(g)
  BY <1>3
<1>6. Only(order, Nodes(g)) = order
  BY <1>1, OnlyKeeps
<1> QED BY <1>1, <1>2, <1>4, <1>5, <1>6

(* A parent that is mapped stands for itself. *)
LEMMA NearestIsOwn ==
    ASSUME NEW S, NEW g, IsWalked(g, S), NEW p \in Nodes(g), NEW map, p \in DOMAIN map
    PROVE  NearestMapped(g, p, map) = <<map[p]>>
<1>1. PICK walk \in Seq(Nodes(g)) : walk = BreadthFirst(g, p) /\ walk # <<>> /\ walk[1] = p
  BY SearchFinds
<1>2. Only(walk, DOMAIN map) # <<>> /\ Only(walk, DOMAIN map)[1] = p
  BY <1>1, OnlyEnds
<1>3. PICK mapped \in Seq(Nodes(g)) : mapped = Only(walk, DOMAIN map)
  BY OnlyKeeps
<1>4. Head(mapped) = p
  BY <1>2, <1>3
<1> QED BY <1>1, <1>2, <1>3, <1>4 DEF NearestMapped

IsFound(found, g, c, map) ==
    found = [n \in 0..Len(PresentParents(g, c)) |->
                IF n = 0 THEN <<>>
                ELSE found[n - 1] \o NearestMapped(g, PresentParents(g, c)[n], map)]

(* gitgraph.go:MappedParents: the images of a commit's parents, each once, when
   all of them have one. *)
THEOREM MappedAre ==
    ASSUME NEW S, NEW g, IsWalked(g, S), NEW c \in Nodes(g), NEW D,
           NEW map, Above(g, c) \subseteq DOMAIN map, \A p \in Above(g, c) : map[p] \in D
    PROVE  /\ MappedParents(g, c, map) \in Seq(D)
           /\ IsInjective(MappedParents(g, c, map))
           /\ ToSet(MappedParents(g, c, map)) = {map[p] : p \in Above(g, c)}
<1>1. PICK present \in Seq(Nodes(g)) :
          present = PresentParents(g, c) /\ ToSet(present) = Above(g, c)
  BY PresentIs
<1> DEFINE n == Len(present)
           T == Seq(D)
           step == [p \in (1..n) \X T |-> p[2] \o <<map[present[p[1]]]>>]
<1>2. n \in Nat /\ DOMAIN present = 1..n
  OBVIOUS
<1>3. \A k \in 1..n : present[k] \in Above(g, c)
                      /\ NearestMapped(g, present[k], map) = <<map[present[k]]>>
  <2> TAKE k \in 1..n
  <2>1. present[k] \in Above(g, c) /\ present[k] \in Nodes(g)
    BY <1>1, <1>2 DEF ToSet, Above
  <2> QED BY <2>1, NearestIsOwn
<1>4. PICK first \in T : first = <<>>
  <2>1. <<>> \in Seq(D)
    OBVIOUS
  <2> QED BY <2>1
<1>5. \A k \in 1..n, s \in T : s \o <<map[present[k]]>> \in T
  <2> TAKE k \in 1..n, s \in T
  <2>1. map[present[k]] \in D
    BY <1>3
  <2> QED BY <2>1
<1> HIDE DEF n, T
<1>6. step \in [(1..n) \X T -> T]
  BY <1>5
<1>7. \A k \in 1..n, s \in T : step[<<k, s>>] = s \o <<map[present[k]]>>
  OBVIOUS
<1> HIDE DEF step
<1>8. PICK f \in [0..n -> T] : IsIteration(f, n, first, step)
  BY <1>2, <1>6, Iteration
<1>9. \A k \in 0..n : k # 0 => k \in 1..n /\ f[k - 1] \in T
  <2> TAKE k \in 0..n
  <2>1. k # 0 => k \in 1..n /\ k - 1 \in 0..n
    BY <1>2
  <2> QED BY <2>1
<1>10. IsFound(f, g, c, map)
  <2>1. f = [k \in 0..n |-> IF k = 0 THEN first ELSE step[<<k, f[k - 1]>>]]
    BY <1>8 DEF IsIteration
  <2>2. f = [k \in 0..n |-> IF k = 0 THEN <<>>
                            ELSE f[k - 1] \o NearestMapped(g, present[k], map)]
    <3>1. ASSUME NEW k \in 0..n, k # 0
          PROVE  step[<<k, f[k - 1]>>] = f[k - 1] \o NearestMapped(g, present[k], map)
      <4>1. k \in 1..n /\ f[k - 1] \in T
        BY <1>9, <3>1
      <4> QED BY <1>3, <1>7, <4>1
    <3> QED BY <1>4, <2>1, <3>1
  <2> QED BY <1>1, <2>2 DEF IsFound, n
<1>11. PICK found : found = CHOOSE q : IsFound(q, g, c, map)
  OBVIOUS
<1>12. IsFound(found, g, c, map) /\ MappedParents(g, c, map) = Distinct(found[n])
  BY <1>1, <1>10, <1>11 DEF MappedParents, IsFound, n
<1>13. found[0] = first /\ \A k \in 1..n : found[k] = found[k - 1] \o <<map[present[k]]>>
  <2>1. 0 \in 0..n /\ \A k \in 1..n : k \in 0..n /\ k # 0
    BY <1>2
  <2>2. found = [k \in 0..n |-> IF k = 0 THEN <<>>
                                ELSE found[k - 1] \o NearestMapped(g, present[k], map)]
    BY <1>1, <1>12 DEF IsFound, n
  <2> QED BY <1>3, <1>4, <2>1, <2>2
<1> DEFINE Up(k) == {map[present[i]] : i \in 1..k}
           P == {k \in 0..n : found[k] \in T /\ ToSet(found[k]) = Up(k)}
<1>14. 0 \in P
  <2>1. 0 \in 0..n /\ ToSet(first) = {}
    BY <1>2, <1>4 DEF ToSet
  <2> QED BY <1>13, <2>1
<1>15. ASSUME NEW k \in 1..n, k - 1 \in P PROVE k \in P
  <2>1. k \in 0..n /\ Up(k) = Up(k - 1) \cup {map[present[k]]}
    <3>1. \A i : i \in 1..k <=> i \in 1..(k - 1) \/ i = k
      BY <1>2
    <3> QED BY <1>2, <3>1
  <2> HIDE DEF Up
  <2>2. PICK s \in Seq(D) : s = found[k - 1] /\ ToSet(s) = Up(k - 1)
    BY <1>15 DEF T
  <2>3. PICK x \in D : x = map[present[k]]
    BY <1>3
  <2>4. s \o <<x>> = Append(s, x)
    OBVIOUS
  <2>5. found[k] = Append(s, x)
    BY <1>13, <2>2, <2>3, <2>4
  <2>6. Append(s, x) \in Seq(D) /\ ToSet(Append(s, x)) = ToSet(s) \cup {x}
    BY AppendIs
  <2> QED BY <2>1, <2>2, <2>3, <2>5, <2>6 DEF T
<1> HIDE DEF P
<1>16. n \in P
  <2>1. \A k \in 0..n : k \in P
    BY <1>2, <1>14, <1>15, UpTo
  <2>2. n \in 0..n
    BY <1>2
  <2> QED BY <2>1, <2>2
<1>17. PICK all \in Seq(D) : all = found[n] /\ ToSet(all) = Up(n)
  BY <1>16 DEF P, T
<1>18. Up(n) = {map[p] : p \in Above(g, c)}
  BY <1>1, <1>2 DEF ToSet
<1>19. Distinct(all) \in Seq(D) /\ ToSet(Distinct(all)) = ToSet(all) /\ IsInjective(Distinct(all))
  BY DistinctKeeps
<1> QED BY <1>12, <1>17, <1>18, <1>19

-----------------------------------------------------------------------------
(* What is listed parents first has no cycle, so of any of its commits those
   that no other supersedes are above all the rest. *)

IsListed(g, S) == IsWalked(g, S) /\ ParentsFirst(g, g.nodes)

LEMMA AncestorsEarlier ==
    ASSUME NEW S, NEW g, IsListed(g, S), NEW j \in 1..Len(g.nodes),
           NEW a \in Ancestors(g, g.nodes[j])
    PROVE  \E i \in 1..j : g.nodes[i] = a
<1> DEFINE B == {g.nodes[i] : i \in 1..j}
<1>1. IsWalked(g, S) /\ g.nodes \in Seq(S) /\ Len(g.nodes) \in Nat
  BY DEF IsListed, IsWalked
<1>2. g.nodes[j] \in Nodes(g) /\ g.nodes[j] \in B
  BY <1>1 DEF Nodes, ToSet
<1>3. Closed(g, B)
  <2> SUFFICES ASSUME NEW i \in 1..j, NEW p \in Above(g, g.nodes[i]) PROVE p \in B
    BY DEF Closed
  <2>1. i \in 1..Len(g.nodes)
    BY <1>1
  <2>2. PICK m \in 1..(i - 1) : g.nodes[m] = p
    BY <2>1 DEF IsListed, ParentsFirst
  <2>3. m \in 1..j
    BY <1>1
  <2> QED BY <2>2, <2>3
<1>4. Ancestors(g, g.nodes[j]) \subseteq B
  <2> HIDE DEF B
  <2> QED BY <1>1, <1>2, <1>3, AncestorsAre
<1> QED BY <1>4

LEMMA BestCovers ==
    ASSUME NEW S, NEW g, IsListed(g, S), NEW set, set \subseteq Nodes(g), NEW m \in set
    PROVE  \E d \in Best(g, set) : m \in Ancestors(g, d)
<1> DEFINE n == Len(g.nodes)
           above == {i \in 1..n : g.nodes[i] \in set /\ m \in Ancestors(g, g.nodes[i])}
           gaps == {n - i : i \in above}
<1>1. /\ IsWalked(g, S) /\ g.nodes \in Seq(S) /\ n \in Nat /\ DOMAIN g.nodes = 1..n
      /\ IsInjective(g.nodes)
      /\ \A x \in set : \E i \in 1..n : g.nodes[i] = x
  BY DEF IsListed, IsWalked, Nodes, ToSet
<1>2. PICK i \in above : \A j \in above : j <= i
  <2>1. above # {}
    <3>1. PICK j \in 1..n : g.nodes[j] = m
      BY <1>1
    <3>2. m \in Ancestors(g, m)
      BY <1>1, AncestorsAre
    <3> QED BY <3>1, <3>2
  <2>2. gaps \subseteq Nat /\ gaps # {}
    <3>1. \A j \in above : n - j \in Nat
      BY <1>1
    <3> HIDE DEF above
    <3> QED BY <2>1, <3>1
  <2>3. PICK gap \in gaps : \A other \in gaps : gap <= other
    <3> HIDE DEF gaps
    <3> QED BY <2>2, Smallest
  <2>4. PICK i \in above : gap = n - i
    BY <2>3
  <2>5. \A j \in above : n - i <= n - j
    BY <2>3, <2>4
  <2>6. \A j \in above : j <= i
    BY <1>1, <2>5
  <2> QED BY <2>6
<1>3. PICK d \in set : d = g.nodes[i] /\ m \in Ancestors(g, d) /\ i \in 1..n
  BY <1>2
<1>4. d \in Best(g, set)
  <2> SUFFICES ASSUME NEW x \in set \ {d}, d \in Ancestors(g, x) PROVE FALSE
    BY DEF Best, IsAncestor
  <2>1. PICK j \in 1..n : g.nodes[j] = x
    BY <1>1
  <2>2. m \in Ancestors(g, x)
    <3>1. x \in Nodes(g)
      OBVIOUS
    <3>2. Ancestors(g, d) \subseteq Ancestors(g, x)
      BY <1>1, <3>1, AncestorsCompose
    <3> QED BY <1>3, <3>2
  <2>3. j <= i
    BY <1>2, <2>1, <2>2
  <2>4. PICK k \in 1..j : g.nodes[k] = d
    BY <2>1, AncestorsEarlier
  <2>5. k = i
    <3>1. k \in 1..n
      BY <1>1, <2>1
    <3> QED BY <1>1, <1>3, <2>4, <3>1 DEF IsInjective
  <2> QED BY <1>1, <1>3, <2>1, <2>3, <2>5
<1> QED BY <1>3, <1>4

(* gitgraph.go:DedupeParents: of the parents exactly those no other contains are
   kept, and each that was removed is an ancestor of one that was not. *)
THEOREM DedupeCovers ==
    ASSUME NEW S, NEW g, IsListed(g, S), NEW D, NEW heads \in Seq(D),
           ToSet(heads) \subseteq Nodes(g)
    PROVE  /\ DedupeParents(g, heads) \in Seq(D)
           /\ ToSet(DedupeParents(g, heads)) = Best(g, ToSet(heads))
           /\ \A m \in ToSet(heads) :
                \E d \in ToSet(DedupeParents(g, heads)) : m \in Ancestors(g, d)
<1>1. PICK apart \in Seq(D) : apart = Distinct(heads) /\ ToSet(apart) = ToSet(heads)
  BY DistinctKeeps
<1>2. /\ Only(apart, Best(g, ToSet(heads))) \in Seq(D)
      /\ ToSet(Only(apart, Best(g, ToSet(heads)))) = ToSet(apart) \cap Best(g, ToSet(heads))
  BY OnlyKeeps
<1>3. Best(g, ToSet(heads)) \subseteq ToSet(heads)
  BY DEF Best
<1>4. \A m \in ToSet(heads) : \E d \in Best(g, ToSet(heads)) : m \in Ancestors(g, d)
  BY BestCovers
<1> QED BY <1>1, <1>2, <1>3, <1>4 DEF DedupeParents

-----------------------------------------------------------------------------
(* Merge bases and ranges, by reachability. *)

(* gitgraph.go:MergeBases: a common ancestor without a common child is one that no
   other common ancestor contains, so the bases are the best of them. *)
THEOREM BasesAreBest ==
    ASSUME NEW S, NEW g, IsWalked(g, S), NEW a \in Nodes(g), NEW b \in Nodes(g),
           \A c \in Nodes(g) : c \notin ToSet(g.parents[c]),
           \A c, d \in Nodes(g) : c \in Ancestors(g, d) /\ d \in Ancestors(g, c) => c = d
    PROVE  MergeBases(g, a, b) = Best(g, Ancestors(g, a) \cap Ancestors(g, b))
<1>1. PICK common : common = Ancestors(g, a) \cap Ancestors(g, b)
  OBVIOUS
<1>2. common \subseteq Nodes(g)
  BY <1>1, AncestorsAre
<1>3. \A d \in common : Ancestors(g, d) \subseteq common
  BY <1>1, AncestorsCompose
<1>4. MergeBases(g, a, b) = {c \in common : Children(g, c) \cap common = {}}
  BY <1>1 DEF MergeBases
<1>5. ASSUME NEW c \in common, NEW d \in Children(g, c), d \in common
      PROVE  d \in common \ {c} /\ IsAncestor(g, c, d)
  <2>1. d \in Nodes(g) /\ c \in Above(g, d)
    BY <1>2, <1>5 DEF Children, Above
  <2>2. d # c
    BY <2>1 DEF Above
  <2>3. c \in Ancestors(g, d)
    BY <2>1, AncestorsAre DEF Closed
  <2> QED BY <1>5, <2>2, <2>3 DEF IsAncestor
<1>6. ASSUME NEW c \in common, NEW d \in common \ {c}, IsAncestor(g, c, d)
      PROVE  Children(g, c) \cap common # {}
  <2> SUFFICES ASSUME Children(g, c) \cap common = {} PROVE FALSE
    OBVIOUS
  <2>1. PICK B : B = Ancestors(g, d) \ {c}
    OBVIOUS
  <2>2. d \in B
    BY <1>2, <1>6, <2>1, AncestorsAre
  <2>3. Closed(g, B)
    <3> SUFFICES ASSUME NEW e \in B, NEW p \in Above(g, e) PROVE p \in B
      BY DEF Closed
    <3>1. e \in common /\ e \in Nodes(g) /\ e \in Ancestors(g, d)
      BY <1>2, <1>3, <1>6, <2>1
    <3>2. p \in Ancestors(g, d)
      BY <1>2, <1>6, <3>1, AncestorsAre DEF Closed
    <3>3. p # c
      BY <3>1 DEF Children, Above
    <3> QED BY <2>1, <3>2, <3>3
  <2>4. Ancestors(g, d) \subseteq B
    BY <1>2, <1>6, <2>2, <2>3, AncestorsAre
  <2> QED BY <1>6, <2>1, <2>4 DEF IsAncestor
<1> QED BY <1>1, <1>4, <1>5, <1>6 DEF Best

(* gitgraph.go:Range: what a head reaches without the proper ancestors of the
   anchor, each once. *)
THEOREM RangeIs ==
    ASSUME NEW g, IsNumbered(g), NEW anchor \in Nodes(g), NEW head \in Nodes(g)
    PROVE  /\ ToSet(RangeOf(g, anchor, {head})) =
                Ancestors(g, head) \ (Ancestors(g, anchor) \ {anchor})
           /\ IsInjective(RangeOf(g, anchor, {head}))
<1>1. PICK order : order = TopologicalOrder(g)
  OBVIOUS
<1>2. order \in Seq(Nodes(g)) /\ IsInjective(order) /\ ToSet(order) = Nodes(g)
  BY <1>1, SortOrders
<1>3. PICK X : X = Ancestors(g, head) \ (Ancestors(g, anchor) \ {anchor})
  OBVIOUS
<1>4. RangeOf(g, anchor, {head}) = Only(order, X)
  <2>1. UNION {Ancestors(g, h) : h \in {head}} = Ancestors(g, head)
    OBVIOUS
  <2> QED BY <1>1, <1>3, <2>1 DEF RangeOf
<1>5. X \subseteq Nodes(g)
  BY <1>3, AncestorsAre DEF IsNumbered
<1>6. ToSet(Only(order, X)) = ToSet(order) \cap X /\ IsInjective(Only(order, X))
  BY <1>2, OnlyKeeps
<1> QED BY <1>2, <1>3, <1>4, <1>5, <1>6

-----------------------------------------------------------------------------
(* The source history, and the part of it a run is given. *)

History == \E h \in Histories : parents = h.parents /\ content = h.content

Below(c) == Ancestors(Source, c)
Line(c) == ToSet(FirstParentLine(Source, c))
Span(ts, head) == {ts} \cup (Below(head) \ Below(ts))

LEMMA SourceIs ==
    ASSUME History
    PROVE  /\ IsNumbered(Source) /\ Nodes(Source) = Commits /\ Source.parents = parents
           /\ Source.nodes \in Seq(Commits) /\ IsInjective(Source.nodes)
           /\ ToSet(Source.nodes) = Commits /\ Len(Source.nodes) = N
           /\ \A c \in Commits : parents[c] \in Seq(0..(c - 1))
           /\ N \in Nat /\ N > 1 /\ Anchor \in Commits /\ N \in Commits /\ Anchor # N
           /\ Commits \subseteq Nat
<1>1. N \in Nat /\ N > 1 /\ Anchor \in Commits /\ N \in Commits /\ Anchor # N
      /\ Commits \subseteq Nat
  BY SourceAssumption DEF Commits, Anchor
<1>2. \A c \in Commits : parents[c] \in Seq(0..(c - 1))
  BY SourceAssumption DEF History
<1>3. Source.nodes = [c \in Commits |-> c] /\ Source.parents = parents
  BY DEF Source
<1>4. PICK nodes : nodes = [c \in 1..N |-> c]
  OBVIOUS
<1>5. nodes \in Seq(1..N) /\ DOMAIN nodes = 1..N /\ Len(nodes) = N
  BY <1>1, <1>4
<1>6. IsInjective(nodes) /\ ToSet(nodes) = 1..N
  BY <1>4, <1>5 DEF IsInjective, ToSet
<1>7. Source.nodes = nodes
  BY <1>3, <1>4 DEF Commits
<1>8. Nodes(Source) = Commits
  BY <1>6, <1>7 DEF Nodes, Commits
<1>9. IsWalked(Source, Nat)
  <2>1. nodes \in Seq(Nat)
    BY <1>4, <1>5
  <2>2. \A c \in Commits : parents[c] \in Seq(Nat)
    <3> TAKE c \in Commits
    <3>1. parents[c] \in Seq(0..(c - 1)) /\ 0..(c - 1) \subseteq Nat
      BY <1>1, <1>2
    <3> QED BY <3>1, SeqWider
  <2> QED BY <1>3, <1>6, <1>7, <1>8, <2>1, <2>2 DEF IsWalked
<1>10. \A c \in Nodes(Source) : \A p \in Above(Source, c) : p < c
  <2> TAKE c \in Nodes(Source)
  <2>1. parents[c] \in Seq(0..(c - 1)) /\ c \in Nat
    BY <1>1, <1>2, <1>8
  <2>2. ToSet(parents[c]) \subseteq 0..(c - 1)
    BY <2>1, SeqOver
  <2> QED BY <1>3, <2>1, <2>2 DEF Above
<1> QED BY <1>1, <1>2, <1>3, <1>5, <1>6, <1>7, <1>8, <1>9, <1>10 DEF IsNumbered, Commits

LEMMA BelowIs ==
    ASSUME History
    PROVE  \A c \in Commits :
             /\ c \in Below(c) /\ Below(c) \subseteq Commits /\ Closed(Source, Below(c))
             /\ \A d \in Below(c) : Below(d) \subseteq Below(c) /\ d <= c
             /\ \A d \in Below(c) : c \in Below(d) => c = d
             /\ \A B : c \in B /\ Closed(Source, B) => Below(c) \subseteq B
             /\ Below(c) = {c} \cup UNION {Below(p) : p \in Above(Source, c)}
             /\ Above(Source, c) \subseteq Below(c) /\ c \notin Above(Source, c)
             /\ Above(Source, c) = ToSet(parents[c]) \cap Commits
<1> TAKE c \in Commits
<1>1. IsNumbered(Source) /\ IsWalked(Source, Nat) /\ Nodes(Source) = Commits
      /\ Commits \subseteq Nat /\ Source.parents = parents
  BY SourceIs DEF IsNumbered
<1>2. /\ c \in Below(c) /\ Below(c) \subseteq Commits /\ Closed(Source, Below(c))
      /\ \A B : c \in B /\ Closed(Source, B) => Below(c) \subseteq B
  BY <1>1, AncestorsAre DEF Below
<1>3. \A d \in Below(c) : Below(d) \subseteq Below(c) /\ d \in Commits
  BY <1>1, AncestorsCompose DEF Below
<1>4. \A d \in Below(c) : d <= c
  BY <1>1, AncestorsDescend DEF Below
<1>5. ASSUME NEW d \in Below(c), c \in Below(d) PROVE c = d
  <2>1. d \in Nodes(Source) /\ c \in Ancestors(Source, d)
    BY <1>1, <1>3, <1>5 DEF Below
  <2>2. c \in Nat /\ d \in Nat /\ c <= d
    BY <1>1, <2>1, AncestorsDescend
  <2>3. d <= c
    BY <1>4
  <2> QED BY <2>2, <2>3
<1>6. Below(c) = {c} \cup UNION {Below(p) : p \in Above(Source, c)}
  BY <1>1, AncestorsUnfold DEF Below
<1>7. Above(Source, c) \subseteq Below(c)
  BY <1>2 DEF Closed
<1>8. c \notin Above(Source, c)
  <2>1. \A p \in Above(Source, c) : p < c
    BY <1>1 DEF IsNumbered
  <2> QED BY <1>1, <2>1
<1>9. Above(Source, c) = ToSet(parents[c]) \cap Commits
  BY <1>1 DEF Above
<1> QED BY <1>2, <1>3, <1>4, <1>5, <1>6, <1>7, <1>8, <1>9

LEMMA BetweenIs ==
    ASSUME History, NEW a, NEW h
    PROVE  /\ Between(a, h) \in Seq(Commits) /\ IsInjective(Between(a, h))
           /\ ToSet(Between(a, h)) = Commits \cap (Below(h) \ Below(a))
           /\ IsFiniteSet(Commits \cap (Below(h) \ Below(a)))
           /\ Len(Between(a, h)) = Cardinality(Commits \cap (Below(h) \ Below(a)))
<1>1. Source.nodes \in Seq(Commits) /\ IsInjective(Source.nodes) /\ ToSet(Source.nodes) = Commits
  BY SourceIs
<1>2. PICK seq \in Seq(Commits) :
          /\ seq = Between(a, h) /\ IsInjective(seq)
          /\ ToSet(seq) = Commits \cap (Below(h) \ Below(a))
  BY <1>1, OnlyKeeps DEF Between, Below
<1>3. IsFiniteSet(ToSet(seq)) /\ Cardinality(ToSet(seq)) = Len(seq)
  BY <1>2, InjectiveLength
<1> QED BY <1>2, <1>3

(* Nothing of the graph a run is given lies below its anchor, and the head
   reaches all of it. *)
LEMMA GivenIs ==
    ASSUME History, NEW head \in Commits, track.source \in Commits,
           head \notin Below(track.source)
    PROVE  /\ Nodes(Given(head)) = Span(track.source, head)
           /\ Given(head).parents = parents
           /\ IsNumbered(Given(head)) /\ Given(head).nodes # <<>>
           /\ Given(head).nodes[1] = track.source
           /\ Above(Given(head), track.source) = {}
           /\ \A c \in Span(track.source, head) :
                Above(Given(head), c) = ToSet(parents[c]) \cap Span(track.source, head)
           /\ track.source \in Below(head) =>
                Ancestors(Given(head), head) = Nodes(Given(head))
<1>1. PICK ts \in Commits : ts = track.source
  OBVIOUS
<1>2. PICK g : g = Given(head)
  OBVIOUS
<1>3. PICK between \in Seq(Commits) : between = Between(ts, head) /\ IsInjective(between)
           /\ ToSet(between) = Commits \cap (Below(head) \ Below(ts))
  BY BetweenIs
<1>4. g.nodes = <<ts>> \o between /\ g.parents = parents
  BY <1>1, <1>2, <1>3, SourceIs DEF Given, Source
<1>5. /\ ts \in Below(ts) /\ Below(head) \subseteq Commits /\ Below(ts) \subseteq Commits
      /\ Closed(Source, Below(ts)) /\ Closed(Source, Below(head))
      /\ head \in Below(head)
      /\ \A B : head \in B /\ Closed(Source, B) => Below(head) \subseteq B
      /\ \A c \in Commits : Above(Source, c) = ToSet(parents[c]) \cap Commits
      /\ \A c \in Commits : \A p \in Above(Source, c) : p < c
      /\ \A c \in Below(ts) : c <= ts
      /\ Commits \subseteq Nat
  BY BelowIs, SourceIs DEF IsNumbered
<1>6. /\ g.nodes \in Seq(Commits) /\ Len(g.nodes) = Len(between) + 1
      /\ g.nodes[1] = ts /\ g.nodes # <<>>
      /\ \A i \in 2..Len(g.nodes) : g.nodes[i] = between[i - 1] /\ i - 1 \in 1..Len(between)
      /\ \A i \in 1..Len(between) : g.nodes[i + 1] = between[i] /\ i + 1 \in 1..Len(g.nodes)
      /\ Len(between) \in Nat /\ DOMAIN g.nodes = 1..Len(g.nodes) /\ DOMAIN between = 1..Len(between)
  BY <1>4
<1>7. Nodes(g) = Span(ts, head)
  <2>1. ToSet(g.nodes) = {ts} \cup ToSet(between)
    <3>1. \A i \in 1..Len(g.nodes) : i = 1 \/ i \in 2..Len(g.nodes)
      BY <1>6
    <3>2. 1 \in DOMAIN g.nodes
      BY <1>6
    <3>3. ToSet(g.nodes) = {g.nodes[i] : i \in 1..Len(g.nodes)}
          /\ ToSet(between) = {between[i] : i \in 1..Len(between)}
      BY <1>6 DEF ToSet
    <3>4. \A x \in ToSet(g.nodes) : x \in {ts} \cup ToSet(between)
      <4> TAKE x \in ToSet(g.nodes)
      <4>1. PICK i \in 1..Len(g.nodes) : x = g.nodes[i]
        BY <3>3
      <4>2. CASE i = 1
        BY <1>6, <4>1, <4>2
      <4>3. CASE i # 1
        <5>1. i \in 2..Len(g.nodes)
          BY <3>1, <4>3
        <5>2. x = between[i - 1] /\ i - 1 \in 1..Len(between)
          BY <1>6, <4>1, <5>1
        <5> QED BY <3>3, <5>2
      <4> QED BY <4>2, <4>3
    <3>5. \A x \in {ts} \cup ToSet(between) : x \in ToSet(g.nodes)
      BY <1>6, <3>2, <3>3
    <3> QED BY <3>4, <3>5
  <2> QED BY <1>3, <1>5, <2>1 DEF Nodes, Span
<1>8. IsInjective(g.nodes)
  <2>1. ts \notin ToSet(between)
    BY <1>3, <1>5
  <2>2. \A i \in 2..Len(g.nodes) : g.nodes[i] # ts
    BY <1>6, <2>1 DEF ToSet
  <2> SUFFICES ASSUME NEW i \in 1..Len(g.nodes), NEW j \in 1..Len(g.nodes), g.nodes[i] = g.nodes[j]
               PROVE  i = j
    BY <1>6 DEF IsInjective
  <2>3. CASE i = 1 \/ j = 1
    BY <1>6, <2>2, <2>3
  <2>4. CASE i # 1 /\ j # 1
    <3>1. i \in 2..Len(g.nodes) /\ j \in 2..Len(g.nodes)
      BY <1>6, <2>4
    <3>2. between[i - 1] = between[j - 1] /\ i - 1 \in DOMAIN between /\ j - 1 \in DOMAIN between
      BY <1>6, <3>1
    <3>3. i - 1 = j - 1
      BY <1>3, <3>2 DEF IsInjective
    <3> QED BY <3>1, <3>3
  <2> QED BY <2>3, <2>4
<1>9. Nodes(g) \subseteq Commits /\ \A c \in Nodes(g) : Above(g, c) = ToSet(parents[c]) \cap Nodes(g)
                /\ Above(g, c) = Above(Source, c) \cap Nodes(g)
  <2>1. Nodes(g) \subseteq Commits
    BY <1>5, <1>7 DEF Span
  <2>2. \A c \in Nodes(g) : Above(g, c) = ToSet(parents[c]) \cap Nodes(g)
    BY <1>4 DEF Above
  <2>3. \A c \in Nodes(g) : Above(g, c) = Above(Source, c) \cap Nodes(g)
    <3> TAKE c \in Nodes(g)
    <3>1. Above(Source, c) = ToSet(parents[c]) \cap Commits
      BY <1>5, <2>1
    <3> QED BY <2>1, <2>2, <3>1
  <2> QED BY <2>1, <2>2, <2>3
<1>10. IsNumbered(g)
  <2>1. IsWalked(g, Nat)
    <3>1. g.nodes \in Seq(Nat)
      BY <1>5, <1>6, SeqWider
    <3>2. \A c \in Commits : parents[c] \in Seq(Nat)
      BY SourceIs DEF IsNumbered, IsWalked
    <3> QED BY <1>4, <1>8, <1>9, <3>1, <3>2 DEF IsWalked
  <2>2. \A c \in Nodes(g) : \A p \in Above(g, c) : p < c
    BY <1>5, <1>9
  <2> QED BY <2>1, <2>2 DEF IsNumbered
<1>11. Above(g, ts) = {}
  <2> SUFFICES ASSUME NEW p \in Above(g, ts) PROVE FALSE
    OBVIOUS
  <2>1. ts \in Nodes(g)
    BY <1>7 DEF Span
  <2>2. p \in Above(Source, ts) /\ p \in Nodes(g)
    BY <1>9, <2>1
  <2>3. p \in Below(ts) /\ p < ts
    BY <1>5, <2>2 DEF Closed
  <2> QED BY <1>5, <1>7, <2>2, <2>3 DEF Span
<1>12. ASSUME ts \in Below(head) PROVE Ancestors(g, head) = Nodes(g)
  <2>1. head \in Nodes(g) /\ IsWalked(g, Nat)
    BY <1>1, <1>5, <1>7, <1>10 DEF Span, IsNumbered
  <2>2. PICK reached : reached = Ancestors(g, head)
    OBVIOUS
  <2>3. head \in reached /\ reached \subseteq Nodes(g) /\ Closed(g, reached)
    BY <2>1, <2>2, AncestorsAre
  <2>4. ts \in reached
    <3> SUFFICES ASSUME ts \notin reached PROVE FALSE
      OBVIOUS
    <3> DEFINE B == reached \cup (Below(ts) \ {ts})
    <3>1. Closed(Source, B)
      <4> SUFFICES ASSUME NEW x \in B, NEW p \in Above(Source, x) PROVE p \in B
        BY DEF Closed
      <4>1. CASE x \in reached
        <5>1. x \in Nodes(g) /\ x \in Below(head)
          BY <1>5, <1>7, <1>12, <2>3, <4>1 DEF Span
        <5>2. p \in Below(head)
          BY <1>5, <5>1 DEF Closed
        <5>3. p \in Nodes(g) => p \in reached
          BY <1>9, <2>3, <4>1, <5>1 DEF Closed
        <5>4. p \in Nodes(g) \/ p \in Below(ts) \ {ts}
          BY <1>7, <5>2 DEF Span
        <5> QED BY <5>3, <5>4
      <4>2. CASE x \in Below(ts) \ {ts}
        <5>1. p \in Below(ts) /\ p < x /\ x <= ts /\ x \in Nat /\ p \in Nat /\ ts \in Nat
          BY <1>5, <4>2 DEF Closed
        <5> QED BY <5>1
      <4> QED BY <4>1, <4>2
    <3>2. Below(head) \subseteq B
      <4>1. head \in B
        BY <2>3
      <4> HIDE DEF B
      <4> QED BY <1>5, <3>1, <4>1
    <3> QED BY <1>12, <3>2
  <2>5. Nodes(g) \subseteq reached
    <3> DEFINE B == reached \cup Below(ts)
    <3>1. Closed(Source, B)
      <4> SUFFICES ASSUME NEW x \in B, NEW p \in Above(Source, x) PROVE p \in B
        BY DEF Closed
      <4>1. CASE x \in Below(ts)
        BY <1>5, <4>1 DEF Closed
      <4>2. CASE x \in reached
        <5>1. x \in Nodes(g) /\ x \in Below(head)
          BY <1>5, <1>7, <1>12, <2>3, <4>2 DEF Span
        <5>2. p \in Below(head)
          BY <1>5, <5>1 DEF Closed
        <5>3. p \in Nodes(g) => p \in reached
          BY <1>9, <2>3, <4>2, <5>1 DEF Closed
        <5>4. p \in Nodes(g) \/ p \in Below(ts)
          BY <1>7, <5>2 DEF Span
        <5> QED BY <5>3, <5>4
      <4> QED BY <4>1, <4>2
    <3>2. Below(head) \subseteq B
      <4>1. head \in B
        BY <2>3
      <4> HIDE DEF B
      <4> QED BY <1>5, <3>1, <4>1
    <3> QED BY <1>7, <2>4, <3>2 DEF Span
  <2> QED BY <2>2, <2>3, <2>5
<1> QED BY <1>1, <1>2, <1>4, <1>6, <1>7, <1>9, <1>10, <1>11, <1>12

-----------------------------------------------------------------------------
(* What is published, and what a run has written: the invariants of Replay,
   as predicates of a source graph g, the published position ts and its
   destination commit. *)

IsObjects(seq) == seq \in Seq(ToSet(seq)) /\ IsInjective(seq)

(* The published commits are closed under parents and are what the published
   position reaches; each carries the trailer of one source commit at or below
   that position, and the images of source commits keep their ancestry. *)
Position(g, ts, dest, pub, img) ==
    /\ ts \in Nodes(g)
    /\ IsObjects(pub) /\ dest \in ToSet(pub)
    /\ \A d \in ToSet(pub) :
        /\ d.parents \in Seq(ToSet(pub))
        /\ d.source \in Ancestors(g, ts)
        /\ \A p \in ToSet(d.parents) : p.source # d.source
    /\ \A d, e \in ToSet(pub) : d.source = e.source => d = e
    /\ ToSet(pub) \subseteq Ancestors(Graph(pub), dest)
    /\ DOMAIN img \subseteq Ancestors(g, ts) /\ ts \in DOMAIN img /\ img[ts] = dest
    /\ \A a \in DOMAIN img : img[a] \in ToSet(pub)
    /\ \A a, b \in DOMAIN img :
        a \in Ancestors(g, b) => img[a] \in Ancestors(Graph(pub), img[b])

Rest(g, ts, head) == {ts} \cup (Ancestors(g, head) \ Ancestors(g, ts))

(* What a run wrote follows its epoch parent, parents first; each commit of it
   is the image of its trailer, and the images keep the ancestry of what has
   been replayed so far. *)
Journal(g, ts, dest, head, map, writ) ==
    /\ IsObjects(writ) /\ writ # <<>> /\ writ[1] = dest
    /\ DOMAIN map \subseteq Rest(g, ts, head)
    /\ \A c \in DOMAIN map : Above(g, c) \cap Rest(g, ts, head) \subseteq DOMAIN map
    /\ DOMAIN map # {} => ts \in DOMAIN map
    /\ ts \in DOMAIN map => map[ts] = dest
    /\ \A c \in DOMAIN map : map[c] \in ToSet(writ)
    /\ \A i \in 2..Len(writ) :
        /\ writ[i].source \in DOMAIN map /\ writ[i].source # ts
        /\ map[writ[i].source] = writ[i]
        /\ writ[i].parents \in Seq(ToSet(writ))
        /\ \A p \in ToSet(writ[i].parents) :
            p.source # writ[i].source /\ \E j \in 1..(i - 1) : writ[j] = p
    /\ \A d \in ToSet(writ) : dest \in Ancestors(Graph(writ), d)
    /\ \A a, b \in DOMAIN map :
        a \in Ancestors(g, b) => map[a] \in Ancestors(Graph(writ), map[b])

LEMMA ObjectsAre ==
    ASSUME NEW seq, IsObjects(seq)
    PROVE  /\ Len(seq) \in Nat /\ DOMAIN seq = 1..Len(seq)
           /\ \A i \in 1..Len(seq) : seq[i] \in ToSet(seq)
           /\ \A d \in ToSet(seq) : \E i \in 1..Len(seq) : seq[i] = d
           /\ \A i, j \in 1..Len(seq) : seq[i] = seq[j] => i = j
           /\ Nodes(Graph(seq)) = ToSet(seq) /\ Graph(seq).nodes = seq
           /\ \A d \in ToSet(seq) : Graph(seq).parents[d] = d.parents
           /\ \A d \in ToSet(seq) : Above(Graph(seq), d) = ToSet(d.parents) \cap ToSet(seq)
<1>1. PICK S : S = ToSet(seq)
  OBVIOUS
<1>2. seq \in Seq(S)
  BY <1>1 DEF IsObjects
<1>3. Len(seq) \in Nat /\ DOMAIN seq = 1..Len(seq)
  BY <1>2
<1>4. /\ \A i \in 1..Len(seq) : seq[i] \in ToSet(seq)
      /\ \A d \in ToSet(seq) : \E i \in 1..Len(seq) : seq[i] = d
      /\ \A i, j \in 1..Len(seq) : seq[i] = seq[j] => i = j
  BY <1>3 DEF ToSet, IsObjects, IsInjective
<1>5. /\ Nodes(Graph(seq)) = ToSet(seq) /\ Graph(seq).nodes = seq
      /\ \A d \in ToSet(seq) : Graph(seq).parents[d] = d.parents
  BY DEF Graph, Nodes
<1>6. \A d \in ToSet(seq) : Above(Graph(seq), d) = ToSet(d.parents) \cap ToSet(seq)
  BY <1>5 DEF Above
<1> QED BY <1>3, <1>4, <1>5, <1>6

LEMMA ObjectsWalk ==
    ASSUME NEW seq, IsObjects(seq), NEW S, ToSet(seq) \subseteq S,
           \A d \in ToSet(seq) : d.parents \in Seq(S)
    PROVE  IsWalked(Graph(seq), S)
<1>1. /\ Nodes(Graph(seq)) = ToSet(seq) /\ Graph(seq).nodes = seq
      /\ \A d \in ToSet(seq) : Graph(seq).parents[d] = d.parents
  BY ObjectsAre
<1>2. PICK T : T = ToSet(seq)
  OBVIOUS
<1>3. seq \in Seq(T) /\ T \subseteq S
  BY <1>2 DEF IsObjects
<1>4. seq \in Seq(S)
  BY <1>3, SeqWider
<1> QED BY <1>1, <1>4 DEF IsWalked, IsObjects

LEMMA WithIs ==
    ASSUME NEW f, NEW x, NEW v
    PROVE  /\ DOMAIN With(f, x, v) = DOMAIN f \cup {x}
           /\ With(f, x, v)[x] = v
           /\ \A y \in DOMAIN f : y # x => With(f, x, v)[y] = f[y]
BY DEF With, Over

(* The graph of what was written is listed parents first, and its commits other
   than the first are images of commits above the published position. *)
Grounded(g, ts, dest, pub, map, writ) ==
    /\ IsListed(Graph(writ), ToSet(pub) \cup ToSet(writ))
    /\ \A d \in ToSet(writ) :
        \/ d = dest
        \/ /\ d.source \in DOMAIN map /\ d.source # ts /\ d.source \notin Ancestors(g, ts)
           /\ d = map[d.source]
    /\ \A d, e \in ToSet(writ) : d.source = e.source => d = e
    /\ dest \in ToSet(writ) /\ dest.source \in Ancestors(g, ts)

LEMMA WrittenIs ==
    ASSUME NEW g, IsNumbered(g), NEW ts, NEW dest, NEW pub, NEW img, Position(g, ts, dest, pub, img),
           NEW head \in Nodes(g), NEW map, NEW writ, Journal(g, ts, dest, head, map, writ)
    PROVE  Grounded(g, ts, dest, pub, map, writ)
<1> DEFINE S == ToSet(pub) \cup ToSet(writ)
<1>1. IsObjects(writ) /\ writ # <<>> /\ writ[1] = dest
      /\ DOMAIN map \subseteq Rest(g, ts, head)
      /\ \A i \in 2..Len(writ) :
          /\ writ[i].source \in DOMAIN map /\ writ[i].source # ts
          /\ map[writ[i].source] = writ[i]
          /\ writ[i].parents \in Seq(ToSet(writ))
          /\ \A p \in ToSet(writ[i].parents) :
              p.source # writ[i].source /\ \E j \in 1..(i - 1) : writ[j] = p
  BY DEF Journal
<1>2. /\ Len(writ) \in Nat /\ DOMAIN writ = 1..Len(writ)
      /\ \A d \in ToSet(writ) : \E i \in 1..Len(writ) : writ[i] = d
      /\ \A i \in 1..Len(writ) : writ[i] \in ToSet(writ)
      /\ Graph(writ).nodes = writ
      /\ \A d \in ToSet(writ) : Above(Graph(writ), d) = ToSet(d.parents) \cap ToSet(writ)
  BY <1>1, ObjectsAre
<1>3. Len(writ) # 0
  BY <1>1
<1>4. dest \in ToSet(writ) /\ dest \in ToSet(pub) /\ dest.source \in Ancestors(g, ts)
      /\ dest.parents \in Seq(ToSet(pub)) /\ \A p \in ToSet(dest.parents) :
                p.source # dest.source /\ p \in ToSet(pub) /\ p.source \in Ancestors(g, ts)
  <2>1. dest \in ToSet(writ)
    BY <1>1, <1>2, <1>3
  <2>2. dest \in ToSet(pub) /\ dest.source \in Ancestors(g, ts) /\ dest.parents \in Seq(ToSet(pub))
        /\ \A p \in ToSet(dest.parents) : p.source # dest.source
        /\ \A q \in ToSet(pub) : q.source \in Ancestors(g, ts)
    BY DEF Position
  <2>3. ToSet(dest.parents) \subseteq ToSet(pub)
    BY <2>2, SeqOver
  <2> QED BY <2>1, <2>2, <2>3
<1>5. \A i \in 2..Len(writ) : writ[i].source \notin Ancestors(g, ts)
  BY <1>1 DEF Rest
<1>6. \A d \in ToSet(writ) :
        \/ d = dest
        \/ /\ d.source \in DOMAIN map /\ d.source # ts /\ d.source \notin Ancestors(g, ts)
           /\ d = map[d.source]
  <2> TAKE d \in ToSet(writ)
  <2>1. PICK i \in 1..Len(writ) : d = writ[i]
    BY <1>2
  <2>2. i = 1 \/ i \in 2..Len(writ)
    BY <1>2
  <2> QED BY <1>1, <1>5, <2>1, <2>2
<1>7. \A d, e \in ToSet(writ) : d.source = e.source => d = e
  BY <1>4, <1>6
<1>8. \A d \in ToSet(writ) : d.parents \in Seq(S)
  <2> TAKE d \in ToSet(writ)
  <2>1. PICK i \in 1..Len(writ) : d = writ[i]
    BY <1>2
  <2>2. CASE i = 1
    BY <1>1, <1>4, <2>1, <2>2, SeqWider
  <2>3. CASE i # 1
    <3>1. i \in 2..Len(writ)
      BY <1>2, <2>3
    <3>2. writ[i].parents \in Seq(ToSet(writ))
      BY <1>1, <3>1
    <3> QED BY <2>1, <3>2, SeqWider
  <2> QED BY <2>2, <2>3
<1>9. IsWalked(Graph(writ), S)
  BY <1>1, <1>8, ObjectsWalk
<1>10. ParentsFirst(Graph(writ), writ)
  <2> SUFFICES ASSUME NEW i \in 1..Len(writ), NEW p \in Above(Graph(writ), writ[i])
               PROVE  \E j \in 1..(i - 1) : writ[j] = p
    BY DEF ParentsFirst
  <2>1. writ[i] \in ToSet(writ)
    BY <1>2
  <2>2. p \in ToSet(writ[i].parents) /\ p \in ToSet(writ)
    BY <1>2, <2>1
  <2>3. CASE i = 1
    <3>1. p.source # dest.source /\ p.source \in Ancestors(g, ts)
      BY <1>1, <1>4, <2>2, <2>3
    <3> QED BY <1>6, <2>2, <3>1
  <2>4. CASE i # 1
    <3>1. i \in 2..Len(writ)
      BY <1>2, <2>4
    <3> QED BY <1>1, <2>2, <3>1
  <2> QED BY <2>3, <2>4
<1>11. IsListed(Graph(writ), S)
  BY <1>2, <1>9, <1>10 DEF IsListed
<1> QED BY <1>4, <1>6, <1>7, <1>11 DEF Grounded

(* One commit more: it becomes the one destination parent it does not differ
   from, or a commit on top of its destination parents. *)
LEMMA JournalStep ==
    ASSUME NEW g, IsNumbered(g), NEW ts, NEW dest, NEW pub, NEW img, Position(g, ts, dest, pub, img),
           NEW head \in Nodes(g), NEW map, NEW writ, Journal(g, ts, dest, head, map, writ),
           NEW c \in Rest(g, ts, head), c \notin DOMAIN map,
           Above(g, c) \cap Rest(g, ts, head) \subseteq DOMAIN map,
           c = ts \/ ts \in DOMAIN map,
           NEW dp \in Seq(ToSet(writ)), dp # <<>>,
           c = ts => dp = <<dest>>,
           \A p \in Above(g, c) \cap Rest(g, ts, head) :
                \E d \in ToSet(dp) : map[p] \in Ancestors(Graph(writ), d),
           NEW image, NEW new,
           \/ Len(dp) = 1 /\ image = dp[1] /\ new = writ
           \/ c # ts /\ new = Append(writ, image) /\ image.source = c /\ image.parents = dp
    PROVE  Journal(g, ts, dest, head, With(map, c, image), new)
<1> DEFINE R == Rest(g, ts, head)
           S == ToSet(pub) \cup ToSet(writ)
<1>1. /\ IsObjects(writ) /\ writ # <<>> /\ writ[1] = dest
      /\ DOMAIN map \subseteq R
      /\ \A x \in DOMAIN map : Above(g, x) \cap R \subseteq DOMAIN map
      /\ DOMAIN map # {} => ts \in DOMAIN map
      /\ ts \in DOMAIN map => map[ts] = dest
      /\ \A x \in DOMAIN map : map[x] \in ToSet(writ)
      /\ \A d \in ToSet(writ) : dest \in Ancestors(Graph(writ), d)
      /\ \A a, b \in DOMAIN map :
          a \in Ancestors(g, b) => map[a] \in Ancestors(Graph(writ), map[b])
  BY DEF Journal
<1>2. \A i \in 2..Len(writ) :
        /\ writ[i].source \in DOMAIN map /\ writ[i].source # ts
        /\ map[writ[i].source] = writ[i]
        /\ writ[i].parents \in Seq(ToSet(writ))
        /\ \A p \in ToSet(writ[i].parents) :
            p.source # writ[i].source /\ \E j \in 1..(i - 1) : writ[j] = p
  BY DEF Journal
<1>3. /\ IsWalked(Graph(writ), S)
      /\ \A d \in ToSet(writ) :
            \/ d = dest
            \/ d.source \in DOMAIN map /\ d.source # ts /\ d.source \notin Ancestors(g, ts)
      /\ dest \in ToSet(writ) /\ dest.source \in Ancestors(g, ts)
  <2>0. Grounded(g, ts, dest, pub, map, writ)
    BY WrittenIs
  <2>1. /\ IsListed(Graph(writ), S)
        /\ \A d \in ToSet(writ) :
              \/ d = dest
              \/ /\ d.source \in DOMAIN map /\ d.source # ts /\ d.source \notin Ancestors(g, ts)
                 /\ d = map[d.source]
        /\ dest \in ToSet(writ) /\ dest.source \in Ancestors(g, ts)
    BY <2>0 DEF Grounded
  <2> HIDE DEF S
  <2>2. IsWalked(Graph(writ), S)
    BY <2>1 DEF IsListed
  <2> QED BY <2>1, <2>2
<1>4. /\ Len(writ) \in Nat /\ DOMAIN writ = 1..Len(writ)
      /\ \A i \in 1..Len(writ) : writ[i] \in ToSet(writ)
      /\ \A d \in ToSet(writ) : \E i \in 1..Len(writ) : writ[i] = d
      /\ Nodes(Graph(writ)) = ToSet(writ)
      /\ \A d \in ToSet(writ) : Graph(writ).parents[d] = d.parents
  BY <1>1, ObjectsAre
<1>5. ts \in Nodes(g) /\ ts \in R /\ IsWalked(g, Nat)
      /\ ts \in Ancestors(g, ts) /\ Ancestors(g, head) \subseteq Nodes(g) /\ Ancestors(g, ts) \subseteq Nodes(g)
      /\ Closed(g, Ancestors(g, head)) /\ Closed(g, Ancestors(g, ts)) /\ R \subseteq Nodes(g)
  <2>1. ts \in Nodes(g) /\ IsWalked(g, Nat)
    BY DEF Position, IsNumbered
  <2>2. /\ ts \in Ancestors(g, ts) /\ Ancestors(g, head) \subseteq Nodes(g)
        /\ Ancestors(g, ts) \subseteq Nodes(g)
        /\ Closed(g, Ancestors(g, head)) /\ Closed(g, Ancestors(g, ts))
    BY <2>1, AncestorsAre
  <2> QED BY <2>1, <2>2 DEF Rest
<1>6. c # ts => c \notin Ancestors(g, ts) /\ c \in Ancestors(g, head)
  BY DEF Rest
<1>7. PICK n : n = With(map, c, image)
  OBVIOUS
<1>8. DOMAIN n = DOMAIN map \cup {c} /\ n[c] = image /\ \A y \in DOMAIN map : n[y] = map[y]
  <2>1. DOMAIN n = DOMAIN map \cup {c} /\ n[c] = image
        /\ \A y \in DOMAIN map : y # c => n[y] = map[y]
    BY <1>7 DEF With, Over
  <2> QED BY <2>1
<1>9. ToSet(dp) \subseteq ToSet(writ) /\ dp[1] \in ToSet(dp)
  <2>1. 1 \in DOMAIN dp
    OBVIOUS
  <2> QED BY <2>1, SeqOver DEF ToSet
<1> HIDE DEF R, S
(* What c builds on is below one of its destination parents. *)
<1>10. ASSUME NEW a \in DOMAIN map, a \in Ancestors(g, c)
       PROVE  \E d \in ToSet(dp) : map[a] \in Ancestors(Graph(writ), d)
  <2>1. CASE a = ts
    BY <1>1, <1>9, <2>1
  <2>2. CASE a # ts
    <3>1. a \notin Ancestors(g, ts) /\ c # a
      BY <1>1, <2>2 DEF R, Rest
    <3>2. c # ts
      BY <1>10, <3>1
    <3>3. PICK p \in Above(g, c) : a \in Ancestors(g, p)
      <4>1. Ancestors(g, c) = {c} \cup UNION {Ancestors(g, p) : p \in Above(g, c)}
        BY <1>5, AncestorsUnfold DEF R
      <4> QED BY <1>10, <3>1, <4>1
    <3>4. p \in Ancestors(g, head)
      BY <1>5, <1>6, <3>2, <3>3 DEF Closed
    <3>5. p \notin Ancestors(g, ts)
      BY <1>5, <3>1, <3>3, AncestorsCompose
    <3>6. p \in R /\ p \in DOMAIN map
      BY <3>3, <3>4, <3>5 DEF R, Rest
    <3>7. map[a] \in Ancestors(Graph(writ), map[p])
      BY <1>1, <3>3, <3>6
    <3>8. PICK d \in ToSet(dp) : map[p] \in Ancestors(Graph(writ), d)
      BY <3>3, <3>6 DEF R
    <3>9. Ancestors(Graph(writ), map[p]) \subseteq Ancestors(Graph(writ), d)
      BY <1>3, <1>4, <1>9, <3>8, AncestorsCompose
    <3> QED BY <3>7, <3>8, <3>9
  <2> QED BY <2>1, <2>2
(* Nothing replayed so far builds on c. *)
<1>11. ASSUME NEW b \in DOMAIN map, c \in Ancestors(g, b) PROVE FALSE
  <2>1. ts \in DOMAIN map
    BY <1>1
  <2>2. c # ts
    BY <2>1
  <2> DEFINE B == DOMAIN map \cup Ancestors(g, ts)
  <2>3. Closed(g, B)
    <3> SUFFICES ASSUME NEW x \in B, NEW p \in Above(g, x), p \notin Ancestors(g, ts) PROVE p \in DOMAIN map
      BY DEF Closed
    <3>1. x \notin Ancestors(g, ts)
      BY <1>5 DEF Closed
    <3>2. x \in DOMAIN map /\ x \in R
      BY <1>1, <3>1
    <3>3. x \in Ancestors(g, head)
      BY <1>5, <3>1, <3>2 DEF R, Rest
    <3>4. p \in Ancestors(g, head)
      BY <1>5, <3>3 DEF Closed
    <3>5. p \in R
      BY <3>4 DEF R, Rest
    <3> QED BY <1>1, <3>2, <3>5
  <2>4. b \in Nodes(g)
    BY <1>1, <1>5
  <2>5. Ancestors(g, b) \subseteq B
    <3>1. b \in B
      OBVIOUS
    <3> HIDE DEF B
    <3> QED BY <1>5, <2>3, <2>4, <3>1, AncestorsAre
  <2> QED BY <1>6, <1>11, <2>2, <2>5
<1>12. c \in Ancestors(g, c)
  BY <1>5, AncestorsAre DEF R
<1>13. /\ DOMAIN n \subseteq R
       /\ \A x \in DOMAIN n : Above(g, x) \cap R \subseteq DOMAIN n
       /\ ts \in DOMAIN n
  BY <1>1, <1>8 DEF R
<1>14. CASE Len(dp) = 1 /\ image = dp[1] /\ new = writ
  <2>1. ToSet(dp) = {image}
    <3>1. DOMAIN dp = 1..1
      BY <1>14
    <3> QED BY <1>14, <3>1 DEF ToSet
  <2>2. image \in ToSet(writ)
    BY <1>9, <2>1
  <2>3. n[ts] = dest
    <3>1. c = ts => image = dest
      BY <1>14
    <3> QED BY <1>1, <1>8, <3>1
  <2>4. \A x \in DOMAIN n : n[x] \in ToSet(writ)
    BY <1>1, <1>8, <2>2
  <2>5. \A i \in 2..Len(writ) :
          writ[i].source \in DOMAIN n /\ writ[i].source # ts /\ n[writ[i].source] = writ[i]
    BY <1>2, <1>8
  <2>6. ASSUME NEW a \in DOMAIN n, NEW b \in DOMAIN n, a \in Ancestors(g, b)
        PROVE  n[a] \in Ancestors(Graph(writ), n[b])
    <3>1. CASE b = c /\ a = c
      BY <1>3, <1>4, <1>8, <2>2, <3>1, AncestorsAre
    <3>2. CASE b = c /\ a # c
      BY <1>8, <1>10, <2>1, <2>6, <3>2
    <3>3. CASE b # c
      BY <1>1, <1>8, <1>11, <2>6, <3>3
    <3> QED BY <3>1, <3>2, <3>3
  <2>7. Journal(g, ts, dest, head, n, writ)
    BY <1>1, <1>2, <1>13, <2>3, <2>4, <2>5, <2>6 DEF Journal, R
  <2> QED BY <1>7, <1>14, <2>7
<1>15. CASE c # ts /\ new = Append(writ, image) /\ image.source = c /\ image.parents = dp
  <2>1. image \notin ToSet(writ)
    BY <1>3, <1>6, <1>15
  <2> DEFINE U == ToSet(writ) \cup {image}
             W == S \cup {image}
  <2>2. /\ new \in Seq(U) /\ Len(new) = Len(writ) + 1
        /\ \A i \in 1..Len(writ) : new[i] = writ[i]
        /\ new[Len(writ) + 1] = image /\ ToSet(new) = U /\ IsInjective(new)
    <3>1. writ \in Seq(U)
      <4>1. PICK T : T = ToSet(writ)
        OBVIOUS
      <4>2. writ \in Seq(T) /\ T \subseteq U
        BY <1>1, <4>1 DEF IsObjects
      <4> QED BY <4>2, SeqWider
    <3>2. IsInjective(writ) /\ image \in U
      BY <1>1 DEF IsObjects
    <3> HIDE DEF U
    <3>3. /\ Append(writ, image) \in Seq(U)
          /\ Len(Append(writ, image)) = Len(writ) + 1
          /\ \A i \in 1..Len(writ) : Append(writ, image)[i] = writ[i]
          /\ Append(writ, image)[Len(writ) + 1] = image
          /\ ToSet(Append(writ, image)) = ToSet(writ) \cup {image}
          /\ (IsInjective(writ) /\ image \notin ToSet(writ) => IsInjective(Append(writ, image)))
      BY <3>1, <3>2, AppendIs
    <3> QED BY <1>15, <2>1, <3>2, <3>3 DEF U
  <2>3. IsObjects(new)
    BY <2>2 DEF IsObjects
  <2>4. /\ Nodes(Graph(new)) = U
        /\ \A d \in U : Graph(new).parents[d] = d.parents
        /\ \A d \in U : Above(Graph(new), d) = ToSet(d.parents) \cap U
    BY <2>2, <2>3, ObjectsAre
  <2>5. \A d \in U : d.parents \in Seq(W)
    <3> TAKE d \in U
    <3>1. CASE d = image
      <4>1. ToSet(writ) \subseteq W
        BY DEF S
      <4>2. dp \in Seq(W)
        BY <4>1, SeqWider
      <4> QED BY <1>15, <3>1, <4>2
    <3>2. CASE d \in ToSet(writ)
      <4>1. d.parents \in Seq(S)
        BY <1>3, <1>4, <3>2 DEF IsWalked
      <4>2. S \subseteq W
        OBVIOUS
      <4> HIDE DEF W
      <4> QED BY <4>1, <4>2, SeqWider
    <3> QED BY <3>1, <3>2
  <2>6. IsWalked(Graph(new), W)
    <3>1. ToSet(new) \subseteq W
      BY <2>2 DEF S
    <3>2. \A d \in ToSet(new) : d.parents \in Seq(W)
      BY <2>2, <2>5
    <3> HIDE DEF W
    <3> QED BY <2>3, <3>1, <3>2, ObjectsWalk
  <2>7. \A d \in ToSet(writ) : Ancestors(Graph(writ), d) \subseteq Ancestors(Graph(new), d)
    <3>1. IsWalked(Graph(writ), W)
      <4>1. \A d \in ToSet(writ) : d.parents \in Seq(W)
        BY <2>5
      <4>2. ToSet(writ) \subseteq W
        BY DEF S
      <4> HIDE DEF W
      <4> QED BY <1>1, <4>1, <4>2, ObjectsWalk
    <3>2. Within(Graph(writ), Graph(new))
      BY <1>4, <2>4 DEF Within
    <3> HIDE DEF W
    <3> QED BY <1>4, <2>6, <3>1, <3>2, AncestorsGrow
  <2>8. /\ image \in Ancestors(Graph(new), image)
        /\ \A d \in ToSet(dp) : Ancestors(Graph(writ), d) \subseteq Ancestors(Graph(new), image)
    <3>1. image \in U /\ Above(Graph(new), image) = ToSet(dp)
      BY <1>9, <1>15, <2>4
    <3>2. Ancestors(Graph(new), image) =
            {image} \cup UNION {Ancestors(Graph(new), p) : p \in Above(Graph(new), image)}
      <4> HIDE DEF W, U
      <4> QED BY <2>4, <2>6, <3>1, AncestorsUnfold
    <3> QED BY <1>9, <2>7, <3>1, <3>2
  <2>9. new # <<>> /\ new[1] = dest
    <3>1. 1 \in 1..Len(writ)
      BY <1>1, <1>4
    <3> QED BY <1>1, <2>2, <3>1
  <2>10. ts \in DOMAIN map /\ n[ts] = dest
    BY <1>1, <1>8, <1>15
  <2>11. \A x \in DOMAIN n : n[x] \in ToSet(new)
    BY <1>1, <1>8, <2>2
  <2>12. \A i \in 2..Len(new) :
          /\ new[i].source \in DOMAIN n /\ new[i].source # ts
          /\ n[new[i].source] = new[i]
          /\ new[i].parents \in Seq(ToSet(new))
          /\ \A p \in ToSet(new[i].parents) :
              p.source # new[i].source /\ \E j \in 1..(i - 1) : new[j] = p
    <3> TAKE i \in 2..Len(new)
    <3>1. CASE i = Len(writ) + 1
      <4>1. new[i] = image
        BY <2>2, <3>1
      <4>2. dp \in Seq(U)
        <5>1. ToSet(writ) \subseteq U
          OBVIOUS
        <5> QED BY <5>1, SeqWider
      <4>3. \A p \in ToSet(dp) : p.source # c
        BY <1>3, <1>6, <1>9, <1>15
      <4>4. \A p \in ToSet(dp) : \E j \in 1..(i - 1) : new[j] = p
        <5> TAKE p \in ToSet(dp)
        <5>1. PICK j \in 1..Len(writ) : writ[j] = p
          BY <1>4, <1>9
        <5>2. j \in 1..(i - 1) /\ new[j] = p
          BY <1>4, <2>2, <3>1, <5>1
        <5> QED BY <5>2
      <4> QED BY <1>8, <1>15, <2>2, <4>1, <4>2, <4>3, <4>4
    <3>2. CASE i # Len(writ) + 1
      <4>1. i \in 2..Len(writ) /\ i \in 1..Len(writ) /\ new[i] = writ[i]
        BY <1>4, <2>2, <3>2
      <4>2. /\ writ[i].source \in DOMAIN map /\ writ[i].source # ts
            /\ map[writ[i].source] = writ[i]
            /\ writ[i].parents \in Seq(ToSet(writ))
            /\ \A p \in ToSet(writ[i].parents) :
                p.source # writ[i].source /\ \E j \in 1..(i - 1) : writ[j] = p
        BY <1>2, <4>1
      <4>3. n[writ[i].source] = writ[i] /\ writ[i].source \in DOMAIN n
        BY <1>8, <4>2
      <4>4. writ[i].parents \in Seq(ToSet(new))
        <5>1. ToSet(writ) \subseteq ToSet(new)
          BY <2>2
        <5> QED BY <4>2, <5>1, SeqWider
      <4>5. \A j \in 1..(i - 1) : new[j] = writ[j]
        BY <1>4, <2>2, <4>1
      <4>6. \A p \in ToSet(writ[i].parents) :
              p.source # writ[i].source /\ \E j \in 1..(i - 1) : new[j] = p
        BY <4>2, <4>5
      <4> QED BY <4>1, <4>2, <4>3, <4>4, <4>6
    <3> QED BY <3>1, <3>2
  <2>13. \A d \in ToSet(new) : dest \in Ancestors(Graph(new), d)
    <3> TAKE d \in ToSet(new)
    <3>1. CASE d = image
      <4>1. dest \in Ancestors(Graph(writ), dp[1])
        BY <1>1, <1>9
      <4> QED BY <1>9, <2>8, <3>1, <4>1
    <3>2. CASE d \in ToSet(writ)
      BY <1>1, <2>7, <3>2
    <3> QED BY <2>2, <3>1, <3>2
  <2>14. ASSUME NEW a \in DOMAIN n, NEW b \in DOMAIN n, a \in Ancestors(g, b)
         PROVE  n[a] \in Ancestors(Graph(new), n[b])
    <3>1. CASE b = c /\ a = c
      BY <1>8, <2>8, <3>1
    <3>2. CASE b = c /\ a # c
      <4>1. a \in DOMAIN map /\ n[a] = map[a] /\ n[b] = image
        BY <1>8, <3>2
      <4>2. PICK d \in ToSet(dp) : map[a] \in Ancestors(Graph(writ), d)
        BY <1>10, <2>14, <3>2, <4>1
      <4> QED BY <2>8, <4>1, <4>2
    <3>3. CASE b # c
      <4>1. b \in DOMAIN map /\ n[b] = map[b] /\ a # c
        BY <1>8, <1>11, <2>14, <3>3
      <4>2. a \in DOMAIN map /\ n[a] = map[a]
        BY <1>8, <4>1
      <4>3. map[a] \in Ancestors(Graph(writ), map[b]) /\ map[b] \in ToSet(writ)
        BY <1>1, <2>14, <4>1, <4>2
      <4> QED BY <2>7, <4>1, <4>2, <4>3
    <3> QED BY <3>1, <3>2, <3>3
  <2>15. Journal(g, ts, dest, head, n, new)
    <3> HIDE DEF U, W
    <3> QED BY <1>13, <2>3, <2>9, <2>10, <2>11, <2>12, <2>13, <2>14 DEF Journal, R
  <2> QED BY <1>7, <2>15
<1> QED BY <1>14, <1>15

-----------------------------------------------------------------------------
(* The published and the written commits together. *)

Joined(g, dest, pub, img, map, writ, o) ==
    /\ IsObjects(o) /\ ToSet(o) = ToSet(pub) \cup ToSet(writ)
    /\ IsWalked(Graph(o), ToSet(o))
    /\ \A d \in ToSet(o) : ToSet(d.parents) \subseteq ToSet(o)
    /\ \A d, e \in ToSet(o) : d.source = e.source => d = e
    /\ \A d \in ToSet(pub) : Ancestors(Graph(o), d) = Ancestors(Graph(pub), d)
    /\ \A d \in ToSet(writ) : Ancestors(Graph(writ), d) \subseteq Ancestors(Graph(o), d)
    /\ \A c \in DOMAIN map \cap DOMAIN img : map[c] = img[c]
    /\ \A a, b \in DOMAIN Over(img, map) :
        a \in Ancestors(g, b) =>
            Over(img, map)[a] \in Ancestors(Graph(o), Over(img, map)[b])

LEMMA JoinIs ==
    ASSUME NEW g, IsNumbered(g), NEW ts, NEW dest, NEW pub, NEW img, Position(g, ts, dest, pub, img),
           NEW head \in Nodes(g), NEW map, NEW writ, Journal(g, ts, dest, head, map, writ)
    PROVE  Joined(g, dest, pub, img, map, writ, AddNew(pub, writ))
<1> DEFINE U == ToSet(pub) \cup ToSet(writ)
<1>1. /\ ts \in Nodes(g) /\ IsObjects(pub) /\ dest \in ToSet(pub)
      /\ \A d \in ToSet(pub) : d.parents \in Seq(ToSet(pub)) /\ d.source \in Ancestors(g, ts)
      /\ \A d, e \in ToSet(pub) : d.source = e.source => d = e
      /\ DOMAIN img \subseteq Ancestors(g, ts) /\ ts \in DOMAIN img /\ img[ts] = dest
      /\ \A a \in DOMAIN img : img[a] \in ToSet(pub)
      /\ \A a, b \in DOMAIN img :
          a \in Ancestors(g, b) => img[a] \in Ancestors(Graph(pub), img[b])
  BY DEF Position
<1>2. /\ IsObjects(writ)
      /\ DOMAIN map \subseteq Rest(g, ts, head)
      /\ ts \in DOMAIN map => map[ts] = dest
      /\ \A x \in DOMAIN map : map[x] \in ToSet(writ)
      /\ \A d \in ToSet(writ) : dest \in Ancestors(Graph(writ), d)
      /\ \A a, b \in DOMAIN map :
          a \in Ancestors(g, b) => map[a] \in Ancestors(Graph(writ), map[b])
  BY DEF Journal
<1>3. Grounded(g, ts, dest, pub, map, writ)
  BY WrittenIs
<1>4. /\ IsWalked(Graph(writ), U)
      /\ \A d \in ToSet(writ) :
          \/ d = dest
          \/ /\ d.source \in DOMAIN map /\ d.source # ts /\ d.source \notin Ancestors(g, ts)
             /\ d = map[d.source]
      /\ \A d, e \in ToSet(writ) : d.source = e.source => d = e
      /\ dest \in ToSet(writ)
  <2>1. IsListed(Graph(writ), U)
        /\ (\A d \in ToSet(writ) :
              \/ d = dest
              \/ /\ d.source \in DOMAIN map /\ d.source # ts /\ d.source \notin Ancestors(g, ts)
                 /\ d = map[d.source])
        /\ (\A d, e \in ToSet(writ) : d.source = e.source => d = e)
        /\ dest \in ToSet(writ)
    BY <1>3 DEF Grounded
  <2> HIDE DEF U
  <2>2. IsWalked(Graph(writ), U)
    BY <2>1 DEF IsListed
  <2> QED BY <2>1, <2>2
<1>5. IsNumbered(g) /\ IsWalked(g, Nat) /\ ts \in Ancestors(g, ts)
      /\ Ancestors(g, ts) \subseteq Nodes(g)
      /\ DOMAIN map \subseteq Nodes(g)
  <2>1. IsWalked(g, Nat)
    BY DEF IsNumbered
  <2>2. ts \in Ancestors(g, ts) /\ Ancestors(g, ts) \subseteq Nodes(g)
        /\ Ancestors(g, head) \subseteq Nodes(g)
    BY <1>1, <2>1, AncestorsAre
  <2>3. DOMAIN map \subseteq Nodes(g)
    BY <1>1, <1>2, <2>2 DEF Rest
  <2> QED BY <2>1, <2>2, <2>3
<1>6. PICK o : o = AddNew(pub, writ)
  OBVIOUS
<1>7. o \in Seq(U) /\ ToSet(o) = U /\ IsInjective(o)
  <2>1. pub \in Seq(U) /\ writ \in Seq(U)
    <3>1. PICK P, W : P = ToSet(pub) /\ W = ToSet(writ)
      OBVIOUS
    <3>2. pub \in Seq(P) /\ writ \in Seq(W) /\ P \subseteq U /\ W \subseteq U
      BY <1>1, <1>2, <3>1 DEF IsObjects
    <3> HIDE DEF U
    <3> QED BY <3>2, SeqWider
  <2>2. IsInjective(pub)
    BY <1>1 DEF IsObjects
  <2> HIDE DEF U
  <2>3. /\ AddNew(pub, writ) \in Seq(U)
        /\ ToSet(AddNew(pub, writ)) = ToSet(pub) \cup ToSet(writ)
        /\ IsInjective(pub) => IsInjective(AddNew(pub, writ))
    BY <2>1, AddNewKeeps
  <2> QED BY <1>6, <2>2, <2>3 DEF U
<1>8. IsObjects(o)
  BY <1>7 DEF IsObjects
<1>9. \A d \in U : d.parents \in Seq(U)
  <2> TAKE d \in U
  <2>1. CASE d \in ToSet(pub)
    <3>1. d.parents \in Seq(ToSet(pub)) /\ ToSet(pub) \subseteq U
      BY <1>1, <2>1
    <3> HIDE DEF U
    <3> QED BY <3>1, SeqWider
  <2>2. CASE d \in ToSet(writ)
    <3>1. Nodes(Graph(writ)) = ToSet(writ) /\ Graph(writ).parents[d] = d.parents
      BY <1>2, <2>2, ObjectsAre
    <3> QED BY <1>4, <2>2, <3>1 DEF IsWalked
  <2> QED BY <2>1, <2>2
<1>10. IsWalked(Graph(o), U)
  <2> HIDE DEF U
  <2> QED BY <1>7, <1>8, <1>9, ObjectsWalk
<1>11. IsWalked(Graph(pub), U)
  <2>1. ToSet(pub) \subseteq U /\ \A d \in ToSet(pub) : d.parents \in Seq(U)
    BY <1>9
  <2> HIDE DEF U
  <2> QED BY <1>1, <2>1, ObjectsWalk
<1>12. /\ Nodes(Graph(o)) = U /\ Nodes(Graph(pub)) = ToSet(pub) /\ Nodes(Graph(writ)) = ToSet(writ)
       /\ \A d \in U : Graph(o).parents[d] = d.parents
       /\ \A d \in ToSet(pub) : Graph(pub).parents[d] = d.parents
       /\ \A d \in ToSet(writ) : Graph(writ).parents[d] = d.parents
       /\ \A d \in U : Above(Graph(o), d) = ToSet(d.parents) \cap U
  <2>1. Nodes(Graph(o)) = ToSet(o) /\ (\A d \in ToSet(o) : Graph(o).parents[d] = d.parents)
        /\ (\A d \in ToSet(o) : Above(Graph(o), d) = ToSet(d.parents) \cap ToSet(o))
    BY <1>8, ObjectsAre
  <2>2. Nodes(Graph(pub)) = ToSet(pub) /\ \A d \in ToSet(pub) : Graph(pub).parents[d] = d.parents
    BY <1>1, ObjectsAre
  <2>3. Nodes(Graph(writ)) = ToSet(writ) /\ \A d \in ToSet(writ) : Graph(writ).parents[d] = d.parents
    BY <1>2, ObjectsAre
  <2> QED BY <1>7, <2>1, <2>2, <2>3
<1>13. \A d \in ToSet(writ) : Ancestors(Graph(writ), d) \subseteq Ancestors(Graph(o), d)
  <2>1. Within(Graph(writ), Graph(o))
    BY <1>12 DEF Within
  <2> HIDE DEF U
  <2> QED BY <1>4, <1>10, <1>12, <2>1, AncestorsGrow
<1>14. \A d \in ToSet(pub) : Ancestors(Graph(o), d) = Ancestors(Graph(pub), d)
  <2>1. Within(Graph(pub), Graph(o))
    BY <1>12 DEF Within
  <2>2. \A x \in Nodes(Graph(pub)) : Above(Graph(o), x) \subseteq Nodes(Graph(pub))
    <3> TAKE x \in Nodes(Graph(pub))
    <3>1. x \in ToSet(pub) /\ x.parents \in Seq(ToSet(pub))
      BY <1>1, <1>12
    <3>2. ToSet(x.parents) \subseteq ToSet(pub)
      BY <3>1, SeqOver
    <3> QED BY <1>12, <3>1, <3>2
  <2> HIDE DEF U
  <2> QED BY <1>10, <1>11, <1>12, <2>1, <2>2, AncestorsGrow
<1>15. \A d, e \in U : d.source = e.source => d = e
  BY <1>1, <1>4
<1>16. \A c \in DOMAIN map \cap DOMAIN img : map[c] = img[c]
  BY <1>1, <1>2 DEF Rest
<1>17. \A d \in U : ToSet(d.parents) \subseteq U
  <2> TAKE d \in U
  <2> HIDE DEF U
  <2> QED BY <1>9, SeqOver
<1>18. PICK known : known = Over(img, map)
  OBVIOUS
<1>19. /\ DOMAIN known = DOMAIN img \cup DOMAIN map
       /\ \A x \in DOMAIN img : known[x] = img[x]
       /\ \A x \in DOMAIN map : x \notin DOMAIN img => known[x] = map[x]
       /\ \A x \in DOMAIN map : known[x] = map[x]
  BY <1>16, <1>18 DEF Over
<1>20. ASSUME NEW a \in DOMAIN known, NEW b \in DOMAIN known, a \in Ancestors(g, b)
       PROVE  known[a] \in Ancestors(Graph(o), known[b])
  <2>1. CASE b \in DOMAIN img
    <3>1. a \in Ancestors(g, ts)
      BY <1>1, <1>5, <1>20, <2>1, AncestorsCompose
    <3>2. a \in DOMAIN img
      <4>1. a \in DOMAIN map => a = ts
        BY <1>2, <3>1 DEF Rest
      <4> QED BY <1>1, <1>19, <4>1
    <3>3. img[a] \in Ancestors(Graph(pub), img[b]) /\ img[b] \in ToSet(pub)
      BY <1>1, <1>20, <2>1, <3>2
    <3> QED BY <1>14, <1>19, <2>1, <3>2, <3>3
  <2>2. CASE b \notin DOMAIN img
    <3>1. b \in DOMAIN map /\ known[b] = map[b] /\ map[b] \in ToSet(writ)
      BY <1>2, <1>19, <2>2
    <3>2. CASE a \in DOMAIN map
      <4>1. map[a] \in Ancestors(Graph(writ), map[b])
        BY <1>2, <1>20, <3>1, <3>2
      <4> QED BY <1>13, <1>19, <3>1, <3>2, <4>1
    <3>3. CASE a \notin DOMAIN map
      <4>1. a \in DOMAIN img /\ known[a] = img[a] /\ a \in Ancestors(g, ts)
        BY <1>1, <1>19, <3>3
      <4>2. img[a] \in Ancestors(Graph(pub), dest)
        BY <1>1, <4>1
      <4>3. img[a] \in Ancestors(Graph(o), dest)
        BY <1>1, <1>14, <4>2
      <4>4. dest \in Ancestors(Graph(o), map[b])
        BY <1>2, <1>13, <3>1
      <4>5. Ancestors(Graph(o), dest) \subseteq Ancestors(Graph(o), map[b])
        <5>1. map[b] \in Nodes(Graph(o))
          BY <1>12, <3>1
        <5> HIDE DEF U
        <5> QED BY <1>10, <4>4, <5>1, AncestorsCompose
      <4> QED BY <3>1, <4>1, <4>3, <4>5
    <3> QED BY <3>2, <3>3
  <2> QED BY <2>1, <2>2
<1>21. Joined(g, dest, pub, img, map, writ, o)
  <2>1. IsWalked(Graph(o), ToSet(o))
    BY <1>7, <1>10
  <2> QED BY <1>7, <1>8, <1>13, <1>14, <1>15, <1>16, <1>17, <1>18, <1>20, <2>1 DEF Joined
<1> QED BY <1>6, <1>21

(* A checkpoint publishes what its position reaches, and that is a position
   above the last one. *)
LEMMA PositionAdvances ==
    ASSUME NEW g, IsNumbered(g), NEW ts, NEW dest, NEW pub, NEW img, Position(g, ts, dest, pub, img),
           NEW head \in Nodes(g), NEW map, NEW writ, Journal(g, ts, dest, head, map, writ),
           ts \in Ancestors(g, head), head \in DOMAIN map,
           NEW o, o = AddNew(pub, writ),
           NEW pub2, pub2 = Only(o, Ancestors(Graph(o), map[head]))
    PROVE  /\ Position(g, head, map[head], pub2, Over(img, map))
           /\ ToSet(pub) \subseteq ToSet(pub2)
           /\ dest \in Ancestors(Graph(pub2), map[head])
           /\ \A c \in DOMAIN img : Over(img, map)[c] = img[c]
<1>1. /\ ts \in Nodes(g) /\ IsObjects(pub) /\ dest \in ToSet(pub)
      /\ \A d \in ToSet(pub) :
          /\ d.parents \in Seq(ToSet(pub))
          /\ d.source \in Ancestors(g, ts)
          /\ \A p \in ToSet(d.parents) : p.source # d.source
      /\ DOMAIN img \subseteq Ancestors(g, ts) /\ ts \in DOMAIN img /\ img[ts] = dest
      /\ \A a \in DOMAIN img : img[a] \in ToSet(pub)
      /\ ToSet(pub) \subseteq Ancestors(Graph(pub), dest)
  BY DEF Position
<1>2. /\ IsObjects(writ) /\ writ[1] = dest
      /\ DOMAIN map \subseteq Rest(g, ts, head)
      /\ \A x \in DOMAIN map : map[x] \in ToSet(writ)
      /\ \A i \in 2..Len(writ) : \A p \in ToSet(writ[i].parents) : p.source # writ[i].source
      /\ \A d \in ToSet(writ) : dest \in Ancestors(Graph(writ), d)
  BY DEF Journal
<1>3. Joined(g, dest, pub, img, map, writ, o)
  BY JoinIs
<1>4. /\ IsObjects(o) /\ ToSet(o) = ToSet(pub) \cup ToSet(writ)
      /\ IsWalked(Graph(o), ToSet(o))
      /\ \A d \in ToSet(o) : ToSet(d.parents) \subseteq ToSet(o)
      /\ \A d, e \in ToSet(o) : d.source = e.source => d = e
      /\ \A d \in ToSet(pub) : Ancestors(Graph(o), d) = Ancestors(Graph(pub), d)
      /\ \A d \in ToSet(writ) : Ancestors(Graph(writ), d) \subseteq Ancestors(Graph(o), d)
      /\ \A c \in DOMAIN map \cap DOMAIN img : map[c] = img[c]
      /\ \A a, b \in DOMAIN Over(img, map) :
          a \in Ancestors(g, b) =>
              Over(img, map)[a] \in Ancestors(Graph(o), Over(img, map)[b])
  BY <1>3 DEF Joined
<1>5. Grounded(g, ts, dest, pub, map, writ)
  BY WrittenIs
<1>6. \A d \in ToSet(writ) :
        \/ d = dest
        \/ d.source \in DOMAIN map /\ d.source # ts /\ d.source \notin Ancestors(g, ts)
  BY <1>5 DEF Grounded
<1>7. PICK tip \in ToSet(writ) : tip = map[head]
  BY <1>2
<1>8. /\ Nodes(Graph(o)) = ToSet(o)
      /\ \A d \in ToSet(o) : Graph(o).parents[d] = d.parents
      /\ \A d \in ToSet(o) : Above(Graph(o), d) = ToSet(d.parents)
  <2>1. /\ Nodes(Graph(o)) = ToSet(o)
        /\ \A d \in ToSet(o) : Graph(o).parents[d] = d.parents
        /\ \A d \in ToSet(o) : Above(Graph(o), d) = ToSet(d.parents) \cap ToSet(o)
    BY <1>4, ObjectsAre
  <2>2. \A d \in ToSet(o) : ToSet(d.parents) \cap ToSet(o) = ToSet(d.parents)
    BY <1>4
  <2> QED BY <2>1, <2>2
<1>9. PICK reach : reach = Ancestors(Graph(o), tip)
  OBVIOUS
<1>10. tip \in reach /\ reach \subseteq ToSet(o) /\ Closed(Graph(o), reach)
  BY <1>4, <1>7, <1>8, <1>9, AncestorsAre
<1>11. IsObjects(pub2) /\ ToSet(pub2) = reach
  <2>1. PICK S : S = ToSet(o)
    OBVIOUS
  <2>2. o \in Seq(S) /\ IsInjective(o)
    BY <1>4, <2>1 DEF IsObjects
  <2>3. pub2 \in Seq(S) /\ ToSet(pub2) = ToSet(o) \cap reach /\ IsInjective(pub2)
    BY <1>7, <1>9, <2>2, OnlyKeeps
  <2>4. pub2 \in Seq(ToSet(pub2))
    BY <2>3, SeqOver
  <2> QED BY <1>10, <2>3, <2>4 DEF IsObjects
<1>12. /\ Nodes(Graph(pub2)) = reach
       /\ \A d \in reach : Graph(pub2).parents[d] = d.parents
  BY <1>11, ObjectsAre
<1>13. \A d \in reach : d.parents \in Seq(reach)
  <2> TAKE d \in reach
  <2>1. d \in ToSet(o) /\ ToSet(d.parents) \subseteq reach
    BY <1>8, <1>10 DEF Closed
  <2>2. d.parents \in Seq(ToSet(o))
    BY <1>4, <1>8, <2>1 DEF IsWalked
  <2> QED BY <2>1, <2>2, SeqOver
<1>14. \A d \in reach : Ancestors(Graph(pub2), d) = Ancestors(Graph(o), d)
  <2>1. IsWalked(Graph(pub2), ToSet(o))
    <3>1. \A d \in ToSet(pub2) : d.parents \in Seq(ToSet(o))
      <4> TAKE d \in ToSet(pub2)
      <4>1. d \in ToSet(o)
        BY <1>10, <1>11
      <4> QED BY <1>4, <1>8, <4>1 DEF IsWalked
    <3> QED BY <1>10, <1>11, <3>1, ObjectsWalk
  <2>2. Within(Graph(pub2), Graph(o))
    BY <1>8, <1>10, <1>12 DEF Within
  <2>3. \A x \in Nodes(Graph(pub2)) : Above(Graph(o), x) \subseteq Nodes(Graph(pub2))
    BY <1>10, <1>12 DEF Closed
  <2> QED BY <1>4, <1>12, <2>1, <2>2, <2>3, AncestorsGrow
<1>15. dest \in reach /\ ToSet(pub) \subseteq reach
  <2>1. dest \in reach
    BY <1>2, <1>4, <1>7, <1>9
  <2>2. Ancestors(Graph(o), dest) \subseteq reach
    BY <1>4, <1>7, <1>8, <1>9, <2>1, AncestorsCompose
  <2> QED BY <1>1, <1>4, <2>1, <2>2
<1>16. IsWalked(g, Nat) /\ Ancestors(g, ts) \subseteq Ancestors(g, head)
       /\ head \in Ancestors(g, head)
  <2>1. IsWalked(g, Nat)
    BY DEF IsNumbered
  <2> QED BY <2>1, AncestorsCompose, AncestorsAre
<1>17. DOMAIN map \subseteq Ancestors(g, head)
  BY <1>2, <1>16 DEF Rest
<1>18. \A d \in reach : d.source \in Ancestors(g, head)
  BY <1>1, <1>4, <1>6, <1>10, <1>16, <1>17
<1>19. \A d \in ToSet(o) : \A p \in ToSet(d.parents) : p.source # d.source
  <2> TAKE d \in ToSet(o)
  <2>1. CASE d \in ToSet(pub)
    BY <1>1, <2>1
  <2>2. CASE d \in ToSet(writ) /\ d \notin ToSet(pub)
    <3>1. PICK i \in 1..Len(writ) : d = writ[i]
      BY <1>2, <2>2, ObjectsAre
    <3>2. i # 1 /\ Len(writ) \in Nat
      BY <1>1, <1>2, <2>2, <3>1, ObjectsAre
    <3>3. i \in 2..Len(writ)
      BY <3>2
    <3> QED BY <1>2, <3>1, <3>3
  <2> QED BY <1>4, <2>1, <2>2
<1>20. PICK known : known = Over(img, map)
  OBVIOUS
<1>21. /\ DOMAIN known = DOMAIN img \cup DOMAIN map
       /\ \A x \in DOMAIN img : known[x] = img[x]
       /\ \A x \in DOMAIN map : known[x] = map[x]
  BY <1>4, <1>20 DEF Over
<1>22. DOMAIN known \subseteq Ancestors(g, head) /\ head \in DOMAIN known /\ known[head] = tip
  BY <1>1, <1>7, <1>16, <1>17, <1>21
<1>23. \A a, b \in DOMAIN known : a \in Ancestors(g, b) => known[a] \in Ancestors(Graph(o), known[b])
  BY <1>4, <1>20
<1>24. \A a \in DOMAIN known : known[a] \in reach
  BY <1>9, <1>22, <1>23
<1>25. \A a, b \in DOMAIN known :
         a \in Ancestors(g, b) => known[a] \in Ancestors(Graph(pub2), known[b])
  BY <1>14, <1>23, <1>24
<1>26. reach \subseteq Ancestors(Graph(pub2), tip)
  BY <1>9, <1>10, <1>14
<1>27. Position(g, head, tip, pub2, known)
  BY <1>4, <1>10, <1>11, <1>13, <1>18, <1>19, <1>22, <1>24, <1>25, <1>26 DEF Position
<1>28. dest \in Ancestors(Graph(pub2), tip)
  BY <1>15, <1>26
<1> QED BY <1>7, <1>11, <1>15, <1>20, <1>21, <1>27, <1>28

(* A run that has replayed nothing. *)
LEMMA JournalStarts ==
    ASSUME NEW g, NEW ts, NEW dest, NEW pub, NEW img, Position(g, ts, dest, pub, img), NEW head
    PROVE  Journal(g, ts, dest, head, <<>>, <<dest>>)
<1>1. PICK one : one = <<dest>>
  OBVIOUS
<1>2. one \in Seq({dest}) /\ Len(one) = 1 /\ one[1] = dest /\ DOMAIN one = 1..1 /\ one # <<>>
  BY <1>1
<1>3. ToSet(one) = {dest} /\ IsInjective(one)
  BY <1>2 DEF ToSet, IsInjective
<1>4. IsObjects(one)
  BY <1>2, <1>3 DEF IsObjects
<1>5. Nodes(Graph(one)) = {dest}
  BY <1>3, <1>4, ObjectsAre
<1>6. dest \in Ancestors(Graph(one), dest)
  <2>1. dest \in ToSet(pub) /\ dest.parents \in Seq(ToSet(pub))
    BY DEF Position
  <2>2. IsWalked(Graph(one), ToSet(pub))
    BY <1>3, <1>4, <2>1, ObjectsWalk
  <2> QED BY <1>5, <2>2, AncestorsAre
<1>7. DOMAIN <<>> = {}
  OBVIOUS
<1> QED BY <1>1, <1>2, <1>3, <1>4, <1>6, <1>7 DEF Journal

-----------------------------------------------------------------------------
(* What a run has still to replay: the rest of its graph, parents first. *)

Queue(g, ts, head, map, pend) ==
    /\ pend \in Seq(Rest(g, ts, head)) /\ IsInjective(pend)
    /\ ToSet(pend) \cup DOMAIN map = Rest(g, ts, head)
    /\ ToSet(pend) \cap DOMAIN map = {}
    /\ \A i \in 1..Len(pend) : \A p \in Above(g, pend[i]) \cap Rest(g, ts, head) :
        p \in DOMAIN map \/ \E j \in 1..(i - 1) : pend[j] = p
    /\ ts \in DOMAIN map \/ (pend # <<>> /\ pend[1] = ts)

IsNext(g, ts, head, map, c) ==
    /\ c \in Rest(g, ts, head) /\ c \notin DOMAIN map
    /\ Above(g, c) \cap Rest(g, ts, head) \subseteq DOMAIN map
    /\ c = ts \/ ts \in DOMAIN map

LEMMA QueueStep ==
    ASSUME NEW g, NEW ts, NEW head, NEW map, NEW pend, Queue(g, ts, head, map, pend),
           pend # <<>>, NEW v
    PROVE  /\ IsNext(g, ts, head, map, Head(pend))
           /\ Queue(g, ts, head, With(map, Head(pend), v), Tail(pend))
<1>1. PICK R : R = Rest(g, ts, head)
  OBVIOUS
<1>2. /\ pend \in Seq(R) /\ IsInjective(pend)
      /\ ToSet(pend) \cup DOMAIN map = R
      /\ ToSet(pend) \cap DOMAIN map = {}
      /\ \A i \in 1..Len(pend) : \A p \in Above(g, pend[i]) \cap R :
          p \in DOMAIN map \/ \E j \in 1..(i - 1) : pend[j] = p
      /\ ts \in DOMAIN map \/ pend[1] = ts
  BY <1>1 DEF Queue
<1>3. PICK c : c = Head(pend)
  OBVIOUS
<1>4. PICK rest : rest = Tail(pend)
  OBVIOUS
<1>5. /\ Len(pend) \in Nat /\ Len(pend) > 0 /\ DOMAIN pend = 1..Len(pend) /\ c = pend[1]
      /\ rest \in Seq(R) /\ Len(rest) = Len(pend) - 1 /\ DOMAIN rest = 1..(Len(pend) - 1)
      /\ \A i \in 1..(Len(pend) - 1) : rest[i] = pend[i + 1]
  BY <1>2, <1>3, <1>4
<1>6. 1 \in DOMAIN pend /\ 1..(1 - 1) = {}
  BY <1>5
<1>7. IsNext(g, ts, head, map, c)
  <2>1. c \in ToSet(pend)
    BY <1>5, <1>6 DEF ToSet
  <2>2. Above(g, c) \cap R \subseteq DOMAIN map
    BY <1>2, <1>5, <1>6
  <2> QED BY <1>1, <1>2, <1>5, <2>1, <2>2 DEF IsNext
<1>8. PICK new : new = With(map, c, v)
  OBVIOUS
<1>9. DOMAIN new = DOMAIN map \cup {c}
  BY <1>8 DEF With, Over
<1>10. ToSet(pend) = ToSet(rest) \cup {c} /\ c \notin ToSet(rest) /\ IsInjective(rest)
  <2>1. \A i \in 1..Len(pend) : i = 1 \/ (i - 1 \in 1..(Len(pend) - 1) /\ (i - 1) + 1 = i)
    BY <1>5
  <2>2. \A i \in 1..(Len(pend) - 1) : i + 1 \in 1..Len(pend) /\ i + 1 # 1
    BY <1>5
  <2>3. ToSet(pend) = {pend[i] : i \in 1..Len(pend)} /\ ToSet(rest) = {rest[i] : i \in 1..(Len(pend) - 1)}
    BY <1>5 DEF ToSet
  <2>4. ToSet(pend) \subseteq ToSet(rest) \cup {c}
    <3> SUFFICES ASSUME NEW x \in ToSet(pend) PROVE x \in ToSet(rest) \cup {c}
      OBVIOUS
    <3>1. PICK i \in 1..Len(pend) : x = pend[i]
      BY <2>3
    <3>2. i = 1 \/ x = rest[i - 1]
      BY <1>5, <2>1, <3>1
    <3> QED BY <1>5, <2>1, <2>3, <3>1, <3>2
  <2>5. ToSet(rest) \subseteq ToSet(pend) /\ c \in ToSet(pend)
    BY <1>5, <1>6, <2>2, <2>3
  <2>6. c \notin ToSet(rest)
    BY <1>2, <1>5, <1>6, <2>2, <2>3 DEF IsInjective
  <2>7. IsInjective(rest)
    <3> SUFFICES ASSUME NEW i \in 1..(Len(pend) - 1), NEW j \in 1..(Len(pend) - 1), rest[i] = rest[j]
                 PROVE  i = j
      BY <1>5 DEF IsInjective
    <3>1. i + 1 = j + 1
      BY <1>2, <1>5, <2>2 DEF IsInjective
    <3> QED BY <3>1
  <2> QED BY <2>4, <2>5, <2>6, <2>7
<1>11. \A i \in 1..Len(rest) : \A p \in Above(g, rest[i]) \cap R :
         p \in DOMAIN new \/ \E j \in 1..(i - 1) : rest[j] = p
  <2> TAKE i \in 1..Len(rest)
  <2> TAKE p \in Above(g, rest[i]) \cap R
  <2>1. i + 1 \in 1..Len(pend) /\ rest[i] = pend[i + 1]
    BY <1>5
  <2>2. p \in DOMAIN map \/ \E j \in 1..((i + 1) - 1) : pend[j] = p
    BY <1>2, <2>1
  <2>3. ASSUME NEW j \in 1..((i + 1) - 1), pend[j] = p
        PROVE  p = c \/ \E m \in 1..(i - 1) : rest[m] = p
    <3>1. CASE j = 1
      BY <1>5, <2>3, <3>1
    <3>2. CASE j # 1
      <4>1. j - 1 \in 1..(i - 1) /\ j - 1 \in 1..(Len(pend) - 1) /\ (j - 1) + 1 = j
        BY <1>5, <3>2
      <4>2. rest[j - 1] = pend[(j - 1) + 1]
        BY <1>5, <4>1
      <4>3. rest[j - 1] = p
        BY <2>3, <4>1, <4>2
      <4> QED BY <4>1, <4>3
    <3> QED BY <3>1, <3>2
  <2> QED BY <1>9, <2>2, <2>3
<1>12. rest \in Seq(R) /\ ToSet(rest) \cup DOMAIN new = R /\ ToSet(rest) \cap DOMAIN new = {}
  BY <1>2, <1>5, <1>9, <1>10
<1>13. ts \in DOMAIN new
  BY <1>2, <1>5, <1>9
<1>14. Queue(g, ts, head, new, rest)
  BY <1>1, <1>10, <1>11, <1>12, <1>13 DEF Queue
<1> QED BY <1>3, <1>4, <1>7, <1>8, <1>14

LEMMA QueueStarts ==
    ASSUME History, NEW head \in Commits, track.source \in Commits,
           head \notin Below(track.source), track.source \in Below(head)
    PROVE  Queue(Source, track.source, head, <<>>,
                 RangeOf(Given(head), track.source, {head}))
<1>1. PICK ts \in Commits : ts = track.source
  OBVIOUS
<1>2. PICK g : g = Given(head)
  OBVIOUS
<1>3. PICK R : R = Rest(Source, ts, head)
  OBVIOUS
<1>4. /\ Nodes(g) = R /\ IsNumbered(g) /\ g.nodes # <<>> /\ g.nodes[1] = ts
      /\ Above(g, ts) = {} /\ Ancestors(g, head) = Nodes(g)
      /\ \A c \in R : Above(g, c) = ToSet(parents[c]) \cap R
  BY <1>1, <1>2, <1>3, GivenIs DEF Span, Rest, Below
<1>5. head \in Nodes(g)
  <2>1. head \in Below(head)
    BY BelowIs
  <2> QED BY <1>1, <1>3, <1>4, <2>1 DEF Rest, Below
<1>6. PICK pend : pend = RangeOf(g, ts, {head})
  OBVIOUS
<1>7. /\ pend \in Seq(R) /\ IsInjective(pend) /\ ToSet(pend) = R /\ ParentsFirst(g, pend)
      /\ pend # <<>> /\ pend[1] = ts
  BY <1>4, <1>5, <1>6, WholeRange
<1>8. \A i \in 1..Len(pend) : \A p \in Above(Source, pend[i]) \cap R : \E j \in 1..(i - 1) : pend[j] = p
  <2> TAKE i \in 1..Len(pend)
  <2> TAKE p \in Above(Source, pend[i]) \cap R
  <2>1. pend[i] \in R
    BY <1>7
  <2>2. p \in Above(g, pend[i])
    BY <1>4, <2>1, SourceIs DEF Above
  <2> QED BY <1>7, <2>2 DEF ParentsFirst
<1>9. DOMAIN <<>> = {}
  OBVIOUS
<1>10. Queue(Source, ts, head, <<>>, pend)
  BY <1>3, <1>7, <1>8, <1>9 DEF Queue
<1> QED BY <1>1, <1>2, <1>6, <1>10

-----------------------------------------------------------------------------
(* Where a chunk may end: mainline commits above the published position, the
   release last. *)

AreCandidates(g, seq, ts) ==
    /\ seq \in Seq(ToSet(FirstParentLine(g, N)) \ Ancestors(g, ts)) /\ seq # <<>>
    /\ seq[Len(seq)] = N

LEMMA CandidatesAre ==
    ASSUME History, NEW ts \in Commits, N \notin Below(ts), NEW size
    PROVE  AreCandidates(Source, Candidates(ts, size), ts)
<1>1. N \in Commits /\ IsWalked(Source, Nat) /\ Nodes(Source) = Commits
  BY SourceIs DEF IsNumbered
<1>2. PICK first \in Seq(Commits) :
          first = FirstParentLine(Source, N) /\ first # <<>> /\ first[1] = N
          /\ ToSet(first) \subseteq Commits
  BY <1>1, LineIs
<1>3. PICK back : back = Reverse(first)
  OBVIOUS
<1>4. /\ back \in Seq(Commits) /\ Len(back) = Len(first) /\ back # <<>>
      /\ back[Len(back)] = N /\ ToSet(back) = ToSet(first)
  <2>1. Len(first) \in Nat /\ Len(first) > 0 /\ DOMAIN first = 1..Len(first)
        /\ \A i \in 1..Len(first) : first[i] \in Commits
    BY <1>2
  <2>2. back = [i \in 1..Len(first) |-> first[(Len(first) - i) + 1]]
    BY <1>3 DEF Reverse
  <2>3. \A i \in 1..Len(first) : (Len(first) - i) + 1 \in 1..Len(first)
                                 /\ (Len(first) - ((Len(first) - i) + 1)) + 1 = i
    BY <2>1
  <2>4. back \in Seq(Commits) /\ Len(back) = Len(first) /\ DOMAIN back = 1..Len(first)
    BY <2>1, <2>2, <2>3
  <2>5. back[Len(back)] = N
    <3>1. Len(first) \in 1..Len(first) /\ (Len(first) - Len(first)) + 1 = 1
      BY <2>1
    <3> QED BY <1>2, <2>2, <2>4, <3>1
  <2>6. ToSet(back) = ToSet(first)
    <3>1. ToSet(back) = {back[i] : i \in 1..Len(first)} /\ ToSet(first) = {first[i] : i \in 1..Len(first)}
      BY <2>1, <2>4 DEF ToSet
    <3>2. \A i \in 1..Len(first) : back[i] = first[(Len(first) - i) + 1]
      BY <2>2
    <3>3. ToSet(back) \subseteq ToSet(first)
      BY <2>3, <3>1, <3>2
    <3>4. ToSet(first) \subseteq ToSet(back)
      <4> SUFFICES ASSUME NEW x \in ToSet(first) PROVE x \in ToSet(back)
        OBVIOUS
      <4>1. PICK i \in 1..Len(first) : x = first[i]
        BY <3>1
      <4>2. PICK j \in 1..Len(first) : j = (Len(first) - i) + 1
        BY <2>3
      <4>3. back[j] = first[i]
        BY <2>3, <3>2, <4>2
      <4> QED BY <3>1, <4>1, <4>3
    <3> QED BY <3>3, <3>4
  <2>7. back # <<>>
    BY <2>1, <2>4
  <2> QED BY <2>4, <2>5, <2>6, <2>7
<1>5. N \notin Below(ts)
  OBVIOUS
<1>6. PICK line \in Seq(Commits) :
          /\ line = Mainline(ts, N) /\ line # <<>> /\ line[Len(line)] = N
          /\ ToSet(line) = Line(N) \ Below(ts)
  <2>1. Mainline(ts, N) = Only(back, Commits \ Below(ts))
    BY <1>2, <1>3 DEF Mainline, Below
  <2>2. back[Len(back)] \in Commits \ Below(ts)
    BY <1>1, <1>4, <1>5
  <2>3. Only(back, Commits \ Below(ts)) # <<>>
        /\ Only(back, Commits \ Below(ts))[Len(Only(back, Commits \ Below(ts)))] = back[Len(back)]
    BY <1>4, <2>2, OnlyEnds
  <2>4. Only(back, Commits \ Below(ts)) \in Seq(Commits)
        /\ ToSet(Only(back, Commits \ Below(ts))) = ToSet(back) \cap (Commits \ Below(ts))
    BY <1>4, OnlyKeeps
  <2>5. ToSet(back) \cap (Commits \ Below(ts)) = Line(N) \ Below(ts)
    BY <1>2, <1>4 DEF Line
  <2> QED BY <1>4, <2>1, <2>3, <2>4, <2>5
<1>7. PICK X : X = Line(N) \ Below(ts)
  OBVIOUS
<1>8. line \in Seq(X)
  BY <1>6, <1>7, SeqOver
<1>9. \E first0 \in 1..Len(line) : Candidates(ts, size) = SubSeq(line, first0, Len(line))
  <2>1. Len(line) \in Nat /\ Len(line) \in 1..Len(line) /\ DOMAIN line = 1..Len(line)
    BY <1>6
  <2> DEFINE long == {i \in DOMAIN line : Len(Between(ts, line[i])) >= size}
  <2>2. Candidates(ts, size) =
          SubSeq(line, IF long = {} THEN Len(line) ELSE CHOOSE i \in long : \A j \in long : i <= j,
                 Len(line))
    BY <1>6 DEF Candidates
  <2>3. long \subseteq DOMAIN line
    OBVIOUS
  <2> HIDE DEF long
  <2>4. ASSUME long # {} PROVE (CHOOSE i \in long : \A j \in long : i <= j) \in 1..Len(line)
    <3>1. long \subseteq Nat
      BY <2>1, <2>3
    <3>2. \E i \in long : \A j \in long : i <= j
      BY <2>4, <3>1, Smallest
    <3> QED BY <2>1, <2>3, <3>2
  <2> QED BY <2>1, <2>2, <2>4
<1>10. PICK k \in 1..Len(line) : Candidates(ts, size) = SubSeq(line, k, Len(line))
  BY <1>9
<1>11. /\ SubSeq(line, k, Len(line)) \in Seq(X) /\ SubSeq(line, k, Len(line)) # <<>>
       /\ SubSeq(line, k, Len(line))[Len(SubSeq(line, k, Len(line)))] = line[Len(line)]
  <2>1. PICK sub : sub = SubSeq(line, k, Len(line))
    OBVIOUS
  <2>2. Len(line) \in Nat /\ k \in Nat /\ 1 <= k /\ k <= Len(line)
    BY <1>6
  <2>3. Len(sub) = Len(line) - k + 1 /\ \A i \in 1..(Len(line) - k + 1) : sub[i] = line[k + i - 1]
    BY <1>8, <2>1, <2>2
  <2>4. sub \in Seq(X)
    BY <1>8, <2>1, <2>2
  <2>5. Len(sub) > 0 /\ Len(sub) \in 1..(Len(line) - k + 1) /\ k + Len(sub) - 1 = Len(line)
    BY <2>2, <2>3
  <2>6. sub[Len(sub)] = line[Len(line)]
    BY <2>3, <2>5
  <2>7. sub # <<>>
    BY <2>4, <2>5
  <2> QED BY <2>1, <2>4, <2>6, <2>7
<1> QED BY <1>6, <1>7, <1>10, <1>11 DEF AreCandidates, Line, Below

-----------------------------------------------------------------------------
(* The invariant, of a state between runs and of a run.  Apart counts the
   commits one head adds to another; ModuleOf is what generation publishes of
   a source tree. *)

LineOf(g, c) == ToSet(FirstParentLine(g, c))
Apart(g, a, h) == Cardinality(Commits \cap (Ancestors(g, h) \ Ancestors(g, a)))
ModuleOf(trees, c) == [path \in Closure(trees[c]) |-> trees[c][path]]

Counted(g, t) ==
    /\ t.total = 0 => t.source = Anchor /\ t.done = 0
    /\ t.total # 0 => t.done = Apart(g, Anchor, t.source) /\ t.total = Apart(g, Anchor, N)

(* The published track lies on the release's mainline, has counted the commits
   below it, and shows the module of the commit it stands at. *)
Settled(g, trees, t, pub, img) ==
    /\ Position(g, t.source, t.destination, pub, img)
    /\ t.source \in Commits /\ Anchor \in Ancestors(g, t.source)
    /\ t.source = Anchor \/ t.source \in LineOf(g, N)
    /\ Counted(g, t)
    /\ t.destination.tree \in Commits
    /\ t.source = N => t.destination.tree = N
    /\ Anchor \in LineOf(g, t.source) =>
        ModuleOf(trees, t.destination.tree) = ModuleOf(trees, t.source)

(* The tree of an image is the one shown for its source commit, and on a line
   of first parents that leads back to the start it is made of the module of
   that commit, every path of it watched. *)
Shows(g, trees, ts, map, sh, seen) ==
    /\ DOMAIN map \subseteq DOMAIN sh /\ DOMAIN sh \subseteq Commits
    /\ Closure(trees[ts]) \subseteq seen
    /\ \A c \in DOMAIN map :
        /\ sh[c] \in Commits /\ map[c].tree = sh[c]
        /\ c = N => sh[c] = N
        /\ {Anchor, ts} \subseteq LineOf(g, c) =>
            /\ ModuleOf(trees, sh[c]) = ModuleOf(trees, c)
            /\ Closure(trees[sh[c]]) \subseteq seen

Running(g, trees, t, ph, heads, pend, map, writ, sh, seen) ==
    /\ AreCandidates(g, heads, t.source)
    /\ t.source \in Ancestors(g, heads[1])
    /\ Journal(g, t.source, t.destination, heads[1], map, writ)
    /\ Queue(g, t.source, heads[1], map, pend)
    /\ Shows(g, trees, t.source, map, sh, seen)
    /\ ph = "replaying" => DOMAIN sh = DOMAIN map

(* A run that was refused its range has nothing but its epoch parent, and
   between runs there is not even that. *)
Resting(g, t, ph, heads, map, writ, sh) ==
    /\ ph = "refused" => AreCandidates(g, heads, t.source) /\ writ = <<t.destination>>
    /\ ph # "refused" => writ = <<>>
    /\ map = <<>> /\ sh = <<>>

IInv ==
    /\ History
    /\ Settled(Source, content, track, published, images)
    /\ phase \in {"idle", "replaying", "refused", "contradicted", "released"}
    /\ IF phase \in {"replaying", "contradicted"}
       THEN Running(Source, content, track, phase, candidates, pending, mapping, written, shown, watched)
       ELSE Resting(Source, track, phase, candidates, mapping, written, shown)
    /\ lost \in 0..MaxLost

-----------------------------------------------------------------------------
(* What the invariant says of a run at work, under short names. *)
AtWork ==
    /\ IInv /\ phase = "replaying"
    /\ pending # <<>>

Destined(c) ==
    LET dp == DestinationParents(c)
    IN  /\ dp \in Seq(ToSet(written)) /\ dp # <<>>
        /\ c = track.source => dp = <<track.destination>>
        /\ \A p \in Above(Source, c) \cap Rest(Source, track.source, Endpoint) :
            \E d \in ToSet(dp) : mapping[p] \in Ancestors(Graph(written), d)

LEMMA EndpointIs ==
    ASSUME History, NEW heads, NEW ts \in Commits, AreCandidates(Source, heads, ts)
    PROVE  /\ Head(heads) = heads[1] /\ heads[1] \in Commits /\ heads[1] \in Line(N)
           /\ heads[1] \notin Below(ts)
<1>1. N \in Commits /\ IsWalked(Source, Nat) /\ Nodes(Source) = Commits
  BY SourceIs DEF IsNumbered
<1>2. Line(N) \subseteq Commits
  BY <1>1, LineIs DEF Line
<1>3. PICK X : X = Line(N) \ Below(ts)
  OBVIOUS
<1>4. heads \in Seq(X) /\ heads # <<>>
  BY <1>3 DEF AreCandidates, Line, Below
<1>5. Len(heads) \in Nat /\ Len(heads) > 0 /\ DOMAIN heads = 1..Len(heads)
  BY <1>4
<1>6. heads[1] \in X /\ 1 \in DOMAIN heads /\ Head(heads) = heads[1]
  BY <1>4, <1>5
<1> QED BY <1>2, <1>3, <1>6

(* The destination parents of a commit are the images of its parents without
   those another contains, or the epoch parent where it has none. *)
LEMMA DestinationIs ==
    ASSUME AtWork, NEW c, IsNext(Source, track.source, Endpoint, mapping, c)
    PROVE  Destined(c)
<1>1. PICK ts \in Commits : ts = track.source
  BY DEF AtWork, IInv, Settled
<1>2. PICK E : E = Endpoint
  OBVIOUS
<1>3. /\ History /\ Settled(Source, content, track, published, images)
      /\ Running(Source, content, track, phase, candidates, pending, mapping, written, shown, watched)
  BY DEF AtWork, IInv
<1>4. E = candidates[1] /\ E \in Commits /\ E \notin Below(ts)
  BY <1>1, <1>2, <1>3, EndpointIs DEF Running, Endpoint
<1>5. /\ Position(Source, ts, track.destination, published, images)
      /\ Journal(Source, ts, track.destination, E, mapping, written)
  BY <1>1, <1>3, <1>4 DEF Running, Settled
<1>6. PICK R : R = Rest(Source, ts, E)
  OBVIOUS
<1>7. PICK g : g = Given(E)
  OBVIOUS
<1>8. /\ Nodes(g) = R /\ IsNumbered(g) /\ Above(g, ts) = {}
      /\ \A x \in R : Above(g, x) = ToSet(parents[x]) \cap R
  BY <1>1, <1>3, <1>4, <1>6, <1>7, GivenIs DEF Span, Rest, Below
<1>9. IsNumbered(Source) /\ Nodes(Source) = Commits /\ Source.parents = parents
  BY <1>3, SourceIs
<1>10. Grounded(Source, ts, track.destination, published, mapping, written)
  BY <1>4, <1>5, <1>9, WrittenIs
<1>11. PICK W : W = ToSet(written)
  OBVIOUS
<1>12. PICK S : S = ToSet(published) \cup W
  OBVIOUS
<1>13. IsObjects(written) /\ IsListed(Graph(written), S) /\ IsWalked(Graph(written), S)
       /\ Nodes(Graph(written)) = W
  BY <1>5, <1>10, <1>11, <1>12, ObjectsAre DEF Journal, Grounded, IsListed
<1>14. /\ c \in R /\ \A p \in Above(g, c) : p \in Above(Source, c) \cap R
       /\ \A p \in Above(Source, c) \cap R : p \in Above(g, c) /\ p \in DOMAIN mapping /\ mapping[p] \in W
  <2>1. c \in R /\ Above(Source, c) \cap R \subseteq DOMAIN mapping
    BY <1>1, <1>2, <1>6 DEF IsNext
  <2>2. Above(g, c) = ToSet(parents[c]) \cap R
    BY <1>8, <2>1
  <2>3. R \subseteq Commits
    <3>1. E \in Commits /\ ts \in Commits
      BY <1>1, <1>4
    <3> QED BY <1>3, <1>6, <3>1, BelowIs DEF Rest, Below
  <2>4. Above(Source, c) \cap R = Above(g, c)
    BY <1>9, <2>2, <2>3 DEF Above
  <2>5. \A p \in DOMAIN mapping : mapping[p] \in W
    BY <1>5, <1>11 DEF Journal
  <2> QED BY <2>1, <2>4, <2>5
<1>15. PICK mapped : mapped = MappedParents(g, c, mapping)
  OBVIOUS
<1>16. mapped \in Seq(W) /\ ToSet(mapped) = {mapping[p] : p \in Above(g, c)}
  <2>1. Above(g, c) \subseteq DOMAIN mapping /\ \A p \in Above(g, c) : mapping[p] \in W
    BY <1>14
  <2>2. IsWalked(g, Nat) /\ c \in Nodes(g)
    BY <1>8, <1>14 DEF IsNumbered
  <2> QED BY <1>15, <2>1, <2>2, MappedAre
<1>17. PICK apart : apart = IF Len(mapped) > 1 THEN DedupeParents(Graph(written), mapped) ELSE mapped
  OBVIOUS
<1>18. apart \in Seq(W) /\ \A m \in ToSet(mapped) : \E d \in ToSet(apart) : m \in Ancestors(Graph(written), d)
  <2>1. ToSet(mapped) \subseteq Nodes(Graph(written))
    BY <1>13, <1>14, <1>16
  <2>2. CASE Len(mapped) > 1
    BY <1>13, <1>16, <1>17, <2>1, <2>2, DedupeCovers
  <2>3. CASE ~(Len(mapped) > 1)
    <3>1. \A m \in ToSet(mapped) : m \in Ancestors(Graph(written), m)
      BY <1>13, <2>1, AncestorsAre
    <3> QED BY <1>16, <1>17, <2>3, <3>1
  <2> QED BY <2>2, <2>3
<1>19. PICK base : base = Base
  OBVIOUS
<1>20. base = track.destination /\ base \in W /\ <<base>> \in Seq(W) /\ <<base>> # <<>>
  <2>1. written # <<>> /\ written[1] = track.destination /\ written \in Seq(W)
    BY <1>5, <1>11 DEF Journal, IsObjects
  <2>2. base = written[1] /\ written[1] \in W
    BY <1>11, <1>19, <2>1 DEF Base
  <2> QED BY <2>1, <2>2
<1>21. PICK dp : dp = DestinationParents(c)
  OBVIOUS
<1>22. dp = IF apart = <<>> THEN <<base>> ELSE apart
  BY <1>2, <1>7, <1>15, <1>17, <1>19, <1>21 DEF DestinationParents
<1>23. dp \in Seq(W) /\ dp # <<>>
  BY <1>18, <1>20, <1>22
<1>24. ASSUME c = ts PROVE dp = <<track.destination>>
  <2>1. ToSet(mapped) = {}
    BY <1>8, <1>16, <1>24
  <2>2. mapped = <<>> /\ ~(Len(mapped) > 1)
    <3>1. Len(mapped) \in Nat /\ DOMAIN mapped = 1..Len(mapped) /\ ToSet(mapped) = {mapped[i] : i \in DOMAIN mapped}
      BY <1>16 DEF ToSet
    <3>2. Len(mapped) = 0
      <4>1. SUFFICES ASSUME Len(mapped) # 0 PROVE FALSE
        OBVIOUS
      <4>2. 1 \in DOMAIN mapped
        BY <3>1, <4>1
      <4> QED BY <2>1, <3>1, <4>2
    <3> QED BY <1>16, <3>1, <3>2
  <2> QED BY <1>17, <1>20, <1>22, <2>2
<1>25. ASSUME NEW p \in Above(Source, c) \cap R
       PROVE  \E d \in ToSet(dp) : mapping[p] \in Ancestors(Graph(written), d)
  <2>1. mapping[p] \in ToSet(mapped)
    BY <1>14, <1>16
  <2>2. PICK d \in ToSet(apart) : mapping[p] \in Ancestors(Graph(written), d)
    BY <1>18, <2>1
  <2>3. apart # <<>>
    <3>1. ToSet(<<>>) = {}
      BY DEF ToSet
    <3> QED BY <2>2, <3>1
  <2> QED BY <1>22, <2>2, <2>3
<1> QED BY <1>1, <1>2, <1>6, <1>11, <1>21, <1>23, <1>24, <1>25 DEF Destined

-----------------------------------------------------------------------------
(* One source commit is replayed. *)

LEMMA AtWorkIs ==
    ASSUME AtWork
    PROVE  /\ History /\ Settled(Source, content, track, published, images)
           /\ Running(Source, content, track, phase, candidates, pending, mapping, written, shown, watched)
           /\ track.source \in Commits /\ Endpoint = candidates[1]
           /\ Endpoint \in Commits /\ Endpoint \in Line(N)
           /\ Endpoint \notin Below(track.source) /\ track.source \in Below(Endpoint)
           /\ IsNext(Source, track.source, Endpoint, mapping, Head(pending))
           /\ Head(pending) \in Commits /\ DOMAIN shown = DOMAIN mapping
           /\ Base = track.destination /\ Base.tree \in Commits
<1>1. PICK ts \in Commits : ts = track.source
  BY DEF AtWork, IInv, Settled
<1>2. PICK E : E = Endpoint
  OBVIOUS
<1>3. /\ History /\ Settled(Source, content, track, published, images)
      /\ Running(Source, content, track, phase, candidates, pending, mapping, written, shown, watched)
  BY DEF AtWork, IInv
<1>4. E = candidates[1] /\ E \in Commits /\ E \in Line(N) /\ E \notin Below(ts)
  BY <1>1, <1>2, <1>3, EndpointIs DEF Running, Endpoint
<1>5. ts \in Below(E)
  BY <1>1, <1>3, <1>4 DEF Running, Below
<1>6. PICK c : c = Head(pending)
  OBVIOUS
<1>7. IsNext(Source, ts, E, mapping, c)
  BY <1>1, <1>3, <1>4, <1>6, QueueStep DEF Running, AtWork
<1>8. c \in Commits
  <2>1. Below(E) \subseteq Commits
    BY <1>3, <1>4, BelowIs
  <2> QED BY <1>1, <1>7, <2>1 DEF IsNext, Rest, Below
<1>9. Base = track.destination
  <2>1. written # <<>> /\ written[1] = track.destination /\ written \in Seq(ToSet(written))
    BY <1>3 DEF Running, Journal, IsObjects
  <2> QED BY <2>1 DEF Base
<1>10. DOMAIN shown = DOMAIN mapping
  BY <1>3 DEF Running, AtWork
<1>11. Base.tree \in Commits
  BY <1>3, <1>9 DEF Settled
<1> QED BY <1>1, <1>2, <1>3, <1>4, <1>5, <1>6, <1>7, <1>8, <1>9, <1>10, <1>11

(* The published position shows itself, and it is neither generated, written
   nor contradicted; the release is always generated and kept. *)
LEMMA StartCollapses ==
    ASSUME AtWork, Head(pending) = track.source
    PROVE  /\ Collapses(Head(pending)) /\ ~Contradicts(Head(pending))
           /\ Transformed(Head(pending)) = Base.tree /\ Head(pending) # N
<1>1. PICK c : c = Head(pending)
  OBVIOUS
<1>2. PICK dp : dp = DestinationParents(c)
  OBVIOUS
<1>3. dp = <<Base>>
  BY <1>1, <1>2, AtWorkIs, DestinationIs DEF Destined
<1>4. Len(dp) = 1 /\ dp[1] = Base
  BY <1>3
<1>5. Transformed(c) = Base.tree /\ ~IsGenerated(c)
  BY <1>1 DEF Transformed, IsGenerated
<1>6. ~IsMerge(c) /\ Unchanged(c) /\ ~Forced(c) /\ ~Changed(c)
  BY <1>2, <1>4, <1>5 DEF IsMerge, Unchanged, Forced, Changed
<1>7. c # N
  <2>1. Endpoint \in Line(N) /\ Endpoint \notin Below(track.source)
    BY AtWorkIs
  <2>2. N \in Commits /\ IsNumbered(Source) /\ Nodes(Source) = Commits
    BY AtWorkIs, SourceIs
  <2>3. Line(N) \subseteq Below(N)
    BY <2>2, LineUnfolds DEF Line, Below
  <2> QED BY <1>1, <2>1, <2>3
<1> QED BY <1>1, <1>5, <1>6, <1>7 DEF Collapses, Contradicts

(* Its image is its one destination parent, or a commit on all of them. *)
LEMMA ImageIs ==
    ASSUME AtWork, NEW c, c = Head(pending)
    PROVE  /\ ImageOf(c).tree = Transformed(c)
           /\ \/ /\ Collapses(c) /\ Len(DestinationParents(c)) = 1
                 /\ ImageOf(c) = DestinationParents(c)[1]
              \/ /\ ~Collapses(c) /\ c # track.source
                 /\ ImageOf(c).source = c /\ ImageOf(c).parents = DestinationParents(c)
<1>1. PICK dp : dp = DestinationParents(c)
  OBVIOUS
<1>2. dp \in Seq(ToSet(written)) /\ dp # <<>>
  BY <1>1, AtWorkIs, DestinationIs DEF Destined
<1>3. CASE Collapses(c)
  <2>1. ~IsMerge(c) /\ Unchanged(c)
    BY <1>3 DEF Collapses
  <2>2. Len(dp) \in Nat /\ Len(dp) # 0 /\ ~(Len(dp) > 1)
    BY <1>1, <1>2, <2>1 DEF IsMerge
  <2>3. Len(dp) = 1
    BY <2>2
  <2>4. ImageOf(c) = dp[1] /\ Transformed(c) = dp[1].tree
    BY <1>1, <1>3, <2>1 DEF ImageOf, Unchanged
  <2> QED BY <1>1, <1>3, <2>3, <2>4
<1>4. CASE ~Collapses(c)
  <2>1. c # track.source
    BY <1>4, StartCollapses
  <2>2. ImageOf(c) = [source |-> c, tree |-> Transformed(c), parents |-> dp]
    BY <1>1, <1>4 DEF ImageOf
  <2> QED BY <1>1, <1>4, <2>1, <2>2
<1> QED BY <1>3, <1>4

(* Where no watched path changed, the module of a commit is that of its first
   parent. *)
LEMMA SameModule ==
    ASSUME History, NEW c \in Commits, NEW p \in Commits, p < c, FirstParent(c) = {p},
           ChangedPaths(c) \cap watched = {}, Closure(content[p]) \subseteq watched
    PROVE  ModuleOf(content, c) = ModuleOf(content, p)
<1>1. PICK h \in Histories : content = h.content
  BY DEF History
<1>2. c \in 0..N /\ p \in 0..N
  BY SourceAssumption DEF Commits
<1>3. /\ DOMAIN content[p] = DOMAIN content[c]
      /\ Closure(content[p]) \subseteq DOMAIN content[p]
      /\ (\A path \in Closure(content[p]) : content[p][path] = content[c][path]) =>
            Closure(content[c]) = Closure(content[p])
  BY <1>1, <1>2, ClosureAssumption
<1>4. \A path \in Closure(content[p]) : content[p][path] = content[c][path]
  BY <1>3 DEF ChangedPaths
<1>5. PICK shared : shared = Closure(content[p])
  OBVIOUS
<1>6. Closure(content[c]) = shared /\ \A path \in shared : content[p][path] = content[c][path]
  BY <1>3, <1>4, <1>5
<1>7. [path \in shared |-> content[c][path]] = [path \in shared |-> content[p][path]]
  BY <1>6
<1> QED BY <1>5, <1>6, <1>7 DEF ModuleOf

(* A commit on a line back to where the run began is there, or its first
   parent is on the line and already replayed. *)
LEMMA LineContinues ==
    ASSUME AtWork, NEW c, c = Head(pending), c # track.source,
           Anchor \in LineOf(Source, c), track.source \in LineOf(Source, c)
    PROVE  \E p \in Commits :
             /\ p < c /\ FirstParent(c) = {p} /\ p = Head(parents[c])
             /\ p \in DOMAIN mapping
             /\ Anchor \in LineOf(Source, p) /\ track.source \in LineOf(Source, p)
<1>1. PICK ts \in Commits : ts = track.source
  BY AtWorkIs
<1>2. PICK E \in Commits : E = Endpoint
  BY AtWorkIs
<1>3. /\ IsNumbered(Source) /\ Nodes(Source) = Commits /\ Source.parents = parents
      /\ c \in Commits /\ Commits \subseteq Nat
  BY AtWorkIs, SourceIs
<1>4. IsNext(Source, ts, E, mapping, c)
  BY <1>1, <1>2, AtWorkIs
<1>5. c \in Below(E) /\ c \notin Below(ts)
  BY <1>1, <1>4 DEF IsNext, Rest, Below
<1>6. c # Anchor
  <2>1. Anchor \in Below(ts)
    BY <1>1, AtWorkIs DEF Settled, Below
  <2> QED BY <1>5, <2>1
<1>7. PICK p \in Before(Source, c) : Anchor \in LineOf(Source, p)
  BY <1>3, <1>6, LineUnfolds DEF LineOf
<1>8. p = Head(parents[c]) /\ p \in Commits /\ parents[c] # <<>> /\ Before(Source, c) = {p}
  BY <1>3, <1>7 DEF Before
<1>9. FirstParent(c) = {p}
  BY <1>8 DEF FirstParent
<1>10. ts \in LineOf(Source, p)
  BY <1>1, <1>3, <1>8, LineUnfolds DEF LineOf
<1>11. p \in Above(Source, c)
  BY <1>3, <1>7, LineUnfolds
<1>12. p < c
  BY <1>3, <1>11 DEF IsNumbered
<1>13. ts \in Below(p)
  BY <1>3, <1>8, <1>10, LineUnfolds DEF LineOf, Below
<1>14. p \in Rest(Source, ts, E)
  <2>1. p \in Below(E)
    BY <1>2, <1>5, <1>11, AtWorkIs, BelowIs DEF Closed
  <2>2. p \in Below(ts) => p = ts
    BY <1>1, <1>8, <1>13, AtWorkIs, BelowIs
  <2> QED BY <2>1, <2>2 DEF Rest, Below
<1>15. p \in DOMAIN mapping
  BY <1>4, <1>11, <1>14 DEF IsNext
<1> QED BY <1>1, <1>7, <1>8, <1>9, <1>10, <1>12, <1>15

(* What the transform shows of a commit. *)
ShowsNext(c, tree, seen) ==
    /\ tree \in Commits /\ (c = N => tree = N)
    /\ {Anchor, track.source} \subseteq LineOf(Source, c) =>
        /\ ModuleOf(content, tree) = ModuleOf(content, c)
        /\ Closure(content[tree]) \subseteq seen

LEMMA SameClosure ==
    ASSUME NEW trees, NEW c, NEW d, ModuleOf(trees, c) = ModuleOf(trees, d)
    PROVE  Closure(trees[c]) = Closure(trees[d])
<1>1. DOMAIN ModuleOf(trees, c) = Closure(trees[c]) /\ DOMAIN ModuleOf(trees, d) = Closure(trees[d])
  BY DEF ModuleOf
<1> QED BY <1>1

LEMMA TransformShows ==
    ASSUME AtWork, NEW c, c = Head(pending), NEW seen,
           seen = IF IsGenerated(c) THEN watched \cup Closure(content[c]) ELSE watched
    PROVE  ShowsNext(c, Transformed(c), seen)
<1>1. PICK ts \in Commits : ts = track.source
  BY AtWorkIs
<1>2. PICK tree : tree = Transformed(c)
  OBVIOUS
<1>3. /\ Shows(Source, content, ts, mapping, shown, watched)
      /\ Settled(Source, content, track, published, images) /\ c \in Commits /\ Base = track.destination
      /\ Base.tree \in Commits /\ DOMAIN shown = DOMAIN mapping /\ History
  BY <1>1, AtWorkIs DEF Running
<1>4. CASE c = ts
  <2>1. tree = Base.tree /\ c # N
    BY <1>1, <1>2, <1>4, StartCollapses
  <2>2. ASSUME Anchor \in LineOf(Source, c)
        PROVE  ModuleOf(content, tree) = ModuleOf(content, c)
    BY <1>1, <1>3, <1>4, <2>1, <2>2 DEF Settled
  <2>3. Closure(content[ts]) \subseteq seen
    BY <1>3 DEF Shows
  <2>4. ASSUME Anchor \in LineOf(Source, c)
        PROVE  Closure(content[tree]) \subseteq seen
    BY <1>4, <2>2, <2>3, <2>4, SameClosure
  <2> QED BY <1>2, <1>3, <2>1, <2>2, <2>4 DEF ShowsNext
<1>5. CASE c # ts /\ Relevant(c)
  <2>1. tree = c /\ IsGenerated(c)
    BY <1>1, <1>2, <1>5 DEF Transformed, IsGenerated
  <2>2. Closure(content[c]) \subseteq seen
    BY <2>1
  <2> QED BY <1>2, <1>3, <2>1, <2>2 DEF ShowsNext
<1>6. CASE c # ts /\ ~Relevant(c)
  <2>1. tree = ShownBelow(c) /\ c # N /\ ChangedPaths(c) \cap watched = {} /\ seen = watched
    BY <1>1, <1>2, <1>6 DEF Transformed, Relevant, IsGenerated
  <2>2. tree \in Commits
    <3>1. CASE FirstParent(c) \cap DOMAIN shown = {}
      BY <1>3, <2>1, <3>1 DEF ShownBelow
    <3>2. CASE FirstParent(c) \cap DOMAIN shown # {}
      <4>1. tree = shown[Head(parents[c])]
        BY <2>1, <3>2 DEF ShownBelow
      <4>2. Head(parents[c]) \in DOMAIN mapping
        BY <1>3, <3>2 DEF FirstParent
      <4> QED BY <1>3, <4>1, <4>2 DEF Shows
    <3> QED BY <3>1, <3>2
  <2>3. ASSUME Anchor \in LineOf(Source, c), ts \in LineOf(Source, c)
        PROVE  /\ ModuleOf(content, tree) = ModuleOf(content, c)
               /\ Closure(content[tree]) \subseteq watched
    <3>1. PICK p \in Commits :
             /\ p < c /\ FirstParent(c) = {p} /\ p = Head(parents[c])
             /\ p \in DOMAIN mapping
             /\ Anchor \in LineOf(Source, p) /\ ts \in LineOf(Source, p)
      BY <1>1, <1>6, <2>3, LineContinues
    <3>2. tree = shown[p]
      BY <1>3, <2>1, <3>1 DEF ShownBelow
    <3>3. /\ ModuleOf(content, tree) = ModuleOf(content, p)
          /\ Closure(content[tree]) \subseteq watched
      BY <1>3, <3>1, <3>2 DEF Shows
    <3>4. Closure(content[p]) \subseteq watched
      BY <3>3, SameClosure
    <3>5. ModuleOf(content, c) = ModuleOf(content, p)
      BY <1>3, <2>1, <3>1, <3>4, SameModule
    <3> QED BY <3>3, <3>5
  <2> QED BY <1>1, <1>2, <2>1, <2>2, <2>3 DEF ShowsNext
<1> QED BY <1>4, <1>5, <1>6

(* What it shows is kept beside what was shown before, image or none. *)
LEMMA ShowsStep ==
    ASSUME AtWork, NEW c, c = Head(pending), NEW tree, NEW seen, ShowsNext(c, tree, seen),
           watched \subseteq seen, NEW image, image.tree = tree
    PROVE  /\ Shows(Source, content, track.source, mapping, With(shown, c, tree), seen)
           /\ Shows(Source, content, track.source, With(mapping, c, image), With(shown, c, tree), seen)
           /\ DOMAIN With(shown, c, tree) = DOMAIN With(mapping, c, image)
<1>1. PICK ts : ts = track.source
  OBVIOUS
<1>2. /\ Shows(Source, content, ts, mapping, shown, watched)
      /\ c \in Commits /\ c \notin DOMAIN mapping /\ DOMAIN shown = DOMAIN mapping
  BY <1>1, AtWorkIs DEF Running, IsNext
<1>3. PICK sh : sh = With(shown, c, tree)
  OBVIOUS
<1>4. PICK map : map = With(mapping, c, image)
  OBVIOUS
<1>5. /\ DOMAIN sh = DOMAIN shown \cup {c} /\ sh[c] = tree
      /\ \A x \in DOMAIN shown : x # c => sh[x] = shown[x]
  BY <1>3 DEF With, Over
<1>6. /\ DOMAIN map = DOMAIN mapping \cup {c} /\ map[c] = image
      /\ \A x \in DOMAIN mapping : x # c => map[x] = mapping[x]
  BY <1>4 DEF With, Over
<1>7. Shows(Source, content, ts, mapping, sh, seen)
  <2>1. DOMAIN mapping \subseteq DOMAIN sh /\ DOMAIN sh \subseteq Commits
    BY <1>2, <1>5 DEF Shows
  <2>2. Closure(content[ts]) \subseteq seen
    BY <1>2 DEF Shows
  <2>3. \A x \in DOMAIN mapping : sh[x] = shown[x]
    BY <1>2, <1>5
  <2> QED BY <1>2, <2>1, <2>2, <2>3 DEF Shows
<1>8. Shows(Source, content, ts, map, sh, seen)
  <2>1. DOMAIN map \subseteq DOMAIN sh /\ DOMAIN sh \subseteq Commits
    BY <1>2, <1>5, <1>6 DEF Shows
  <2>2. Closure(content[ts]) \subseteq seen
    BY <1>7 DEF Shows
  <2>3. \A x \in DOMAIN mapping : map[x] = mapping[x]
    BY <1>2, <1>6
  <2>4. ASSUME NEW x \in DOMAIN map
        PROVE  /\ sh[x] \in Commits /\ map[x].tree = sh[x]
               /\ x = N => sh[x] = N
               /\ {Anchor, ts} \subseteq LineOf(Source, x) =>
                    /\ ModuleOf(content, sh[x]) = ModuleOf(content, x)
                    /\ Closure(content[sh[x]]) \subseteq seen
    <3>1. CASE x = c
      BY <1>1, <1>5, <1>6, <3>1 DEF ShowsNext
    <3>2. CASE x # c
      <4>1. x \in DOMAIN mapping
        BY <1>6, <3>2
      <4> QED BY <1>7, <2>3, <4>1 DEF Shows
    <3> QED BY <3>1, <3>2
  <2> QED BY <2>1, <2>2, <2>4 DEF Shows
<1> QED BY <1>1, <1>2, <1>3, <1>4, <1>5, <1>6, <1>7, <1>8

-----------------------------------------------------------------------------
(* The invariant over each action. *)

LEMMA SourceStays ==
    ASSUME UNCHANGED source
    PROVE  parents' = parents /\ content' = content /\ Source' = Source /\ (History => History')
<1>1. parents' = parents /\ content' = content
  BY DEF source
<1>2. Source' = Source
  BY <1>1 DEF Source
<1>3. History => History'
  BY <1>1 DEF History
<1> QED BY <1>1, <1>2, <1>3

LEMMA SettledStays ==
    ASSUME IInv, UNCHANGED <<source, position>>
    PROVE  /\ parents' = parents /\ content' = content /\ Source' = Source /\ track' = track
           /\ published' = published /\ images' = images
           /\ History' /\ Settled(Source, content, track, published, images)'
<1>1. parents' = parents /\ content' = content /\ Source' = Source /\ History'
  BY SourceStays DEF IInv
<1>2. track' = track /\ published' = published /\ images' = images
  BY DEF position
<1>3. Settled(Source, content, track, published, images)
  BY DEF IInv
<1> QED BY <1>1, <1>2, <1>3

LEMMA ShorterCandidates ==
    ASSUME NEW g, NEW heads, NEW ts, AreCandidates(g, heads, ts), heads[1] # N
    PROVE  AreCandidates(g, Tail(heads), ts)
<1>1. PICK X : X = ToSet(FirstParentLine(g, N)) \ Ancestors(g, ts)
  OBVIOUS
<1>2. heads \in Seq(X) /\ heads # <<>> /\ heads[Len(heads)] = N
  BY <1>1 DEF AreCandidates
<1>3. Len(heads) \in Nat /\ Len(heads) > 0 /\ Len(heads) # 1
  BY <1>2
<1>4. PICK rest : rest = Tail(heads)
  OBVIOUS
<1>5. rest \in Seq(X) /\ Len(rest) = Len(heads) - 1 /\ \A i \in 1..(Len(heads) - 1) : rest[i] = heads[i + 1]
  BY <1>2, <1>4
<1>6. Len(rest) \in 1..(Len(heads) - 1) /\ Len(rest) + 1 = Len(heads) /\ Len(rest) > 0
  BY <1>3, <1>5
<1>7. rest[Len(rest)] = N /\ rest # <<>>
  BY <1>2, <1>5, <1>6
<1> QED BY <1>1, <1>4, <1>5, <1>7 DEF AreCandidates

LEMMA ProjectKeeps ==
    ASSUME IInv, NEW heads, AreCandidates(Source, heads, track.source), Project(heads),
           UNCHANGED <<source, position, lost>>
    PROVE  IInv'
<1>1. PICK ts \in Commits : ts = track.source
  BY DEF IInv, Settled
<1>2. PICK E : E = Head(heads)
  OBVIOUS
<1>3. History /\ Settled(Source, content, track, published, images)
      /\ Position(Source, ts, track.destination, published, images)
  BY <1>1 DEF IInv, Settled
<1>4. E = heads[1] /\ E \in Commits /\ E \notin Below(ts)
  BY <1>1, <1>2, <1>3, EndpointIs
<1>5. /\ content' = content /\ Source' = Source /\ track' = track
      /\ History' /\ Settled(Source, content, track, published, images)'
  BY SettledStays
<1>6. /\ candidates' = heads /\ mapping' = <<>> /\ shown' = <<>> /\ written' = <<track.destination>>
      /\ phase' = IF AnchorIsValid(Source, ts, {E}) THEN "replaying" ELSE "refused"
      /\ pending' = RangeOf(Given(E), ts, {E})
      /\ watched' = Profile \cup Closure(content[ts])
  BY <1>1, <1>2 DEF Project
<1>7. lost' \in 0..MaxLost
  BY DEF IInv
<1>8. CASE AnchorIsValid(Source, ts, {E})
  <2>1. phase' = "replaying"
    BY <1>6, <1>8
  <2>2. ts \in Ancestors(Source, E)
    BY <1>8 DEF AnchorIsValid, IsAncestor
  <2>3. Journal(Source, ts, track.destination, E, mapping', written')
    BY <1>3, <1>6, JournalStarts
  <2>4. Queue(Source, ts, E, mapping', pending')
    BY <1>1, <1>3, <1>4, <1>6, <2>2, QueueStarts DEF Below
  <2>5. DOMAIN mapping' = {} /\ DOMAIN shown' = {}
    BY <1>6
  <2>6. Shows(Source, content, ts, mapping', shown', watched')
    BY <1>6, <2>5 DEF Shows
  <2>7. Running(Source', content', track', phase', candidates', pending', mapping', written', shown', watched')
    BY <1>1, <1>4, <1>5, <1>6, <2>2, <2>3, <2>4, <2>5, <2>6 DEF Running
  <2> QED BY <1>5, <1>7, <2>1, <2>7 DEF IInv
<1>9. CASE ~AnchorIsValid(Source, ts, {E})
  <2>1. phase' = "refused"
    BY <1>6, <1>9
  <2>2. Resting(Source', track', phase', candidates', mapping', written', shown')
    BY <1>5, <1>6, <2>1 DEF Resting
  <2> QED BY <1>5, <1>7, <2>1, <2>2 DEF IInv
<1> QED BY <1>8, <1>9

LEMMA BeginKeeps ==
    ASSUME IInv, NEW size \in Sizes, Begin(size)
    PROVE  IInv'
<1>1. PICK ts \in Commits : ts = track.source
  BY DEF IInv, Settled
<1>2. History /\ ts # N /\ (ts = Anchor \/ ts \in Line(N))
  BY <1>1 DEF IInv, Settled, Begin, LineOf, Line
<1>3. IsNumbered(Source) /\ Nodes(Source) = Commits /\ N \in Commits /\ N > 1 /\ Commits \subseteq Nat
  BY <1>2, SourceIs
<1>4. N \notin Below(ts)
  <2>1. CASE ts = Anchor
    BY <1>2, <1>3, <2>1, BelowIs DEF Anchor
  <2>2. CASE ts \in Line(N)
    <3>1. ts \in Below(N)
      BY <1>3, <2>2, LineUnfolds DEF Line, Below
    <3> QED BY <1>2, <1>3, <3>1, BelowIs
  <2> QED BY <1>2, <2>1, <2>2
<1>5. AreCandidates(Source, Candidates(ts, size), ts)
  BY <1>2, <1>4, CandidatesAre
<1>6. Project(Candidates(ts, size)) /\ UNCHANGED <<source, position, lost>>
  BY <1>1 DEF Begin
<1> QED BY <1>1, <1>5, <1>6, ProjectKeeps

LEMMA NextCandidateKeeps ==
    ASSUME IInv, NextCandidate
    PROVE  IInv'
<1>1. PICK ts \in Commits : ts = track.source
  BY DEF IInv, Settled
<1>2. History /\ AreCandidates(Source, candidates, ts)
  BY <1>1 DEF IInv, NextCandidate, Running
<1>3. Endpoint = candidates[1] /\ Endpoint # N
  BY <1>2, EndpointIs DEF NextCandidate, EndsHere, Endpoint
<1>4. AreCandidates(Source, Tail(candidates), ts)
  BY <1>2, <1>3, ShorterCandidates
<1>5. Project(Tail(candidates)) /\ UNCHANGED <<source, position, lost>>
  BY DEF NextCandidate
<1> QED BY <1>1, <1>4, <1>5, ProjectKeeps

LEMMA StepKeeps ==
    ASSUME IInv, Step
    PROVE  IInv'
<1>1. AtWork
  BY DEF AtWork, Step
<1>2. PICK c : c = Head(pending)
  OBVIOUS
<1>3. PICK ts \in Commits : ts = track.source
  BY DEF IInv, Settled
<1>4. PICK E \in Commits : E = Endpoint
  BY <1>1, AtWorkIs
<1>5. /\ History /\ Settled(Source, content, track, published, images)
      /\ Running(Source, content, track, phase, candidates, pending, mapping, written, shown, watched)
      /\ E = candidates[1] /\ IsNext(Source, ts, E, mapping, c)
  BY <1>1, <1>2, <1>3, <1>4, AtWorkIs
<1>6. /\ content' = content /\ Source' = Source /\ track' = track
      /\ History' /\ Settled(Source, content, track, published, images)'
  BY SettledStays DEF Step
<1>7. /\ candidates' = candidates /\ lost' \in 0..MaxLost
      /\ shown' = With(shown, c, Transformed(c))
      /\ watched' = IF IsGenerated(c) THEN watched \cup Closure(content[c]) ELSE watched
  BY <1>2 DEF Step, IInv
<1>8. ShowsNext(c, Transformed(c), watched') /\ watched \subseteq watched'
  BY <1>1, <1>2, <1>7, TransformShows
<1>9. /\ Shows(Source, content, ts, mapping, shown', watched')
      /\ Shows(Source, content, ts, With(mapping, c, ImageOf(c)), shown', watched')
      /\ DOMAIN shown' = DOMAIN With(mapping, c, ImageOf(c))
  BY <1>1, <1>2, <1>3, <1>7, <1>8, ImageIs, ShowsStep
<1>10. /\ AreCandidates(Source, candidates, ts) /\ ts \in Ancestors(Source, E)
       /\ Journal(Source, ts, track.destination, E, mapping, written)
       /\ Queue(Source, ts, E, mapping, pending)
  BY <1>3, <1>5 DEF Running
<1>11. CASE Contradicts(c)
  <2>1. phase' = "contradicted" /\ pending' = pending /\ mapping' = mapping /\ written' = written
    BY <1>2, <1>11 DEF Step
  <2>2. Running(Source', content', track', phase', candidates', pending', mapping', written', shown', watched')
    BY <1>3, <1>5, <1>6, <1>7, <1>9, <1>10, <2>1 DEF Running
  <2> QED BY <1>6, <1>7, <2>1, <2>2 DEF IInv
<1>12. CASE ~Contradicts(c)
  <2>1. /\ phase' = "replaying" /\ pending' = Tail(pending)
        /\ mapping' = With(mapping, c, ImageOf(c))
        /\ written' = IF Collapses(c) THEN written ELSE Append(written, ImageOf(c))
    BY <1>2, <1>12 DEF Step
  <2>2. PICK dp : dp = DestinationParents(c)
    OBVIOUS
  <2>3. PICK image : image = ImageOf(c)
    OBVIOUS
  <2>4. PICK new : new = written'
    OBVIOUS
  <2>5. /\ dp \in Seq(ToSet(written)) /\ dp # <<>>
        /\ c = ts => dp = <<track.destination>>
        /\ \A p \in Above(Source, c) \cap Rest(Source, ts, E) :
            \E d \in ToSet(dp) : mapping[p] \in Ancestors(Graph(written), d)
    BY <1>1, <1>3, <1>4, <1>5, <2>2, DestinationIs DEF Destined
  <2>6. \/ Len(dp) = 1 /\ image = dp[1] /\ new = written
        \/ c # ts /\ new = Append(written, image) /\ image.source = c /\ image.parents = dp
    BY <1>1, <1>2, <1>3, <2>1, <2>2, <2>3, <2>4, ImageIs
  <2>7. IsNumbered(Source) /\ E \in Nodes(Source) /\ Position(Source, ts, track.destination, published, images)
    BY <1>3, <1>4, <1>5, SourceIs DEF Settled
  <2>8. /\ c \in Rest(Source, ts, E) /\ c \notin DOMAIN mapping
        /\ Above(Source, c) \cap Rest(Source, ts, E) \subseteq DOMAIN mapping
        /\ c = ts \/ ts \in DOMAIN mapping
    BY <1>5 DEF IsNext
  <2>9. Journal(Source, ts, track.destination, E, With(mapping, c, image), new)
    BY <1>10, <2>5, <2>6, <2>7, <2>8, JournalStep
  <2>10. Queue(Source, ts, E, mapping', pending')
    BY <1>1, <1>2, <1>10, <2>1, QueueStep DEF AtWork
  <2>11. Running(Source', content', track', phase', candidates', pending', mapping', written', shown', watched')
    BY <1>3, <1>5, <1>6, <1>7, <1>9, <1>10, <2>1, <2>3, <2>4, <2>9, <2>10 DEF Running
  <2> QED BY <1>6, <1>7, <2>1, <2>11 DEF IInv
<1> QED BY <1>11, <1>12

(* Counting along a line: what is above one commit and below another adds up. *)
LEMMA ApartAdds ==
    ASSUME History, NEW a \in Commits, NEW b \in Commits, NEW c \in Commits,
           a \in Below(b), b \in Below(c)
    PROVE  /\ Apart(Source, a, c) = Apart(Source, a, b) + Apart(Source, b, c)
           /\ Apart(Source, a, b) \in Nat /\ Apart(Source, b, c) \in Nat
<1>1. PICK X : X = Commits \cap (Below(b) \ Below(a))
  OBVIOUS
<1>2. PICK Y : Y = Commits \cap (Below(c) \ Below(b))
  OBVIOUS
<1>3. PICK Z : Z = Commits \cap (Below(c) \ Below(a))
  OBVIOUS
<1>4. IsFiniteSet(X) /\ IsFiniteSet(Y)
  BY <1>1, <1>2, BetweenIs
<1>5. Below(a) \subseteq Below(b) /\ Below(b) \subseteq Below(c)
  BY BelowIs
<1>6. Z = X \cup Y /\ X \cap Y = {}
  BY <1>1, <1>2, <1>3, <1>5
<1>7. Cardinality(X) \in Nat /\ Cardinality(Y) \in Nat
  BY <1>4, FS_CardinalityType
<1>8. Cardinality(X \cup Y) = Cardinality(X) + Cardinality(Y) - Cardinality(X \cap Y)
  BY <1>4, FS_Union
<1>9. Cardinality(X \cap Y) = 0
  BY <1>6, FS_EmptySet
<1>10. Cardinality(Z) = Cardinality(X) + Cardinality(Y)
  BY <1>6, <1>7, <1>8, <1>9
<1> QED BY <1>1, <1>2, <1>3, <1>7, <1>10 DEF Apart, Below

LEMMA RestCounts ==
    ASSUME History, NEW ts \in Commits, NEW head \in Commits
    PROVE  /\ Cardinality(Rest(Source, ts, head)) = Apart(Source, ts, head) + 1
           /\ Apart(Source, ts, head) \in Nat
<1>1. PICK Y : Y = Commits \cap (Below(head) \ Below(ts))
  OBVIOUS
<1>2. IsFiniteSet(Y)
  BY <1>1, BetweenIs
<1>3. Below(head) \subseteq Commits /\ ts \in Below(ts)
  BY BelowIs
<1>4. Rest(Source, ts, head) = Y \cup {ts} /\ ts \notin Y
  BY <1>1, <1>3 DEF Rest, Below
<1>5. Cardinality(Y \cup {ts}) = Cardinality(Y) + 1 /\ Cardinality(Y) \in Nat
  BY <1>2, <1>4, FS_AddElement, FS_CardinalityType
<1> QED BY <1>1, <1>4, <1>5 DEF Apart, Below

(* A checkpoint: everything up to its endpoint has an image. *)
LEMMA CheckpointIs ==
    ASSUME IInv, Checkpoint
    PROVE  /\ History /\ Settled(Source, content, track, published, images)
           /\ track.source \in Commits /\ Endpoint \in Commits /\ Endpoint \in LineOf(Source, N)
           /\ track.source \in Below(Endpoint) /\ Endpoint \notin Below(track.source)
           /\ Journal(Source, track.source, track.destination, Endpoint, mapping, written)
           /\ DOMAIN mapping = Rest(Source, track.source, Endpoint) /\ Endpoint \in DOMAIN mapping
           /\ DOMAIN shown = DOMAIN mapping
           /\ Shows(Source, content, track.source, mapping, shown, watched)
           /\ \/ track.source = Anchor
              \/ track.source \in LineOf(Source, Endpoint)
           /\ Settled(Source, content, track', published', images')
           /\ track.destination \in Ancestors(Graph(published'), track'.destination)
           /\ ToSet(published) \subseteq ToSet(published')
           /\ \A c \in DOMAIN images : images'[c] = images[c]
<1>1. PICK ts \in Commits : ts = track.source
  BY DEF IInv, Settled
<1>2. PICK E : E = Endpoint
  OBVIOUS
<1>3. /\ History /\ Settled(Source, content, track, published, images)
      /\ Running(Source, content, track, "replaying", candidates, pending, mapping, written, shown, watched)
      /\ pending = <<>>
  BY DEF IInv, Checkpoint
<1>4. E = candidates[1] /\ E \in Commits /\ E \in Line(N) /\ E \notin Below(ts)
  BY <1>1, <1>2, <1>3, EndpointIs DEF Running, Endpoint
<1>5. /\ ts \in Below(E)
      /\ Journal(Source, ts, track.destination, E, mapping, written)
      /\ Queue(Source, ts, E, mapping, pending)
      /\ Shows(Source, content, ts, mapping, shown, watched) /\ DOMAIN shown = DOMAIN mapping
  BY <1>1, <1>3, <1>4 DEF Running, Below
<1>6. DOMAIN mapping = Rest(Source, ts, E)
  <2>1. ToSet(<<>>) = {}
    BY DEF ToSet
  <2> QED BY <1>3, <1>5, <2>1 DEF Queue
<1>7. E \in DOMAIN mapping /\ ts \in DOMAIN mapping
  <2>1. E \in Below(E)
    BY <1>3, <1>4, BelowIs
  <2> QED BY <1>4, <1>6, <2>1 DEF Rest, Below
<1>8. IsNumbered(Source) /\ Nodes(Source) = Commits /\ N \in Commits /\ N > 1 /\ Anchor \in Commits
      /\ Commits \subseteq Nat /\ Anchor # N
  BY <1>3, SourceIs
<1>9. Anchor \in Below(ts)
  BY <1>1, <1>3 DEF Settled, Below
<1>10. ts = Anchor \/ ts \in LineOf(Source, E)
  <2>1. ASSUME ts # Anchor PROVE ts \in LineOf(Source, E)
    <3>1. ts \in LineOf(Source, N)
      BY <1>1, <1>3, <2>1 DEF Settled
    <3>2. E \in LineOf(Source, ts) \/ ts \in LineOf(Source, E)
      BY <1>4, <1>8, <3>1, LineIsLinear DEF LineOf, Line
    <3>3. LineOf(Source, ts) \subseteq Below(ts)
      BY <1>1, <1>8, LineUnfolds DEF LineOf, Below
    <3> QED BY <1>4, <3>2, <3>3
  <2> QED BY <2>1
<1>11. PICK t : t = track'
  OBVIOUS
<1>12. /\ t.source = E /\ t.destination = mapping[E]
       /\ t.done = track.done + Advanced
       /\ t.total = IF track.total = 0 THEN Remaining ELSE track.total
  BY <1>2, <1>11 DEF Checkpoint
<1>13. /\ published' = Only(Objects, Ancestors(Graph(Objects), mapping[E]))
       /\ images' = Over(images, mapping) /\ Objects = AddNew(published, written)
  BY <1>2 DEF Checkpoint, Objects
<1>14. Position(Source, ts, track.destination, published, images)
  BY <1>1, <1>3 DEF Settled
<1>15. /\ Position(Source, E, mapping[E], published', images')
       /\ track.destination \in Ancestors(Graph(published'), mapping[E])
       /\ ToSet(published) \subseteq ToSet(published')
       /\ \A c \in DOMAIN images : images'[c] = images[c]
  BY <1>4, <1>5, <1>7, <1>8, <1>13, <1>14, PositionAdvances DEF Below
<1>16. Counted(Source, t)
  <2>1. Advanced = Apart(Source, ts, E) /\ Apart(Source, ts, E) \in Nat
    BY <1>3, <1>4, <1>5, <1>6, RestCounts DEF Advanced
  <2>2. /\ Apart(Source, Anchor, E) = Apart(Source, Anchor, ts) + Apart(Source, ts, E)
        /\ Apart(Source, Anchor, ts) \in Nat
    BY <1>3, <1>4, <1>5, <1>8, <1>9, ApartAdds
  <2>3. CASE track.total = 0
    <3>1. ts = Anchor /\ track.done = 0
      BY <1>1, <1>3, <2>3 DEF Settled, Counted
    <3>2. t.done = Apart(Source, Anchor, E)
      BY <1>12, <2>1, <3>1
    <3>3. PICK Z : Z = Commits \cap (Below(N) \ Below(ts))
      OBVIOUS
    <3>4. t.total = Cardinality(Z) /\ IsFiniteSet(Z)
      BY <1>1, <1>3, <1>12, <2>3, <3>3, BetweenIs DEF Remaining
    <3>5. N \in Z
      <4>1. N \in Below(N)
        BY <1>3, <1>8, BelowIs
      <4>2. N \notin Below(ts)
        BY <1>1, <1>3, <1>8, <3>1, BelowIs DEF Anchor
      <4> QED BY <1>8, <3>3, <4>1, <4>2
    <3>6. Cardinality(Z) # 0
      BY <3>4, <3>5, FS_EmptySet
    <3>7. t.total = Apart(Source, Anchor, N)
      BY <3>1, <3>3, <3>4 DEF Apart, Below
    <3> QED BY <1>12, <3>2, <3>4, <3>6, <3>7 DEF Counted
  <2>4. CASE track.total # 0
    <3>1. track.done = Apart(Source, Anchor, ts) /\ track.total = Apart(Source, Anchor, N)
      BY <1>1, <1>3, <2>4 DEF Settled, Counted
    <3> QED BY <1>12, <2>1, <2>2, <2>4, <3>1 DEF Counted
  <2> QED BY <2>3, <2>4
<1>17. t.destination.tree \in Commits /\ (E = N => t.destination.tree = N)
  BY <1>5, <1>7, <1>12 DEF Shows
<1>18. ASSUME Anchor \in LineOf(Source, E)
       PROVE  ModuleOf(content, t.destination.tree) = ModuleOf(content, E)
  <2>1. ts \in LineOf(Source, E)
    BY <1>10, <1>18
  <2> QED BY <1>5, <1>7, <1>12, <1>18, <2>1 DEF Shows
<1>19. Anchor \in Ancestors(Source, E)
  <2>1. Below(ts) \subseteq Below(E)
    BY <1>3, <1>4, <1>5, BelowIs
  <2> QED BY <1>9, <2>1 DEF Below
<1>20. E \in LineOf(Source, N)
  BY <1>4 DEF LineOf, Line
<1>21. Settled(Source, content, t, published', images')
  BY <1>4, <1>12, <1>15, <1>16, <1>17, <1>18, <1>19, <1>20 DEF Settled
<1> QED BY <1>1, <1>2, <1>3, <1>4, <1>5, <1>6, <1>7, <1>10, <1>11, <1>12, <1>15, <1>20, <1>21

LEMMA CheckpointKeeps ==
    ASSUME IInv, Checkpoint
    PROVE  IInv'
<1>1. /\ content' = content /\ Source' = Source /\ History'
  BY SourceStays DEF Checkpoint, IInv
<1>2. Settled(Source', content', track', published', images')
  BY <1>1, CheckpointIs
<1>3. phase' = "idle" /\ mapping' = <<>> /\ shown' = <<>> /\ written' = <<>>
  BY DEF Checkpoint, NoRun
<1>4. Resting(Source', track', phase', candidates', mapping', written', shown')
  BY <1>3 DEF Resting
<1>5. lost' \in 0..MaxLost
  BY DEF Checkpoint, IInv
<1> QED BY <1>1, <1>2, <1>3, <1>4, <1>5 DEF IInv

LEMMA ReleaseKeeps ==
    ASSUME IInv, Release
    PROVE  IInv'
<1>1. /\ Source' = Source /\ track' = track
      /\ History' /\ Settled(Source, content, track, published, images)'
  BY SettledStays DEF Release
<1>2. phase = "idle" /\ phase' = "released" /\ UNCHANGED run /\ lost' = lost
  BY DEF Release
<1>3. candidates' = candidates /\ mapping' = mapping /\ written' = written /\ shown' = shown
  BY <1>2 DEF run
<1>4. Resting(Source', track', phase', candidates', mapping', written', shown')
  BY <1>1, <1>2, <1>3 DEF IInv, Resting
<1> QED BY <1>1, <1>2, <1>4 DEF IInv

LEMMA LoseKeeps ==
    ASSUME IInv, Lose
    PROVE  IInv'
<1>1. /\ Source' = Source /\ track' = track
      /\ History' /\ Settled(Source, content, track, published, images)'
  BY SettledStays DEF Lose
<1>2. phase' = "idle" /\ mapping' = <<>> /\ shown' = <<>> /\ written' = <<>>
  BY DEF Lose, NoRun
<1>3. Resting(Source', track', phase', candidates', mapping', written', shown')
  BY <1>2 DEF Resting
<1>4. lost' \in 0..MaxLost
  BY SourceAssumption DEF Lose, IInv
<1> QED BY <1>1, <1>2, <1>3, <1>4 DEF IInv

-----------------------------------------------------------------------------
(* The first position, and the invariant of every behaviour. *)

LEMMA PositionStarts ==
    ASSUME History
    PROVE  Position(Source, Anchor, Published, <<Published>>, [c \in {Anchor} |-> Published])
<1>1. IsNumbered(Source) /\ Nodes(Source) = Commits /\ Anchor \in Commits
  BY SourceIs
<1>2. Anchor \in Below(Anchor)
  BY <1>1, BelowIs
<1>3. PICK d : d = Published
  OBVIOUS
<1>4. d.source = Anchor /\ d.parents = <<>>
  BY <1>3 DEF Published
<1>5. PICK pub : pub = <<d>>
  OBVIOUS
<1>6. Len(pub) = 1 /\ pub[1] = d /\ DOMAIN pub = {1} /\ pub \in Seq({d})
  BY <1>5
<1>7. ToSet(pub) = {d} /\ IsInjective(pub)
  BY <1>6 DEF ToSet, IsInjective
<1>8. IsObjects(pub)
  BY <1>6, <1>7 DEF IsObjects
<1>9. PICK none : none = d.parents
  OBVIOUS
<1>10. none \in Seq({d}) /\ ToSet(none) = {}
  <2>1. none = <<>>
    BY <1>4, <1>9
  <2>2. <<>> \in Seq({d}) /\ ToSet(<<>>) = {}
    BY DEF ToSet
  <2> QED BY <2>1, <2>2
<1>11. IsWalked(Graph(pub), {d}) /\ Nodes(Graph(pub)) = {d}
  BY <1>7, <1>8, <1>9, <1>10, ObjectsWalk, ObjectsAre
<1>12. d \in Ancestors(Graph(pub), d)
  BY <1>11, AncestorsAre
<1>13. PICK img : img = [c \in {Anchor} |-> d]
  OBVIOUS
<1>14. DOMAIN img = {Anchor} /\ img[Anchor] = d
  BY <1>13
<1>15. Position(Source, Anchor, d, pub, img)
  BY <1>1, <1>2, <1>4, <1>7, <1>8, <1>9, <1>10, <1>12, <1>14 DEF Position, Below
<1> QED BY <1>3, <1>5, <1>13, <1>15

LEMMA InitHolds ==
    ASSUME Init
    PROVE  IInv
<1>1. History
  BY DEF Init, History
<1>2. /\ track.source = Anchor /\ track.destination = Published /\ track.done = 0 /\ track.total = 0
      /\ published = <<Published>> /\ images = [c \in {Anchor} |-> Published]
      /\ phase = "idle" /\ mapping = <<>> /\ shown = <<>> /\ written = <<>> /\ lost = 0
  BY DEF Init
<1>3. Anchor \in Commits /\ Anchor # N
  BY <1>1, SourceIs
<1>4. Anchor \in Ancestors(Source, Anchor)
  BY <1>1, <1>3, BelowIs DEF Below
<1>5. Published.tree = Anchor
  BY DEF Published
<1>6. Counted(Source, track)
  BY <1>2 DEF Counted
<1>7. Settled(Source, content, track, published, images)
  BY <1>1, <1>2, <1>3, <1>4, <1>5, <1>6, PositionStarts DEF Settled
<1>8. Resting(Source, track, phase, candidates, mapping, written, shown)
  BY <1>2 DEF Resting
<1>9. lost \in 0..MaxLost
  BY <1>2, SourceAssumption
<1> QED BY <1>1, <1>2, <1>7, <1>8, <1>9 DEF IInv

LEMMA NextKeeps ==
    ASSUME IInv, [Next]_vars
    PROVE  IInv'
<1>1. CASE \E size \in Sizes : Begin(size)
  BY <1>1, BeginKeeps
<1>2. CASE Step
  BY <1>2, StepKeeps
<1>3. CASE NextCandidate
  BY <1>3, NextCandidateKeeps
<1>4. CASE Checkpoint
  BY <1>4, CheckpointKeeps
<1>5. CASE Release
  BY <1>5, ReleaseKeeps
<1>6. CASE Lose
  BY <1>6, LoseKeeps
<1>7. CASE UNCHANGED vars
  <2>1. /\ Source' = Source /\ content' = content /\ track' = track
        /\ History' /\ Settled(Source, content, track, published, images)'
    BY <1>7, SettledStays DEF vars
  <2>2. /\ phase' = phase /\ candidates' = candidates /\ pending' = pending /\ mapping' = mapping
        /\ written' = written /\ shown' = shown /\ watched' = watched /\ lost' = lost
    BY <1>7 DEF vars, run
  <2> QED BY <2>1, <2>2 DEF IInv
<1> QED BY <1>1, <1>2, <1>3, <1>4, <1>5, <1>6, <1>7 DEF Next

(* Whatever chunks were taken, runs lost and checkpoints published, the state
   is as the invariant describes it. *)
THEOREM Invariant == Spec => []IInv
<1>1. Init => IInv
  BY InitHolds
<1>2. IInv /\ [Next]_vars => IInv'
  BY NextKeeps
<1> QED BY <1>1, <1>2, PTL DEF Spec

-----------------------------------------------------------------------------
(* What it implies. *)

LEMMA NothingAdded ==
    ASSUME NEW S, NEW seq \in Seq(S), NEW x \in ToSet(seq)
    PROVE  AddNew(seq, <<>>) = seq /\ AddNew(seq, <<x>>) = seq
<1>1. x \in S
  BY DEF ToSet
<1>2. <<>> \in Seq(S) /\ Len(<<>>) = 0
  OBVIOUS
<1>3. PICK one : one = <<x>>
  OBVIOUS
<1>4. one \in Seq(S) /\ Len(one) = 1 /\ one[1] = x
  BY <1>1, <1>3
<1>5. AddNew(seq, <<>>) = seq
  <2>1. PICK f \in [0..0 -> Seq(S)] : IsAddNew(f, seq, <<>>)
    BY <1>2, AddNewIs
  <2> QED BY <1>2, <2>1 DEF IsAddNew
<1>6. AddNew(seq, one) = seq
  <2>1. PICK f \in [0..1 -> Seq(S)] : IsAddNew(f, seq, one)
    BY <1>4, AddNewIs
  <2>2. f[0] = seq /\ AddNew(seq, one) = f[1] /\ f[1] = AppendNew(f[1 - 1], one[1])
    BY <1>4, <2>1 DEF IsAddNew
  <2>3. f[1] = AppendNew(seq, x)
    BY <1>4, <2>2
  <2> QED BY <2>2, <2>3 DEF AppendNew
<1> QED BY <1>3, <1>5, <1>6

LEMMA ObjectsJoin ==
    ASSUME IInv
    PROVE  \E writ : Joined(Source, track.destination, published, images, mapping, writ, Objects)
<1>1. PICK ts \in Commits : ts = track.source
  BY DEF IInv, Settled
<1>2. History /\ Position(Source, ts, track.destination, published, images)
  BY <1>1 DEF IInv, Settled
<1>3. IsNumbered(Source) /\ Nodes(Source) = Commits /\ N \in Commits
  BY <1>2, SourceIs
<1>4. CASE phase \in {"replaying", "contradicted"}
  <2>1. AreCandidates(Source, candidates, ts)
        /\ Journal(Source, ts, track.destination, candidates[1], mapping, written)
    BY <1>1, <1>4 DEF IInv, Running
  <2>2. candidates[1] \in Nodes(Source)
    BY <1>2, <1>3, <2>1, EndpointIs
  <2>3. Joined(Source, track.destination, published, images, mapping, written, Objects)
    BY <1>2, <1>3, <2>1, <2>2, JoinIs DEF Objects
  <2> QED BY <2>3
<1>5. CASE phase \notin {"replaying", "contradicted"}
  <2>1. mapping = <<>> /\ (written = <<>> \/ written = <<track.destination>>)
    BY <1>5 DEF IInv, Resting
  <2>2. PICK start : start = <<track.destination>>
    OBVIOUS
  <2>3. Journal(Source, ts, track.destination, N, mapping, start)
    BY <1>2, <2>1, <2>2, JournalStarts
  <2>4. Joined(Source, track.destination, published, images, mapping, start, AddNew(published, start))
    BY <1>2, <1>3, <2>3, JoinIs
  <2>5. published \in Seq(ToSet(published)) /\ track.destination \in ToSet(published)
    BY <1>2 DEF Position, IsObjects
  <2>6. AddNew(published, <<>>) = published /\ AddNew(published, start) = published
    BY <2>2, <2>5, NothingAdded
  <2>7. Objects = AddNew(published, start)
    BY <2>1, <2>2, <2>6 DEF Objects
  <2> QED BY <2>4, <2>7
<1> QED BY <1>4, <1>5

(* A source commit has one destination commit, however often it is replayed:
   over chunks, retries, crashes and chunk sizes. *)
THEOREM Identity == Spec => []OneImage
<1>1. IInv => OneImage
  BY ObjectsJoin DEF Joined, OneImage
<1> QED BY <1>1, Invariant, PTL

(* What a source commit builds on, its image builds on, in whatever chunks it
   was replayed: collapse, dedupe and resumption lose no ancestor. *)
THEOREM Ancestry == Spec => []AncestryKept
<1>1. IInv => AncestryKept
  BY ObjectsJoin DEF Joined, AncestryKept, IsAncestor
<1> QED BY <1>1, Invariant, PTL

(* A commit that was not generated shows the module it would have had, on every
   line of first parents that leads back to where the run began: the prefilter
   by watched paths never hides a change. *)
THEOREM Prefilter == Spec => []Prefiltered
<1>1. ASSUME IInv PROVE Prefiltered
  <2> SUFFICES ASSUME NEW c \in DOMAIN mapping,
                      {Anchor, track.source} \subseteq ToSet(FirstParentLine(Source, c))
               PROVE  Module(mapping[c].tree) = Module(c)
    BY DEF Prefiltered
  <2>1. CASE phase \in {"replaying", "contradicted"}
    <3>1. Shows(Source, content, track.source, mapping, shown, watched)
      BY <1>1, <2>1 DEF IInv, Running
    <3>2. /\ mapping[c].tree = shown[c]
          /\ ModuleOf(content, shown[c]) = ModuleOf(content, c)
      BY <3>1 DEF Shows, LineOf
    <3> QED BY <3>2 DEF Module, ModuleOf
  <2>2. CASE phase \notin {"replaying", "contradicted"}
    <3>1. mapping = <<>>
      BY <1>1, <2>2 DEF IInv, Resting
    <3> QED BY <3>1
  <2> QED BY <2>1, <2>2
<1> QED BY <1>1, Invariant, PTL

(* The counters of the track are the sizes of the ranges they stand for, so no
   chunk skipped or replayed twice a commit of the release. *)
THEOREM Counts == Spec => []NothingSkipped
<1>1. ASSUME IInv PROVE NothingSkipped
  <2>1. History /\ Counted(Source, track)
    BY <1>1 DEF IInv, Settled
  <2>2. /\ Len(Between(Anchor, track.source)) = Apart(Source, Anchor, track.source)
        /\ Len(Between(Anchor, N)) = Apart(Source, Anchor, N)
    BY <2>1, BetweenIs DEF Apart, Below
  <2> QED BY <2>1, <2>2 DEF Counted, NothingSkipped
<1> QED BY <1>1, Invariant, PTL

(* A track that reached its release shows that release's tree and has counted
   all of it, so finalization cannot refuse it. *)
THEOREM Completion == Spec => []Finalizable
<1>1. ASSUME IInv PROVE Finalizable
  <2>1. History /\ Settled(Source, content, track, published, images)
    BY <1>1 DEF IInv
  <2>2. Anchor # N
    BY <2>1, SourceIs
  <2> QED BY <2>1, <2>2 DEF Settled, Counted, Finalizable
<1> QED BY <1>1, Invariant, PTL

(* The progress ref moves to commits that contain the one before, and every
   image published stays published and stays what it was. *)
THEOREM Advances == Spec => FastForward
<1> DEFINE Onward ==
      /\ IsAncestor(Graph(published'), track.destination, track'.destination)
      /\ ToSet(published) \subseteq ToSet(published')
      /\ \A c \in DOMAIN images : images'[c] = images[c]
<1>1. ASSUME IInv, [Next]_vars PROVE [Onward]_position
  <2>1. CASE Checkpoint
    BY <1>1, <2>1, CheckpointIs DEF IsAncestor
  <2>2. CASE ~Checkpoint
    <3>1. UNCHANGED position
      BY <1>1, <2>2 DEF Next, Begin, Step, NextCandidate, Release, Lose, vars
    <3> QED BY <3>1
  <2> QED BY <2>1, <2>2
<1> QED BY <1>1, Invariant, PTL DEF Spec, FastForward

(* Every variable has its type: what a run maps it has written. *)
THEOREM Types == Spec => []TypeOK
<1>1. ASSUME IInv PROVE TypeOK
  <2>1. /\ History /\ track.source \in Commits /\ lost \in 0..MaxLost
        /\ phase \in {"idle", "replaying", "refused", "contradicted", "released"}
    BY <1>1 DEF IInv, Settled
  <2>2. Position(Source, track.source, track.destination, published, images)
    BY <1>1 DEF IInv, Settled
  <2>3. track.destination \in ToSet(published) /\ DOMAIN images \subseteq Commits
    BY <2>1, <2>2, BelowIs DEF Position, Below
  <2>4. CASE phase \in {"replaying", "contradicted"}
    <3>1. /\ Shows(Source, content, track.source, mapping, shown, watched)
          /\ Journal(Source, track.source, track.destination, candidates[1], mapping, written)
      BY <1>1, <2>4 DEF IInv, Running
    <3> QED BY <2>1, <2>3, <3>1 DEF TypeOK, Shows, Journal
  <2>5. CASE phase \notin {"replaying", "contradicted"}
    <3>1. DOMAIN mapping = {} /\ DOMAIN shown = {}
      BY <1>1, <2>5 DEF IInv, Resting
    <3> QED BY <2>1, <2>3, <3>1 DEF TypeOK
  <2> QED BY <2>4, <2>5
<1> QED BY <1>1, Invariant, PTL
=============================================================================

---------------------------- MODULE InductionFacts ----------------------------
(***************************************************************************)
(* Facts that need induction and that the proofs about the components      *)
(* cite: induction over the naturals, stated for a set instead of a        *)
(* predicate so that the provers can use it, the largest element of a set  *)
(* of naturals (Max of FiniteSetsExt), what AtPositions returns, sums over *)
(* finite sets (SumFunctionOnSet of Functions), and the k-th smallest of   *)
(* the values a function takes.                                            *)
(***************************************************************************)
EXTENDS Integers, Sequences, SequencesExt, Functions, FiniteSetsExt, FiniteSetTheorems,
        SequenceTheorems, Subsequence, TLAPS

(* A set of naturals with 0 and with the successor of each of its elements *)
(* is the set of all naturals.                                             *)
LEMMA NatSetInduction ==
    ASSUME NEW S \in SUBSET Nat, 0 \in S, \A n \in S : n + 1 \in S
    PROVE  S = Nat
<1>1. SUFFICES ASSUME Nat \ S # {} PROVE FALSE
  OBVIOUS
<1>2. \E x \in Nat \ S : \A y \in Nat \ S : ~(y < x)
  <2>1. PICK x \in Nat \ S : \A y \in Nat \ S : ~(<<y, x>> \in OpToRel(<, Nat))
    BY <1>1, WFMin, NatLessThanWellFounded, Zenon
  <2>2. QED
    BY <2>1, Zenon DEF OpToRel
<1>3. PICK x \in Nat \ S : \A y \in Nat \ S : ~(y < x)
  BY <1>2
<1>4. x # 0 /\ x - 1 \in Nat /\ x - 1 < x
  BY <1>3
<1>5. QED
  BY <1>3, <1>4

(* A finite set of naturals that is not empty has a largest element.       *)
LEMMA FiniteHasMax ==
    ASSUME NEW S \in SUBSET Nat, S # {}, IsFiniteSet(S)
    PROVE  \E m \in S : \A x \in S : x <= m
<1> DEFINE HasMax(T) == \E m \in T : \A x \in T : x <= m
           Good(n) == \A T \in SUBSET Nat :
                         (IsFiniteSet(T) /\ T # {} /\ Cardinality(T) = n) => HasMax(T)
           G == {n \in Nat : Good(n)}
<1>1. 0 \in G
  <2>1. ASSUME NEW T \in SUBSET Nat, IsFiniteSet(T), T # {} PROVE Cardinality(T) # 0
    BY <2>1, FS_EmptySet
  <2>2. QED
    BY <2>1
<1>2. ASSUME NEW n \in G PROVE n + 1 \in G
  <2>1. SUFFICES ASSUME NEW T \in SUBSET Nat, IsFiniteSet(T), T # {}, Cardinality(T) = n + 1
                 PROVE  HasMax(T)
    OBVIOUS
  <2>2. PICK x \in T : TRUE
    BY <2>1
  <2>3. IsFiniteSet(T \ {x}) /\ Cardinality(T \ {x}) = n
    <3>1. IsFiniteSet(T \ {x}) /\ Cardinality(T \ {x}) = Cardinality(T) - 1
      BY <2>1, <2>2, FS_RemoveElement, Zenon
    <3>2. QED
      BY <3>1, <2>1
  <2>4. CASE T \ {x} = {}
    BY <2>4
  <2>5. CASE T \ {x} # {}
    <3>1. PICK m \in T \ {x} : \A y \in T \ {x} : y <= m
      BY <2>3, <2>5
    <3>2. QED
      BY <3>1, <2>2
  <2>6. QED
    BY <2>4, <2>5
<1>3. G = Nat
  <2> HIDE DEF G
  <2>1. G \in SUBSET Nat
    BY DEF G
  <2>2. QED
    BY <1>1, <1>2, <2>1, NatSetInduction
<1>4. Cardinality(S) \in G
  BY <1>3, FS_CardinalityType
<1>5. QED
  BY <1>4

(* Max finds it.                                                           *)
LEMMA MaxOfFinite ==
    ASSUME NEW S \in SUBSET Nat, S # {}, IsFiniteSet(S)
    PROVE  Max(S) \in S /\ \A x \in S : x <= Max(S)
<1>1. \E m \in S : \A x \in S : m >= x
  BY FiniteHasMax
<1>2. Max(S) \in S /\ \A x \in S : Max(S) >= x
  BY <1>1, Zenon DEF Max
<1>3. QED
  BY <1>2

(* The values of a function on a finite set are finitely many.             *)
LEMMA FiniteImage ==
    ASSUME NEW S, IsFiniteSet(S), NEW f
    PROVE  IsFiniteSet({f[x] : x \in S})
<1> DEFINE T == {f[x] : x \in S}
           g == [x \in S |-> f[x]]
<1>1. g \in Surjection(S, T)
  BY DEF Surjection
<1>2. QED
  <2> HIDE DEF T, g
  <2>1. IsFiniteSet(T)
    BY <1>1, FS_Surjection
  <2>2. QED
    BY <2>1 DEF T

-----------------------------------------------------------------------------
(* AtPositions: the recursive function of its definition exists, so what   *)
(* it returns can be described by induction.                               *)

(* F is what the loop has collected after each of the first n elements.    *)
IsLoop(F, s, chosen, n) ==
    F = [i \in 0..n |-> IF i = 0 THEN <<>>
                        ELSE IF i \in chosen THEN Append(F[i - 1], s[i]) ELSE F[i - 1]]

(* There is such a function for every n.                                   *)
LEMMA LoopExists ==
    ASSUME NEW s, NEW chosen
    PROVE  \A n \in Nat : \E F : IsLoop(F, s, chosen, n)
<1> DEFINE S == {n \in Nat : \E F : IsLoop(F, s, chosen, n)}
<1>1. 0 \in S
  <2> DEFINE F == [i \in 0..0 |-> <<>>]
  <2>1. IsLoop(F, s, chosen, 0)
    BY DEF IsLoop
  <2>2. QED
    BY <2>1
<1>2. ASSUME NEW m \in S PROVE m + 1 \in S
  <2>1. PICK G : IsLoop(G, s, chosen, m)
    OBVIOUS
  <2>2. m \in Nat
    OBVIOUS
  <2> DEFINE F == [i \in 0..(m + 1) |->
                      IF i \in 0..m THEN G[i]
                      ELSE IF i \in chosen THEN Append(G[i - 1], s[i]) ELSE G[i - 1]]
  <2>3. ASSUME NEW i \in 0..(m + 1)
        PROVE  F[i] = IF i = 0 THEN <<>>
                      ELSE IF i \in chosen THEN Append(F[i - 1], s[i]) ELSE F[i - 1]
    <3>1. CASE i = 0
      BY <2>1, <2>2, <3>1 DEF IsLoop
    <3>2. CASE i # 0
      <4>1. i - 1 \in 0..m
        BY <2>2, <3>2
      <4>2. F[i - 1] = G[i - 1]
        BY <2>2, <4>1
      <4>3. F[i] = IF i \in chosen THEN Append(G[i - 1], s[i]) ELSE G[i - 1]
        BY <2>1, <2>2, <3>2 DEF IsLoop
      <4>4. QED
        BY <3>2, <4>2, <4>3
    <3>3. QED
      BY <3>1, <3>2
  <2>4. IsLoop(F, s, chosen, m + 1)
    <3> HIDE DEF F
    <3>1. F = [i \in 0..(m + 1) |-> F[i]]
      BY DEF F
    <3>2. QED
      BY <2>3, <3>1 DEF IsLoop
  <2>5. QED
    <3> HIDE DEF F
    <3>1. m + 1 \in Nat
      BY <2>2
    <3>2. QED
      BY <2>4, <3>1
<1>3. S = Nat
  <2> HIDE DEF S
  <2>1. S \in SUBSET Nat
    BY DEF S
  <2>2. QED
    BY <1>1, <1>2, <2>1, NatSetInduction
<1>4. QED
  BY <1>3

(* AtPositions returns the last of these.                                  *)
LEMMA AtPositionsIsLast ==
    ASSUME NEW s, NEW chosen, Len(s) \in Nat
    PROVE  \E F : IsLoop(F, s, chosen, Len(s)) /\ AtPositions(s, chosen) = F[Len(s)]
<1> DEFINE F == CHOOSE F : IsLoop(F, s, chosen, Len(s))
<1>1. IsLoop(F, s, chosen, Len(s))
  BY LoopExists, Zenon
<1>2. AtPositions(s, chosen) = F[Len(s)]
  BY DEF AtPositions, IsLoop
<1>3. QED
  BY <1>1, <1>2, Zenon

(* r lists the elements of s at the positions in chosen, each once and in  *)
(* their order: the k-th of r is the one at p[k].                          *)
IsSelection(r, p, s, chosen) ==
    /\ p \in [DOMAIN r -> chosen]
    /\ \A k \in DOMAIN r : r[k] = s[p[k]]
    /\ \A k, l \in DOMAIN r : k < l => p[k] < p[l]
    /\ \A i \in chosen : \E k \in DOMAIN r : p[k] = i

(* That is what AtPositions returns.                                       *)
LEMMA AtPositionsProperties ==
    ASSUME NEW T, NEW s \in Seq(T), NEW chosen \in SUBSET DOMAIN s
    PROVE  /\ AtPositions(s, chosen) \in Seq(T)
           /\ \E p : IsSelection(AtPositions(s, chosen), p, s, chosen)
<1>1. PICK F : IsLoop(F, s, chosen, Len(s)) /\ AtPositions(s, chosen) = F[Len(s)]
  BY AtPositionsIsLast
<1> DEFINE Upto(n) == {i \in chosen : i <= n}
           Good(n) == F[n] \in Seq(T) /\ \E p : IsSelection(F[n], p, s, Upto(n))
           S == {n \in Nat : n <= Len(s) => Good(n)}
<1> HIDE DEF Good
<1>2. 0 \in S
  <2>1. F[0] = <<>>
    BY <1>1 DEF IsLoop
  <2>2. Upto(0) = {}
    OBVIOUS
  <2>3. IsSelection(<<>>, <<>>, s, {})
    BY DEF IsSelection
  <2>4. QED
    <3>1. Good(0)
      <4>1. IsSelection(F[0], <<>>, s, Upto(0))
        BY <2>1, <2>2, <2>3, Zenon
      <4>2. F[0] \in Seq(T)
        BY <2>1
      <4>3. QED
        BY <4>1, <4>2, Zenon DEF Good
    <3>2. QED
      BY <3>1
<1>3. ASSUME NEW n \in S PROVE n + 1 \in S
  <2>1. SUFFICES ASSUME n + 1 <= Len(s) PROVE Good(n + 1)
    OBVIOUS
  <2>2. n \in Nat /\ Good(n)
    BY <2>1
  <2> HIDE DEF S
  <2>3. F[n + 1] = IF n + 1 \in chosen THEN Append(F[n], s[n + 1]) ELSE F[n]
    <3>1. n + 1 \in 0..Len(s) /\ n + 1 # 0 /\ (n + 1) - 1 = n
      BY <2>1, <2>2
    <3>2. \A i \in 0..Len(s) :
             F[i] = IF i = 0 THEN <<>>
                    ELSE IF i \in chosen THEN Append(F[i - 1], s[i]) ELSE F[i - 1]
      BY <1>1 DEF IsLoop
    <3>3. QED
      BY <3>1, <3>2
  <2>4. CASE n + 1 \notin chosen
    <3>1. Upto(n + 1) = Upto(n)
      BY <2>2, <2>4
    <3>2. QED
      BY <2>2, <2>3, <2>4, <3>1 DEF Good
  <2>5. CASE n + 1 \in chosen
    <3>1. PICK p : IsSelection(F[n], p, s, Upto(n))
      BY <2>2 DEF Good
    <3> DEFINE r == F[n]
               U == Upto(n)
               V == Upto(n + 1)
               m == Len(r) + 1
               q == [k \in 1..m |-> IF k = m THEN n + 1 ELSE p[k]]
               t == Append(r, s[n + 1])
    <3>2. /\ r \in Seq(T) /\ s[n + 1] \in T /\ F[n + 1] = t
          /\ V = U \cup {n + 1} /\ \A i \in U : i \in Nat /\ i < n + 1
      BY <2>1, <2>2, <2>3, <2>5 DEF Good
    <3>3. /\ p \in [DOMAIN r -> U] /\ \A k \in DOMAIN r : r[k] = s[p[k]]
          /\ \A k, l \in DOMAIN r : k < l => p[k] < p[l]
          /\ \A i \in U : \E k \in DOMAIN r : p[k] = i
      BY <3>1 DEF IsSelection
    <3> HIDE DEF r, U, V
    <3>4. /\ t \in Seq(T) /\ DOMAIN t = 1..m /\ m \in Nat /\ DOMAIN r = 1..(m - 1)
          /\ t[m] = s[n + 1] /\ \A k \in DOMAIN r : t[k] = r[k] /\ k \in 1..m /\ k # m
      BY <3>2
    <3> HIDE DEF t, m
    <3>5. q[m] = n + 1 /\ m \in 1..m /\ \A k \in DOMAIN r : q[k] = p[k]
      <4>1. m \in 1..m
        BY <3>4 DEF m
      <4>2. QED
        BY <3>4, <4>1
    <3>6. \A k \in 1..m : k = m \/ k \in DOMAIN r
      BY <3>4
    <3>7. q \in [1..m -> V]
      BY <3>2, <3>3, <3>6
    <3> HIDE DEF q
    <3>8. \A k \in 1..m : t[k] = s[q[k]]
      BY <3>3, <3>4, <3>5, <3>6
    <3>9. ASSUME NEW k \in 1..m, NEW l \in 1..m, k < l PROVE q[k] < q[l]
      <4>1. k \in DOMAIN r
        BY <3>4, <3>6, <3>9
      <4>2. CASE l = m
        BY <3>2, <3>3, <3>5, <4>1, <4>2
      <4>3. CASE l # m
        BY <3>3, <3>5, <3>6, <3>9, <4>1, <4>3
      <4>4. QED
        BY <4>2, <4>3
    <3>10. \A i \in V : \E k \in 1..m : q[k] = i
      BY <3>2, <3>3, <3>4, <3>5
    <3>11. IsSelection(t, q, s, V)
      BY <3>4, <3>7, <3>8, <3>9, <3>10 DEF IsSelection
    <3>12. QED
      BY <3>2, <3>4, <3>11 DEF V, Good
  <2>6. QED
    BY <2>4, <2>5
<1>4. S = Nat
  <2> HIDE DEF S
  <2>1. S \in SUBSET Nat
    BY DEF S
  <2>2. QED
    BY <1>2, <1>3, <2>1, NatSetInduction
<1>5. Good(Len(s)) /\ Upto(Len(s)) = chosen
  <2>1. Len(s) \in Nat /\ \A i \in chosen : i <= Len(s)
    OBVIOUS
  <2>2. Len(s) \in S
    <3> HIDE DEF S
    <3>1. QED
      BY <1>4, <2>1
  <2>3. QED
    BY <2>1, <2>2
<1>6. QED
  BY <1>1, <1>5 DEF Good
-----------------------------------------------------------------------------
(* Sums over finite sets (SumFunctionOnSet of Functions): the recursion of *)
(* the fold has a solution, and the order in which it takes the elements   *)
(* does not matter.                                                        *)

(* g gives the sum of f over every subset of S with at most n elements.    *)
Small(S, n) == {s \in SUBSET S : Cardinality(s) <= n}

Some(s) == CHOOSE x \in s : TRUE

IsSumUpTo(g, f, S, n) ==
    g = [s \in Small(S, n) |-> IF s = {} THEN 0 ELSE f[Some(s)] + g[s \ {Some(s)}]]

IsSum(g, f, S) ==
    g = [s \in SUBSET S |-> IF s = {} THEN 0 ELSE f[Some(s)] + g[s \ {Some(s)}]]

(* Taking an element from a set that is not empty.                         *)
LEMMA TakeOne ==
    ASSUME NEW S, IsFiniteSet(S), NEW s \in SUBSET S, s # {}, NEW x \in s
    PROVE  /\ Some(s) \in s
           /\ IsFiniteSet(s) /\ Cardinality(s) \in Nat \ {0}
           /\ s \ {x} \in SUBSET S /\ IsFiniteSet(s \ {x})
           /\ Cardinality(s \ {x}) = Cardinality(s) - 1
<1>1. Some(s) \in s
  BY DEF Some
<1>2. IsFiniteSet(s)
  BY FS_Subset
<1>3. IsFiniteSet(s \ {x}) /\ Cardinality(s \ {x}) = Cardinality(s) - 1
  BY <1>2, FS_RemoveElement, Zenon
<1>4. Cardinality(s) \in Nat /\ Cardinality(s) # 0
  BY <1>2, FS_CardinalityType, FS_EmptySet
<1>5. QED
  BY <1>1, <1>2, <1>3, <1>4

LEMMA SumUpToExists ==
    ASSUME NEW f, NEW S, IsFiniteSet(S)
    PROVE  \A n \in Nat : \E g : IsSumUpTo(g, f, S, n)
<1> DEFINE N == {n \in Nat : \E g : IsSumUpTo(g, f, S, n)}
<1>0. \A s \in SUBSET S : IsFiniteSet(s) /\ Cardinality(s) \in Nat /\ (Cardinality(s) = 0 <=> s = {})
  BY FS_Subset, FS_CardinalityType, FS_EmptySet
<1>1. 0 \in N
  <2> DEFINE g == [s \in Small(S, 0) |-> 0]
  <2>1. \A s \in Small(S, 0) : s = {}
    BY <1>0 DEF Small
  <2>2. IsSumUpTo(g, f, S, 0)
    BY <2>1 DEF IsSumUpTo
  <2>3. QED
    BY <2>2
<1>2. ASSUME NEW n \in N PROVE n + 1 \in N
  <2>1. PICK g : IsSumUpTo(g, f, S, n)
    OBVIOUS
  <2>2. n \in Nat
    OBVIOUS
  <2> DEFINE h == [s \in Small(S, n + 1) |->
                      IF s \in Small(S, n) THEN g[s] ELSE f[Some(s)] + g[s \ {Some(s)}]]
  <2>3. ASSUME NEW s \in Small(S, n + 1)
        PROVE  h[s] = IF s = {} THEN 0 ELSE f[Some(s)] + h[s \ {Some(s)}]
    <3>1. CASE s = {}
      <4>1. s \in Small(S, n)
        BY <1>0, <2>2, <3>1 DEF Small
      <4>2. QED
        BY <2>1, <3>1, <4>1 DEF IsSumUpTo
    <3>2. CASE s # {}
      <4>1. s \in SUBSET S /\ Cardinality(s) <= n + 1 /\ Cardinality(s) \in Nat
        BY <1>0 DEF Small
      <4>2. Some(s) \in s
        BY <3>2 DEF Some
      <4>3. s \ {Some(s)} \in SUBSET S /\ Cardinality(s \ {Some(s)}) = Cardinality(s) - 1
        BY <3>2, <4>1, <4>2, TakeOne
      <4>4. s \ {Some(s)} \in Small(S, n) /\ s \ {Some(s)} \in Small(S, n + 1)
        BY <2>2, <4>1, <4>3 DEF Small
      <4>5. h[s \ {Some(s)}] = g[s \ {Some(s)}]
        BY <4>4
      <4>6. h[s] = f[Some(s)] + g[s \ {Some(s)}]
        BY <2>1, <3>2 DEF IsSumUpTo
      <4>7. QED
        BY <3>2, <4>5, <4>6
    <3>3. QED
      BY <3>1, <3>2
  <2>4. IsSumUpTo(h, f, S, n + 1)
    <3> HIDE DEF h
    <3>1. h = [s \in Small(S, n + 1) |-> h[s]]
      BY DEF h
    <3>2. QED
      BY <2>3, <3>1 DEF IsSumUpTo
  <2>5. QED
    <3> HIDE DEF h
    <3>1. QED
      BY <2>2, <2>4
<1>3. N = Nat
  <2> HIDE DEF N
  <2>1. N \in SUBSET Nat
    BY DEF N
  <2>2. QED
    BY <1>1, <1>2, <2>1, NatSetInduction
<1>4. QED
  BY <1>3

LEMMA SumExists ==
    ASSUME NEW f, NEW S, IsFiniteSet(S)
    PROVE  IsSum(CHOOSE k : IsSum(k, f, S), f, S)
<1>1. PICK n \in Nat : n = Cardinality(S)
  BY FS_CardinalityType
<1>2. PICK g : IsSumUpTo(g, f, S, n)
  BY SumUpToExists
<1>3. Small(S, n) = SUBSET S
  BY <1>1, FS_Subset DEF Small
<1>4. IsSum(g, f, S)
  BY <1>2, <1>3 DEF IsSumUpTo, IsSum
<1>5. QED
  BY <1>4, Zenon

(* What the fold computes.                                                 *)
LEMMA SumIsFold ==
    ASSUME NEW f, NEW S
    PROVE  SumFunctionOnSet(f, S) = (CHOOSE k : IsSum(k, f, S))[S]
BY DEF SumFunctionOnSet, FoldFunctionOnSet, MapThenFoldSet, IsSum, Some

(* Two such functions give the same sums where both are defined, if what   *)
(* they add is the same.                                                   *)
LEMMA SumUnique ==
    ASSUME NEW S, NEW R, IsFiniteSet(S), IsFiniteSet(R), NEW f, NEW e, NEW g, NEW h,
           IsSum(g, f, S), IsSum(h, e, R), NEW U \in SUBSET S, U \in SUBSET R,
           \A x \in U : f[x] = e[x]
    PROVE  g[U] = h[U]
<1> DEFINE Same(n) == \A s \in SUBSET U : Cardinality(s) = n => g[s] = h[s]
           N == {n \in Nat : Same(n)}
<1>0. IsFiniteSet(U)
  BY FS_Subset
<1>1. 0 \in N
  <2>1. ASSUME NEW s \in SUBSET U, Cardinality(s) = 0 PROVE g[s] = h[s]
    <3>1. s = {}
      BY <1>0, <2>1, FS_Subset, FS_EmptySet
    <3>2. s \in SUBSET S /\ s \in SUBSET R
      OBVIOUS
    <3>3. QED
      BY <3>1, <3>2 DEF IsSum
  <2>2. QED
    BY <2>1
<1>2. ASSUME NEW n \in N PROVE n + 1 \in N
  <2>1. ASSUME NEW s \in SUBSET U, Cardinality(s) = n + 1 PROVE g[s] = h[s]
    <3>1. s # {}
      BY <2>1, FS_EmptySet
    <3>2. Some(s) \in s
      BY <3>1 DEF Some
    <3>3. s \ {Some(s)} \in SUBSET U /\ Cardinality(s \ {Some(s)}) = Cardinality(s) - 1
      <4>1. IsFiniteSet(s)
        BY <1>0, FS_Subset
      <4>2. QED
        BY <3>2, <4>1, FS_RemoveElement, Zenon
    <3>4. g[s \ {Some(s)}] = h[s \ {Some(s)}]
      BY <2>1, <3>3
    <3>5. g[s] = f[Some(s)] + g[s \ {Some(s)}] /\ h[s] = e[Some(s)] + h[s \ {Some(s)}]
      <4>1. s \in SUBSET S /\ s \in SUBSET R
        OBVIOUS
      <4>2. QED
        BY <3>1, <4>1 DEF IsSum
    <3>6. QED
      BY <3>2, <3>4, <3>5
  <2>2. QED
    BY <2>1
<1>3. N = Nat
  <2> HIDE DEF N
  <2>1. N \in SUBSET Nat
    BY DEF N
  <2>2. QED
    BY <1>1, <1>2, <2>1, NatSetInduction
<1>4. Cardinality(U) \in N
  BY <1>0, <1>3, FS_CardinalityType
<1>5. QED
  BY <1>4

(* Summing over a set: nothing, or what the fold takes first and the rest. *)
LEMMA SumSteps ==
    ASSUME NEW f, NEW S, IsFiniteSet(S)
    PROVE  /\ SumFunctionOnSet(f, {}) = 0
           /\ S # {} => SumFunctionOnSet(f, S) = f[Some(S)] + SumFunctionOnSet(f, S \ {Some(S)})
<1>1. PICK g : g = (CHOOSE k : IsSum(k, f, S))
  OBVIOUS
<1>2. IsSum(g, f, S) /\ SumFunctionOnSet(f, S) = g[S]
  BY <1>1, SumExists, SumIsFold
<1>3. SumFunctionOnSet(f, {}) = 0
  <2>1. PICK h : h = (CHOOSE k : IsSum(k, f, {}))
    OBVIOUS
  <2>2. IsFiniteSet({})
    BY FS_EmptySet
  <2>3. IsSum(h, f, {}) /\ SumFunctionOnSet(f, {}) = h[{}]
    BY <2>1, <2>2, SumExists, SumIsFold
  <2>4. QED
    BY <2>3 DEF IsSum
<1>4. ASSUME S # {} PROVE SumFunctionOnSet(f, S) = f[Some(S)] + SumFunctionOnSet(f, S \ {Some(S)})
  <2>1. PICK U : U = S \ {Some(S)}
    OBVIOUS
  <2>2. IsFiniteSet(U) /\ U \in SUBSET S
    BY <2>1, FS_Subset
  <2>3. PICK h : h = (CHOOSE k : IsSum(k, f, U))
    OBVIOUS
  <2>4. IsSum(h, f, U) /\ SumFunctionOnSet(f, U) = h[U]
    BY <2>2, <2>3, SumExists, SumIsFold
  <2>5. g[U] = h[U]
    BY <1>2, <2>2, <2>4, SumUnique
  <2>6. g[S] = f[Some(S)] + g[U]
    BY <1>2, <1>4, <2>1 DEF IsSum
  <2>7. QED
    BY <1>2, <2>1, <2>4, <2>5, <2>6
<1>5. QED
  BY <1>3, <1>4

(* Sums of what is the same are the same.                                  *)
LEMMA SumSame ==
    ASSUME NEW f, NEW e, NEW S, IsFiniteSet(S), \A x \in S : f[x] = e[x]
    PROVE  SumFunctionOnSet(f, S) = SumFunctionOnSet(e, S)
<1>1. PICK g : g = (CHOOSE k : IsSum(k, f, S))
  OBVIOUS
<1>2. PICK h : h = (CHOOSE k : IsSum(k, e, S))
  OBVIOUS
<1>3. IsSum(g, f, S) /\ SumFunctionOnSet(f, S) = g[S] /\ IsSum(h, e, S) /\ SumFunctionOnSet(e, S) = h[S]
  BY <1>1, <1>2, SumExists, SumIsFold
<1>4. g[S] = h[S]
  BY <1>3, SumUnique
<1>5. QED
  BY <1>3, <1>4

(* Any element may be taken first; sums of integers are integers.          *)
LEMMA SumTakes ==
    ASSUME NEW f, NEW S, IsFiniteSet(S), \A x \in S : f[x] \in Int
    PROVE  /\ SumFunctionOnSet(f, S) \in Int
           /\ \A y \in S : SumFunctionOnSet(f, S) = f[y] + SumFunctionOnSet(f, S \ {y})
<1> DEFINE Sum(s) == SumFunctionOnSet(f, s)
           Holds(s) == Sum(s) \in Int /\ \A y \in s : Sum(s) = f[y] + Sum(s \ {y})
           N == {n \in Nat : \A s \in SUBSET S : Cardinality(s) <= n => Holds(s)}
<1>0. \A s \in SUBSET S : IsFiniteSet(s) /\ Cardinality(s) \in Nat /\ (Cardinality(s) = 0 <=> s = {})
  BY FS_Subset, FS_CardinalityType, FS_EmptySet
<1>1. 0 \in N
  <2>1. ASSUME NEW s \in SUBSET S, Cardinality(s) <= 0 PROVE Holds(s)
    <3>1. s = {}
      BY <1>0, <2>1
    <3>2. Sum(s) = 0
      BY <3>1, SumSteps
    <3>3. QED
      BY <3>1, <3>2
  <2>2. QED
    BY <2>1
<1>2. ASSUME NEW n \in N PROVE n + 1 \in N
  <2>0. \A t \in SUBSET S : Cardinality(t) <= n => Holds(t)
    OBVIOUS
  <2>1. ASSUME NEW s \in SUBSET S, Cardinality(s) <= n + 1 PROVE Holds(s)
    <3>1. SUFFICES ASSUME s # {} PROVE Holds(s)
      <4>1. 0 \in Nat /\ (s = {} => Cardinality(s) <= 0)
        BY <1>0
      <4>2. QED
        BY <1>1, <4>1
    <3>2. PICK x : x = Some(s)
      OBVIOUS
    <3>3. x \in s
      BY <3>1, <3>2 DEF Some
    <3>4. s \ {x} \in SUBSET S /\ Cardinality(s \ {x}) <= n /\ IsFiniteSet(s)
      BY <1>0, <2>1, <3>1, <3>3, TakeOne
    <3>5. Sum(s) = f[x] + Sum(s \ {x})
      BY <3>1, <3>2, <3>4, SumSteps
    <3>6. Holds(s \ {x})
      BY <2>0, <3>4
    <3>7. Sum(s) \in Int
      BY <3>3, <3>5, <3>6
    <3>8. ASSUME NEW y \in s PROVE Sum(s) = f[y] + Sum(s \ {y})
      <4>1. CASE y = x
        BY <3>5, <4>1
      <4>2. CASE y # x
        <5>1. s \ {y} \in SUBSET S /\ Cardinality(s \ {y}) <= n
          BY <1>0, <2>1, <3>1, TakeOne
        <5>2. Holds(s \ {y})
          BY <2>0, <5>1
        <5>3. x \in s \ {y} /\ y \in s \ {x} /\ (s \ {y}) \ {x} = (s \ {x}) \ {y}
          BY <3>3, <4>2
        <5>4. Sum(s \ {y}) = f[x] + Sum((s \ {x}) \ {y})
          BY <5>2, <5>3
        <5>5. Sum(s \ {x}) = f[y] + Sum((s \ {x}) \ {y})
          BY <3>6, <5>3
        <5>6. f[x] \in Int /\ f[y] \in Int /\ Sum((s \ {x}) \ {y}) \in Int
          <6>1. f[x] \in Int /\ f[y] \in Int
            BY <3>3
          <6>2. s \ {x} # {} /\ (s \ {x}) \ {y} \in SUBSET S
            BY <5>3
          <6>3. Cardinality((s \ {x}) \ {y}) = Cardinality(s \ {x}) - 1
            <7>1. PICK t : t = s \ {x}
              OBVIOUS
            <7>2. t \in SUBSET S /\ t # {} /\ y \in t
              BY <5>3, <6>2, <7>1
            <7>3. Cardinality(t \ {y}) = Cardinality(t) - 1
              BY <7>2, TakeOne
            <7>4. QED
              BY <7>1, <7>3
          <6>4. Cardinality((s \ {x}) \ {y}) <= n
            BY <1>0, <3>4, <6>2, <6>3
          <6>5. QED
            BY <2>0, <6>1, <6>2, <6>4
        <5>7. QED
          BY <3>5, <5>4, <5>5, <5>6
      <4>3. QED
        BY <4>1, <4>2
    <3>9. QED
      BY <3>7, <3>8
  <2>2. QED
    BY <2>1
<1>3. N = Nat
  <2> HIDE DEF N
  <2>1. N \in SUBSET Nat
    BY DEF N
  <2>2. QED
    BY <1>1, <1>2, <2>1, NatSetInduction
<1>4. Cardinality(S) \in N
  BY <1>3, FS_CardinalityType
<1>5. QED
  BY <1>4

(* Sums over two disjoint sets.                                            *)
LEMMA SumSplit ==
    ASSUME NEW f, NEW A, NEW B, IsFiniteSet(A), IsFiniteSet(B), A \cap B = {},
           \A x \in A \cup B : f[x] \in Int
    PROVE  SumFunctionOnSet(f, A \cup B) = SumFunctionOnSet(f, A) + SumFunctionOnSet(f, B)
<1> DEFINE Sum(s) == SumFunctionOnSet(f, s)
           N == {n \in Nat : \A s \in SUBSET A : Cardinality(s) = n => Sum(s \cup B) = Sum(s) + Sum(B)}
<1>0. \A s \in SUBSET A : /\ IsFiniteSet(s) /\ IsFiniteSet(s \cup B) /\ Sum(s) \in Int
                         /\ \A x \in s \cup B : f[x] \in Int
  <2>1. ASSUME NEW s \in SUBSET A PROVE IsFiniteSet(s) /\ IsFiniteSet(s \cup B)
    BY FS_Subset, FS_Union
  <2>2. ASSUME NEW s \in SUBSET A PROVE Sum(s) \in Int
    <3>1. \A x \in s : f[x] \in Int
      OBVIOUS
    <3>2. QED
      BY <2>1, <3>1, SumTakes
  <2>3. QED
    BY <2>1, <2>2
<1>1. 0 \in N
  <2>1. ASSUME NEW s \in SUBSET A, Cardinality(s) = 0 PROVE Sum(s \cup B) = Sum(s) + Sum(B)
    <3>1. s = {}
      BY <1>0, <2>1, FS_EmptySet
    <3>2. s \cup B = B /\ Sum(s) = 0
      BY <3>1, SumSteps
    <3>3. Sum(B) \in Int
      BY SumTakes
    <3>4. PICK k \in Int : k = Sum(B)
      BY <3>3
    <3>5. Sum(s \cup B) = k
      BY <3>2, <3>4
    <3>6. QED
      BY <3>2, <3>4, <3>5
  <2>2. QED
    BY <2>1
<1>2. ASSUME NEW n \in N PROVE n + 1 \in N
  <2>1. ASSUME NEW s \in SUBSET A, Cardinality(s) = n + 1 PROVE Sum(s \cup B) = Sum(s) + Sum(B)
    <3>1. s # {}
      BY <2>1, FS_EmptySet
    <3>2. PICK x \in s : TRUE
      BY <3>1
    <3>3. PICK t : t = s \ {x}
      OBVIOUS
    <3>4. t \in SUBSET A /\ Cardinality(t) = n
      <4>1. Cardinality(t) = Cardinality(s) - 1
        BY <1>0, <3>3, FS_RemoveElement, Zenon
      <4>2. QED
        BY <2>1, <3>3, <4>1
    <3>5. Sum(t \cup B) = Sum(t) + Sum(B)
      BY <3>4
    <3>6. Sum(s) = f[x] + Sum(t)
      <4>1. IsFiniteSet(s) /\ \A y \in s : f[y] \in Int
        BY <1>0
      <4>2. QED
        BY <3>3, <4>1, SumTakes
    <3>7. x \in s \cup B /\ (s \cup B) \ {x} = t \cup B
      BY <3>3
    <3>8. Sum(s \cup B) = f[x] + Sum(t \cup B)
      <4>1. PICK u : u = s \cup B
        OBVIOUS
      <4>2. IsFiniteSet(u) /\ (\A y \in u : f[y] \in Int) /\ x \in u
        BY <1>0, <4>1
      <4>3. Sum(u) = f[x] + Sum(u \ {x})
        BY <4>2, SumTakes
      <4>4. QED
        BY <3>7, <4>1, <4>3
    <3>9. f[x] \in Int /\ Sum(t) \in Int /\ Sum(B) \in Int
      BY <1>0, <3>4, SumTakes
    <3>10. QED
      BY <3>5, <3>6, <3>8, <3>9
  <2>2. QED
    BY <2>1
<1>3. N = Nat
  <2> HIDE DEF N
  <2>1. N \in SUBSET Nat
    BY DEF N
  <2>2. QED
    BY <1>1, <1>2, <2>1, NatSetInduction
<1>4. Cardinality(A) \in N
  BY <1>3, FS_CardinalityType
<1>5. QED
  BY <1>4

(* A sum of larger numbers is larger, and none of naturals is negative.    *)
LEMMA SumOrder ==
    ASSUME NEW f, NEW e, NEW S, IsFiniteSet(S),
           \A x \in S : f[x] \in Int /\ e[x] \in Int /\ f[x] <= e[x]
    PROVE  SumFunctionOnSet(f, S) <= SumFunctionOnSet(e, S)
<1> DEFINE N == {n \in Nat : \A s \in SUBSET S :
                   Cardinality(s) = n => SumFunctionOnSet(f, s) <= SumFunctionOnSet(e, s)}
<1>0. \A s \in SUBSET S : IsFiniteSet(s) /\ SumFunctionOnSet(f, s) \in Int /\ SumFunctionOnSet(e, s) \in Int
  <2>1. ASSUME NEW s \in SUBSET S
        PROVE  IsFiniteSet(s) /\ \A x \in s : f[x] \in Int /\ e[x] \in Int
    BY FS_Subset
  <2>2. QED
    BY <2>1, SumTakes
<1>1. 0 \in N
  <2>1. ASSUME NEW s \in SUBSET S, Cardinality(s) = 0
        PROVE  SumFunctionOnSet(f, s) <= SumFunctionOnSet(e, s)
    <3>1. s = {}
      BY <1>0, <2>1, FS_EmptySet
    <3>2. SumFunctionOnSet(f, s) = 0 /\ SumFunctionOnSet(e, s) = 0
      BY <3>1, SumSteps
    <3>3. QED
      BY <3>2
  <2>2. QED
    BY <2>1
<1>2. ASSUME NEW n \in N PROVE n + 1 \in N
  <2>1. ASSUME NEW s \in SUBSET S, Cardinality(s) = n + 1
        PROVE  SumFunctionOnSet(f, s) <= SumFunctionOnSet(e, s)
    <3>1. s # {}
      BY <2>1, FS_EmptySet
    <3>2. PICK x \in s : TRUE
      BY <3>1
    <3>3. PICK t : t = s \ {x}
      OBVIOUS
    <3>4. t \in SUBSET S /\ Cardinality(t) = n
      BY <2>1, <3>1, <3>3, TakeOne
    <3>5. SumFunctionOnSet(f, t) <= SumFunctionOnSet(e, t)
      BY <3>4
    <3>6. SumFunctionOnSet(f, s) = f[x] + SumFunctionOnSet(f, t)
      <4>1. IsFiniteSet(s) /\ \A y \in s : f[y] \in Int
        BY <1>0
      <4>2. QED
        BY <3>3, <4>1, SumTakes
    <3>7. SumFunctionOnSet(e, s) = e[x] + SumFunctionOnSet(e, t)
      <4>1. IsFiniteSet(s) /\ \A y \in s : e[y] \in Int
        BY <1>0
      <4>2. QED
        BY <3>3, <4>1, SumTakes
    <3>8. f[x] \in Int /\ e[x] \in Int /\ f[x] <= e[x]
      OBVIOUS
    <3>9. SumFunctionOnSet(f, t) \in Int /\ SumFunctionOnSet(e, t) \in Int
      BY <1>0, <3>4
    <3>10. QED
      BY <3>5, <3>6, <3>7, <3>8, <3>9
  <2>2. QED
    BY <2>1
<1>3. N = Nat
  <2> HIDE DEF N
  <2>1. N \in SUBSET Nat
    BY DEF N
  <2>2. QED
    BY <1>1, <1>2, <2>1, NatSetInduction
<1>4. Cardinality(S) \in N
  BY <1>3, FS_CardinalityType
<1>5. QED
  BY <1>4

LEMMA SumZero ==
    ASSUME NEW f, NEW S, IsFiniteSet(S), \A x \in S : f[x] = 0
    PROVE  SumFunctionOnSet(f, S) = 0
<1> DEFINE N == {n \in Nat : \A s \in SUBSET S : Cardinality(s) = n => SumFunctionOnSet(f, s) = 0}
<1>1. 0 \in N
  <2>1. ASSUME NEW s \in SUBSET S, Cardinality(s) = 0 PROVE SumFunctionOnSet(f, s) = 0
    <3>1. s = {}
      BY <2>1, FS_Subset, FS_EmptySet
    <3>2. QED
      BY <3>1, SumSteps
  <2>2. QED
    BY <2>1
<1>2. ASSUME NEW n \in N PROVE n + 1 \in N
  <2>1. ASSUME NEW s \in SUBSET S, Cardinality(s) = n + 1 PROVE SumFunctionOnSet(f, s) = 0
    <3>1. s # {}
      BY <2>1, FS_EmptySet
    <3>2. PICK x \in s : TRUE
      BY <3>1
    <3>3. PICK t : t = s \ {x}
      OBVIOUS
    <3>4. t \in SUBSET S /\ Cardinality(t) = n
      BY <2>1, <3>1, <3>3, TakeOne
    <3>5. SumFunctionOnSet(f, t) = 0 /\ f[x] = 0
      BY <3>4
    <3>6. SumFunctionOnSet(f, s) = f[x] + SumFunctionOnSet(f, t)
      <4>1. IsFiniteSet(s) /\ \A y \in s : f[y] \in Int
        BY FS_Subset
      <4>2. QED
        BY <3>3, <4>1, SumTakes
    <3>7. QED
      BY <3>5, <3>6
  <2>2. QED
    BY <2>1
<1>3. N = Nat
  <2> HIDE DEF N
  <2>1. N \in SUBSET Nat
    BY DEF N
  <2>2. QED
    BY <1>1, <1>2, <2>1, NatSetInduction
<1>4. Cardinality(S) \in N
  BY <1>3, FS_CardinalityType
<1>5. QED
  BY <1>4

LEMMA SumNat ==
    ASSUME NEW f, NEW S, IsFiniteSet(S), \A x \in S : f[x] \in Nat
    PROVE  SumFunctionOnSet(f, S) \in Nat
<1>1. PICK e : e = [x \in S |-> 0]
  OBVIOUS
<1>2. SumFunctionOnSet(e, S) = 0
  BY <1>1, SumZero
<1>3. SumFunctionOnSet(e, S) <= SumFunctionOnSet(f, S)
  <2>1. \A x \in S : e[x] \in Int /\ f[x] \in Int /\ e[x] <= f[x]
    BY <1>1
  <2>2. QED
    BY <2>1, SumOrder
<1>4. SumFunctionOnSet(f, S) \in Int
  BY SumTakes
<1>5. QED
  BY <1>2, <1>3, <1>4

(* Two sequences, one after the other.                                     *)
LEMMA Concatenated ==
    ASSUME NEW S, NEW u \in Seq(S), NEW v \in Seq(S)
    PROVE  /\ u \o v \in Seq(S) /\ Len(u \o v) = Len(u) + Len(v)
           /\ \A i \in 1..Len(u) : (u \o v)[i] = u[i]
           /\ \A i \in (Len(u) + 1)..(Len(u) + Len(v)) : (u \o v)[i] = v[i - Len(u)]
<1>1. PICK m \in Nat, n \in Nat : m = Len(u) /\ n = Len(v)
  OBVIOUS
<1>2. PICK r : r = u \o v
  OBVIOUS
<1>3. r \in Seq(S) /\ Len(r) = m + n
  BY <1>1, <1>2, ConcatProperties
<1>4. \A i \in 1..(m + n) : r[i] = IF i <= m THEN u[i] ELSE v[i - m]
  BY <1>1, <1>2, ConcatProperties
<1>5. ASSUME NEW i \in 1..m PROVE i \in 1..(m + n) /\ i <= m
  BY <1>1
<1>6. ASSUME NEW i \in (m + 1)..(m + n) PROVE i \in 1..(m + n) /\ ~(i <= m)
  BY <1>1
<1>7. \A i \in 1..m : r[i] = u[i]
  BY <1>4, <1>5
<1>8. \A i \in (m + 1)..(m + n) : r[i] = v[i - m]
  BY <1>4, <1>6
<1>9. QED
  BY <1>1, <1>2, <1>3, <1>7, <1>8

-----------------------------------------------------------------------------
(* FlattenSeq (of SequencesExt) is F[n] for an F like this, n = Len(s).    *)
IsFlat(F, s, n) == F = [i \in 1..n |-> IF i = 1 THEN s[i] ELSE F[i - 1] \o s[i]]

(* There is such a function for every n.                                   *)
LEMMA FlatExists ==
    ASSUME NEW s
    PROVE  \A n \in Nat : \E F : IsFlat(F, s, n)
<1> DEFINE S == {n \in Nat : \E F : IsFlat(F, s, n)}
<1>1. 0 \in S
  <2>1. PICK F : F = [i \in 1..0 |-> s[i]]
    OBVIOUS
  <2>2. IsFlat(F, s, 0)
    BY <2>1 DEF IsFlat
  <2>3. QED
    BY <2>2
<1>2. ASSUME NEW n \in S PROVE n + 1 \in S
  <2>1. PICK F : IsFlat(F, s, n)
    OBVIOUS
  <2>2. n \in Nat
    OBVIOUS
  <2>3. PICK x : x = IF n = 0 THEN s[1] ELSE F[n] \o s[n + 1]
    OBVIOUS
  <2>4. PICK G : G = [i \in 1..(n + 1) |-> IF i = n + 1 THEN x ELSE F[i]]
    OBVIOUS
  <2>5. ASSUME NEW i \in 1..(n + 1)
        PROVE  G[i] = IF i = 1 THEN s[i] ELSE G[i - 1] \o s[i]
    <3>1. CASE i = n + 1
      <4>1. G[i] = x
        BY <2>4, <3>1
      <4>2. CASE n = 0
        BY <2>3, <3>1, <4>1, <4>2
      <4>3. CASE n # 0
        <5>1. G[i - 1] = F[n] /\ i # 1
          BY <2>2, <2>4, <3>1, <4>3
        <5>2. QED
          BY <2>3, <3>1, <4>1, <4>3, <5>1
      <4>4. QED
        BY <4>2, <4>3
    <3>2. CASE i # n + 1
      <4>1. i \in 1..n /\ G[i] = F[i]
        BY <2>2, <2>4, <3>2
      <4>2. F[i] = IF i = 1 THEN s[i] ELSE F[i - 1] \o s[i]
        BY <2>1, <4>1 DEF IsFlat
      <4>3. i # 1 => G[i - 1] = F[i - 1]
        BY <2>2, <2>4, <4>1
      <4>4. QED
        BY <4>1, <4>2, <4>3
    <3>3. QED
      BY <3>1, <3>2
  <2>6. IsFlat(G, s, n + 1)
    BY <2>4, <2>5 DEF IsFlat
  <2>7. n + 1 \in Nat
    BY <2>2
  <2>8. QED
    BY <2>6, <2>7
<1>3. S = Nat
  <2>1. S \in SUBSET Nat
    OBVIOUS
  <2> HIDE DEF S
  <2>2. QED
    BY <1>1, <1>2, <2>1, NatSetInduction
<1>4. QED
  BY <1>3

(* What is put together of sequences is a sequence.                        *)
LEMMA FlatType ==
    ASSUME NEW T, NEW s, NEW l \in Nat, \A i \in 1..l : s[i] \in Seq(T),
           NEW F, IsFlat(F, s, l)
    PROVE  \A i \in 1..l : F[i] \in Seq(T)
<1> DEFINE S == {n \in Nat : n \in 1..l => F[n] \in Seq(T)}
<1>1. 0 \in S
  OBVIOUS
<1>2. ASSUME NEW n \in S PROVE n + 1 \in S
  <2>1. SUFFICES ASSUME n + 1 \in 1..l PROVE F[n + 1] \in Seq(T)
    OBVIOUS
  <2>2. s[n + 1] \in Seq(T)
    BY <2>1
  <2>3. F[n + 1] = IF n + 1 = 1 THEN s[n + 1] ELSE F[(n + 1) - 1] \o s[n + 1]
    BY <2>1 DEF IsFlat
  <2>4. CASE n = 0
    BY <2>2, <2>3, <2>4
  <2>5. CASE n # 0
    <3>1. F[n] \in Seq(T) /\ (n + 1) - 1 = n /\ n + 1 # 1
      BY <2>1, <2>5
    <3>2. F[n + 1] = F[n] \o s[n + 1]
      BY <2>3, <3>1
    <3>3. QED
      BY <2>2, <3>1, <3>2, Concatenated
  <2>6. QED
    BY <2>4, <2>5
<1>3. S = Nat
  <2>1. S \in SUBSET Nat
    OBVIOUS
  <2> HIDE DEF S
  <2>2. QED
    BY <1>1, <1>2, <2>1, NatSetInduction
<1>4. QED
  BY <1>3

(* Two functions agree up to k.                                            *)
SameUpTo(s, t, k) == \A i \in 1..k : s[i] = t[i]

(* The first k values only depend on the first k sequences.                *)
LEMMA FlatSame ==
    ASSUME NEW s, NEW t, NEW m \in Nat, NEW n \in Nat, NEW k \in (0..m) \cap (0..n), SameUpTo(s, t, k),
           NEW F, IsFlat(F, s, m), NEW G, IsFlat(G, t, n)
    PROVE  SameUpTo(F, G, k)
<1> DEFINE S == {j \in Nat : j \in 1..k => F[j] = G[j]}
<1>1. 0 \in S
  OBVIOUS
<1>2. ASSUME NEW j \in S PROVE j + 1 \in S
  <2>1. SUFFICES ASSUME j + 1 \in 1..k PROVE F[j + 1] = G[j + 1]
    OBVIOUS
  <2>2. j + 1 \in 1..m /\ j + 1 \in 1..n /\ s[j + 1] = t[j + 1]
    BY <2>1 DEF SameUpTo
  <2>3. F[j + 1] = IF j + 1 = 1 THEN s[j + 1] ELSE F[(j + 1) - 1] \o s[j + 1]
    BY <2>2 DEF IsFlat
  <2>4. G[j + 1] = IF j + 1 = 1 THEN t[j + 1] ELSE G[(j + 1) - 1] \o t[j + 1]
    BY <2>2 DEF IsFlat
  <2>5. CASE j = 0
    BY <2>2, <2>3, <2>4, <2>5
  <2>6. CASE j # 0
    <3>1. F[j] = G[j] /\ (j + 1) - 1 = j
      BY <2>1, <2>6
    <3>2. QED
      BY <2>2, <2>3, <2>4, <3>1
  <2>7. QED
    BY <2>5, <2>6
<1>3. S = Nat
  <2>1. S \in SUBSET Nat
    OBVIOUS
  <2> HIDE DEF S
  <2>2. QED
    BY <1>1, <1>2, <2>1, NatSetInduction
<1>4. QED
  BY <1>3 DEF SameUpTo

(* FlattenSeq joins the sequences it is given.                             *)
LEMMA FlatSeq ==
    ASSUME NEW T, NEW s \in Seq(Seq(T))
    PROVE  FlattenSeq(s) \in Seq(T)
<1>1. PICK l \in Nat : l = Len(s) /\ DOMAIN s = 1..l
  OBVIOUS
<1>2. \A i \in 1..l : s[i] \in Seq(T)
  BY <1>1
<1>3. CASE l = 0
  BY <1>1, <1>3 DEF FlattenSeq
<1>4. CASE l # 0
  <2>1. PICK F : F = CHOOSE G : IsFlat(G, s, l)
    OBVIOUS
  <2>2. IsFlat(F, s, l)
    BY <2>1, FlatExists
  <2>3. FlattenSeq(s) = F[l]
    BY <1>1, <1>4, <2>1 DEF FlattenSeq, IsFlat
  <2>4. l \in 1..l
    BY <1>4
  <2>5. \A i \in 1..l : F[i] \in Seq(T)
    BY <1>2, <2>2, FlatType
  <2>6. QED
    BY <2>3, <2>4, <2>5, Zenon
<1>5. QED
  BY <1>3, <1>4

(* One sequence more is put behind the others.                             *)
LEMMA FlatAppend ==
    ASSUME NEW T, NEW s \in Seq(Seq(T)), NEW x \in Seq(T)
    PROVE  FlattenSeq(Append(s, x)) = FlattenSeq(s) \o x
<1>1. PICK l \in Nat : l = Len(s) /\ DOMAIN s = 1..l
  OBVIOUS
<1>2. PICK t : t = Append(s, x)
  OBVIOUS
<1>3. t \in Seq(Seq(T)) /\ Len(t) = l + 1 /\ t[l + 1] = x /\ \A i \in 1..l : t[i] = s[i]
  BY <1>1, <1>2
<1>4. PICK G : G = CHOOSE H : IsFlat(H, t, l + 1)
  OBVIOUS
<1>5. IsFlat(G, t, l + 1)
  <2>1. l + 1 \in Nat
    OBVIOUS
  <2>2. QED
    BY <1>4, <2>1, FlatExists
<1>6. FlattenSeq(t) = G[l + 1]
  BY <1>3, <1>4 DEF FlattenSeq, IsFlat
<1>7. G[l + 1] = IF l + 1 = 1 THEN t[l + 1] ELSE G[(l + 1) - 1] \o t[l + 1]
  <2>1. l + 1 \in 1..(l + 1)
    OBVIOUS
  <2>2. QED
    BY <1>5, <2>1 DEF IsFlat
<1>8. CASE l = 0
  <2>1. FlattenSeq(s) = <<>>
    BY <1>1, <1>8 DEF FlattenSeq
  <2>2. FlattenSeq(t) = x
    BY <1>3, <1>6, <1>7, <1>8
  <2>3. QED
    BY <1>2, <2>1, <2>2
<1>9. CASE l # 0
  <2>1. PICK F : F = CHOOSE H : IsFlat(H, s, l)
    OBVIOUS
  <2>2. IsFlat(F, s, l)
    BY <2>1, FlatExists
  <2>3. FlattenSeq(s) = F[l]
    BY <1>1, <1>9, <2>1 DEF FlattenSeq, IsFlat
  <2>4. \A i \in 1..l : G[i] = F[i]
    <3>1. PICK n \in Nat : n = l + 1 /\ l \in (0..n) \cap (0..l)
      OBVIOUS
    <3>2. SameUpTo(t, s, l)
      BY <1>3 DEF SameUpTo
    <3>3. IsFlat(G, t, n)
      BY <1>5, <3>1
    <3>4. QED
      <4>1. SameUpTo(G, F, l)
        BY <2>2, <3>1, <3>2, <3>3, FlatSame
      <4>2. QED
        BY <4>1 DEF SameUpTo
  <2>5. G[l] = F[l] /\ (l + 1) - 1 = l /\ l + 1 # 1
    BY <1>9, <2>4
  <2>6. FlattenSeq(t) = F[l] \o x
    BY <1>3, <1>6, <1>7, <2>5
  <2>7. QED
    BY <1>2, <2>3, <2>6
<1>10. QED
  BY <1>8, <1>9

-----------------------------------------------------------------------------
(* The smallest of some naturals (Min of FiniteSetsExt).                   *)
LEMMA MinOfNaturals ==
    ASSUME NEW S \in SUBSET Nat, S # {}
    PROVE  Min(S) \in S /\ \A y \in S : Min(S) <= y
<1>1. \E x \in S : \A y \in S : ~(y < x)
  <2>1. PICK x \in S : \A y \in S : ~(<<y, x>> \in OpToRel(<, Nat))
    BY WFMin, NatLessThanWellFounded, Zenon
  <2>2. \A y \in S : y \in Nat /\ x \in Nat
    OBVIOUS
  <2>3. QED
    BY <2>1, <2>2, Zenon DEF OpToRel
<1>2. PICK x \in S : \A y \in S : x <= y
  BY <1>1
<1>3. QED
  BY <1>2 DEF Min

(* The elements at consecutive positions are a part of the sequence.       *)
LEMMA AtPositionsInterval ==
    ASSUME NEW T, NEW s \in Seq(T), NEW m \in Nat \ {0}, NEW n \in 0..Len(s)
    PROVE  AtPositions(s, m..n) = SubSeq(s, m, n)
<1>1. PICK l \in Nat : l = Len(s) /\ n \in 0..l /\ \A i \in 1..l : s[i] \in T
  OBVIOUS
<1>2. PICK F : IsLoop(F, s, m..n, l) /\ AtPositions(s, m..n) = F[l]
  BY <1>1, AtPositionsIsLast
<1> DEFINE S == {i \in Nat : i <= l => F[i] = SubSeq(s, m, IF i <= n THEN i ELSE n)}
<1>3. 0 \in S
  <2>1. F[0] = <<>>
    BY <1>2 DEF IsLoop
  <2>2. SubSeq(s, m, 0) = <<>>
    BY SubSeqEmpty
  <2>3. F[0] = SubSeq(s, m, IF 0 <= n THEN 0 ELSE n)
    BY <1>1, <2>1, <2>2
  <2>4. QED
    BY <2>3
<1>4. ASSUME NEW i \in S PROVE i + 1 \in S
  <2>1. SUFFICES ASSUME i + 1 <= l
                 PROVE  F[i + 1] = SubSeq(s, m, IF i + 1 <= n THEN i + 1 ELSE n)
    OBVIOUS
  <2>2. F[i] = SubSeq(s, m, IF i <= n THEN i ELSE n)
    BY <2>1
  <2>3. i + 1 \in 0..l /\ i + 1 # 0 /\ (i + 1) - 1 = i
    BY <2>1
  <2>4. F[i + 1] = IF i + 1 \in m..n THEN Append(F[i], s[i + 1]) ELSE F[i]
    BY <1>2, <2>3 DEF IsLoop
  <2>5. CASE i + 1 > n
    BY <1>1, <2>2, <2>4, <2>5
  <2>6. CASE i + 1 <= n /\ i + 1 < m
    <3>1. SubSeq(s, m, i) = <<>> /\ SubSeq(s, m, i + 1) = <<>>
      BY <2>6, SubSeqEmpty
    <3>2. QED
      BY <1>1, <2>2, <2>4, <2>6, <3>1
  <2>7. CASE i + 1 <= n /\ i + 1 >= m
    <3>1. F[i + 1] = Append(SubSeq(s, m, i), s[i + 1])
      BY <1>1, <2>2, <2>4, <2>7
    <3>2. PICK j \in Int : j = i + 1
      OBVIOUS
    <3>3. \A k \in m..j : s[k] \in T
      BY <1>1, <2>7, <3>2
    <3>4. \A k \in m..i : s[k] \in T
      BY <3>2, <3>3
    <3>5. /\ SubSeq(s, m, j) \in Seq(T) /\ Len(SubSeq(s, m, j)) = j - m + 1
          /\ \A k \in 1..(j - m + 1) : SubSeq(s, m, j)[k] = s[m + k - 1]
      BY <2>7, <3>2, <3>3, SubSeqProperties
    <3>6. /\ SubSeq(s, m, i) \in Seq(T) /\ Len(SubSeq(s, m, i)) = i - m + 1
          /\ \A k \in 1..(i - m + 1) : SubSeq(s, m, i)[k] = s[m + k - 1]
      <4>1. i \in Int /\ (IF m <= i THEN i - m + 1 ELSE 0) = i - m + 1
        BY <2>7
      <4>2. QED
        BY <3>4, <4>1, SubSeqProperties
    <3>7. PICK a \in Seq(T) : a = SubSeq(s, m, i)
      BY <3>6
    <3>8. PICK b \in Seq(T) : b = SubSeq(s, m, j)
      BY <3>5
    <3>9. s[j] \in T
      BY <2>7, <3>2, <3>3
    <3>10. Append(a, s[j]) = b
      <4>1. Append(a, s[j]) \in Seq(T) /\ Len(Append(a, s[j])) = Len(b)
        BY <2>7, <3>2, <3>5, <3>6, <3>7, <3>8, <3>9
      <4>2. \A k \in 1..Len(b) : Append(a, s[j])[k] = b[k]
        <5>1. TAKE k \in 1..Len(b)
        <5>2. k \in 1..(j - m + 1) /\ b[k] = s[m + k - 1]
          BY <3>5, <3>8
        <5>3. CASE k = j - m + 1
          BY <2>7, <3>2, <3>6, <3>7, <3>9, <5>2, <5>3
        <5>4. CASE k # j - m + 1
          <6>1. k \in 1..(i - m + 1)
            BY <3>2, <5>2, <5>4
          <6>2. QED
            BY <3>6, <3>7, <3>9, <5>2, <6>1
        <5>5. QED
          BY <5>3, <5>4
      <4>3. QED
        BY <4>1, <4>2, SeqEqual
    <3>11. QED
      BY <2>7, <3>1, <3>2, <3>7, <3>8, <3>10
  <2>8. n \in Nat
    OBVIOUS
  <2>9. QED
    BY <2>5, <2>6, <2>7, <2>8
<1>5. S = Nat
  <2>1. S \in SUBSET Nat
    OBVIOUS
  <2> HIDE DEF S
  <2>2. QED
    BY <1>3, <1>4, <2>1, NatSetInduction
<1>6. F[l] = SubSeq(s, m, IF l <= n THEN l ELSE n)
  <2>1. \A i \in S : i <= l => F[i] = SubSeq(s, m, IF i <= n THEN i ELSE n)
    OBVIOUS
  <2> HIDE DEF S
  <2>2. l \in S /\ l <= l
    BY <1>5
  <2>3. QED
    BY <2>1, <2>2
<1>7. QED
  BY <1>1, <1>2, <1>6

AgreeUpTo(s, C, t, D, k) == \A i \in 1..k : s[i] = t[i] /\ (i \in C <=> i \in D)
SameAt(F, G, k) == \A i \in 0..k : F[i] = G[i]
NothingAfter(C, k) == C \subseteq 1..k
RestsAt(F, k, l) == F[l] = F[k]

(* Two loops that have seen the same have collected the same.              *)
LEMMA LoopSame ==
    ASSUME NEW s, NEW t, NEW C, NEW D, NEW m \in Nat, NEW n \in Nat, NEW k \in Nat, k <= m, k <= n,
           NEW F, IsLoop(F, s, C, m), NEW G, IsLoop(G, t, D, n), AgreeUpTo(s, C, t, D, k)
    PROVE  SameAt(F, G, k)
<1> DEFINE S == {j \in Nat : j <= k => F[j] = G[j]}
<1>1. 0 \in S
  BY DEF IsLoop
<1>2. ASSUME NEW j \in S PROVE j + 1 \in S
  <2>1. SUFFICES ASSUME j + 1 <= k PROVE F[j + 1] = G[j + 1]
    OBVIOUS
  <2>2. j \in Nat /\ F[j] = G[j]
    BY <2>1
  <2>3. j + 1 \in 0..m /\ j + 1 \in 0..n /\ j + 1 # 0 /\ (j + 1) - 1 = j /\ j + 1 \in 1..k
    BY <2>1, <2>2
  <2>4. F[j + 1] = IF j + 1 \in C THEN Append(F[j], s[j + 1]) ELSE F[j]
    BY <2>3 DEF IsLoop
  <2>5. G[j + 1] = IF j + 1 \in D THEN Append(G[j], t[j + 1]) ELSE G[j]
    BY <2>3 DEF IsLoop
  <2>6. QED
    BY <2>2, <2>3, <2>4, <2>5 DEF AgreeUpTo
<1>3. S = Nat
  <2>1. S \in SUBSET Nat
    OBVIOUS
  <2> HIDE DEF S
  <2>2. QED
    BY <1>1, <1>2, <2>1, NatSetInduction
<1>4. \A i \in 0..k : i \in S /\ i <= k
  BY <1>3
<1>5. QED
  BY <1>4 DEF SameAt

(* Behind the last position that is chosen nothing more is collected.      *)
LEMMA LoopRests ==
    ASSUME NEW s, NEW k \in Nat, NEW C, NothingAfter(C, k), NEW l \in Nat, k <= l,
           NEW F, IsLoop(F, s, C, l)
    PROVE  RestsAt(F, k, l)
<1> DEFINE S == {j \in Nat : k + j <= l => F[k + j] = F[k]}
<1>1. 0 \in S
  OBVIOUS
<1>2. ASSUME NEW j \in S PROVE j + 1 \in S
  <2>1. SUFFICES ASSUME k + (j + 1) <= l PROVE F[k + (j + 1)] = F[k]
    OBVIOUS
  <2>2. j \in Nat /\ F[k + j] = F[k]
    BY <2>1
  <2>3. PICK i \in Nat : i = k + (j + 1) /\ i \in 0..l /\ i # 0 /\ i - 1 = k + j /\ i \notin C
    BY <2>1, <2>2 DEF NothingAfter
  <2>4. F[i] = F[i - 1]
    BY <2>3 DEF IsLoop
  <2>5. QED
    BY <2>2, <2>3, <2>4
<1>3. S = Nat
  <2>1. S \in SUBSET Nat
    OBVIOUS
  <2> HIDE DEF S
  <2>2. QED
    BY <1>1, <1>2, <2>1, NatSetInduction
<1>4. l - k \in S /\ k + (l - k) = l
  <2> HIDE DEF S
  <2>1. l - k \in Nat /\ k + (l - k) = l
    OBVIOUS
  <2>2. QED
    BY <1>3, <2>1
<1>5. QED
  BY <1>4 DEF RestsAt

(* What AtPositions returns is settled by the elements up to the last that *)
(* is chosen, and a position behind them adds its element.                 *)
LEMMA AtPositionsPrefix ==
    ASSUME NEW s, NEW t, Len(s) \in Nat, Len(t) \in Nat, NEW k \in Nat, k <= Len(s), k <= Len(t),
           \A i \in 1..k : s[i] = t[i], NEW C \in SUBSET (1..k)
    PROVE  AtPositions(s, C) = AtPositions(t, C)
<1>1. PICK F : IsLoop(F, s, C, Len(s)) /\ AtPositions(s, C) = F[Len(s)]
  BY AtPositionsIsLast
<1>2. PICK G : IsLoop(G, t, C, Len(t)) /\ AtPositions(t, C) = G[Len(t)]
  BY AtPositionsIsLast
<1>3. PICK m \in Nat, n \in Nat : m = Len(s) /\ n = Len(t) /\ k <= m /\ k <= n
  OBVIOUS
<1>0. IsLoop(F, s, C, m) /\ IsLoop(G, t, C, n)
  BY <1>1, <1>2, <1>3
<1>4. RestsAt(F, k, m) /\ RestsAt(G, k, n)
  <2>1. NothingAfter(C, k)
    BY DEF NothingAfter
  <2>2. QED
    BY <2>1, <1>0, <1>3, LoopRests
<1>5. SameAt(F, G, k)
  <2>1. AgreeUpTo(s, C, t, C, k)
    BY DEF AgreeUpTo
  <2>2. QED
    BY <2>1, <1>0, <1>3, LoopSame
<1>6. k \in 0..k
  OBVIOUS
<1>7. QED
  BY <1>1, <1>2, <1>3, <1>4, <1>5, <1>6 DEF RestsAt, SameAt

LEMMA AtPositionsAppend ==
    ASSUME NEW s, Len(s) \in Nat, NEW i \in 1..Len(s), NEW C \in SUBSET (1..(i - 1))
    PROVE  AtPositions(s, C \cup {i}) = Append(AtPositions(s, C), s[i])
<1>1. PICK F : IsLoop(F, s, C, Len(s)) /\ AtPositions(s, C) = F[Len(s)]
  BY AtPositionsIsLast
<1>2. PICK D : D = C \cup {i}
  OBVIOUS
<1>3. PICK G : IsLoop(G, s, D, Len(s)) /\ AtPositions(s, D) = G[Len(s)]
  BY AtPositionsIsLast
<1>4. PICK l \in Nat, j \in Nat : l = Len(s) /\ j = i - 1 /\ i = j + 1 /\ i <= l /\ j <= l /\ i \in Nat
  OBVIOUS
<1>0. IsLoop(F, s, C, l) /\ IsLoop(G, s, D, l)
  BY <1>1, <1>3, <1>4
<1>5. RestsAt(F, j, l)
  <2>1. NothingAfter(C, j)
    BY <1>4 DEF NothingAfter
  <2>2. QED
    BY <2>1, <1>0, <1>4, LoopRests
<1>6. RestsAt(G, i, l)
  <2>1. NothingAfter(D, i)
    BY <1>2, <1>4 DEF NothingAfter
  <2>2. QED
    BY <2>1, <1>0, <1>4, LoopRests
<1>7. F[j] = G[j]
  <2>1. AgreeUpTo(s, C, s, D, j)
    BY <1>2, <1>4 DEF AgreeUpTo
  <2>2. SameAt(F, G, j)
    BY <2>1, <1>0, <1>4, LoopSame
  <2>3. QED
    BY <2>2, <1>4 DEF SameAt
<1>8. G[i] = Append(G[j], s[i])
  <2>1. i \in 0..l /\ i # 0 /\ i - 1 = j /\ i \in D
    BY <1>2, <1>4
  <2>2. G[i] = IF i = 0 THEN <<>> ELSE IF i \in D THEN Append(G[i - 1], s[i]) ELSE G[i - 1]
    BY <2>1, <1>3, <1>4 DEF IsLoop
  <2>3. QED
    BY <2>1, <2>2
<1>9. QED
  BY <1>1, <1>2, <1>3, <1>4, <1>5, <1>6, <1>7, <1>8 DEF RestsAt

LEMMA AtPositionsNone ==
    ASSUME NEW s, Len(s) \in Nat
    PROVE  AtPositions(s, {}) = <<>>
<1>1. PICK F : IsLoop(F, s, {}, Len(s)) /\ AtPositions(s, {}) = F[Len(s)]
  BY AtPositionsIsLast
<1>2. PICK l \in Nat : l = Len(s)
  OBVIOUS
<1>3. RestsAt(F, 0, l)
  <2>1. NothingAfter({}, 0) /\ 0 <= l /\ 0 \in Nat /\ IsLoop(F, s, {}, l)
    BY <1>1, <1>2 DEF NothingAfter
  <2>2. QED
    BY <2>1, <1>2, LoopRests
<1>4. F[0] = <<>>
  BY <1>1, <1>2 DEF IsLoop
<1>5. QED
  BY <1>1, <1>2, <1>3, <1>4 DEF RestsAt

-----------------------------------------------------------------------------
(* The k-th of the values a function takes, each as often as it is taken.  *)
AtMost(q, p) == {s \in DOMAIN q : q[s] <= p}
Below(q, p) == {s \in DOMAIN q : q[s] < p}
ValuesOf(q) == {q[s] : s \in DOMAIN q}

LEMMA PartsFinite ==
    ASSUME NEW S, IsFiniteSet(S), NEW q \in [S -> Nat]
    PROVE  /\ IsFiniteSet(ValuesOf(q)) /\ ValuesOf(q) \in SUBSET Nat
           /\ \A p \in Nat : /\ IsFiniteSet(AtMost(q, p)) /\ Cardinality(AtMost(q, p)) \in Nat
                             /\ IsFiniteSet(Below(q, p)) /\ Cardinality(Below(q, p)) \in Nat
<1>1. IsFiniteSet(ValuesOf(q)) /\ ValuesOf(q) \in SUBSET Nat
  <2>1. IsFiniteSet({q[s] : s \in S})
    BY FiniteImage
  <2>2. ValuesOf(q) = {q[s] : s \in S}
    BY DEF ValuesOf
  <2>3. QED
    BY <2>1, <2>2
<1>2. ASSUME NEW p \in Nat
      PROVE  /\ IsFiniteSet(AtMost(q, p)) /\ Cardinality(AtMost(q, p)) \in Nat
             /\ IsFiniteSet(Below(q, p)) /\ Cardinality(Below(q, p)) \in Nat
  <2>1. AtMost(q, p) \subseteq S /\ Below(q, p) \subseteq S
    BY DEF AtMost, Below
  <2>2. IsFiniteSet(AtMost(q, p)) /\ IsFiniteSet(Below(q, p))
    BY <2>1, FS_Subset
  <2>3. QED
    BY <2>2, FS_CardinalityType
<1>3. QED
  BY <1>1, <1>2

LEMMA RankedExists ==
    ASSUME NEW S, IsFiniteSet(S), NEW q \in [S -> Nat], NEW k \in Nat \ {0}, k <= Cardinality(S)
    PROVE  \E p \in ValuesOf(q) : Cardinality(Below(q, p)) < k /\ Cardinality(AtMost(q, p)) >= k
<1> DEFINE R == {p \in ValuesOf(q) : Cardinality(AtMost(q, p)) >= k}
<1>0. DOMAIN q = S /\ Cardinality(S) \in Nat
  BY FS_CardinalityType
<1>1. R # {}
  <2>1. ValuesOf(q) # {}
    <3>1. S # {}
      BY FS_EmptySet, <1>0
    <3>2. QED
      BY <3>1, <1>0 DEF ValuesOf
  <2>2. PICK m \in ValuesOf(q) : \A x \in ValuesOf(q) : x <= m
    BY <2>1, PartsFinite, FiniteHasMax
  <2>3. AtMost(q, m) = S
    BY <2>2, <1>0 DEF AtMost, ValuesOf
  <2>4. QED
    BY <2>2, <2>3, <1>0
<1>2. R \in SUBSET Nat
  BY PartsFinite
<1>3. PICK p \in R : \A y \in R : p <= y
  <2> HIDE DEF R
  <2>1. QED
    BY <1>1, <1>2, MinOfNaturals
<1>4. p \in ValuesOf(q) /\ p \in Nat /\ Cardinality(AtMost(q, p)) >= k
  BY <1>3, <1>2
<1>5. Cardinality(Below(q, p)) < k
  <2>1. CASE Below(q, p) = {}
    BY <2>1, FS_EmptySet
  <2>2. CASE Below(q, p) # {}
    <3> DEFINE L == {x \in ValuesOf(q) : x < p}
    <3>1. L # {}
      BY <2>2, <1>0 DEF Below, ValuesOf
    <3>2. L \in SUBSET Nat /\ IsFiniteSet(L)
      <4>1. L \subseteq ValuesOf(q)
        OBVIOUS
      <4>2. QED
        BY <4>1, PartsFinite, FS_Subset
    <3>3. PICK m \in L : \A x \in L : x <= m
      <4> HIDE DEF L
      <4>1. QED
        BY <3>1, <3>2, FiniteHasMax
    <3>4. m \in ValuesOf(q) /\ m < p /\ m \in Nat
      BY <3>3, <3>2
    <3>5. Below(q, p) = AtMost(q, m)
      <4>1. ASSUME NEW s \in S PROVE q[s] < p <=> q[s] <= m
        <5>1. q[s] \in ValuesOf(q) /\ q[s] \in Nat
          BY <1>0 DEF ValuesOf
        <5>2. QED
          BY <5>1, <3>3, <3>4, <1>4
      <4>2. QED
        BY <4>1, <1>0 DEF Below, AtMost
    <3>6. m \notin R
      <4>1. m \in R => p <= m
        BY <1>3
      <4>2. QED
        BY <4>1, <3>4, <1>4
    <3>7. Cardinality(AtMost(q, m)) \in Nat
      BY <3>4, PartsFinite
    <3>8. QED
      BY <3>4, <3>5, <3>6, <3>7
  <2>3. QED
    BY <2>1, <2>2
<1>6. QED
  BY <1>4, <1>5
=============================================================================

--------------------------- MODULE SelectionsProofs ---------------------------
(***************************************************************************)
(* Lemmas on selections: ranks are one to one, and a selection holds what  *)
(* is selected and nothing else.                                           *)
(***************************************************************************)
EXTENDS Selections, FiniteSetTheorems, WellFoundedInduction, TLAPS

\* A finite set has a number of elements, and so has what is made of it.
LEMMA FiniteFacts ==
    /\ \A S : IsFiniteSet(S) => Cardinality(S) \in Nat /\ (Cardinality(S) = 0 <=> S = {})
    /\ \A S, T : IsFiniteSet(S) /\ T \subseteq S => IsFiniteSet(T) /\ Cardinality(T) <= Cardinality(S)
    /\ \A S, T : IsFiniteSet(S) /\ T \subseteq S /\ T # S => Cardinality(T) # Cardinality(S)
    /\ \A S, x : IsFiniteSet(S) => IsFiniteSet(S \cup {x})
    /\ \A b \in Nat : IsFiniteSet(1 .. b) /\ Cardinality(1 .. b) = b
<1>1. ASSUME NEW S, IsFiniteSet(S) PROVE Cardinality(S) \in Nat /\ (Cardinality(S) = 0 <=> S = {})
  BY <1>1, FS_CardinalityType, FS_EmptySet
<1>2. ASSUME NEW S, NEW T, IsFiniteSet(S), T \subseteq S
      PROVE  /\ IsFiniteSet(T) /\ Cardinality(T) <= Cardinality(S)
             /\ T # S => Cardinality(T) # Cardinality(S)
  <2>1. IsFiniteSet(S) /\ T \in SUBSET S
    BY <1>2
  <2>2. IsFiniteSet(T) /\ Cardinality(T) <= Cardinality(S)
    BY <2>1, FS_Subset
  <2>3. T # S => Cardinality(T) # Cardinality(S)
    BY <2>1, FS_Subset
  <2> QED
    BY <2>2, <2>3
<1>3. ASSUME NEW S, NEW x, IsFiniteSet(S) PROVE IsFiniteSet(S \cup {x})
  BY <1>3, FS_AddElement
<1>4. ASSUME NEW b \in Nat PROVE IsFiniteSet(1 .. b) /\ Cardinality(1 .. b) = b
  <2>1. IsFiniteSet(1 .. b) /\ Cardinality(1 .. b) = b
    BY FS_Interval
  <2> QED
    BY <2>1
<1> QED
  BY <1>1, <1>2, <1>3, <1>4, Zenon

\* Every rank belongs to one number of a finite set: ranking is one to one.
LEMMA NthIn ==
    ASSUME NEW I, I \subseteq Nat, IsFiniteSet(I)
    PROVE  /\ Cardinality(I) \in Nat
           /\ \A k \in 1 .. Cardinality(I) : Nth(I, k) \in I
           /\ \A i \in I : \E k \in 1 .. Cardinality(I) : Nth(I, k) = i
           /\ \A k \in 1 .. Cardinality(I) : Cardinality({j \in I : j <= Nth(I, k)}) = k
           /\ \A i, j \in I : i < j => Cardinality({x \in I : x <= i}) < Cardinality({x \in I : x <= j})
<1> DEFINE below(i) == {j \in I : j <= i}
           rank == [i \in I |-> Cardinality(below(i))]
           n == Cardinality(I)
<1>1. n \in Nat
  BY FiniteFacts
<1>2. ASSUME NEW i \in I
      PROVE  IsFiniteSet(below(i)) /\ Cardinality(below(i)) \in Nat /\ Cardinality(below(i)) \in 1 .. n
  <2>1. below(i) \in SUBSET I /\ i \in below(i)
    OBVIOUS
  <2>2. IsFiniteSet(below(i)) /\ Cardinality(below(i)) <= n
    BY <2>1, FiniteFacts
  <2>3. Cardinality(below(i)) \in Nat /\ Cardinality(below(i)) # 0
    BY <2>1, <2>2, FiniteFacts, Zenon
  <2> HIDE DEF below
  <2> QED
    BY <1>1, <2>2, <2>3
<1>3. ASSUME NEW i \in I, NEW j \in I, i < j
      PROVE  Cardinality(below(i)) < Cardinality(below(j))
  <2>0. \A k \in I : k \in Nat
    OBVIOUS
  <2>4. \A k \in I : k <= i => k <= j
    BY <1>3, <2>0
  <2>5. j <= j /\ ~(j <= i)
    BY <1>3, <2>0
  <2>1. below(i) \in SUBSET below(j) /\ j \in below(j) /\ j \notin below(i)
    BY <2>4, <2>5, Zenon
  <2>2. IsFiniteSet(below(j))
    BY <1>2
  <2>3. below(i) # below(j)
    BY <2>1
  <2> HIDE DEF below
  <2>6. /\ Cardinality(below(i)) # Cardinality(below(j)) /\ Cardinality(below(i)) <= Cardinality(below(j))
        /\ Cardinality(below(i)) \in Nat /\ Cardinality(below(j)) \in Nat
    BY <1>2, <2>1, <2>2, <2>3, FiniteFacts
  <2> QED
    BY <2>6
<1>4. ASSUME NEW i \in I, NEW j \in I, Cardinality(below(i)) = Cardinality(below(j)) PROVE i = j
  <2>1. i \in Nat /\ j \in Nat /\ Cardinality(below(i)) \in Nat
    BY <1>2
  <2> HIDE DEF below
  <2>2. i < j \/ j < i \/ i = j
    BY <2>1
  <2>3. ~(i < j)
    BY <1>3, <1>4, <2>1
  <2>4. ~(j < i)
    BY <1>3, <1>4, <2>1
  <2> QED
    BY <2>2, <2>3, <2>4
<1> HIDE DEF below
<1>5. rank \in [I -> 1 .. n] /\ \A i \in I : rank[i] = Cardinality(below(i))
  BY <1>2
<1>6. rank \in Injection(I, 1 .. n)
  BY <1>4, <1>5 DEF Injection, IsInjective
<1>7. IsFiniteSet(1 .. n) /\ Cardinality(1 .. n) = n
  BY <1>1, FiniteFacts
<1> HIDE DEF rank
<1>8. rank \in Surjection(I, 1 .. n)
  BY <1>6, <1>7, FS_Injection
<1>9. \A k \in 1 .. n : \E i \in I : Cardinality(below(i)) = k
  BY <1>5, <1>8 DEF Surjection
<1>10. \A k \in 1 .. n : Nth(I, k) \in I /\ Cardinality(below(Nth(I, k))) = k
  BY <1>9 DEF Nth, below
<1>11. ASSUME NEW i \in I PROVE \E k \in 1 .. n : Nth(I, k) = i
  <2>1. Cardinality(below(i)) \in 1 .. n
    BY <1>2
  <2> QED
    BY <2>1, <1>10, <1>4, Zenon
<1> QED
  BY <1>1, <1>3, <1>10, <1>11 DEF below

\* A selection holds the elements selected and no other.
LEMMA Picked ==
    ASSUME NEW S, NEW s \in Seq(S), NEW I \in SUBSET DOMAIN s
    PROVE  /\ Pick(s, I) \in Seq(S)
           /\ \A k \in DOMAIN Pick(s, I) : \E i \in I : Pick(s, I)[k] = s[i]
           /\ \A i \in I : \E k \in DOMAIN Pick(s, I) : Pick(s, I)[k] = s[i]
<1>1. IsFiniteSet(I) /\ I \subseteq Nat
  <2>1. I \in SUBSET (1 .. Len(s)) /\ Len(s) \in Nat
    OBVIOUS
  <2>2. IsFiniteSet(1 .. Len(s))
    BY <2>1, FiniteFacts
  <2>3. IsFiniteSet(I)
    BY <2>1, <2>2, FiniteFacts, Zenon
  <2> QED
    BY <2>1, <2>3
<1>2. /\ Cardinality(I) \in Nat
      /\ \A k \in 1 .. Cardinality(I) : Nth(I, k) \in I
      /\ \A i \in I : \E k \in 1 .. Cardinality(I) : Nth(I, k) = i
  BY <1>1, NthIn
<1>3. DOMAIN Pick(s, I) = 1 .. Cardinality(I) /\ \A k \in 1 .. Cardinality(I) : Pick(s, I)[k] = s[Nth(I, k)]
  BY DEF Pick
<1>4. Pick(s, I) = [k \in 1 .. Cardinality(I) |-> s[Nth(I, k)]]
  BY DEF Pick
<1>5. Pick(s, I) \in Seq(S)
  BY <1>2, <1>4
<1> QED
  BY <1>2, <1>3, <1>5

\* Ranks follow the order, and the first of the numbers is the least.
LEMMA NthOrder ==
    ASSUME NEW I, I \subseteq Nat, IsFiniteSet(I)
    PROVE  Ranked(I)
<1> DEFINE n == Cardinality(I)
<1>1. /\ n \in Nat
      /\ \A k \in 1 .. n : Nth(I, k) \in I
      /\ \A i \in I : \E k \in 1 .. n : Nth(I, k) = i
  BY NthIn, Zenon
<1>2. ASSUME NEW j \in 1 .. n, NEW k \in 1 .. n, j < k PROVE Nth(I, j) < Nth(I, k)
  <2>1. Nth(I, j) \in Nat /\ Nth(I, k) \in Nat /\ Nth(I, j) \in I /\ Nth(I, k) \in I
    BY <1>1
  <2>2. Cardinality({x \in I : x <= Nth(I, j)}) = j /\ Cardinality({x \in I : x <= Nth(I, k)}) = k
    BY NthIn, Zenon
  <2>3. Nth(I, k) < Nth(I, j) => k < j
    <3>1. \A a, b \in I : a < b => Cardinality({x \in I : x <= a}) < Cardinality({x \in I : x <= b})
      BY NthIn, Zenon
    <3>2. Nth(I, k) < Nth(I, j)
            => Cardinality({x \in I : x <= Nth(I, k)}) < Cardinality({x \in I : x <= Nth(I, j)})
      BY <2>1, <3>1, Zenon
    <3> QED
      BY <2>2, <3>2, Zenon
  <2>4. Nth(I, k) = Nth(I, j) => k = j
    BY <2>2, Zenon
  <2> QED
    BY <1>1, <1>2, <2>1, <2>3, <2>4
<1>3. ASSUME I # {} PROVE Nth(I, 1) \in I /\ \A i \in I : Nth(I, 1) <= i
  <2>1. 1 \in 1 .. n
    <3>1. n # 0
      BY <1>3, FiniteFacts, Zenon
    <3> QED
      BY <1>1, <3>1
  <2>2. Nth(I, 1) \in I /\ Nth(I, 1) \in Nat
    BY <1>1, <2>1
  <2>3. ASSUME NEW i \in I PROVE Nth(I, 1) <= i
    <3>1. PICK k \in 1 .. n : Nth(I, k) = i
      BY <1>1, Zenon
    <3>2. k = 1 \/ 1 < k
      BY <1>1
    <3>3. Nth(I, 1) = i \/ Nth(I, 1) < i
      BY <1>2, <2>1, <3>1, <3>2, Zenon
    <3>4. i \in Nat
      OBVIOUS
    <3> QED
      BY <2>2, <3>3, <3>4
  <2> QED
    BY <2>2, <2>3
<1> QED
  BY <1>1, <1>2, <1>3 DEF Ranked

\* Numbers that are renumbered in their order keep their ranks.
LEMMA Renumbered ==
    ASSUME NEW I, NEW J, NEW g, I \subseteq Nat, IsFiniteSet(I), J \subseteq Nat, Renumbers(g, I, J)
    PROVE  Cardinality(J) = Cardinality(I) /\ \A k \in 1 .. Cardinality(I) : Nth(J, k) = g[Nth(I, k)]
<1>1. \A i, j \in I : i # j => g[i] # g[j]
  <2> SUFFICES ASSUME NEW i \in I, NEW j \in I, i < j PROVE g[i] # g[j]
    OBVIOUS
  <2>1. g[i] < g[j] /\ g[i] \in Nat /\ g[j] \in Nat
    BY DEF Renumbers
  <2> QED
    BY <2>1
<1>2. g \in Bijection(I, J)
  BY <1>1 DEF Renumbers, Bijection, Injection, Surjection, IsInjective
<1>3. IsFiniteSet(J) /\ Cardinality(I) = Cardinality(J)
  BY <1>2, FS_Bijection, Zenon DEF ExistsBijection
<1>4. ASSUME NEW i \in I
      PROVE  Cardinality({y \in J : y <= g[i]}) = Cardinality({x \in I : x <= i})
  <2> DEFINE A == {x \in I : x <= i}
             B == {y \in J : y <= g[i]}
             h == [x \in A |-> g[x]]
  <2>1. \A x \in I : x <= i <=> g[x] <= g[i]
    <3> SUFFICES ASSUME NEW x \in I PROVE x <= i <=> g[x] <= g[i]
      OBVIOUS
    <3>1. /\ x \in Nat /\ i \in Nat /\ g[x] \in Nat /\ g[i] \in Nat
          /\ x < i => g[x] < g[i]
          /\ i < x => g[i] < g[x]
      BY DEF Renumbers
    <3> QED
      BY <3>1
  <2>2. h \in [A -> B]
    BY <2>1 DEF Renumbers
  <2>3. \A x, z \in A : h[x] = h[z] => x = z
    BY <1>1
  <2>4. \A y \in B : \E x \in A : h[x] = y
    <3> SUFFICES ASSUME NEW y \in B PROVE \E x \in A : h[x] = y
      OBVIOUS
    <3>1. PICK x \in I : g[x] = y
      BY DEF Renumbers
    <3> QED
      BY <2>1, <3>1
  <2> HIDE DEF h
  <2>5. h \in Bijection(A, B)
    BY <2>2, <2>3, <2>4 DEF Bijection, Injection, Surjection, IsInjective
  <2>6. IsFiniteSet(A)
    BY FiniteFacts, Zenon
  <2> HIDE DEF A, B
  <2>7. Cardinality(A) = Cardinality(B)
    BY <2>5, <2>6, FS_Bijection, Zenon DEF ExistsBijection
  <2> QED
    BY <2>7 DEF A, B
<1>5. ASSUME NEW k \in 1 .. Cardinality(I) PROVE Nth(J, k) = g[Nth(I, k)]
  <2>1. Nth(I, k) \in I /\ Cardinality({x \in I : x <= Nth(I, k)}) = k
    BY NthIn, Zenon
  <2>2. g[Nth(I, k)] \in J /\ Cardinality({y \in J : y <= g[Nth(I, k)]}) = k
    BY <1>4, <2>1 DEF Renumbers
  <2>3. Nth(J, k) \in J /\ Cardinality({y \in J : y <= Nth(J, k)}) = k
    BY <1>3, NthIn, Zenon
  <2>4. \A i, j \in J : i < j => Cardinality({x \in J : x <= i}) < Cardinality({x \in J : x <= j})
    BY <1>3, NthIn, Zenon
  <2>0. Cardinality(I) \in Nat
    BY NthIn, Zenon
  <2>7. k \in Nat
    BY <2>0
  <2>8. Nth(J, k) \in J /\ g[Nth(I, k)] \in J
    BY <2>2, <2>3, Zenon
  <2>5. k \in Nat /\ Nth(J, k) \in Nat /\ g[Nth(I, k)] \in Nat
    BY <2>7, <2>8
  <2>6. ~(Nth(J, k) < g[Nth(I, k)]) /\ ~(g[Nth(I, k)] < Nth(J, k))
    BY <2>2, <2>3, <2>4, <2>5
  <2> QED
    BY <2>5, <2>6
<1> QED
  BY <1>3, <1>5

\* A walk of n steps among n things meets one of them twice.
LEMMA Repeats ==
    ASSUME NEW n \in Nat, NEW e, NEW f \in [0 .. n -> {e[i] : i \in 1 .. n}]
    PROVE  \E i, j \in 0 .. n : i < j /\ f[i] = f[j]
<1> DEFINE T == {e[i] : i \in 1 .. n}
           name == [i \in 1 .. n |-> e[i]]
<1>1. IsFiniteSet(1 .. n) /\ Cardinality(1 .. n) = n
  BY FiniteFacts
<1>2. name \in Surjection(1 .. n, T)
  BY DEF Surjection
<1>3. IsFiniteSet(T) /\ Cardinality(T) <= n
  BY <1>1, <1>2, FS_Surjection
<1>4. IsFiniteSet(0 .. n) /\ Cardinality(0 .. n) = n + 1
  BY FS_Interval
<1>5. Cardinality(T) < Cardinality(0 .. n)
  BY <1>3, <1>4, FiniteFacts
<1> HIDE DEF T
<1>6. f \in [0 .. n -> T]
  BY DEF T
<1>7. \E i, j \in 0 .. n : i # j /\ f[i] = f[j]
  BY <1>3, <1>4, <1>5, <1>6, FS_PigeonHole
<1>8. PICK i \in 0 .. n, j \in 0 .. n : i # j /\ f[i] = f[j]
  BY <1>7
<1>9. i < j \/ j < i
  BY <1>8
<1> QED
  BY <1>8, <1>9, Zenon

\* A set of numbers with 0 and closed under successor holds all of them.
LEMMA Induct ==
    ASSUME NEW T \in SUBSET Nat, 0 \in T, \A n \in T : n + 1 \in T
    PROVE  T = Nat
<1> SUFFICES ASSUME Nat \ T # {} PROVE FALSE
  OBVIOUS
<1>1. PICK x \in Nat \ T : \A y \in Nat \ T : ~(<<y, x>> \in OpToRel(<, Nat))
  BY NatLessThanWellFounded, WFMin
<1>2. \A y \in Nat \ T : ~(y < x)
  BY <1>1 DEF OpToRel
<1>3. x # 0 /\ x - 1 \in Nat /\ x - 1 < x
  OBVIOUS
<1>4. x - 1 \in T
  BY <1>2, <1>3
<1>5. (x - 1) + 1 = x
  BY <1>3
<1> QED
  BY <1>4, <1>5

\* What the proofs on lists use.
THEOREM SelectionsHold == SelectionFacts
<1>1. ASSUME NEW I, I \subseteq Nat, IsFiniteSet(I) PROVE Ranked(I)
  BY <1>1, NthOrder, Zenon
<1>2. ASSUME NEW S, NEW s \in Seq(S), NEW I \in SUBSET DOMAIN s
      PROVE  Pick(s, I) \in Seq(S) /\ Selected(Pick(s, I), s, I)
  BY Picked DEF Selected
<1>3. ASSUME NEW S, NEW T, IsFiniteSet(S), T \subseteq S PROVE IsFiniteSet(T)
  BY <1>3, FiniteFacts, Zenon
<1>4. ASSUME NEW S, NEW x, IsFiniteSet(S) PROVE IsFiniteSet(S \cup {x})
  BY <1>4, FiniteFacts, Zenon
<1>5. \A n \in Nat : IsFiniteSet(1 .. n)
  BY FiniteFacts, Zenon
<1> QED
  BY <1>1, <1>2, <1>3, <1>4, <1>5, Zenon DEF SelectionFacts

\* The same with order, counting and induction.
THEOREM ListsHold == ListFacts
<1>1. \A g, I, J : I \subseteq Nat /\ IsFiniteSet(I) /\ J \subseteq Nat /\ Renumbers(g, I, J)
         => Cardinality(J) = Cardinality(I) /\ \A k \in 1 .. Cardinality(I) : Nth(J, k) = g[Nth(I, k)]
  BY Renumbered, Zenon
<1>2. \A n \in Nat : \A e : \A f \in [0 .. n -> {e[i] : i \in 1 .. n}] :
         \E i, j \in 0 .. n : i < j /\ f[i] = f[j]
  BY Repeats
<1>3. \A S : IsFiniteSet(S) => (Cardinality(S) = 1 <=> \E x : S = {x})
  BY FS_Singleton
<1>4. Cardinality({}) = 0
  BY FS_EmptySet
<1>5. \A T \in SUBSET Nat : 0 \in T /\ (\A n \in T : n + 1 \in T) => T = Nat
  BY Induct, Zenon
<1> QED
  BY <1>1, <1>2, <1>3, <1>4, <1>5, SelectionsHold, Zenon DEF ListFacts
=============================================================================

----------------------------- MODULE Selections -----------------------------
(***************************************************************************)
(* What filter, find, splice and map do to an array, told by positions: a  *)
(* test is the set of the indexes that pass it.                            *)
(***************************************************************************)
EXTENDS Naturals, Sequences, FiniteSets

\* The k-th smallest number of a finite set.
Nth(I, k) == CHOOSE i \in I : Cardinality({j \in I : j <= i}) = k

\* The elements of s at the indexes I.
Pick(s, I) == [k \in 1 .. Cardinality(I) |-> s[Nth(I, k)]]

\* The first of the indexes I, 0 if there is none.
First(I) == IF I = {} THEN 0 ELSE Nth(I, 1)

\* s without its i-th element, and with x put before it.
Without(s, i) == [k \in 1 .. Len(s) - 1 |-> IF k < i THEN s[k] ELSE s[k + 1]]
Inserted(s, i, x) == [k \in 1 .. Len(s) + 1 |-> IF k < i THEN s[k] ELSE IF k = i THEN x ELSE s[k - 1]]

Members(s) == {s[i] : i \in DOMAIN s}
Each(s, Op(_)) == [i \in DOMAIN s |-> Op(s[i])]

-----------------------------------------------------------------------------
(* What the proofs use: SelectionsProofs shows it.                         *)

\* The ranks of a finite set of numbers are those of its elements.
Ranked(I) ==
    /\ Cardinality(I) \in Nat
    /\ \A k \in 1 .. Cardinality(I) : Nth(I, k) \in I
    /\ \A i \in I : \E k \in 1 .. Cardinality(I) : Nth(I, k) = i
    /\ \A j, k \in 1 .. Cardinality(I) : j < k => Nth(I, j) < Nth(I, k)
    /\ I # {} => Nth(I, 1) \in I /\ \A i \in I : Nth(I, 1) <= i

\* A selection holds the elements selected and no other.
Selected(t, s, I) ==
    /\ \A k \in DOMAIN t : \E i \in I : t[k] = s[i]
    /\ \A i \in I : \E k \in DOMAIN t : t[k] = s[i]

SelectionFacts ==
    /\ \A I : I \subseteq Nat /\ IsFiniteSet(I) => Ranked(I)
    /\ \A S : \A s \in Seq(S) : \A I \in SUBSET DOMAIN s :
          Pick(s, I) \in Seq(S) /\ Selected(Pick(s, I), s, I)
    /\ \A S, T : IsFiniteSet(S) /\ T \subseteq S => IsFiniteSet(T)
    /\ \A S, x : IsFiniteSet(S) => IsFiniteSet(S \cup {x})
    /\ \A n \in Nat : IsFiniteSet(1 .. n)

\* g takes the numbers I to the numbers J and keeps their order.
Renumbers(g, I, J) ==
    /\ g \in [I -> J]
    /\ \A i, j \in I : i < j => g[i] < g[j]
    /\ \A j \in J : \E i \in I : g[i] = j

ListFacts ==
    /\ SelectionFacts
    /\ \A g, I, J : I \subseteq Nat /\ IsFiniteSet(I) /\ J \subseteq Nat /\ Renumbers(g, I, J)
          => Cardinality(J) = Cardinality(I) /\ \A k \in 1 .. Cardinality(I) : Nth(J, k) = g[Nth(I, k)]
    /\ \A n \in Nat : \A e : \A f \in [0 .. n -> {e[i] : i \in 1 .. n}] :
          \E i, j \in 0 .. n : i < j /\ f[i] = f[j]
    /\ Cardinality({}) = 0
    /\ \A S : IsFiniteSet(S) => (Cardinality(S) = 1 <=> \E x : S = {x})
    /\ \A T \in SUBSET Nat : 0 \in T /\ (\A n \in T : n + 1 \in T) => T = Nat
=============================================================================

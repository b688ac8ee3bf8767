-------------------------------- MODULE Sums --------------------------------
(***************************************************************************)
(* Sums over finite sets (SumFunctionOnSet), for the proofs about budgets  *)
(* and bytes: an element more or less, equal terms, terms that are not     *)
(* negative.                                                               *)
(*                                                                         *)
(* A sum is a recursive function on the subsets, so what is needed is      *)
(* induction on the size of a set. The library states induction with an    *)
(* operator as parameter; here it is derived, for a set in its place, from *)
(* the fact that < is well founded.                                        *)
(***************************************************************************)
EXTENDS Integers, FiniteSets, Functions, FiniteSetTheorems, WellFoundedInduction, TLAPS

Smaller == {ss \in Nat \X Nat : ss[1] < ss[2]}

LEMMA SmallerWellFounded == IsWellFoundedOn(Smaller, Nat)
  BY NatLessThanWellFounded DEF OpToRel, Smaller

LEMMA Least ==
  ASSUME NEW T, T \subseteq Nat, T # {}
  PROVE  \E m \in T : \A k \in T : m <= k
<1>1. PICK m \in T : \A k \in T : ~(<<k, m>> \in Smaller)
  BY SmallerWellFounded, WFMin
<1>2. \A k \in T : ~(k < m)
  BY <1>1 DEF Smaller
<1> QED
  BY <1>2

LEMMA SetInduction ==
  ASSUME NEW T, 0 \in T, \A n \in Nat : n \in T => n + 1 \in T
  PROVE  Nat \subseteq T
<1> SUFFICES ASSUME Nat \ T # {} PROVE FALSE
  OBVIOUS
<1>1. PICK m \in Nat \ T : \A k \in Nat \ T : m <= k
  BY Least
<1>2. m # 0 /\ m - 1 \in Nat
  BY <1>1
<1>3. m - 1 \in T
  BY <1>1, <1>2
<1> QED
  BY <1>1, <1>2, <1>3
-----------------------------------------------------------------------------
(* The recursive function behind the sum *)

First(s) == CHOOSE x \in s : TRUE

Term(f, g, s) == IF s = {} THEN 0 ELSE f[First(s)] + g[s \ {First(s)}]

TotalsOn(f, S, g) == g = [s \in SUBSET S |-> Term(f, g, s)]

Totals(f, S) == CHOOSE g : TotalsOn(f, S, g)

LEMMA FirstIn == ASSUME NEW s, s # {} PROVE First(s) \in s
  BY DEF First

LEMMA SumIs ==
  ASSUME NEW f, NEW S
  PROVE  SumFunctionOnSet(f, S) = Totals(f, S)[S]
  BY DEF SumFunctionOnSet, FoldFunctionOnSet, MapThenFoldSet, Totals, TotalsOn, Term, First

(* A set has one element more than without its first one. *)
LEMMA Smaller1 ==
  ASSUME NEW S, IsFiniteSet(S), NEW s \in SUBSET S, NEW y \in s
  PROVE  /\ IsFiniteSet(s) /\ Cardinality(s) \in Nat \ {0}
         /\ s \ {y} \in SUBSET S /\ Cardinality(s \ {y}) = Cardinality(s) - 1
<1>1. IsFiniteSet(s)
  BY FS_Subset
<1>2. Cardinality(s) \in Nat /\ Cardinality(s \ {y}) = Cardinality(s) - 1
  BY <1>1, FS_RemoveElement, FS_CardinalityType
<1>3. Cardinality(s \ {y}) \in Nat
  BY <1>1, FS_Subset, FS_CardinalityType
<1> QED
  BY <1>1, <1>2, <1>3

(* It exists: for the subsets of n elements or less, one function after another. *)
UpTo(S, n) == {s \in SUBSET S : Cardinality(s) <= n}

LEMMA TotalsExist ==
  ASSUME NEW f, NEW S, IsFiniteSet(S)
  PROVE  TotalsOn(f, S, Totals(f, S))
<1> DEFINE T == {n \in Nat : \E g : g = [s \in UpTo(S, n) |-> Term(f, g, s)]}
<1>1. 0 \in T
  <2> DEFINE g0 == [s \in UpTo(S, 0) |-> 0]
  <2>1. \A s \in UpTo(S, 0) : s = {}
    BY FS_Subset, FS_EmptySet, FS_CardinalityType DEF UpTo
  <2>2. g0 = [s \in UpTo(S, 0) |-> Term(f, g0, s)]
    BY <2>1 DEF Term
  <2> QED
    BY <2>2
<1>2. ASSUME NEW n \in Nat, n \in T PROVE n + 1 \in T
  <2>1. PICK g : g = [s \in UpTo(S, n) |-> Term(f, g, s)]
    BY <1>2
  <2> DEFINE h == [s \in UpTo(S, n + 1) |-> Term(f, g, s)]
  <2>2. ASSUME NEW s \in UpTo(S, n + 1) PROVE Term(f, g, s) = Term(f, h, s)
    <3>1. CASE s = {}
      BY <3>1 DEF Term
    <3>2. CASE s # {}
      <4> DEFINE t == s \ {First(s)}
      <4>1. First(s) \in s
        BY <3>2, FirstIn
      <4>2. t \in SUBSET S /\ Cardinality(t) = Cardinality(s) - 1 /\ Cardinality(s) \in Nat
        BY <4>1, Smaller1 DEF UpTo
      <4>3. Cardinality(s) <= n + 1
        BY DEF UpTo
      <4>4. t \in UpTo(S, n) /\ t \in UpTo(S, n + 1)
        BY <4>2, <4>3 DEF UpTo
      <4>5. g[t] = Term(f, g, t) /\ h[t] = Term(f, g, t)
        BY <2>1, <4>4
      <4> QED
        BY <3>2, <4>5 DEF Term
    <3> QED
      BY <3>1, <3>2
  <2>3. h = [s \in UpTo(S, n + 1) |-> Term(f, h, s)]
    BY <2>2
  <2> HIDE DEF h
  <2>4. \E k : k = [s \in UpTo(S, n + 1) |-> Term(f, k, s)]
    BY <2>3
  <2> QED
    BY <2>4
<1>3. Cardinality(S) \in T
  <2>1. Nat \subseteq T
    BY <1>1, <1>2, SetInduction
  <2> QED
    BY <2>1, FS_CardinalityType
<1>4. UpTo(S, Cardinality(S)) = SUBSET S
  <2>1. ASSUME NEW s \in SUBSET S PROVE Cardinality(s) <= Cardinality(S)
    BY FS_Subset
  <2> QED
    BY <2>1 DEF UpTo
<1>5. \E g : TotalsOn(f, S, g)
  BY <1>3, <1>4 DEF TotalsOn
<1> QED
  BY <1>5 DEF Totals

LEMMA TotalsAt ==
  ASSUME NEW f, NEW S, IsFiniteSet(S), NEW s \in SUBSET S
  PROVE  Totals(f, S)[s] = Term(f, Totals(f, S), s)
<1>1. TotalsOn(f, S, Totals(f, S))
  BY TotalsExist
<1> QED
  BY <1>1 DEF TotalsOn

LEMMA TotalsInt ==
  ASSUME NEW f, NEW S, IsFiniteSet(S), \A x \in S : f[x] \in Int
  PROVE  \A s \in SUBSET S : Totals(f, S)[s] \in Int
<1> DEFINE T == {n \in Nat : \A s \in SUBSET S : Cardinality(s) = n => Totals(f, S)[s] \in Int}
<1>1. ASSUME NEW s \in SUBSET S, s = {} PROVE Totals(f, S)[s] \in Int
  BY <1>1, TotalsAt DEF Term
<1>2. 0 \in T
  BY <1>1, FS_Subset, FS_EmptySet
<1>3. ASSUME NEW n \in Nat, n \in T PROVE n + 1 \in T
  <2>1. ASSUME NEW s \in SUBSET S, Cardinality(s) = n + 1 PROVE Totals(f, S)[s] \in Int
    <3>1. s # {}
      BY <2>1, FS_EmptySet
    <3>2. First(s) \in s
      BY <3>1, FirstIn
    <3>3. s \ {First(s)} \in SUBSET S /\ Cardinality(s \ {First(s)}) = n
      BY <2>1, <3>2, Smaller1
    <3>4. Totals(f, S)[s \ {First(s)}] \in Int
      BY <1>3, <3>3
    <3>5. f[First(s)] \in Int
      BY <3>2
    <3>6. Totals(f, S)[s] = f[First(s)] + Totals(f, S)[s \ {First(s)}]
      BY <3>1, TotalsAt DEF Term
    <3> QED
      BY <3>4, <3>5, <3>6
  <2> QED
    BY <2>1
<1>4. Nat \subseteq T
  BY <1>2, <1>3, SetInduction
<1>5. ASSUME NEW s \in SUBSET S PROVE Totals(f, S)[s] \in Int
  <2>1. Cardinality(s) \in Nat
    BY FS_Subset, FS_CardinalityType
  <2> QED
    BY <1>4, <2>1
<1> QED
  BY <1>5

(* Any element may come first. *)
LEMMA TotalsPick ==
  ASSUME NEW f, NEW S, IsFiniteSet(S), \A x \in S : f[x] \in Int
  PROVE  \A s \in SUBSET S : \A y \in s : Totals(f, S)[s] = f[y] + Totals(f, S)[s \ {y}]
<1> DEFINE G == Totals(f, S)
           T == {n \in Nat : \A s \in SUBSET S : Cardinality(s) = n =>
                   \A y \in s : G[s] = f[y] + G[s \ {y}]}
<1>1. \A s \in SUBSET S : G[s] \in Int /\ G[s] = Term(f, G, s)
  BY TotalsInt, TotalsAt
<1> HIDE DEF G
<1>2. 0 \in T
  <2>1. \A s \in SUBSET S : Cardinality(s) = 0 => s = {}
    BY FS_Subset, FS_EmptySet
  <2> QED
    BY <2>1
<1>3. ASSUME NEW n \in Nat, n \in T PROVE n + 1 \in T
  <2>1. ASSUME NEW s \in SUBSET S, Cardinality(s) = n + 1, NEW y \in s
        PROVE  G[s] = f[y] + G[s \ {y}]
    <3> DEFINE x == First(s)
    <3>1. x \in s
      BY FirstIn
    <3>2. G[s] = f[x] + G[s \ {x}]
      BY <1>1 DEF Term
    <3>3. CASE x = y
      BY <3>2, <3>3
    <3>4. CASE x # y
      <4> HIDE DEF x
      <4> DEFINE rest == s \ {x, y}
      <4>1. /\ s \ {x} \in SUBSET S /\ Cardinality(s \ {x}) = n /\ y \in s \ {x}
            /\ s \ {y} \in SUBSET S /\ Cardinality(s \ {y}) = n /\ x \in s \ {y}
        BY <2>1, <3>1, <3>4, Smaller1
      <4>2. (s \ {x}) \ {y} = rest /\ (s \ {y}) \ {x} = rest /\ rest \in SUBSET S
        OBVIOUS
      <4>3. G[s \ {x}] = f[y] + G[rest] /\ G[s \ {y}] = f[x] + G[rest]
        <5>1. G[s \ {x}] = f[y] + G[(s \ {x}) \ {y}] /\ G[s \ {y}] = f[x] + G[(s \ {y}) \ {x}]
          BY <1>3, <4>1
        <5> QED
          BY <4>2, <5>1
      <4>4. f[x] \in Int /\ f[y] \in Int /\ G[rest] \in Int
        BY <1>1, <3>1, <4>2
      <4> HIDE DEF rest
      <4> QED
        BY <3>2, <4>3, <4>4
    <3> QED
      BY <3>3, <3>4
  <2> QED
    BY <2>1
<1>4. Nat \subseteq T
  BY <1>2, <1>3, SetInduction
<1>5. ASSUME NEW s \in SUBSET S, NEW y \in s PROVE G[s] = f[y] + G[s \ {y}]
  <2>1. Cardinality(s) \in Nat
    BY FS_Subset, FS_CardinalityType
  <2> QED
    BY <1>4, <2>1
<1> QED
  BY <1>5 DEF G

(* Sums of the same terms are equal, whatever the functions elsewhere. *)
LEMMA TotalsSame ==
  ASSUME NEW f, NEW g, NEW S, NEW R, IsFiniteSet(S), R \subseteq S, \A x \in R : f[x] = g[x]
  PROVE  \A s \in SUBSET R : Totals(f, S)[s] = Totals(g, R)[s]
<1> DEFINE T == {n \in Nat : \A s \in SUBSET R : Cardinality(s) = n => Totals(f, S)[s] = Totals(g, R)[s]}
<1>1. IsFiniteSet(R)
  BY FS_Subset
<1>2. ASSUME NEW s \in SUBSET R
      PROVE  /\ Totals(f, S)[s] = Term(f, Totals(f, S), s)
             /\ Totals(g, R)[s] = Term(g, Totals(g, R), s)
  <2>1. s \in SUBSET S
    OBVIOUS
  <2> QED
    BY <1>1, <2>1, TotalsAt
<1>3. 0 \in T
  <2>1. \A s \in SUBSET R : Cardinality(s) = 0 => s = {}
    BY <1>1, FS_Subset, FS_EmptySet
  <2>2. ASSUME NEW s \in SUBSET R, Cardinality(s) = 0 PROVE Totals(f, S)[s] = Totals(g, R)[s]
    BY <1>2, <2>1, <2>2 DEF Term
  <2> QED
    BY <2>2
<1>4. ASSUME NEW n \in Nat, n \in T PROVE n + 1 \in T
  <2>1. ASSUME NEW s \in SUBSET R, Cardinality(s) = n + 1 PROVE Totals(f, S)[s] = Totals(g, R)[s]
    <3> DEFINE t == s \ {First(s)}
    <3>1. s # {}
      BY <2>1, FS_EmptySet
    <3>2. First(s) \in s
      BY <3>1, FirstIn
    <3>3. t \in SUBSET R /\ Cardinality(t) = n
      BY <1>1, <2>1, <3>2, Smaller1
    <3>4. Totals(f, S)[t] = Totals(g, R)[t] /\ f[First(s)] = g[First(s)]
      BY <1>4, <3>2, <3>3
    <3> QED
      BY <1>2, <3>1, <3>4 DEF Term
  <2> QED
    BY <2>1
<1>5. Nat \subseteq T
  BY <1>3, <1>4, SetInduction
<1>6. ASSUME NEW s \in SUBSET R PROVE Totals(f, S)[s] = Totals(g, R)[s]
  <2>1. Cardinality(s) \in Nat
    BY <1>1, FS_Subset, FS_CardinalityType
  <2> QED
    BY <1>5, <2>1
<1> QED
  BY <1>6
-----------------------------------------------------------------------------
(* Sums *)

(* The sum of nothing is 0, any other a number. *)
THEOREM SumType ==
  ASSUME NEW f, NEW S, IsFiniteSet(S), \A x \in S : f[x] \in Int
  PROVE  SumFunctionOnSet(f, S) \in Int /\ (S = {} => SumFunctionOnSet(f, S) = 0)
<1>1. SumFunctionOnSet(f, S) \in Int
  BY SumIs, TotalsInt
<1>2. S = {} => SumFunctionOnSet(f, S) = 0
  BY SumIs, TotalsAt DEF Term
<1> QED
  BY <1>1, <1>2

THEOREM SumSame ==
  ASSUME NEW f, NEW g, NEW S, IsFiniteSet(S), \A x \in S : f[x] = g[x]
  PROVE  SumFunctionOnSet(f, S) = SumFunctionOnSet(g, S)
  BY SumIs, TotalsSame

THEOREM SumRemove ==
  ASSUME NEW f, NEW S, IsFiniteSet(S), \A x \in S : f[x] \in Int, NEW y \in S
  PROVE  SumFunctionOnSet(f, S) = f[y] + SumFunctionOnSet(f, S \ {y})
<1>1. Totals(f, S)[S] = f[y] + Totals(f, S)[S \ {y}]
  BY TotalsPick
<1>2. Totals(f, S)[S \ {y}] = Totals(f, S \ {y})[S \ {y}]
  BY TotalsSame
<1> QED
  BY <1>1, <1>2, SumIs

THEOREM SumAdd ==
  ASSUME NEW f, NEW S, IsFiniteSet(S), NEW y, y \notin S, \A x \in S \cup {y} : f[x] \in Int
  PROVE  SumFunctionOnSet(f, S \cup {y}) = SumFunctionOnSet(f, S) + f[y]
<1>1. IsFiniteSet(S \cup {y}) /\ (S \cup {y}) \ {y} = S
  BY FS_AddElement
<1>2. SumFunctionOnSet(f, S \cup {y}) = f[y] + SumFunctionOnSet(f, S)
  BY <1>1, SumRemove
<1>3. SumFunctionOnSet(f, S) \in Int
  BY SumType
<1> QED
  BY <1>2, <1>3

(* Natural numbers add up to a natural number. *)
THEOREM SumNat ==
  ASSUME NEW f, NEW S, IsFiniteSet(S), \A x \in S : f[x] \in Nat
  PROVE  SumFunctionOnSet(f, S) \in Nat
<1> DEFINE T == {n \in Nat : \A s \in SUBSET S : Cardinality(s) = n => SumFunctionOnSet(f, s) \in Nat}
<1>1. \A s \in SUBSET S : IsFiniteSet(s) /\ Cardinality(s) \in Nat
  BY FS_Subset, FS_CardinalityType
<1>2. 0 \in T
  <2>1. \A s \in SUBSET S : Cardinality(s) = 0 => s = {}
    BY <1>1, FS_EmptySet
  <2>2. SumFunctionOnSet(f, {}) = 0
    BY FS_EmptySet, SumType
  <2> QED
    BY <2>1, <2>2
<1>3. ASSUME NEW n \in Nat, n \in T PROVE n + 1 \in T
  <2>1. ASSUME NEW s \in SUBSET S, Cardinality(s) = n + 1 PROVE SumFunctionOnSet(f, s) \in Nat
    <3>1. PICK y \in s : TRUE
      BY <2>1, FS_EmptySet
    <3>2. s \ {y} \in SUBSET S /\ Cardinality(s \ {y}) = n
      BY <2>1, Smaller1
    <3>3. SumFunctionOnSet(f, s \ {y}) \in Nat
      BY <1>3, <3>2
    <3>4. SumFunctionOnSet(f, s) = f[y] + SumFunctionOnSet(f, s \ {y})
      BY <1>1, SumRemove
    <3> QED
      BY <3>3, <3>4
  <2> QED
    BY <2>1
<1>4. Nat \subseteq T
  BY <1>2, <1>3, SetInduction
<1> QED
  BY <1>1, <1>4

(* Two parts of a set add up to the sum over it. *)
THEOREM SumParts ==
  ASSUME NEW f, NEW S, NEW R, IsFiniteSet(S), IsFiniteSet(R), S \cap R = {},
         \A x \in S \cup R : f[x] \in Int
  PROVE  SumFunctionOnSet(f, S \cup R) = SumFunctionOnSet(f, S) + SumFunctionOnSet(f, R)
<1> DEFINE Sum(s) == SumFunctionOnSet(f, s)
           T == {n \in Nat : \A r \in SUBSET R : Cardinality(r) = n => Sum(S \cup r) = Sum(S) + Sum(r)}
<1>1. \A r \in SUBSET R : IsFiniteSet(r) /\ Cardinality(r) \in Nat /\ Sum(r) \in Int
  <2> SUFFICES ASSUME NEW r \in SUBSET R PROVE IsFiniteSet(r) /\ Cardinality(r) \in Nat /\ Sum(r) \in Int
    OBVIOUS
  <2>1. IsFiniteSet(r) /\ Cardinality(r) \in Nat
    BY FS_Subset, FS_CardinalityType
  <2> QED
    BY <2>1, SumType
<1>2. Sum(S) \in Int
  BY SumType
<1>3. 0 \in T
  <2>1. \A r \in SUBSET R : Cardinality(r) = 0 => r = {}
    BY <1>1, FS_EmptySet
  <2>2. Sum({}) = 0
    BY FS_EmptySet, SumType
  <2>3. S \cup {} = S
    OBVIOUS
  <2> HIDE DEF Sum
  <2>4. Sum(S \cup {}) = Sum(S) + Sum({})
    BY <1>2, <2>2, <2>3
  <2> QED
    BY <2>1, <2>4
<1>4. ASSUME NEW n \in Nat, n \in T PROVE n + 1 \in T
  <2>1. ASSUME NEW r \in SUBSET R, Cardinality(r) = n + 1 PROVE Sum(S \cup r) = Sum(S) + Sum(r)
    <3>1. PICK y \in r : TRUE
      BY <2>1, FS_EmptySet
    <3>2. r \ {y} \in SUBSET R /\ Cardinality(r \ {y}) = n
      BY <2>1, Smaller1
    <3>3. Sum(S \cup (r \ {y})) = Sum(S) + Sum(r \ {y})
      BY <1>4, <3>2
    <3>4. Sum(r) = f[y] + Sum(r \ {y})
      BY <1>1, SumRemove
    <3>5. Sum(S \cup r) = f[y] + Sum(S \cup (r \ {y}))
      <4>1. IsFiniteSet(S \cup r)
        BY <1>1, FS_Union
      <4>2. (S \cup r) \ {y} = S \cup (r \ {y})
        BY <3>1
      <4>3. Sum(S \cup r) = f[y] + Sum((S \cup r) \ {y})
        BY <4>1, SumRemove
      <4> QED
        BY <4>2, <4>3
    <3>6. f[y] \in Int /\ Sum(r \ {y}) \in Int
      BY <1>1, <3>2
    <3> HIDE DEF Sum
    <3> QED
      BY <1>2, <3>3, <3>4, <3>5, <3>6
  <2> QED
    BY <2>1
<1>5. Nat \subseteq T
  BY <1>3, <1>4, SetInduction
<1>6. Cardinality(R) \in T
  BY <1>1, <1>5
<1> QED
  BY <1>6

(* A part of a set adds up to no more than the set. *)
THEOREM SumWithin ==
  ASSUME NEW f, NEW S, NEW R, IsFiniteSet(S), R \subseteq S, \A x \in S : f[x] \in Nat
  PROVE  SumFunctionOnSet(f, R) <= SumFunctionOnSet(f, S)
<1>1. /\ IsFiniteSet(R) /\ IsFiniteSet(S \ R) /\ R \cup (S \ R) = S
  BY FS_Subset
<1>2. SumFunctionOnSet(f, R) \in Nat /\ SumFunctionOnSet(f, S \ R) \in Nat
  BY <1>1, SumNat
<1>3. SumFunctionOnSet(f, R \cup (S \ R)) = SumFunctionOnSet(f, R) + SumFunctionOnSet(f, S \ R)
  BY <1>1, SumParts
<1>4. SumFunctionOnSet(f, S) = SumFunctionOnSet(f, R) + SumFunctionOnSet(f, S \ R)
  BY <1>1, <1>3, Zenon
<1> QED
  BY <1>2, <1>4

(* A sequence of terms with one more at its end. *)
THEOREM SumNext ==
  ASSUME NEW f, NEW g, NEW n \in Nat, \A k \in 1 .. n : g[k] \in Int /\ f[k] = g[k],
         g[n + 1] \in Int
  PROVE  SumFunctionOnSet(g, 1 .. n + 1) = SumFunctionOnSet(f, 1 .. n) + g[n + 1]
<1> DEFINE S == 1 .. n
           y == n + 1
<1>1. IsFiniteSet(S) /\ y \notin S /\ 1 .. n + 1 = S \cup {y}
  <2>1. 1 \in Int /\ n \in Int
    OBVIOUS
  <2>2. IsFiniteSet(S)
    BY <2>1, FS_Interval
  <2> QED
    BY <2>2
<1>2. (\A k \in S \cup {y} : g[k] \in Int) /\ \A k \in S : g[k] = f[k]
  OBVIOUS
<1> HIDE DEF S, y
<1>3. SumFunctionOnSet(g, S \cup {y}) = SumFunctionOnSet(g, S) + g[y]
  BY <1>1, <1>2, SumAdd
<1>4. SumFunctionOnSet(g, S) = SumFunctionOnSet(f, S)
  BY <1>1, <1>2, SumSame
<1>5. SumFunctionOnSet(g, 1 .. n + 1) = SumFunctionOnSet(f, S) + g[y]
  BY <1>1, <1>3, <1>4, Zenon
<1> QED
  BY <1>5 DEF S, y

(* A sum of nothing but zeros, and of one term and zeros.                    *)
THEOREM SumZero ==
  ASSUME NEW f, NEW S, IsFiniteSet(S), \A x \in S : f[x] = 0
  PROVE  SumFunctionOnSet(f, S) = 0
<1> DEFINE T == {n \in Nat : \A s \in SUBSET S : Cardinality(s) = n => SumFunctionOnSet(f, s) = 0}
<1>1. \A s \in SUBSET S : IsFiniteSet(s) /\ Cardinality(s) \in Nat
  BY FS_Subset, FS_CardinalityType
<1>2. 0 \in T
  <2>1. \A s \in SUBSET S : Cardinality(s) = 0 => s = {}
    BY <1>1, FS_EmptySet
  <2>2. SumFunctionOnSet(f, {}) = 0
    BY FS_EmptySet, SumType
  <2> QED
    BY <2>1, <2>2
<1>3. ASSUME NEW n \in Nat, n \in T PROVE n + 1 \in T
  <2>1. ASSUME NEW s \in SUBSET S, Cardinality(s) = n + 1 PROVE SumFunctionOnSet(f, s) = 0
    <3>1. PICK y \in s : TRUE
      BY <2>1, FS_EmptySet
    <3>2. s \ {y} \in SUBSET S /\ Cardinality(s \ {y}) = n
      BY <2>1, Smaller1
    <3>3. SumFunctionOnSet(f, s \ {y}) = 0
      BY <1>3, <3>2
    <3>4. SumFunctionOnSet(f, s) = f[y] + SumFunctionOnSet(f, s \ {y})
      BY <1>1, SumRemove
    <3> QED
      BY <3>3, <3>4
  <2> QED
    BY <2>1
<1>4. Nat \subseteq T
  BY <1>2, <1>3, SetInduction
<1> QED
  BY <1>1, <1>4

THEOREM SumOne ==
  ASSUME NEW f, NEW S, IsFiniteSet(S), NEW y \in S, f[y] \in Int, \A x \in S \ {y} : f[x] = 0
  PROVE  SumFunctionOnSet(f, S) = f[y]
<1>1. SumFunctionOnSet(f, S \ {y}) = 0
  BY FS_Subset, SumZero
<1>2. \A x \in S : f[x] \in Int
  OBVIOUS
<1>3. SumFunctionOnSet(f, S) = f[y] + SumFunctionOnSet(f, S \ {y})
  BY <1>2, SumRemove
<1> QED
  BY <1>1, <1>3

(* A sequence of terms that follows another one. *)
THEOREM SumShift ==
  \A n, m \in Nat : \A f, g :
    (\A k \in 1 .. n + m : f[k] \in Int) /\ (\A k \in 1 .. m : g[k] = f[n + k])
    => SumFunctionOnSet(f, 1 .. n + m) = SumFunctionOnSet(f, 1 .. n) + SumFunctionOnSet(g, 1 .. m)
<1> TAKE n, m \in Nat
<1> TAKE f, g
<1> HAVE (\A k \in 1 .. n + m : f[k] \in Int) /\ (\A k \in 1 .. m : g[k] = f[n + k])
<1> DEFINE F(j) == SumFunctionOnSet(f, 1 .. j)
           G(j) == SumFunctionOnSet(g, 1 .. j)
           T == {j \in Nat : j <= m => F(n + j) = F(n) + G(j)}
<1>1. \A j \in 0 .. n + m : F(j) \in Int
  <2> SUFFICES ASSUME NEW j \in 0 .. n + m PROVE F(j) \in Int
    OBVIOUS
  <2>1. IsFiniteSet(1 .. j)
    BY FS_Interval, 1 \in Int, j \in Int
  <2>2. \A k \in 1 .. j : f[k] \in Int
    OBVIOUS
  <2> QED
    BY <2>1, <2>2, SumType
<1>2. G(0) = 0
  <2>1. 1 .. 0 = {} /\ IsFiniteSet({})
    BY FS_EmptySet
  <2>2. SumFunctionOnSet(g, {}) = 0
    BY <2>1, SumType
  <2> QED
    BY <2>1, <2>2, Zenon
<1>3. ASSUME NEW j \in Nat, j + 1 <= m
      PROVE  F(n + j + 1) = F(n + j) + f[n + j + 1] /\ G(j + 1) = G(j) + g[j + 1]
  <2>1. n + j \in Nat /\ \A k \in 1 .. n + j : f[k] \in Int /\ f[k] = f[k]
    BY <1>3
  <2>2. f[n + j + 1] \in Int
    BY <1>3
  <2>3. F(n + j + 1) = F(n + j) + f[n + j + 1]
    <3> DEFINE i == n + j
    <3>1. i \in Nat /\ (\A k \in 1 .. i : f[k] \in Int /\ f[k] = f[k]) /\ f[i + 1] \in Int
      BY <2>1, <2>2
    <3> HIDE DEF i
    <3>2. F(i + 1) = F(i) + f[i + 1]
      BY <3>1, SumNext
    <3> QED
      BY <3>2 DEF i
  <2>4. \A k \in 1 .. j + 1 : n + k \in 1 .. n + m
    BY <1>3
  <2>5. \A k \in 1 .. j + 1 : g[k] \in Int
    BY <1>3, <2>4
  <2>6. (\A k \in 1 .. j : g[k] \in Int /\ g[k] = g[k]) /\ g[j + 1] \in Int
    BY <2>5
  <2>7. G(j + 1) = G(j) + g[j + 1]
    BY <2>6, SumNext
  <2> QED
    BY <2>3, <2>7
<1>4. \A j \in 0 .. m : G(j) \in Int
  <2> SUFFICES ASSUME NEW j \in 0 .. m PROVE G(j) \in Int
    OBVIOUS
  <2>1. IsFiniteSet(1 .. j)
    BY FS_Interval, 1 \in Int, j \in Int
  <2>2. \A k \in 1 .. j : n + k \in 1 .. n + m
    OBVIOUS
  <2>3. \A k \in 1 .. j : g[k] \in Int
    BY <2>2
  <2> QED
    BY <2>1, <2>3, SumType
<1>5. \A j \in Nat : j + 1 <= m => g[j + 1] = f[n + j + 1] /\ f[n + j + 1] \in Int
  OBVIOUS
<1> HIDE DEF F, G
<1>6. 0 \in T
  <2>1. F(n) \in Int /\ n + 0 = n
    BY <1>1
  <2> QED
    BY <1>2, <2>1
<1>7. ASSUME NEW j \in Nat, j \in T PROVE j + 1 \in T
  <2> SUFFICES ASSUME j + 1 <= m PROVE F(n + (j + 1)) = F(n) + G(j + 1)
    BY <1>7
  <2>1. F(n + j) = F(n) + G(j)
    BY <1>7
  <2>2. F(n) \in Int /\ F(n + j) \in Int /\ G(j) \in Int
    BY <1>1, <1>4
  <2>3. F(n + j + 1) = F(n + j) + f[n + j + 1] /\ G(j + 1) = G(j) + f[n + j + 1] /\ f[n + j + 1] \in Int
    BY <1>3, <1>5
  <2>4. n + (j + 1) = n + j + 1
    OBVIOUS
  <2>5. F(n + (j + 1)) = F(n + j + 1)
    BY <2>4, Zenon
  <2> QED
    BY <2>1, <2>2, <2>3, <2>5
<1>8. m \in T
  BY <1>6, <1>7, SetInduction
<1> QED
  BY <1>8 DEF F, G

(* A sum over the different values of a sequence, and over its positions.    *)
THEOREM SumImage ==
  \A n \in Nat : \A s, f, g :
    (\A k \in 1 .. n : f[s[k]] \in Int /\ g[k] = f[s[k]]) /\ (\A i, j \in 1 .. n : s[i] = s[j] => i = j)
    => /\ IsFiniteSet({s[k] : k \in 1 .. n}) /\ Cardinality({s[k] : k \in 1 .. n}) = n
       /\ SumFunctionOnSet(f, {s[k] : k \in 1 .. n}) = SumFunctionOnSet(g, 1 .. n)
<1> TAKE n \in Nat
<1> TAKE s, f, g
<1> HAVE (\A k \in 1 .. n : f[s[k]] \in Int /\ g[k] = f[s[k]]) /\ (\A i, j \in 1 .. n : s[i] = s[j] => i = j)
<1> DEFINE V(j) == {s[k] : k \in 1 .. j}
           F(j) == SumFunctionOnSet(f, V(j))
           G(j) == SumFunctionOnSet(g, 1 .. j)
           T == {j \in Nat : j <= n => IsFiniteSet(V(j)) /\ Cardinality(V(j)) = j /\ F(j) = G(j)}
<1>1. 0 \in T
  <2>1. 1 .. 0 = {} /\ V(0) = {} /\ IsFiniteSet({}) /\ Cardinality({}) = 0
    BY FS_EmptySet
  <2>2. SumFunctionOnSet(f, {}) = 0 /\ SumFunctionOnSet(g, {}) = 0
    BY <2>1, SumType
  <2>3. F(0) = 0 /\ G(0) = 0
    BY <2>1, <2>2, Zenon
  <2>4. IsFiniteSet(V(0)) /\ Cardinality(V(0)) = 0
    BY <2>1, Zenon
  <2> HIDE DEF V, F, G
  <2> QED
    BY <2>3, <2>4
<1>2. ASSUME NEW j \in Nat, j \in T, j + 1 <= n PROVE j + 1 \in T
  <2>1. IsFiniteSet(V(j)) /\ Cardinality(V(j)) = j /\ F(j) = G(j)
    BY <1>2
  <2> DEFINE y == s[j + 1]
  <2>2. V(j + 1) = V(j) \cup {y}
    <3>1. 1 .. j + 1 = (1 .. j) \cup {j + 1}
      OBVIOUS
    <3> QED
      BY <3>1
  <2>3. y \notin V(j)
    BY <1>2
  <2>4. \A x \in V(j) \cup {y} : f[x] \in Int
    BY <1>2
  <2>5. g[j + 1] = f[y] /\ f[y] \in Int /\ \A k \in 1 .. j : g[k] \in Int /\ g[k] = g[k]
    BY <1>2
  <2>6. G(j + 1) = G(j) + g[j + 1]
    BY <2>5, SumNext
  <2> HIDE DEF V, y
  <2>7. SumFunctionOnSet(f, V(j) \cup {y}) = F(j) + f[y]
    BY <2>1, <2>3, <2>4, SumAdd
  <2>8. F(j + 1) = F(j) + f[y]
    BY <2>2, <2>7, Zenon
  <2>9. IsFiniteSet(V(j) \cup {y}) /\ Cardinality(V(j) \cup {y}) = j + 1
    BY <2>1, <2>3, FS_AddElement
  <2>10. IsFiniteSet(V(j + 1)) /\ Cardinality(V(j + 1)) = j + 1
    BY <2>2, <2>9, Zenon
  <2> HIDE DEF F, G
  <2> QED
    BY <2>1, <2>5, <2>6, <2>8, <2>10
<1>3. ASSUME NEW j \in Nat, j \in T PROVE j + 1 \in T
  <2>1. CASE j + 1 <= n
    BY <1>2, <1>3, <2>1
  <2>2. CASE ~(j + 1 <= n)
    BY <2>2
  <2> QED
    BY <2>1, <2>2
<1>4. n \in T
  <2> HIDE DEF T
  <2> SUFFICES Nat \subseteq T
    OBVIOUS
  <2>1. \A j \in Nat : j \in T => j + 1 \in T
    BY <1>3
  <2> QED
    <3>1. T \in {T}
      OBVIOUS
    <3> QED
      BY <1>1, <2>1, SetInduction
<1> QED
  BY <1>4
=============================================================================

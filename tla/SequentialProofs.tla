--------------------------- MODULE SequentialProofs ---------------------------
(***************************************************************************)
(* Theorems about the two components whose definitions are sums and        *)
(* recursive functions: weighted rotation, that an unchanged set of        *)
(* candidates is served in proportion; and the billing cycle, that the     *)
(* panel is shown what the next write will persist and that the cycle's    *)
(* total is what was charged in it.                                        *)
(*                                                                         *)
(* Induction is over sets: a set of counterexamples that is not empty has  *)
(* a least element, or a minimal one.                                      *)
(***************************************************************************)
EXTENDS WeightedRotation, BillingCycle, FiniteSetTheorems, TLAPS

-------------------------------------------------------------------------------
(* Induction.                                                              *)

\* A set of natural numbers that is not empty has a least element.
LEMMA LeastNat ==
  ASSUME NEW S, S \subseteq Nat, S # {}
  PROVE  \E x \in S : \A y \in S : x <= y
<1> DEFINE R == OpToRel(<, Nat)
<1>1. IsWellFoundedOn(R, Nat)
  BY NatLessThanWellFounded
<1>2. \A x, y \in Nat : <<x, y>> \in R <=> x < y
  BY DEF OpToRel
<1> HIDE DEF R
<1>3. PICK x \in S : \A y \in S : ~(<<y, x>> \in R)
  BY <1>1, WFMin
<1>4. ASSUME NEW y \in S PROVE x <= y
  <2>1. x \in Nat /\ y \in Nat
    OBVIOUS
  <2>2. ~(<<y, x>> \in R)
    BY <1>3
  <2>3. ~(y < x)
    BY <1>2, <2>1, <2>2
  <2> QED BY <2>1, <2>3
<1> QED BY <1>4

\* A set that holds 0, and with every number the next, holds all natural numbers.
LEMMA NatFrom0 ==
  ASSUME NEW S, 0 \in S, \A n \in Nat : n \in S => n + 1 \in S
  PROVE  Nat \subseteq S
<1> DEFINE bad == {n \in Nat : n \notin S}
<1>1. SUFFICES ASSUME bad # {} PROVE FALSE
  OBVIOUS
<1>2. PICK n \in bad : \A m \in bad : n <= m
  <2>1. bad \subseteq Nat
    OBVIOUS
  <2> HIDE DEF bad
  <2> QED BY <1>1, <2>1, LeastNat
<1>3. n - 1 \in Nat /\ n \notin S
  BY <1>2
<1>4. n - 1 \notin bad
  BY <1>2, <1>3
<1> QED BY <1>3, <1>4

\* Of a set of subsets of a finite set, not empty, one has none of the others within it.
LEMMA MinimalSubset ==
  ASSUME NEW C, IsFiniteSet(C), NEW F, F \subseteq SUBSET C, F # {}
  PROVE  \E s \in F : \A t \in F : t \subseteq s => t = s
<1> DEFINE sizes == {Cardinality(s) : s \in F}
<1>1. \A s \in F : IsFiniteSet(s) /\ Cardinality(s) \in Nat
  BY FS_Subset, FS_CardinalityType
<1>2. PICK s \in F : \A t \in F : Cardinality(s) <= Cardinality(t)
  <2>1. sizes \subseteq Nat /\ sizes # {}
    BY <1>1
  <2>2. PICK n \in sizes : \A m \in sizes : n <= m
    BY <2>1, LeastNat
  <2> QED BY <2>2
<1>3. ASSUME NEW t \in F, t \subseteq s PROVE t = s
  <2>1. t \in SUBSET s
    BY <1>3
  <2>2. Cardinality(t) <= Cardinality(s) /\ (Cardinality(s) = Cardinality(t) => s = t)
    BY <1>1, <2>1, FS_Subset
  <2> QED BY <1>1, <1>2, <2>2
<1> QED BY <1>3

-------------------------------------------------------------------------------
(* Sums over finite sets.                                                  *)

First(s) == CHOOSE x \in s : TRUE

\* g is the function on D that SumFunctionOnSet computes, for D closed under subsets.
Sums(g, f, D) == g = [s \in D |-> IF s = {} THEN 0 ELSE f[First(s)] + g[s \ {First(s)}]]

SumsOf(f, S) == CHOOSE g : Sums(g, f, SUBSET S)

\* SumFunctionOnSet in these terms.
LEMMA SumIsSums == ASSUME NEW f, NEW S PROVE SumFunctionOnSet(f, S) = SumsOf(f, S)[S]
  BY DEF SumFunctionOnSet, FoldFunctionOnSet, MapThenFoldSet, SumsOf, Sums, First

\* The recursion is well founded: for subsets of at most n elements, for every n.
LEMMA SumsExist ==
  ASSUME NEW S, IsFiniteSet(S), NEW f, \A x \in S : f[x] \in Int
  PROVE  \E g \in [SUBSET S -> Int] : Sums(g, f, SUBSET S)
<1> DEFINE Small(n) == {t \in SUBSET S : Cardinality(t) <= n}
           Has(n) == \E g \in [Small(n) -> Int] : Sums(g, f, Small(n))
<1>0. \A t \in SUBSET S : IsFiniteSet(t) /\ Cardinality(t) \in Nat
  BY FS_Subset, FS_CardinalityType
<1>1. Has(0)
  <2>1. Small(0) = {{}}
    BY <1>0, FS_EmptySet
  <2> DEFINE g == [s \in Small(0) |-> 0]
  <2>2. g \in [Small(0) -> Int]
    OBVIOUS
  <2>3. Sums(g, f, Small(0))
    BY <2>1 DEF Sums
  <2> QED BY <2>2, <2>3
<1>2. ASSUME NEW n \in Nat, Has(n) PROVE Has(n + 1)
  <2>1. PICK g \in [Small(n) -> Int] : Sums(g, f, Small(n))
    BY <1>2
  <2> DEFINE Entry(h, s) == IF s = {} THEN 0 ELSE f[First(s)] + h[s \ {First(s)}]
             h == [s \in Small(n + 1) |-> Entry(g, s)]
  <2>2. ASSUME NEW s \in Small(n + 1), s # {}
        PROVE  First(s) \in S /\ s \ {First(s)} \in Small(n)
    <3>1. First(s) \in s
      BY <2>2 DEF First
    <3>2. Cardinality(s \ {First(s)}) = Cardinality(s) - 1
      BY <1>0, <3>1, FS_RemoveElement
    <3> QED BY <1>0, <3>1, <3>2
  <2>3. \A s \in Small(n) : s \in Small(n + 1) /\ g[s] = Entry(g, s)
    <3>1. \A s \in Small(n) : g[s] = Entry(g, s)
      BY <2>1 DEF Sums
    <3>2. \A s \in Small(n) : s \in Small(n + 1)
      BY <1>0
    <3> QED BY <3>1, <3>2
  <2>4. \A s \in Small(n) : h[s] = g[s]
    BY <2>3
  <2>5. \A s \in Small(n + 1) : Entry(g, s) \in Int
    BY <2>1, <2>2
  <2>6. ASSUME NEW s \in Small(n + 1) PROVE Entry(h, s) = Entry(g, s)
    <3>1. s # {} => h[s \ {First(s)}] = g[s \ {First(s)}]
      BY <2>2, <2>4
    <3> HIDE DEF h
    <3> QED BY <3>1
  <2>7. h \in [Small(n + 1) -> Int]
    BY <2>5
  <2>8. Sums(h, f, Small(n + 1))
    <3>1. h = [s \in Small(n + 1) |-> Entry(h, s)]
      BY <2>6
    <3> HIDE DEF h
    <3> QED BY <3>1 DEF Sums
  <2> HIDE DEF h, Entry, Small
  <2> QED BY <2>7, <2>8
<1>3. \A n \in Nat : Has(n)
  <2> DEFINE good == {n \in Nat : Has(n)}
  <2> HIDE DEF Has
  <2>1. 0 \in good /\ \A n \in Nat : n \in good => n + 1 \in good
    BY <1>1, <1>2
  <2>2. Nat \subseteq good
    <3> HIDE DEF good
    <3> QED BY <2>1, NatFrom0
  <2> QED BY <2>2
<1>4. Small(Cardinality(S)) = SUBSET S /\ Cardinality(S) \in Nat
  BY <1>0, FS_Subset
<1> QED BY <1>3, <1>4

\* So the sum over each subset is that of an element and the rest.
LEMMA SumsOfFields ==
  ASSUME NEW S, IsFiniteSet(S), NEW f, \A x \in S : f[x] \in Int
  PROVE  /\ SumsOf(f, S)[{}] = 0
         /\ \A s \in SUBSET S :
              /\ SumsOf(f, S)[s] \in Int
              /\ s # {} => /\ First(s) \in s
                          /\ SumsOf(f, S)[s] = f[First(s)] + SumsOf(f, S)[s \ {First(s)}]
<1> DEFINE g == SumsOf(f, S)
<1>1. Sums(g, f, SUBSET S)
  BY SumsExist DEF SumsOf
<1>2. g = [s \in SUBSET S |-> IF s = {} THEN 0 ELSE f[First(s)] + g[s \ {First(s)}]]
  BY <1>1 DEF Sums
<1> HIDE DEF g
<1>3. /\ g[{}] = 0
      /\ \A s \in SUBSET S : s # {} => /\ First(s) \in s
                                      /\ g[s] = f[First(s)] + g[s \ {First(s)}]
  <2>1. \A s \in SUBSET S : g[s] = IF s = {} THEN 0 ELSE f[First(s)] + g[s \ {First(s)}]
    BY <1>2
  <2> QED BY <2>1 DEF First
<1>4. \A s \in SUBSET S : g[s] \in Int
  <2> DEFINE bad == {s \in SUBSET S : g[s] \notin Int}
  <2>1. SUFFICES ASSUME bad # {} PROVE FALSE
    OBVIOUS
  <2>2. PICK s \in bad : \A t \in bad : t \subseteq s => t = s
    <3>1. bad \subseteq SUBSET S
      OBVIOUS
    <3> HIDE DEF bad
    <3> QED BY <2>1, <3>1, MinimalSubset
  <2>3. s # {} /\ s \in SUBSET S /\ g[s] \notin Int
    <3>1. s \in SUBSET S /\ g[s] \notin Int
      BY <2>2
    <3>2. g[{}] \in Int
      BY <1>3
    <3> QED BY <3>1, <3>2
  <2>4. First(s) \in s /\ g[s] = f[First(s)] + g[s \ {First(s)}]
    BY <1>3, <2>3
  <2>5. s \ {First(s)} \notin bad /\ s \ {First(s)} \in SUBSET S
    BY <2>2, <2>3, <2>4
  <2> QED BY <2>3, <2>4, <2>5
<1> QED BY <1>3, <1>4 DEF g

\* The sum over a set is the same, whatever larger set it is a part of.
LEMMA SumsOfPart ==
  ASSUME NEW S, IsFiniteSet(S), NEW f, \A x \in S : f[x] \in Int, NEW T \in SUBSET S
  PROVE  SumsOf(f, S)[T] = SumFunctionOnSet(f, T)
<1> DEFINE g == SumsOf(f, S)
           h == SumsOf(f, T)
           bad == {s \in SUBSET T : g[s] # h[s]}
<1>0. IsFiniteSet(T) /\ \A x \in T : f[x] \in Int
  BY FS_Subset
<1>1. /\ g[{}] = 0
      /\ \A s \in SUBSET S : s # {} => /\ First(s) \in s
                                      /\ g[s] = f[First(s)] + g[s \ {First(s)}]
  BY SumsOfFields
<1>2. /\ h[{}] = 0
      /\ \A s \in SUBSET T : s # {} => h[s] = f[First(s)] + h[s \ {First(s)}]
  BY <1>0, SumsOfFields
<1>3. bad = {}
  <2> HIDE DEF g, h
  <2>1. SUFFICES ASSUME bad # {} PROVE FALSE
    OBVIOUS
  <2>2. PICK s \in bad : \A t \in bad : t \subseteq s => t = s
    <3>1. bad \subseteq SUBSET T
      OBVIOUS
    <3> HIDE DEF bad
    <3> QED BY <1>0, <2>1, <3>1, MinimalSubset
  <2>3. s # {} /\ s \in SUBSET T /\ s \in SUBSET S /\ g[s] # h[s]
    BY <1>1, <1>2, <2>2
  <2>4. s \ {First(s)} \notin bad /\ s \ {First(s)} \in SUBSET T
    BY <1>1, <2>2, <2>3
  <2> QED BY <1>1, <1>2, <2>3, <2>4
<1>4. g[T] = h[T]
  BY <1>3
<1> QED BY <1>4, SumIsSums

\* A sum over a finite set: nothing for no element, and the order does not matter.
LEMMA SumRemove ==
  ASSUME NEW S, IsFiniteSet(S), NEW f, \A x \in S : f[x] \in Int
  PROVE  /\ SumFunctionOnSet(f, {}) = 0
         /\ SumFunctionOnSet(f, S) \in Int
         /\ \A x \in S : SumFunctionOnSet(f, S) = f[x] + SumFunctionOnSet(f, S \ {x})
<1> DEFINE g == SumsOf(f, S)
           Even(s) == \A x \in s : g[s] = f[x] + g[s \ {x}]
           bad == {s \in SUBSET S : ~Even(s)}
<1>1. /\ g[{}] = 0
      /\ \A s \in SUBSET S :
           /\ g[s] \in Int
           /\ s # {} => /\ First(s) \in s
                       /\ g[s] = f[First(s)] + g[s \ {First(s)}]
  BY SumsOfFields
<1>2. \A T \in SUBSET S : g[T] = SumFunctionOnSet(f, T)
  BY SumsOfPart
<1> HIDE DEF g
<1>3. bad = {}
  <2>1. SUFFICES ASSUME bad # {} PROVE FALSE
    OBVIOUS
  <2>2. PICK s \in bad : \A t \in bad : t \subseteq s => t = s
    <3>1. bad \subseteq SUBSET S
      OBVIOUS
    <3> HIDE DEF bad
    <3> QED BY <2>1, <3>1, MinimalSubset
  <2>3. PICK x \in s : g[s] # f[x] + g[s \ {x}]
    BY <2>2
  <2> DEFINE y == First(s)
  <2>4. y \in s /\ g[s] = f[y] + g[s \ {y}]
    BY <1>1, <2>2, <2>3
  <2> HIDE DEF y
  <2>5. x # y
    BY <2>3, <2>4
  <2>6. /\ s \ {x} \in SUBSET S /\ s \ {x} \notin bad
        /\ s \ {y} \in SUBSET S /\ s \ {y} \notin bad
    BY <2>2, <2>3, <2>4
  <2>7. g[s \ {x}] = f[y] + g[(s \ {x}) \ {y}] /\ g[s \ {y}] = f[x] + g[(s \ {y}) \ {x}]
    BY <2>3, <2>4, <2>5, <2>6
  <2>8. (s \ {x}) \ {y} = (s \ {y}) \ {x} /\ (s \ {x}) \ {y} \in SUBSET S
    BY <2>6
  <2>9. f[x] \in Int /\ f[y] \in Int /\ g[(s \ {x}) \ {y}] \in Int
    BY <1>1, <2>2, <2>3, <2>4, <2>8
  <2> DEFINE rest == (s \ {x}) \ {y}
  <2>10. /\ g[s] = f[y] + g[s \ {y}] /\ g[s \ {y}] = f[x] + g[rest]
         /\ g[s \ {x}] = f[y] + g[rest] /\ g[s] # f[x] + g[s \ {x}]
         /\ f[x] \in Int /\ f[y] \in Int /\ g[rest] \in Int
    BY <2>3, <2>4, <2>7, <2>8, <2>9
  <2> HIDE DEF rest
  <2> QED BY ONLY <2>10
<1>4. \A x \in S : g[S] = f[x] + g[S \ {x}]
  BY <1>3
<1> QED BY <1>1, <1>2, <1>4

\* Sums are monotone, by a factor on each side.
LEMMA SumScaled ==
  ASSUME NEW S, IsFiniteSet(S), NEW f, NEW h, \A x \in S : f[x] \in Int /\ h[x] \in Int,
         NEW p \in Int, NEW q \in Int, \A x \in S : p * f[x] <= q * h[x]
  PROVE  p * SumFunctionOnSet(f, S) <= q * SumFunctionOnSet(h, S)
<1> DEFINE F(s) == SumFunctionOnSet(f, s)
           H(s) == SumFunctionOnSet(h, s)
           bad == {s \in SUBSET S : ~(p * F(s) <= q * H(s))}
<1>1. SUFFICES ASSUME bad # {} PROVE FALSE
  OBVIOUS
<1>2. PICK s \in bad : \A t \in bad : t \subseteq s => t = s
  <2>1. bad \subseteq SUBSET S
    OBVIOUS
  <2> HIDE DEF bad
  <2> QED BY <1>1, <2>1, MinimalSubset
<1>3. s \in SUBSET S /\ IsFiniteSet(s) /\ ~(p * F(s) <= q * H(s))
  BY <1>2, FS_Subset
<1>4. /\ F({}) = 0 /\ H({}) = 0
      /\ \A x \in s : F(s) = f[x] + F(s \ {x}) /\ H(s) = h[x] + H(s \ {x})
  BY <1>3, SumRemove
<1>5. s # {}
  BY <1>3, <1>4
<1>6. PICK x \in s : TRUE
  BY <1>5
<1>7. s \ {x} \notin bad /\ s \ {x} \in SUBSET S
  BY <1>2, <1>3, <1>6
<1>8. F(s \ {x}) \in Int /\ H(s \ {x}) \in Int
  BY <1>7, FS_Subset, SumRemove
<1>9. /\ p * F(s \ {x}) <= q * H(s \ {x}) /\ p * f[x] <= q * h[x]
      /\ f[x] \in Int /\ h[x] \in Int
      /\ F(s) = f[x] + F(s \ {x}) /\ H(s) = h[x] + H(s \ {x})
  BY <1>3, <1>4, <1>6, <1>7
<1> HIDE DEF F, H
<1>10. p * F(s) = p * f[x] + p * F(s \ {x}) /\ q * H(s) = q * h[x] + q * H(s \ {x})
  BY <1>8, <1>9
<1> QED BY <1>3, <1>8, <1>9, <1>10

\* Sums are monotone, so equal for the same terms.
LEMMA SumMonotone ==
  ASSUME NEW S, IsFiniteSet(S), NEW f, NEW h, \A x \in S : f[x] \in Int /\ h[x] \in Int,
         \A x \in S : f[x] <= h[x]
  PROVE  SumFunctionOnSet(f, S) <= SumFunctionOnSet(h, S)
<1>1. 1 * SumFunctionOnSet(f, S) <= 1 * SumFunctionOnSet(h, S)
  <2> DEFINE one == 1
  <2>1. one \in Int /\ \A x \in S : one * f[x] <= one * h[x]
    OBVIOUS
  <2> HIDE DEF one
  <2>2. one * SumFunctionOnSet(f, S) <= one * SumFunctionOnSet(h, S)
    BY <2>1, SumScaled
  <2> QED BY <2>2 DEF one
<1>2. SumFunctionOnSet(f, S) \in Int /\ SumFunctionOnSet(h, S) \in Int
  BY SumRemove
<1> QED BY <1>1, <1>2

\* Terms that are no larger and add up to the same are the same.
LEMMA SumEqual ==
  ASSUME NEW S, IsFiniteSet(S), NEW f, NEW h, \A x \in S : f[x] \in Int /\ h[x] \in Int,
         \A x \in S : f[x] <= h[x],
         SumFunctionOnSet(f, S) = SumFunctionOnSet(h, S)
  PROVE  \A x \in S : f[x] = h[x]
<1> TAKE x \in S
<1>1. /\ SumFunctionOnSet(f, S) = f[x] + SumFunctionOnSet(f, S \ {x})
      /\ SumFunctionOnSet(h, S) = h[x] + SumFunctionOnSet(h, S \ {x})
  BY SumRemove
<1>2. S \ {x} \in SUBSET S /\ IsFiniteSet(S \ {x})
  BY FS_Subset
<1>3. SumFunctionOnSet(f, S \ {x}) \in Int /\ SumFunctionOnSet(h, S \ {x}) \in Int
  BY <1>2, SumRemove
<1>4. SumFunctionOnSet(f, S \ {x}) <= SumFunctionOnSet(h, S \ {x})
  BY <1>2, SumMonotone
<1>5. f[x] \in Int /\ h[x] \in Int /\ f[x] <= h[x]
  OBVIOUS
<1> DEFINE F == SumFunctionOnSet(f, S \ {x})
           H == SumFunctionOnSet(h, S \ {x})
<1>6. f[x] + F = h[x] + H /\ F <= H /\ F \in Int /\ H \in Int
  BY <1>1, <1>3, <1>4
<1> HIDE DEF F, H
<1> QED BY ONLY <1>5, <1>6

\* One more of one term adds one to the sum.
LEMMA SumCounts ==
  ASSUME NEW S, IsFiniteSet(S), NEW f, NEW h, \A x \in S : f[x] \in Int /\ h[x] \in Int,
         NEW a \in S, h[a] = f[a] + 1, \A x \in S \ {a} : h[x] = f[x]
  PROVE  SumFunctionOnSet(h, S) = SumFunctionOnSet(f, S) + 1
<1>1. /\ SumFunctionOnSet(f, S) = f[a] + SumFunctionOnSet(f, S \ {a})
      /\ SumFunctionOnSet(h, S) = h[a] + SumFunctionOnSet(h, S \ {a})
  BY SumRemove
<1>2. S \ {a} \in SUBSET S /\ IsFiniteSet(S \ {a})
  BY FS_Subset
<1>3. SumFunctionOnSet(f, S \ {a}) \in Int /\ SumFunctionOnSet(h, S \ {a}) \in Int
  BY <1>2, SumRemove
<1>4. \A x \in S \ {a} : h[x] \in Int /\ f[x] \in Int /\ f[x] <= h[x] /\ h[x] <= f[x]
  OBVIOUS
<1>5. SumFunctionOnSet(f, S \ {a}) = SumFunctionOnSet(h, S \ {a})
  <2>1. /\ SumFunctionOnSet(f, S \ {a}) <= SumFunctionOnSet(h, S \ {a})
        /\ SumFunctionOnSet(h, S \ {a}) <= SumFunctionOnSet(f, S \ {a})
    BY <1>2, <1>4, SumMonotone
  <2> QED BY <1>3, <2>1
<1> QED BY <1>1, <1>3, <1>5

\* Nothing counted adds up to nothing.
LEMMA SumZero ==
  ASSUME NEW S, IsFiniteSet(S), NEW f, \A x \in S : f[x] = 0
  PROVE  SumFunctionOnSet(f, S) = 0
<1> DEFINE one == 1
           two == 2
<1>1. /\ \A x \in S : f[x] \in Int /\ two * f[x] <= one * f[x] /\ one * f[x] <= two * f[x]
      /\ one \in Int /\ two \in Int
  OBVIOUS
<1>2. /\ two * SumFunctionOnSet(f, S) <= one * SumFunctionOnSet(f, S)
      /\ one * SumFunctionOnSet(f, S) <= two * SumFunctionOnSet(f, S)
  <2> HIDE DEF one, two
  <2> QED BY <1>1, SumScaled
<1>3. SumFunctionOnSet(f, S) \in Int
  BY <1>1, SumRemove
<1> QED BY <1>2, <1>3

-------------------------------------------------------------------------------
(* Weighted rotation.                                                      *)

\* Of finitely many numbers that are attached to candidates one is the largest.
LEMMA LargestExists ==
  ASSUME NEW S, IsFiniteSet(S), S # {}, NEW f, \A x \in S : f[x] \in Int
  PROVE  \E a \in S : \A b \in S : f[b] <= f[a]
<1> DEFINE Has(s) == \E a \in s : \A b \in s : f[b] <= f[a]
           bad == {s \in SUBSET S : s # {} /\ ~Has(s)}
<1>1. SUFFICES ASSUME bad # {} PROVE FALSE
  OBVIOUS
<1>2. PICK s \in bad : \A t \in bad : t \subseteq s => t = s
  <2>1. bad \subseteq SUBSET S
    OBVIOUS
  <2> HIDE DEF bad
  <2> QED BY <1>1, <2>1, MinimalSubset
<1>3. PICK x \in s : TRUE
  BY <1>2
<1>4. s \ {x} # {}
  BY <1>2, <1>3
<1>5. s \ {x} \notin bad /\ s \ {x} \in SUBSET S
  BY <1>2, <1>3
<1>6. PICK a \in s \ {x} : \A b \in s \ {x} : f[b] <= f[a]
  BY <1>4, <1>5
<1>7. f[a] \in Int /\ f[x] \in Int /\ \A b \in s : f[b] \in Int
  BY <1>2, <1>3, <1>6
<1>8. CASE f[x] <= f[a]
  <2>1. \A b \in s : f[b] <= f[a]
    BY <1>6, <1>8
  <2> QED BY <1>2, <1>6, <2>1
<1>9. CASE f[a] <= f[x]
  <2>1. ASSUME NEW b \in s PROVE f[b] <= f[x]
    <3>1. b = x \/ f[b] <= f[a]
      BY <1>6
    <3> QED BY <1>7, <1>9, <3>1
  <2> QED BY <1>2, <1>3, <2>1
<1> QED BY <1>7, <1>8, <1>9

\* The weights of candidates are positive, and so is their total.
LEMMA WeightsPositive ==
  ASSUME NEW C \in SUBSET Accounts, C # {}
  PROVE  /\ IsFiniteSet(C) /\ C \subseteq Nat
         /\ \A a \in C : Weight[a] \in Nat \ {0}
         /\ Total(C) \in Nat \ {0}
<1>1. /\ IsFiniteSet(C) /\ C \subseteq Nat
      /\ \A a \in C : Weight[a] \in Nat \ {0} /\ Weight[a] \in Int
  <2>1. IsFiniteSet(C)
    BY RotationAssumption, FS_Subset
  <2>2. C \subseteq Nat /\ \A a \in C : Weight[a] \in Nat \ {0}
    BY RotationAssumption
  <2> QED BY <2>1, <2>2
<1> DEFINE none == [a \in C |-> 0]
<1>2. PICK a \in C : TRUE
  OBVIOUS
<1>3. IsFiniteSet(C \ {a}) /\ \A b \in C \ {a} : none[b] = 0
  BY <1>1, FS_Subset
<1>4. \A b \in C \ {a} : none[b] \in Int /\ Weight[b] \in Int /\ none[b] <= Weight[b]
  BY <1>1
<1> HIDE DEF none
<1>5. SumFunctionOnSet(none, C \ {a}) = 0
  BY <1>3, SumZero
<1>6. 0 <= SumFunctionOnSet(Weight, C \ {a}) /\ SumFunctionOnSet(Weight, C \ {a}) \in Int
  BY <1>3, <1>4, <1>5, SumMonotone, SumRemove
<1>7. SumFunctionOnSet(Weight, C) = Weight[a] + SumFunctionOnSet(Weight, C \ {a})
  BY <1>1, SumRemove
<1> QED BY <1>1, <1>6, <1>7 DEF Total

\* The first of some candidates is one of them.
LEMMA LeastIsOne == ASSUME NEW C, C \subseteq Nat, C # {} PROVE Least(C) \in C
  BY LeastNat DEF Least

\* The pick is a candidate; if one has a raised weight above zero, then so has the pick.
LEMMA BestIsOne ==
  ASSUME NEW C \in SUBSET Accounts, C # {}, \A a \in C : Raised(C)[a] \in Int
  PROVE  /\ Best(C) \in C
         /\ (\E a \in C : Raised(C)[a] > 0) => Raised(C)[Best(C)] > 0
<1> DEFINE up == Raised(C)
           leaders == {a \in C : up[a] > 0 /\ \A b \in C : up[b] <= up[a]}
<1>1. IsFiniteSet(C) /\ C \subseteq Nat
  BY WeightsPositive
<1>2. Best(C) = IF leaders = {} THEN Least(C) ELSE Least(leaders)
  BY DEF Best
<1>3. leaders # {} => Least(leaders) \in leaders
  BY <1>1, LeastIsOne
<1>4. Least(C) \in C
  BY <1>1, LeastIsOne
<1>5. (\E a \in C : up[a] > 0) => leaders # {}
  <2>1. PICK a \in C : \A b \in C : up[b] <= up[a]
    BY <1>1, LargestExists
  <2>2. ASSUME NEW b \in C, up[b] > 0 PROVE up[a] > 0
    <3>1. up[b] <= up[a] /\ up[a] \in Int /\ up[b] \in Int
      BY <2>1
    <3> HIDE DEF up
    <3> QED BY <2>2, <3>1
  <2> QED BY <2>1, <2>2
<1> QED BY <1>2, <1>3, <1>4, <1>5

\* The inductive invariant. After k picks of a round a candidate has been given k
\* times its weight, and has paid the total for each of its own picks; it has had no
\* more of them than its weight, and the round no more than the total.
Picks == SumFunctionOnSet(served, round)

RoundInv ==
  /\ wrr \in [DOMAIN wrr -> Int]
  /\ round \subseteq Accounts /\ served \in [Accounts -> Nat]
  /\ round # {} =>
       /\ DOMAIN wrr = round
       /\ Picks <= Total(round)
       /\ \A a \in round : /\ served[a] <= Weight[a]
                           /\ wrr[a] = Picks * Weight[a] - served[a] * Total(round)

\* The running weights are numbers, those of the candidates and those after the pick.
LEMMA RaisedType ==
  ASSUME RoundInv, NEW C \in SUBSET Accounts
  PROVE  /\ Running(C) \in [C -> Int] /\ Raised(C) \in [C -> Int]
         /\ \A a \in C : Raised(C)[a] = Running(C)[a] + Weight[a]
<1>1. Running(C) \in [C -> Int]
  <2>1. ASSUME NEW a \in C PROVE (IF a \in DOMAIN wrr THEN wrr[a] ELSE 0) \in Int
    BY DEF RoundInv
  <2> QED BY <2>1 DEF Running
<1>2. \A a \in C : Weight[a] \in Int
  BY RotationAssumption
<1> QED BY <1>1, <1>2 DEF Raised

\* Sums of what was served are numbers.
LEMMA PicksType ==
  ASSUME RoundInv, round # {}
  PROVE  Picks \in Nat
<1>1. IsFiniteSet(round) /\ \A a \in round : served[a] \in Int
  BY WeightsPositive DEF RoundInv
<1> DEFINE none == [a \in round |-> 0]
<1>2. \A a \in round : none[a] = 0 /\ none[a] \in Int /\ none[a] <= served[a]
  BY DEF RoundInv
<1> HIDE DEF none
<1>3. SumFunctionOnSet(none, round) = 0
  BY <1>1, <1>2, SumZero
<1>4. 0 <= Picks /\ Picks \in Int
  BY <1>1, <1>2, <1>3, SumMonotone, SumRemove DEF Picks
<1> QED BY <1>4

\* A complete round has no running weights left.
LEMMA RoundComplete ==
  ASSUME RoundInv, round # {}, Picks = Total(round)
  PROVE  \A a \in round : wrr[a] = 0
<1>1. /\ IsFiniteSet(round) /\ Total(round) \in Nat
      /\ \A a \in round : served[a] \in Int /\ Weight[a] \in Int /\ served[a] <= Weight[a]
  BY WeightsPositive DEF RoundInv
<1>2. \A a \in round : served[a] = Weight[a]
  BY <1>1, SumEqual DEF Picks, Total
<1>3. ASSUME NEW a \in round PROVE wrr[a] = 0
  <2>1. wrr[a] = Total(round) * Weight[a] - Weight[a] * Total(round)
    BY <1>2 DEF RoundInv
  <2>2. Total(round) \in Int /\ Weight[a] \in Int
    BY <1>1
  <2> HIDE DEF Total
  <2> QED BY <2>1, <2>2
<1> QED BY <1>3

\* A pick for the candidates of the round. The round is not complete, since a running
\* weight is left; so the weights raised by the pick add up to something, the largest
\* is above zero, and the account that has it has not had all its picks.
LEMMA RoundGoesOn ==
  ASSUME RoundInv, round # {}, WeightedPick(round), NEW z \in round, Running(round)[z] # 0
  PROVE  RoundInv'
<1> DEFINE C == round
           T == Total(C)
           k == Picks
           b == Best(C)
           up == Raised(C)
<1>0. /\ C \in SUBSET Accounts /\ C # {} /\ IsFiniteSet(C)
      /\ \A a \in C : Weight[a] \in Nat \ {0} /\ served[a] \in Nat /\ served[a] <= Weight[a]
      /\ T \in Nat \ {0} /\ k \in Nat /\ k <= T
  BY WeightsPositive, PicksType DEF RoundInv
<1>1. \A a \in C : /\ up[a] \in Int /\ Running(C)[a] = wrr[a]
                   /\ up[a] = wrr[a] + Weight[a]
                   /\ wrr[a] = k * Weight[a] - served[a] * T
  BY RaisedType DEF RoundInv, Running
<1>2. k < T
  <2>1. SUFFICES ASSUME k = T PROVE FALSE
    BY <1>0
  <2> QED BY <1>1, <2>1, RoundComplete
<1> HIDE DEF T, k
<1>3. \A a \in C : up[a] = (k + 1) * Weight[a] - served[a] * T
  <2> TAKE a \in C
  <2> DEFINE w == Weight[a]
             s == served[a]
             u == up[a]
             r == wrr[a]
  <2>1. u = r + w /\ r = k * w - s * T /\ w \in Nat /\ s \in Nat /\ k \in Nat /\ T \in Nat
    BY <1>0, <1>1
  <2> HIDE DEF w, s, u, r
  <2>2. u = (k + 1) * w - s * T
    BY ONLY <2>1
  <2> QED BY <2>2 DEF w, s, u
<1>4. \E a \in C : up[a] > 0
  <2>1. SUFFICES ASSUME \A a \in C : ~(up[a] > 0) PROVE FALSE
    OBVIOUS
  <2>2. ASSUME NEW a \in C PROVE (k + 1) * Weight[a] <= T * served[a]
    <3> DEFINE x == (k + 1) * Weight[a]
               y == served[a] * T
    <3>1. x \in Int /\ y \in Int /\ y = T * served[a]
      BY <1>0
    <3>2. ~(x - y > 0)
      BY <1>3, <2>1
    <3>3. x <= y
      <4> HIDE DEF x, y
      <4> QED BY <3>1, <3>2
    <3> QED BY <3>1, <3>3
  <2>3. (k + 1) * SumFunctionOnSet(Weight, C) <= T * SumFunctionOnSet(served, C)
    <3> DEFINE p == k + 1
    <3>1. p \in Int /\ T \in Int /\ \A a \in C : p * Weight[a] <= T * served[a]
      BY <1>0, <2>2
    <3>2. \A a \in C : Weight[a] \in Int /\ served[a] \in Int
      BY <1>0
    <3> HIDE DEF p
    <3>3. p * SumFunctionOnSet(Weight, C) <= T * SumFunctionOnSet(served, C)
      BY <1>0, <3>1, <3>2, SumScaled
    <3> QED BY <3>3 DEF p
  <2>4. (k + 1) * T <= T * k
    BY <2>3 DEF T, k, Total, Picks
  <2> QED BY ONLY <1>0, <2>4
<1>5. b \in C /\ up[b] > 0
  BY <1>0, <1>1, <1>4, BestIsOne
<1> HIDE DEF b, up
<1>6. served[b] < Weight[b]
  <2> DEFINE w == Weight[b]
             s == served[b]
  <2>1. /\ (k + 1) * w - s * T > 0 /\ k + 1 <= T
        /\ w \in Nat \ {0} /\ s \in Nat /\ k \in Nat /\ T \in Nat \ {0}
    BY <1>0, <1>2, <1>3, <1>5
  <2> HIDE DEF w, s
  <2>2. (k + 1) * w <= T * w
    BY ONLY <2>1
  <2>3. (k + 1) * w \in Int /\ s * T \in Int /\ w * T \in Int /\ T * w = w * T
    BY ONLY <2>1
  <2>4. s * T < w * T
    BY ONLY <2>1, <2>2, <2>3
  <2>5. s >= w => s * T >= w * T
    BY ONLY <2>1
  <2>6. s < w
    BY ONLY <2>1, <2>3, <2>4, <2>5
  <2> QED BY <2>6 DEF w, s
<1>7. /\ round' = C
      /\ served' = [a \in Accounts |-> served[a] + (IF a = b THEN 1 ELSE 0)]
      /\ wrr' = [up EXCEPT ![b] = up[b] - T]
  <2>1. /\ wrr' = [Raised(C) EXCEPT ![b] = Raised(C)[b] - Total(C)]
        /\ Observe(C, b)
    BY DEF WeightedPick, b
  <2>2. ~(\A a \in C : Running(C)[a] = 0)
    OBVIOUS
  <2> QED BY <2>1, <2>2 DEF Observe, up, T
<1>8. up \in [C -> Int]
  BY <1>0, RaisedType DEF up
<1>9. wrr' \in [C -> Int]
  BY <1>0, <1>5, <1>7, <1>8
<1>10. served' \in [Accounts -> Nat]
  BY <1>7 DEF RoundInv
<1>11. Picks' = k + 1
  <2>1. \A a \in C : served[a] \in Int /\ served'[a] \in Int
    BY <1>0, <1>10
  <2>2. served'[b] = served[b] + 1 /\ \A a \in C \ {b} : served'[a] = served[a]
    BY <1>0, <1>5, <1>7
  <2>3. SumFunctionOnSet(served', C) = SumFunctionOnSet(served, C) + 1
    BY <1>0, <1>5, <2>1, <2>2, SumCounts
  <2> QED BY <1>7, <2>3 DEF Picks, k
<1>12. Total(round)' = T
  BY <1>7 DEF T, Total
<1>13. ASSUME NEW a \in C
       PROVE  /\ served'[a] <= Weight[a]
              /\ wrr'[a] = (k + 1) * Weight[a] - served'[a] * T
  <2> DEFINE w == Weight[a]
             s == served[a]
             u == up[a]
  <2>0. u = (k + 1) * w - s * T /\ w \in Nat /\ s \in Nat /\ s <= w
    BY <1>0, <1>3
  <2>1. CASE a = b
    <3>1. served'[a] = s + 1 /\ wrr'[a] = u - T /\ s < w
      BY <1>0, <1>5, <1>6, <1>7, <1>8, <2>1
    <3>2. k \in Nat /\ T \in Nat
      BY <1>0
    <3> HIDE DEF w, s, u
    <3>3. s + 1 <= w /\ u - T = (k + 1) * w - (s + 1) * T
      <4>1. (s + 1) * T = s * T + T /\ s * T \in Int /\ (k + 1) * w \in Int
        BY ONLY <2>0, <3>2
      <4> QED BY ONLY <2>0, <3>1, <3>2, <4>1
    <3> QED BY <3>1, <3>3 DEF w, s, u
  <2>2. CASE a # b
    <3>1. served'[a] = s /\ wrr'[a] = u
      BY <1>0, <1>7, <1>8, <2>2
    <3> QED BY <2>0, <3>1
  <2> QED BY <2>1, <2>2
<1>14. k + 1 <= T
  BY <1>0, <1>2
<1> HIDE DEF C
<1> QED BY <1>0, <1>7, <1>9, <1>10, <1>11, <1>12, <1>13, <1>14 DEF RoundInv

\* A pick where no candidate has a running weight is the first of a round.
LEMMA RoundStarts ==
  ASSUME RoundInv, NEW C \in SUBSET Accounts, C # {}, WeightedPick(C),
         \A a \in C : Running(C)[a] = 0
  PROVE  RoundInv'
<1> DEFINE T == Total(C)
           b == Best(C)
           up == Raised(C)
<1>0. /\ IsFiniteSet(C) /\ \A a \in C : Weight[a] \in Nat \ {0}
      /\ T \in Nat \ {0}
  BY WeightsPositive
<1>1. up \in [C -> Int] /\ \A a \in C : up[a] = Weight[a]
  BY <1>0, RaisedType
<1>2. b \in C
  BY <1>1, BestIsOne
<1>3. /\ wrr' = [up EXCEPT ![b] = up[b] - T] /\ Observe(C, b)
  BY DEF WeightedPick
<1> HIDE DEF T, b, up
<1>4. /\ round' = C
      /\ served' = [a \in Accounts |-> IF a = b THEN 1 ELSE 0]
  BY <1>3 DEF Observe
<1>5. wrr' \in [C -> Int] /\ served' \in [Accounts -> Nat]
  BY <1>0, <1>1, <1>2, <1>3, <1>4
<1>6. Picks' = 1
  <2> DEFINE none == [a \in C |-> 0]
  <2>1. /\ \A a \in C : none[a] \in Int /\ none[a] = 0 /\ served'[a] \in Int
        /\ served'[b] = none[b] + 1 /\ \A a \in C \ {b} : served'[a] = none[a]
    BY <1>2, <1>4
  <2> HIDE DEF none
  <2>2. SumFunctionOnSet(served', C) = SumFunctionOnSet(none, C) + 1
    BY <1>0, <1>2, <2>1, SumCounts
  <2>3. SumFunctionOnSet(none, C) = 0
    BY <1>0, <2>1, SumZero
  <2> QED BY <1>4, <2>2, <2>3 DEF Picks
<1>7. Total(round)' = T
  BY <1>4 DEF T, Total
<1>8. ASSUME NEW a \in C
      PROVE  /\ served'[a] <= Weight[a]
             /\ wrr'[a] = 1 * Weight[a] - served'[a] * T
  BY <1>0, <1>1, <1>2, <1>3, <1>4
<1>9. \A a \in C : wrr'[a] = Picks' * Weight[a] - served'[a] * Total(round)'
  BY <1>6, <1>7, <1>8
<1>10. Picks' <= Total(round)'
  BY <1>0, <1>6, <1>7
<1> QED BY <1>4, <1>5, <1>8, <1>9, <1>10 DEF RoundInv

\* Every pick keeps the invariant; one that breaks the round off leaves none.
LEMMA RoundKept == RoundInv /\ [RotationNext]_rotationVars => RoundInv'
<1> SUFFICES ASSUME RoundInv, [RotationNext]_rotationVars PROVE RoundInv'
  OBVIOUS
<1>1. ASSUME NEW C \in SUBSET Accounts, PlainPick(C) PROVE RoundInv'
  BY <1>1 DEF PlainPick, RoundInv, NoWeights
<1>2. ASSUME NEW C \in SUBSET Accounts, C # {}, WeightedPick(C) PROVE RoundInv'
  <2>1. CASE \A a \in C : Running(C)[a] = 0
    BY <1>2, <2>1, RoundStarts
  <2>2. CASE C = round /\ \E a \in C : Running(C)[a] # 0
    BY <1>2, <2>2, RoundGoesOn
  <2>3. CASE C # round /\ \E a \in C : Running(C)[a] # 0
    <3>1. /\ wrr' = [Raised(C) EXCEPT ![Best(C)] = Raised(C)[Best(C)] - Total(C)]
          /\ Observe(C, Best(C))
      BY <1>2 DEF WeightedPick
    <3>2. round' = {} /\ served' = [a \in Accounts |-> 0]
      BY <2>3, <3>1 DEF Observe
    <3>3. Raised(C) \in [C -> Int] /\ Total(C) \in Nat
      BY <1>2, RaisedType, WeightsPositive
    <3>4. wrr' \in [C -> Int]
      <4> DEFINE up == Raised(C)
                 b == Best(C)
                 T == Total(C)
      <4>1. b \in C /\ up \in [C -> Int] /\ T \in Nat
        BY <1>2, <3>3, BestIsOne
      <4>2. wrr' = [up EXCEPT ![b] = up[b] - T]
        BY <3>1
      <4> HIDE DEF up, b, T
      <4> QED BY <4>1, <4>2
    <3> QED BY <3>2, <3>4 DEF RoundInv
  <2> QED BY <2>1, <2>2, <2>3
<1>3. CASE UNCHANGED rotationVars
  <2>1. UNCHANGED <<wrr, round, served>>
    BY <1>3 DEF rotationVars
  <2>2. Picks' = Picks /\ Total(round)' = Total(round)
    BY <2>1 DEF Picks, Total
  <2>3. /\ wrr' \in [DOMAIN wrr' -> Int]
        /\ round' \subseteq Accounts /\ served' \in [Accounts -> Nat]
    BY <2>1 DEF RoundInv
  <2>4. CASE round = {}
    BY <2>1, <2>3, <2>4 DEF RoundInv
  <2>5. CASE round # {}
    <3>1. /\ DOMAIN wrr' = round' /\ Picks' <= Total(round)'
          /\ \A a \in round' : /\ served'[a] <= Weight[a]
                              /\ wrr'[a] = Picks' * Weight[a] - served'[a] * Total(round)'
      BY <2>1, <2>2, <2>5 DEF RoundInv
    <3> QED BY <2>3, <3>1 DEF RoundInv
  <2> QED BY <2>4, <2>5
<1> QED BY <1>1, <1>2, <1>3 DEF RotationNext

\* An unchanged set of candidates is served in proportion to the weights, from a state
\* without running weights: no account more often than its weight, and each exactly as
\* often in as many picks as the weights add up to (weightedRotate).
THEOREM ShareIsWeightHolds == RotationSpec => []ShareIsWeight
<1>1. RotationInit => RoundInv
  BY DEF RotationInit, RoundInv, NoWeights
<1>2. RoundInv => ShareIsWeight
  BY RoundComplete DEF ShareIsWeight, RoundInv, Picks
<1> QED BY <1>1, <1>2, RoundKept, PTL DEF RotationSpec

-------------------------------------------------------------------------------
(* The billing cycle.                                                      *)

\* The first n iterates of a step, from a start.
Iterates(g, base, step, n) == g[0] = base /\ \A i \in 1..n : g[i] = step[g[i - 1]]

\* A step can be iterated n times from a start.
LEMMA IterationExists ==
  ASSUME NEW D, NEW base \in D, NEW step \in [D -> D], NEW n \in Nat
  PROVE  \E g \in [0..n -> D] : Iterates(g, base, step, n)
<1> DEFINE good == {m \in Nat : \E g \in [0..m -> D] : Iterates(g, base, step, m)}
<1>1. 0 \in good
  <2>1. [i \in 0..0 |-> base] \in [0..0 -> D] /\ Iterates([i \in 0..0 |-> base], base, step, 0)
    BY DEF Iterates
  <2> QED BY <2>1
<1>2. ASSUME NEW m \in Nat, m \in good PROVE m + 1 \in good
  <2>1. PICK g \in [0..m -> D] : Iterates(g, base, step, m)
    BY <1>2
  <2> DEFINE h == [i \in 0..(m + 1) |-> IF i = m + 1 THEN step[g[m]] ELSE g[i]]
  <2>2. h \in [0..(m + 1) -> D]
    <3>1. \A i \in 0..(m + 1) : i # m + 1 => i \in 0..m
      OBVIOUS
    <3>2. step[g[m]] \in D
      OBVIOUS
    <3> QED BY <3>1, <3>2
  <2>3. h[0] = base
    BY <2>1 DEF Iterates
  <2>4. ASSUME NEW i \in 1..(m + 1) PROVE h[i] = step[h[i - 1]]
    <3>1. h[i - 1] = g[i - 1]
      OBVIOUS
    <3>2. CASE i = m + 1
      BY <3>1, <3>2
    <3>3. CASE i # m + 1
      BY <2>1, <3>1, <3>3 DEF Iterates
    <3> QED BY <3>2, <3>3
  <2>5. Iterates(h, base, step, m + 1)
    BY <2>3, <2>4 DEF Iterates
  <2> HIDE DEF h
  <2> QED BY <2>2, <2>5
<1>3. Nat \subseteq good
  <2> HIDE DEF good
  <2> QED BY <1>1, <1>2, NatFrom0
<1> QED BY <1>3

Cycles == [next : Nat, start : Int, credits : Nat, used : [1..MaxTime -> Nat],
           blind : BOOLEAN, lost : BOOLEAN, booted : BOOLEAN,
           sub : {{}} \cup {{p} : p \in Phases}, skewed : BOOLEAN]

\* Types of the clock and the cycle.
BillingType == now \in Nat /\ cycle \in Cycles /\ saved \in Cycles

\* The cycle, and the instant shown, after each step of the two loops.
RolledBy == CHOOSE g : g = [i \in 0..MaxCatchUps |->
              IF i = 0 THEN cycle ELSE IF Behind(g[i - 1]) THEN RollStep(g[i - 1]) ELSE g[i - 1]]
Instants == CHOOSE g : g = [i \in 0..MaxCatchUps |->
              IF i = 0 THEN cycle.next
              ELSE IF g[i - 1] > 0 /\ now >= g[i - 1] THEN Advance(g[i - 1]) ELSE g[i - 1]]

\* One step of the loop keeps the type, and has these fields.
LEMMA RollStepFields ==
  ASSUME BillingType, NEW c \in Cycles
  PROVE  /\ RollStep(c) \in Cycles
         /\ RollStep(c).next = Advance(c.next) /\ RollStep(c).start = c.next
         /\ RollStep(c).credits = 0
         /\ Advance(c.next) \in Nat
<1>1. Advance(c.next) \in Nat
  BY BillingAssumption DEF Advance, Cycles
<1>2. cycle.blind \in BOOLEAN /\ c.next \in Int
  BY DEF BillingType, Cycles
<1> QED BY <1>1, <1>2 DEF RollStep, Cycles

\* The roll, step by step.
LEMMA RolledByFields ==
  ASSUME BillingType
  PROVE  /\ RolledBy \in [0..MaxCatchUps -> Cycles]
         /\ RolledBy[0] = cycle
         /\ \A i \in 1..MaxCatchUps :
              RolledBy[i] = IF Behind(RolledBy[i - 1]) THEN RollStep(RolledBy[i - 1])
                            ELSE RolledBy[i - 1]
<1> DEFINE roll == [c \in Cycles |-> IF Behind(c) THEN RollStep(c) ELSE c]
           R(g) == g = [i \in 0..MaxCatchUps |->
                     IF i = 0 THEN cycle ELSE IF Behind(g[i - 1]) THEN RollStep(g[i - 1]) ELSE g[i - 1]]
<1>1. roll \in [Cycles -> Cycles] /\ cycle \in Cycles /\ MaxCatchUps \in Nat
  BY RollStepFields, BillingAssumption DEF BillingType
<1>2. PICK g \in [0..MaxCatchUps -> Cycles] :
        g[0] = cycle /\ \A i \in 1..MaxCatchUps : g[i] = roll[g[i - 1]]
  <2> HIDE DEF roll
  <2>1. PICK g \in [0..MaxCatchUps -> Cycles] : Iterates(g, cycle, roll, MaxCatchUps)
    BY <1>1, IterationExists
  <2> QED BY <2>1 DEF Iterates
<1>3. R(g)
  <2>1. ASSUME NEW i \in 0..MaxCatchUps, i # 0
        PROVE  g[i] = IF Behind(g[i - 1]) THEN RollStep(g[i - 1]) ELSE g[i - 1]
    <3>1. i \in 1..MaxCatchUps /\ i - 1 \in 0..MaxCatchUps
      BY <1>1, <2>1
    <3> QED BY <1>2, <3>1
  <2> QED BY <1>2, <2>1
<1>4. R(RolledBy)
  BY <1>3 DEF RolledBy
<1>5. ASSUME NEW h, R(h)
      PROVE  /\ h[0] = cycle
             /\ \A i \in 1..MaxCatchUps :
                  h[i] = IF Behind(h[i - 1]) THEN RollStep(h[i - 1]) ELSE h[i - 1]
             /\ \A i \in 0..MaxCatchUps : h[i] \in Cycles
             /\ h \in [0..MaxCatchUps -> Cycles]
  <2>1. \A i \in 0..MaxCatchUps :
          h[i] = IF i = 0 THEN cycle ELSE IF Behind(h[i - 1]) THEN RollStep(h[i - 1]) ELSE h[i - 1]
    BY <1>5
  <2>2. h[0] = cycle /\ \A i \in 1..MaxCatchUps :
          h[i] = IF Behind(h[i - 1]) THEN RollStep(h[i - 1]) ELSE h[i - 1]
    BY <1>1, <2>1
  <2> DEFINE good == {n \in Nat : n <= MaxCatchUps => h[n] \in Cycles}
  <2>3. 0 \in good
    BY <1>1, <2>2
  <2>4. ASSUME NEW n \in Nat, n \in good PROVE n + 1 \in good
    <3>1. SUFFICES ASSUME n + 1 <= MaxCatchUps PROVE h[n + 1] \in Cycles
      OBVIOUS
    <3>2. h[n] \in Cycles /\ n + 1 \in 1..MaxCatchUps /\ (n + 1) - 1 = n
      BY <1>1, <2>4, <3>1
    <3>3. h[n + 1] = IF Behind(h[n]) THEN RollStep(h[n]) ELSE h[n]
      BY <2>2, <3>2
    <3> QED BY <3>2, <3>3, RollStepFields
  <2>5. Nat \subseteq good
    <3> HIDE DEF good
    <3> QED BY <2>3, <2>4, NatFrom0
  <2>6. \A i \in 0..MaxCatchUps : h[i] \in Cycles
    BY <2>5
  <2>7. h = [i \in 0..MaxCatchUps |-> h[i]]
    BY <1>5
  <2> QED BY <2>2, <2>6, <2>7
<1> HIDE DEF R
<1> QED BY <1>4, <1>5

\* The instants of the projection are the boundaries of the roll.
LEMMA InstantsFields ==
  ASSUME BillingType
  PROVE  \A i \in 0..MaxCatchUps : Instants[i] = RolledBy[i].next
<1> DEFINE I(g) == g = [i \in 0..MaxCatchUps |->
                     IF i = 0 THEN cycle.next
                     ELSE IF g[i - 1] > 0 /\ now >= g[i - 1] THEN Advance(g[i - 1]) ELSE g[i - 1]]
           boundary == [i \in 0..MaxCatchUps |-> RolledBy[i].next]
<1>0. MaxCatchUps \in Nat
  BY BillingAssumption
<1>1. /\ RolledBy[0] = cycle
      /\ \A i \in 1..MaxCatchUps :
           RolledBy[i].next = IF RolledBy[i - 1].next > 0 /\ now >= RolledBy[i - 1].next
                              THEN Advance(RolledBy[i - 1].next) ELSE RolledBy[i - 1].next
  <2>1. RolledBy[0] = cycle
    BY RolledByFields
  <2>2. ASSUME NEW i \in 1..MaxCatchUps
        PROVE  RolledBy[i].next = IF RolledBy[i - 1].next > 0 /\ now >= RolledBy[i - 1].next
                                  THEN Advance(RolledBy[i - 1].next) ELSE RolledBy[i - 1].next
    <3>1. i - 1 \in 0..MaxCatchUps
      BY <1>0
    <3>2. RolledBy[i - 1] \in Cycles
      BY <3>1, RolledByFields
    <3>3. RolledBy[i] = IF Behind(RolledBy[i - 1]) THEN RollStep(RolledBy[i - 1]) ELSE RolledBy[i - 1]
      BY RolledByFields
    <3> QED BY <3>2, <3>3, RollStepFields DEF Behind
  <2> QED BY <2>1, <2>2
<1>2. I(boundary)
  <2>1. \A i \in 1..MaxCatchUps : boundary[i] = RolledBy[i].next /\ boundary[i - 1] = RolledBy[i - 1].next
    BY <1>0
  <2>2. ASSUME NEW i \in 0..MaxCatchUps, i # 0
        PROVE  boundary[i] = IF boundary[i - 1] > 0 /\ now >= boundary[i - 1]
                             THEN Advance(boundary[i - 1]) ELSE boundary[i - 1]
    <3>1. i \in 1..MaxCatchUps
      BY <1>0, <2>2
    <3> HIDE DEF boundary
    <3> QED BY <1>1, <2>1, <3>1
  <2>3. boundary[0] = cycle.next
    BY <1>0, <1>1
  <2>4. boundary = [i \in 0..MaxCatchUps |-> boundary[i]]
    OBVIOUS
  <2> HIDE DEF boundary
  <2> QED BY <2>2, <2>3, <2>4
<1>3. I(Instants)
  <2> HIDE DEF boundary
  <2> QED BY <1>2 DEF Instants
<1>4. \A i \in 0..MaxCatchUps :
        Instants[i] = IF i = 0 THEN cycle.next
                      ELSE IF Instants[i - 1] > 0 /\ now >= Instants[i - 1]
                           THEN Advance(Instants[i - 1]) ELSE Instants[i - 1]
  BY <1>3
<1> DEFINE good == {n \in Nat : n <= MaxCatchUps => Instants[n] = RolledBy[n].next}
<1>5. 0 \in good
  BY <1>0, <1>1, <1>4
<1>6. ASSUME NEW n \in Nat, n \in good PROVE n + 1 \in good
  <2>1. SUFFICES ASSUME n + 1 <= MaxCatchUps PROVE Instants[n + 1] = RolledBy[n + 1].next
    OBVIOUS
  <2>2. /\ Instants[n] = RolledBy[n].next
        /\ n + 1 \in 1..MaxCatchUps /\ n + 1 \in 0..MaxCatchUps /\ n + 1 # 0 /\ (n + 1) - 1 = n
    BY <1>0, <1>6, <2>1
  <2> QED BY <1>1, <1>4, <2>2
<1>7. Nat \subseteq good
  <2> HIDE DEF good, I
  <2> QED BY <1>5, <1>6, NatFrom0
<1> QED BY <1>0, <1>7

\* The boundaries passed in the first i steps.
PassedBy(i) == {RolledBy[j].next : j \in 0..(i - 1)} \cap 1..now

\* After i steps the cycle is untouched if no boundary was passed, and else begins at
\* the latest one passed with nothing in it.
LEMMA RolledByPassed ==
  ASSUME BillingType
  PROVE  \A i \in 0..MaxCatchUps :
           /\ PassedBy(i) = {} => RolledBy[i].start = cycle.start /\ RolledBy[i].credits = cycle.credits
           /\ PassedBy(i) # {} => /\ RolledBy[i].start \in PassedBy(i) /\ RolledBy[i].credits = 0
                                  /\ \A t \in PassedBy(i) : t <= RolledBy[i].start
<1> DEFINE Shown(i) ==
             /\ PassedBy(i) = {} => RolledBy[i].start = cycle.start /\ RolledBy[i].credits = cycle.credits
             /\ PassedBy(i) # {} => /\ RolledBy[i].start \in PassedBy(i) /\ RolledBy[i].credits = 0
                                    /\ \A t \in PassedBy(i) : t <= RolledBy[i].start
           Ahead(i) == RolledBy[i].next = 0 \/ \A t \in PassedBy(i) : t <= RolledBy[i].next
           good == {n \in Nat : n <= MaxCatchUps => Shown(n) /\ Ahead(n)}
<1>0. MaxCatchUps \in Nat /\ now \in Nat
  BY BillingAssumption DEF BillingType
<1>1. 0 \in good
  <2>1. PassedBy(0) = {}
    BY DEF PassedBy
  <2>2. RolledBy[0] = cycle
    BY RolledByFields
  <2> QED BY <2>1, <2>2
<1>2. ASSUME NEW n \in Nat, n \in good PROVE n + 1 \in good
  <2>1. SUFFICES ASSUME n + 1 <= MaxCatchUps PROVE Shown(n + 1) /\ Ahead(n + 1)
    OBVIOUS
  <2>2. n + 1 \in 1..MaxCatchUps /\ n \in 0..MaxCatchUps /\ (n + 1) - 1 = n /\ Shown(n) /\ Ahead(n)
    BY <1>0, <1>2, <2>1
  <2> DEFINE c == RolledBy[n]
             d == RolledBy[n + 1]
  <2>3. c \in Cycles /\ d = IF Behind(c) THEN RollStep(c) ELSE c
    BY <2>2, RolledByFields
  <2>4. PassedBy(n + 1) = (PassedBy(n) \cup {c.next}) \cap 1..now
    <3>1. 0..((n + 1) - 1) = 0..(n - 1) \cup {n}
      OBVIOUS
    <3> QED BY <3>1 DEF PassedBy
  <2>5. PassedBy(n) \subseteq 1..now
    BY DEF PassedBy
  <2>6. c.next \in Nat
    BY <2>3 DEF Cycles
  <2>7. CASE Behind(c)
    <3>1. c.next \in 1..now
      BY <1>0, <2>6, <2>7 DEF Behind
    <3>2. PassedBy(n + 1) = PassedBy(n) \cup {c.next}
      BY <2>4, <2>5, <3>1
    <3>3. d.start = c.next /\ d.credits = 0 /\ d.next = Advance(c.next)
      BY <2>3, <2>7, RollStepFields
    <3>4. \A t \in PassedBy(n + 1) : t <= c.next /\ t \in Nat
      BY <1>0, <2>2, <2>5, <2>6, <3>1, <3>2
    <3>5. Advance(c.next) = 0 \/ (Advance(c.next) \in Nat /\ c.next <= Advance(c.next))
      BY <2>6, BillingAssumption DEF Advance
    <3> HIDE DEF c, d
    <3>6. d.next = 0 \/ \A t \in PassedBy(n + 1) : t <= d.next
      BY <2>6, <3>3, <3>4, <3>5
    <3> QED BY <3>2, <3>3, <3>4, <3>6 DEF d
  <2>8. CASE ~Behind(c)
    <3>1. c.next \notin 1..now
      BY <1>0, <2>6, <2>8 DEF Behind
    <3>2. PassedBy(n + 1) = PassedBy(n) /\ d = c
      BY <2>3, <2>4, <2>5, <2>8, <3>1
    <3> QED BY <2>2, <3>2
  <2> QED BY <2>7, <2>8
<1>3. Nat \subseteq good
  <2> HIDE DEF good
  <2> QED BY <1>1, <1>2, NatFrom0
<1> QED BY <1>0, <1>3

\* What the recorder shows is what its next write makes of the cycle.
LEMMA ProjectIsRoll ==
  ASSUME BillingType
  PROVE  Project = [next |-> Roll.next, start |-> Roll.start, credits |-> Roll.credits]
<1> DEFINE M == MaxCatchUps
           final == RolledBy[M]
           passed == {Instants[i] : i \in 0..(M - 1)} \cap 1..now
<1>0. M \in Nat /\ M \in 0..M /\ now \in Nat /\ final \in Cycles
  BY BillingAssumption, RolledByFields DEF BillingType
<1>1. Roll = IF Behind(final) THEN [final EXCEPT !.next = 0] ELSE final
  BY DEF Roll, RolledBy
<1>2. Project = [next    |-> IF Instants[M] > now THEN Instants[M] ELSE 0,
                 start   |-> IF passed = {} THEN cycle.start
                             ELSE CHOOSE t \in passed : \A u \in passed : u <= t,
                 credits |-> IF passed = {} THEN cycle.credits ELSE 0]
  BY DEF Project, Instants
<1>3. passed = PassedBy(M)
  <2>1. \A i \in 0..(M - 1) : Instants[i] = RolledBy[i].next
    BY <1>0, InstantsFields
  <2> QED BY <2>1 DEF PassedBy
<1>4. Instants[M] = final.next /\ final.next \in Nat
  BY <1>0, InstantsFields DEF Cycles
<1>5. /\ passed = {} => final.start = cycle.start /\ final.credits = cycle.credits
      /\ passed # {} => /\ final.start \in passed /\ final.credits = 0
                        /\ \A t \in passed : t <= final.start
  BY <1>0, <1>3, RolledByPassed
<1>6. \A t \in passed : t \in Nat
  OBVIOUS
<1> HIDE DEF passed
<1>7. passed # {} => (CHOOSE t \in passed : \A u \in passed : u <= t) = final.start
  <2>1. SUFFICES ASSUME passed # {} PROVE (CHOOSE t \in passed : \A u \in passed : u <= t) = final.start
    OBVIOUS
  <2> DEFINE m == CHOOSE t \in passed : \A u \in passed : u <= t
  <2>2. m \in passed /\ \A u \in passed : u <= m
    BY <1>5, <2>1
  <2> HIDE DEF m
  <2>3. m <= final.start /\ final.start <= m /\ m \in Nat /\ final.start \in Nat
    BY <1>5, <1>6, <2>1, <2>2
  <2>4. m = final.start
    BY ONLY <2>3
  <2> QED BY <2>4 DEF m
<1> HIDE DEF final
<1>8. /\ Roll.next = IF Behind(final) THEN 0 ELSE final.next
      /\ Roll.start = final.start /\ Roll.credits = final.credits
  BY <1>0, <1>1 DEF Cycles
<1>9. (IF Instants[M] > now THEN Instants[M] ELSE 0) = IF Behind(final) THEN 0 ELSE final.next
  BY <1>0, <1>4 DEF Behind
<1> QED BY <1>2, <1>5, <1>7, <1>8, <1>9

\* A roll keeps the type.
LEMMA RollType == ASSUME BillingType PROVE Roll \in Cycles
<1> DEFINE final == RolledBy[MaxCatchUps]
<1>1. final \in Cycles
  BY BillingAssumption, RolledByFields
<1>2. Roll = IF Behind(final) THEN [final EXCEPT !.next = 0] ELSE final
  BY DEF Roll, RolledBy
<1> HIDE DEF final
<1>3. [final EXCEPT !.next = 0] \in Cycles
  BY <1>1 DEF Cycles
<1> QED BY <1>1, <1>2, <1>3

\* What is reported is an instant of the clock's scale.
LEMMA ReportsType ==
  ASSUME BillingType, NEW p \in Phases, NEW reported \in Reports(p)
  PROVE  reported \in Int
<1>1. Boundary(p) \in Int /\ Month \in Int
  <2>1. now - p \in Int /\ p \in Int /\ Month \in Nat \ {0}
    BY BillingAssumption DEF BillingType
  <2> QED BY <2>1 DEF Boundary
<1>2. \A d \in Drift : d \in Int
  BY BillingAssumption
<1> HIDE DEF Boundary
<1> QED BY <1>1, <1>2 DEF Reports

\* What takes over has these fields.
LEMMA AdoptFields ==
  ASSUME BillingType, NEW c \in Cycles, NEW p \in Phases, NEW reported \in Nat
  PROVE  /\ Adopt(c, reported, p) \in Cycles
         /\ Adopt(c, reported, p).next = reported /\ Adopt(c, reported, p).start = reported - Month
         /\ Adopt(c, reported, p).used = c.used /\ Adopt(c, reported, p).lost = c.lost
         /\ Adopt(c, reported, p).credits =
              IF c.next # 0 /\ reported - c.next >= Tolerance THEN 0 ELSE c.credits
         /\ Adopt(c, reported, p).booted =
              (c.next = 0 \/ ~Plausible(c.next)
               \/ (c.booted /\ ~(c.next # 0 /\ reported - c.next >= Tolerance)))
         /\ Adopt(c, reported, p).blind = (reported <= now)
         /\ Adopt(c, reported, p).sub = {p}
         /\ Adopt(c, reported, p).skewed = (c.skewed \/ ~(c.sub \subseteq {p}))
<1> DEFINE refreshed == c.next # 0 /\ reported - c.next >= Tolerance
           b == c.next = 0 \/ ~Plausible(c.next) \/ (c.booted /\ ~refreshed)
           past == reported <= now
           total == IF refreshed THEN 0 ELSE c.credits
           other == c.skewed \/ ~(c.sub \subseteq {p})
<1>1. reported - Month \in Int
  BY BillingAssumption
<1>2. b \in BOOLEAN /\ past \in BOOLEAN /\ other \in BOOLEAN
  OBVIOUS
<1>3. total \in Nat
  BY DEF Cycles
<1>4. Adopt(c, reported, p) = [c EXCEPT !.next = reported, !.start = reported - Month,
                                 !.credits = total, !.booted = b, !.blind = past,
                                 !.sub = {p}, !.skewed = other]
  BY DEF Adopt, Track, Cycles
<1>5. {p} \in {{q} : q \in Phases}
  OBVIOUS
<1> DEFINE a == Adopt(c, reported, p)
<1> HIDE DEF b, past, total, other, a
<1>6. /\ a \in Cycles
      /\ a.next = reported /\ a.start = reported - Month /\ a.used = c.used /\ a.lost = c.lost
      /\ a.credits = total /\ a.booted = b /\ a.blind = past /\ a.sub = {p} /\ a.skewed = other
  BY <1>1, <1>2, <1>3, <1>4, <1>5 DEF Cycles, a
<1> QED BY <1>6 DEF b, past, total, other, a

\* The types hold at the start.
LEMMA BillingTyped == BillingInit => BillingType
<1> SUFFICES ASSUME BillingInit PROVE BillingType
  OBVIOUS
<1>1. PICK next \in {0, Sentinel} : cycle = [NoCycle EXCEPT !.next = next]
  BY DEF BillingInit
<1>2. next \in Nat
  BY BillingAssumption
<1>3. NoCycle \in Cycles
  BY DEF NoCycle, Cycles
<1>4. [NoCycle EXCEPT !.next = next] \in Cycles
  BY <1>2, <1>3 DEF Cycles
<1> QED BY <1>1, <1>4 DEF BillingInit, BillingType

\* A step keeps the types.
LEMMA BillingTypeKept == BillingType /\ [BillingNext]_billingVars => BillingType'
<1> SUFFICES ASSUME BillingType, [BillingNext]_billingVars PROVE BillingType'
  OBVIOUS
<1>1. CASE Tick
  BY <1>1 DEF Tick, BillingType
<1>2. CASE Save
  BY <1>2 DEF Save, BillingType
<1>3. CASE Crash
  BY <1>3 DEF Crash, BillingType
<1>4. ASSUME NEW billable \in BOOLEAN, RecordUsage(billable) PROVE BillingType'
  <2>1. Roll \in Cycles
    BY RollType
  <2> DEFINE r == Roll
  <2>2. [r EXCEPT !.credits = @ + 1, !.used[now] = @ + 1] \in Cycles
    <3> HIDE DEF r
    <3>1. r \in Cycles
      BY <2>1 DEF r
    <3>2. r.credits + 1 \in Nat
      BY <3>1 DEF Cycles
    <3>3. [r.used EXCEPT ![now] = @ + 1] \in [1..MaxTime -> Nat]
      <4> DEFINE u == r.used
      <4>1. u \in [1..MaxTime -> Nat]
        BY <3>1 DEF Cycles
      <4> HIDE DEF u
      <4>2. \A t \in 1..MaxTime : u[t] \in Nat /\ u[t] + 1 \in Nat
        BY <4>1
      <4>3. [u EXCEPT ![now] = @ + 1] \in [1..MaxTime -> Nat]
        BY <4>1, <4>2
      <4> QED BY <4>3 DEF u
    <3> QED BY <3>1, <3>2, <3>3 DEF Cycles
  <2> QED BY <1>4, <2>2 DEF RecordUsage, BillingType
<1>5. ASSUME NEW p \in Phases, NEW reported \in Reports(p), SetBillingCycle(reported, p)
      PROVE  BillingType'
  <2>1. Roll \in Cycles
    BY RollType
  <2>2. reported \in Nat
    BY <1>5, ReportsType DEF SetBillingCycle
  <2>3. Adopt(Roll, reported, p) \in Cycles
    BY <2>1, <2>2, AdoptFields
  <2>4. cycle' \in {Roll, Adopt(Roll, reported, p)}
    BY <1>5 DEF SetBillingCycle
  <2> QED BY <1>5, <2>1, <2>3, <2>4 DEF SetBillingCycle, BillingType
<1>6. CASE UNCHANGED billingVars
  BY <1>6 DEF billingVars, BillingType
<1> QED BY <1>1, <1>2, <1>3, <1>4, <1>5, <1>6 DEF BillingNext

\* The panel is shown what the next write will make of the cycle, however many
\* boundaries have passed and wherever a month does not advance (projectCycleLocked and
\* rollCycleLocked).
THEOREM ProjectionIsNextWriteHolds == BillingSpec => []ProjectionIsNextWrite
<1>1. BillingType => ProjectionIsNextWrite
  BY ProjectIsRoll DEF ProjectionIsNextWrite
<1> QED BY <1>1, BillingTyped, BillingTypeKept, PTL DEF BillingSpec

-------------------------------------------------------------------------------
(* The total of a billing cycle.                                           *)

Usages == [1..MaxTime -> Nat]

\* What was charged from an instant on, and up to each instant.
Charged(used, t) == LET c[u \in 0..MaxTime] ==
                          IF u = 0 THEN 0 ELSE c[u - 1] + (IF u >= t THEN used[u] ELSE 0)
                    IN c[MaxTime]
ChargedBy(used, t) == CHOOSE c : c = [u \in 0..MaxTime |->
                        IF u = 0 THEN 0 ELSE c[u - 1] + (IF u >= t THEN used[u] ELSE 0)]

\* Sums of the charges from t on up to n.
SumsTo(c, used, t, n) ==
  c[0] = 0 /\ \A u \in 1..n : c[u] = c[u - 1] + (IF u >= t THEN used[u] ELSE 0)

\* The sums exist.
LEMMA SumsToExist ==
  ASSUME NEW used \in Usages, NEW t \in Int
  PROVE  \E c \in [0..MaxTime -> Nat] : SumsTo(c, used, t, MaxTime)
<1> DEFINE good == {n \in Nat : n <= MaxTime => \E c \in [0..n -> Nat] : SumsTo(c, used, t, n)}
<1>0. MaxTime \in Nat
  BY BillingAssumption
<1>1. 0 \in good
  <2>1. [u \in 0..0 |-> 0] \in [0..0 -> Nat] /\ SumsTo([u \in 0..0 |-> 0], used, t, 0)
    BY DEF SumsTo
  <2> QED BY <2>1
<1>2. ASSUME NEW n \in Nat, n \in good PROVE n + 1 \in good
  <2>1. SUFFICES ASSUME n + 1 <= MaxTime
                 PROVE  \E c \in [0..(n + 1) -> Nat] : SumsTo(c, used, t, n + 1)
    OBVIOUS
  <2>2. PICK c \in [0..n -> Nat] : SumsTo(c, used, t, n)
    BY <1>0, <1>2, <2>1
  <2> DEFINE last == c[n] + (IF n + 1 >= t THEN used[n + 1] ELSE 0)
             d == [u \in 0..(n + 1) |-> IF u = n + 1 THEN last ELSE c[u]]
  <2>3. last \in Nat
    BY <1>0, <2>1 DEF Usages
  <2> HIDE DEF last
  <2>4. d \in [0..(n + 1) -> Nat]
    <3>1. \A u \in 0..(n + 1) : u # n + 1 => u \in 0..n
      OBVIOUS
    <3> QED BY <2>3, <3>1
  <2>5. ASSUME NEW u \in 1..(n + 1)
        PROVE  d[u] = d[u - 1] + (IF u >= t THEN used[u] ELSE 0)
    <3>1. d[u - 1] = c[u - 1]
      OBVIOUS
    <3>2. CASE u = n + 1
      BY <3>1, <3>2 DEF last
    <3>3. CASE u # n + 1
      BY <2>2, <3>1, <3>3 DEF SumsTo
    <3> QED BY <3>2, <3>3
  <2>6. d[0] = 0
    BY <2>2 DEF SumsTo
  <2>7. SumsTo(d, used, t, n + 1)
    BY <2>5, <2>6 DEF SumsTo
  <2> HIDE DEF d
  <2> QED BY <2>4, <2>7
<1>3. Nat \subseteq good
  <2> HIDE DEF good
  <2> QED BY <1>1, <1>2, NatFrom0
<1> QED BY <1>0, <1>3

\* They are what Charged computes.
LEMMA ChargedIs ==
  ASSUME NEW used \in Usages, NEW t \in Int
  PROVE  /\ SumsTo(ChargedBy(used, t), used, t, MaxTime)
         /\ Charged(used, t) = ChargedBy(used, t)[MaxTime]
<1> DEFINE C(c) == c = [u \in 0..MaxTime |->
                        IF u = 0 THEN 0 ELSE c[u - 1] + (IF u >= t THEN used[u] ELSE 0)]
<1>0. MaxTime \in Nat
  BY BillingAssumption
<1>1. PICK c \in [0..MaxTime -> Nat] : SumsTo(c, used, t, MaxTime)
  BY SumsToExist
<1>2. C(c)
  <2>1. \A u \in 0..MaxTime : u # 0 => u \in 1..MaxTime
    BY <1>0
  <2> QED BY <1>1, <2>1 DEF SumsTo
<1>3. C(ChargedBy(used, t))
  BY <1>2 DEF ChargedBy
<1>4. ASSUME NEW d, C(d) PROVE SumsTo(d, used, t, MaxTime)
  <2>1. \A u \in 0..MaxTime : d[u] = IF u = 0 THEN 0 ELSE d[u - 1] + (IF u >= t THEN used[u] ELSE 0)
    BY <1>4
  <2> QED BY <1>0, <2>1 DEF SumsTo
<1>5. Charged(used, t) = ChargedBy(used, t)[MaxTime]
  BY DEF Charged, ChargedBy
<1> HIDE DEF C
<1> QED BY <1>3, <1>4, <1>5

\* Later, less was charged; and nothing where nothing was.
LEMMA ChargedLess ==
  ASSUME NEW used \in Usages, NEW s \in Int, NEW t \in Int
  PROVE  /\ Charged(used, t) \in Nat
         /\ t <= s => Charged(used, s) <= Charged(used, t)
         /\ (\A u \in 1..MaxTime : u >= t => used[u] = 0) => Charged(used, t) = 0
<1> DEFINE S == ChargedBy(used, s)
           T == ChargedBy(used, t)
           none == \A u \in 1..MaxTime : u >= t => used[u] = 0
           good == {n \in Nat : n <= MaxTime => /\ S[n] \in Nat /\ T[n] \in Nat
                                                /\ t <= s => S[n] <= T[n]
                                                /\ none => T[n] = 0}
<1>0. MaxTime \in Nat /\ SumsTo(S, used, s, MaxTime) /\ SumsTo(T, used, t, MaxTime)
  BY BillingAssumption, ChargedIs
<1> HIDE DEF S, T
<1>1. 0 \in good
  BY <1>0 DEF SumsTo
<1>2. ASSUME NEW n \in Nat, n \in good PROVE n + 1 \in good
  <2>1. SUFFICES ASSUME n + 1 <= MaxTime
                 PROVE  /\ S[n + 1] \in Nat /\ T[n + 1] \in Nat
                        /\ t <= s => S[n + 1] <= T[n + 1]
                        /\ none => T[n + 1] = 0
    OBVIOUS
  <2>2. n + 1 \in 1..MaxTime /\ (n + 1) - 1 = n
    BY <1>0, <2>1
  <2>3. /\ S[n + 1] = S[n] + (IF n + 1 >= s THEN used[n + 1] ELSE 0)
        /\ T[n + 1] = T[n] + (IF n + 1 >= t THEN used[n + 1] ELSE 0)
    BY <1>0, <2>2 DEF SumsTo
  <2>4. used[n + 1] \in Nat
    BY <2>2 DEF Usages
  <2>5. S[n] \in Nat /\ T[n] \in Nat /\ (t <= s => S[n] <= T[n]) /\ (none => T[n] = 0)
    BY <1>0, <1>2, <2>1
  <2>6. none => (n + 1 >= t => used[n + 1] = 0)
    BY <2>2
  <2> HIDE DEF none
  <2> QED BY <2>3, <2>4, <2>5, <2>6
<1>3. Nat \subseteq good
  <2> HIDE DEF good
  <2> QED BY <1>1, <1>2, NatFrom0
<1>4. Charged(used, s) = S[MaxTime] /\ Charged(used, t) = T[MaxTime]
  BY ChargedIs DEF S, T
<1> QED BY <1>0, <1>3, <1>4

\* One charge more counts from every instant up to it.
LEMMA ChargedMore ==
  ASSUME NEW used \in Usages, NEW n \in 1..MaxTime, NEW t \in Int
  PROVE  Charged([used EXCEPT ![n] = @ + 1], t) = Charged(used, t) + (IF n >= t THEN 1 ELSE 0)
<1> DEFINE more == [used EXCEPT ![n] = @ + 1]
           S == ChargedBy(more, t)
           T == ChargedBy(used, t)
           one == IF n >= t THEN 1 ELSE 0
           good == {i \in Nat : i <= MaxTime => T[i] \in Nat /\ S[i] = T[i] + (IF i >= n THEN one ELSE 0)}
<1>0. MaxTime \in Nat /\ more \in Usages /\ one \in Nat
  <2>1. \A u \in 1..MaxTime : used[u] \in Nat /\ used[u] + 1 \in Nat
    BY DEF Usages
  <2>2. more \in Usages
    BY <2>1 DEF Usages
  <2> QED BY <2>2, BillingAssumption
<1>1. /\ SumsTo(S, more, t, MaxTime) /\ SumsTo(T, used, t, MaxTime)
      /\ Charged(more, t) = S[MaxTime] /\ Charged(used, t) = T[MaxTime]
  <2> HIDE DEF more
  <2> QED BY <1>0, ChargedIs
<1>2. \A u \in 1..MaxTime : more[u] = (IF u = n THEN used[u] + 1 ELSE used[u]) /\ used[u] \in Nat
  BY DEF Usages
<1> HIDE DEF S, T, more
<1>3. 0 \in good
  BY <1>0, <1>1 DEF SumsTo
<1>4. ASSUME NEW i \in Nat, i \in good PROVE i + 1 \in good
  <2>1. SUFFICES ASSUME i + 1 <= MaxTime
                 PROVE  T[i + 1] \in Nat /\ S[i + 1] = T[i + 1] + (IF i + 1 >= n THEN one ELSE 0)
    OBVIOUS
  <2>2. i + 1 \in 1..MaxTime /\ (i + 1) - 1 = i
    BY <1>0, <2>1
  <2>3. /\ S[i + 1] = S[i] + (IF i + 1 >= t THEN more[i + 1] ELSE 0)
        /\ T[i + 1] = T[i] + (IF i + 1 >= t THEN used[i + 1] ELSE 0)
    BY <1>1, <2>2 DEF SumsTo
  <2>4. T[i] \in Nat /\ S[i] = T[i] + (IF i >= n THEN one ELSE 0)
    BY <1>0, <1>4, <2>1
  <2>5. more[i + 1] = (IF i + 1 = n THEN used[i + 1] + 1 ELSE used[i + 1]) /\ used[i + 1] \in Nat
    BY <1>2, <2>2
  <2> QED BY <2>3, <2>4, <2>5
<1>5. Nat \subseteq good
  <2> HIDE DEF good
  <2> QED BY <1>3, <1>4, NatFrom0
<1>6. S[MaxTime] = T[MaxTime] + one
  BY <1>0, <1>5
<1> QED BY <1>1, <1>6 DEF more

\* The boundaries of a subscription's periods, and the one at or before an instant.
Months(p) == {p + k * Month : k \in Int}
Period(n, p) == p + Month * ((n - p) \div Month)

\* Boundaries are a month apart.
LEMMA MonthsApart ==
  ASSUME NEW p \in Phases
  PROVE  /\ Month \in Nat \ {0} /\ p \in Int
         /\ \A m \in Months(p) : m \in Int /\ m + Month \in Months(p) /\ (m - p) % Month = 0
         /\ \A l, m \in Months(p) : l < m => l + Month <= m
<1>0. Month \in Nat \ {0} /\ p \in Int
  BY BillingAssumption
<1>1. ASSUME NEW k \in Int
      PROVE p + k * Month \in Int /\ (p + k * Month) + Month = p + (k + 1) * Month
  BY <1>0
<1>2. ASSUME NEW k \in Int PROVE ((p + k * Month) - p) % Month = 0
  <2>1. (k * Month) % Month = 0
    BY <1>0, Z3T(30)
  <2>2. (p + k * Month) - p = k * Month
    BY <1>0
  <2> QED BY <2>1, <2>2
<1>3. ASSUME NEW j \in Int, NEW k \in Int, p + j * Month < p + k * Month
      PROVE  (p + j * Month) + Month <= p + k * Month
  <2>1. j < k
    BY <1>0, <1>3
  <2>2. k * Month = (j + 1) * Month + (k - j - 1) * Month
    BY <1>0
  <2>3. (k - j - 1) * Month >= 0
    BY <1>0, <2>1
  <2> QED BY <1>0, <1>1, <2>2, <2>3
<1>4. \A m \in Months(p) : \E k \in Int : m = p + k * Month
  BY DEF Months
<1>5. \A k \in Int : p + k * Month \in Months(p)
  BY DEF Months
<1>6. ASSUME NEW m \in Months(p)
      PROVE  m \in Int /\ m + Month \in Months(p) /\ (m - p) % Month = 0
  <2>1. PICK k \in Int : m = p + k * Month
    BY <1>4
  <2>2. k + 1 \in Int /\ p + (k + 1) * Month \in Months(p)
    BY <1>5
  <2>3. m + Month \in Months(p)
    BY <1>1, <2>1, <2>2
  <2> QED BY <1>1, <1>2, <2>1, <2>3
<1>7. ASSUME NEW l \in Months(p), NEW m \in Months(p), l < m PROVE l + Month <= m
  <2>1. PICK j \in Int : l = p + j * Month
    BY <1>4
  <2>2. PICK k \in Int : m = p + k * Month
    BY <1>4
  <2> QED BY <1>3, <1>7, <2>1, <2>2
<1> QED BY <1>0, <1>6, <1>7

\* An instant lies in its period.
LEMMA PeriodOf ==
  ASSUME NEW n \in Nat, NEW p \in Phases
  PROVE  /\ Period(n, p) \in Months(p) /\ Period(n, p) \in Int
         /\ Period(n, p) <= n /\ n < Period(n, p) + Month
<1>0. Month \in Nat \ {0} /\ p \in Int /\ n - p \in Int
  BY BillingAssumption
<1> DEFINE q == (n - p) \div Month
<1>1. q \in Int /\ Month * q <= n - p /\ n - p < Month * q + Month
  BY <1>0, Z3T(30)
<1> HIDE DEF q
<1>2. Month * q = q * Month
  BY <1>0, <1>1
<1>3. p + q * Month \in Months(p)
  BY <1>1 DEF Months
<1>4. Period(n, p) = p + Month * q
  BY DEF Period, q
<1>5. p + Month * q = p + q * Month
  BY <1>2
<1>6. Period(n, p) \in Months(p)
  BY <1>3, <1>4, <1>5
<1> QED BY <1>0, <1>1, <1>4, <1>6, MonthsApart

\* Reports lie less than the tolerance, and less than a month, before a boundary.
LEMMA SpanOf ==
  /\ Span \in Drift /\ Span \in Nat /\ Span < Tolerance /\ Span < Month
  /\ \A d \in Drift : d \in Nat /\ d <= Span
<1>1. Span \in Drift /\ \A d \in Drift : d <= Span
  BY DriftAssumption DEF Span
<1>2. Drift \subseteq Nat /\ Tolerance \in Nat /\ Month \in Nat
  BY BillingAssumption
<1> HIDE DEF Span
<1> QED BY <1>1, <1>2, DriftAssumption

Near(t, p) == \E m \in Months(p), d \in Drift : t = m - d

\* The credits are all that was charged.
HoldsAll(c) == \A t \in Int : c.credits >= Charged(c.used, t)

\* What holds of a cycle that tracks subscription p at an instant: nothing was charged later;
\* its start is past; its end is near a boundary of p's and a month after its start, or
\* missing, or the instant of a plan without an end; nothing was charged after the end
\* unless the end was past when it was adopted; and, unless another subscription was tracked
\* since its last boundary, the credits are what was charged from its start, give or take a
\* drift, or from the period's start if it has no end.
SoundFor(c, n, p) ==
  /\ \A t \in 1..MaxTime : t > n => c.used[t] = 0
  /\ c.start <= n
  /\ c.next \in {0, Sentinel} \/ (Near(c.next, p) /\ c.start = c.next - Month)
  /\ c.blind => 0 < c.next /\ c.next <= n
  /\ c.next > 0 /\ ~c.blind => \A t \in 1..MaxTime : t >= c.next => c.used[t] = 0
  /\ ~c.skewed =>
       /\ c.next = 0 /\ ~c.lost => c.credits >= Charged(c.used, Period(n, p))
       /\ c.next > 0 /\ ~c.lost /\ ~c.blind => c.credits >= Charged(c.used, c.start + Span)
       /\ ~c.booted => \E m \in Months(p), d \in Drift :
                         c.start = m - d /\ c.credits <= Charged(c.used, m - Span)

\* A cycle is sound for the subscription it tracks. Before the first report it has all the
\* credits and no end, or that of a plan without one.
SoundAt(c, n) ==
  /\ c.sub = {} => c.next \in {0, Sentinel} /\ HoldsAll(c) /\ c.booted
  /\ c.next = Sentinel => c.sub = {}
  /\ \A p \in Phases : c.sub \subseteq {p} => SoundFor(c, n, p)

\* A sound cycle stays so as time passes.
LEMMA SoundLater ==
  ASSUME NEW c \in Cycles, NEW n \in Nat, SoundAt(c, n)
  PROVE  SoundAt(c, n + 1)
<1>1. SUFFICES ASSUME NEW p \in Phases, SoundFor(c, n, p) PROVE SoundFor(c, n + 1, p)
  BY DEF SoundAt
<1>2. Period(n, p) <= Period(n + 1, p)
  <2>1. /\ Period(n, p) \in Months(p) /\ Period(n, p) <= n /\ Period(n, p) \in Int
        /\ Period(n + 1, p) \in Months(p) /\ n + 1 < Period(n + 1, p) + Month
        /\ Period(n + 1, p) \in Int
    BY PeriodOf
  <2>2. Period(n + 1, p) < Period(n, p) => Period(n + 1, p) + Month <= Period(n, p)
    BY <2>1, MonthsApart
  <2> QED BY <2>1, <2>2, MonthsApart
<1>3. c.used \in Usages /\ c.start \in Int /\ c.credits \in Nat /\ c.next \in Nat
  BY DEF Cycles, Usages
<1>4. Period(n, p) \in Int /\ Period(n + 1, p) \in Int
  BY PeriodOf
<1>5. Charged(c.used, Period(n + 1, p)) <= Charged(c.used, Period(n, p))
      /\ Charged(c.used, Period(n + 1, p)) \in Nat /\ Charged(c.used, Period(n, p)) \in Nat
  BY <1>2, <1>3, <1>4, ChargedLess
<1>6. c.next = 0 /\ ~c.lost /\ ~c.skewed => c.credits >= Charged(c.used, Period(n + 1, p))
  BY <1>1, <1>3, <1>5 DEF SoundFor
<1> QED BY <1>1, <1>3, <1>6 DEF SoundFor

\* Advancing a cycle keeps its uses and its subscription and begins it near a boundary that
\* has passed, at or after its end, with nothing in it; it then ends a month later, or
\* nowhere.
Advanced(c, n, p) ==
  /\ c \in Cycles /\ c.used = cycle.used /\ c.sub = cycle.sub
  /\ c.credits = 0 /\ ~c.blind /\ ~c.booted /\ ~c.skewed /\ c.lost = cycle.blind
  /\ 0 < cycle.next /\ cycle.next <= c.start /\ c.start <= n /\ Near(c.start, p)
  /\ c.next = c.start + Month \/ (c.next = 0 /\ c.start \in Stuck)

\* The roll, step by step, of a cycle sound for the subscription it tracks.
LEMMA RollAdvances ==
  ASSUME BillingType, now \in 1..MaxTime, NEW p \in Phases, SoundFor(cycle, now, p), NEW i \in 0..MaxCatchUps
  PROVE  (RolledBy[i] = cycle /\ (i = 0 \/ ~Behind(cycle))) \/ Advanced(RolledBy[i], now, p)
<1> DEFINE Good(j) == (RolledBy[j] = cycle /\ (j = 0 \/ ~Behind(cycle))) \/ Advanced(RolledBy[j], now, p)
           good == {j \in Nat : j <= MaxCatchUps => Good(j)}
<1>0. /\ MaxCatchUps \in Nat /\ cycle \in Cycles
      /\ Month \in Nat \ {0} /\ MaxTime \in Nat /\ Sentinel \in Nat /\ Sentinel > MaxTime + 2 * Month
  BY BillingAssumption DEF BillingType
<1>1. 0 \in good
  BY RolledByFields
<1>2. ASSUME NEW j \in Nat, j \in good PROVE j + 1 \in good
  <2>1. SUFFICES ASSUME j + 1 <= MaxCatchUps PROVE Good(j + 1)
    OBVIOUS
  <2>2. Good(j) /\ j + 1 \in 1..MaxCatchUps /\ j \in 0..MaxCatchUps /\ (j + 1) - 1 = j
    BY <1>0, <1>2, <2>1
  <2> DEFINE c == RolledBy[j]
  <2>3. c \in Cycles /\ RolledBy[j + 1] = IF Behind(c) THEN RollStep(c) ELSE c
    BY <2>2, RolledByFields
  <2>4. CASE ~Behind(c)
    BY <2>2, <2>3, <2>4
  <2>5. CASE Behind(c)
    <3>1. /\ RollStep(c) \in Cycles /\ RollStep(c).start = c.next /\ RollStep(c).credits = 0
          /\ RollStep(c).next = Advance(c.next)
      BY <2>3, RollStepFields
    <3>2. /\ ~RollStep(c).blind /\ ~RollStep(c).booted /\ ~RollStep(c).skewed
          /\ RollStep(c).lost = cycle.blind /\ RollStep(c).used = c.used /\ RollStep(c).sub = c.sub
      BY <2>3 DEF RollStep, Cycles
    <3>3. c.next \in Nat /\ 0 < c.next /\ c.next <= now
      BY <2>3, <2>5 DEF Behind, BillingType, Cycles
    <3>4. c.used = cycle.used /\ c.sub = cycle.sub /\ 0 < cycle.next /\ cycle.next <= c.next /\ Near(c.next, p)
      <4>1. CASE c = cycle
        <5>1. c.next # Sentinel /\ c.next # 0
          BY <1>0, <3>3
        <5>2. Near(c.next, p)
          BY <4>1, <5>1 DEF SoundFor
        <5> QED BY <3>3, <4>1, <5>2
      <4>2. CASE Advanced(c, now, p)
        <5>1. c.next = c.start + Month /\ Near(c.start, p) /\ c.start \in Int /\ cycle.next \in Nat
          BY <1>0, <2>3, <3>3, <4>2 DEF Advanced, Cycles
        <5>2. PICK m \in Months(p), d \in Drift : c.start = m - d
          BY <5>1 DEF Near
        <5>3. m + Month \in Months(p) /\ m \in Int /\ d \in Nat
          BY MonthsApart, SpanOf
        <5>4. c.next = (m + Month) - d
          BY <1>0, <5>1, <5>2, <5>3
        <5>5. Near(c.next, p)
          BY <5>3, <5>4 DEF Near
        <5> QED BY <1>0, <4>2, <5>1, <5>5 DEF Advanced
      <4> QED BY <2>2, <4>1, <4>2
    <3>5. Advance(c.next) = c.next + Month \/ (Advance(c.next) = 0 /\ c.next \in Stuck)
      BY DEF Advance
    <3> HIDE DEF c
    <3>6. Advanced(RollStep(c), now, p)
      BY <3>1, <3>2, <3>3, <3>4, <3>5 DEF Advanced
    <3> QED BY <2>3, <2>5, <3>6
  <2> QED BY <2>4, <2>5
<1>3. Nat \subseteq good
  <2> HIDE DEF good
  <2> QED BY <1>1, <1>2, NatFrom0
<1> QED BY <1>0, <1>3

\* A rolled cycle ends in the future, or nowhere.
Rolled(c, n) == (c.next = 0 \/ c.next > n) /\ ~c.blind

\* An advanced cycle is sound if its end is in the future, or if it has none although a
\* month did not advance or another boundary has passed.
LEMMA AdvancedSound ==
  ASSUME BillingType, now \in 1..MaxTime, NEW p \in Phases, SoundFor(cycle, now, p),
         NEW c \in Cycles, c.used = cycle.used, c.credits = 0, ~c.blind, ~c.booted,
         c.lost = cycle.blind, 0 < cycle.next, cycle.next <= c.start, c.start <= now,
         Near(c.start, p),
         \/ c.next = c.start + Month /\ c.next > now
         \/ c.next = 0 /\ (c.start \in Stuck \/ c.start + Month <= now)
  PROVE  SoundFor(c, now, p)
<1>0. /\ now \in Nat /\ MaxTime \in Nat /\ Month \in Nat \ {0} /\ Sentinel \in Nat
      /\ Sentinel > MaxTime + 2 * Month /\ now <= MaxTime
  BY BillingAssumption
<1>1. c.used \in Usages /\ c.start \in Int /\ c.next \in Nat
  BY DEF Cycles, Usages
<1>2. PICK m \in Months(p), d \in Drift : c.start = m - d
  BY DEF Near
<1>3. m \in Int /\ m + Month \in Months(p) /\ d \in Nat /\ d <= Span /\ Span \in Nat /\ Span < Month
  BY MonthsApart, SpanOf
<1>4. Period(now, p) \in Int /\ Period(now, p) \in Months(p) /\ now < Period(now, p) + Month
  BY <1>0, PeriodOf
<1>5. \A t \in 1..MaxTime : t > now => c.used[t] = 0
  BY DEF SoundFor
<1>6. ~cycle.blind => \A t \in 1..MaxTime : t >= c.start => c.used[t] = 0
  BY <1>1 DEF SoundFor, BillingType, Cycles
<1>7. c.next # Sentinel
  BY <1>0, <1>1
<1>8. c.next > 0 => Near(c.next, p)
  <2>1. SUFFICES ASSUME c.next > 0 PROVE Near(c.next, p)
    OBVIOUS
  <2>2. c.next = (m + Month) - d
    BY <1>0, <1>1, <1>2, <1>3, <2>1
  <2> QED BY <1>3, <2>2 DEF Near
<1>9. c.next = 0 /\ ~c.lost => c.credits >= Charged(c.used, Period(now, p))
  <2>1. SUFFICES ASSUME c.next = 0, ~cycle.blind PROVE Charged(c.used, Period(now, p)) = 0
    BY <1>1
  <2>2. c.start <= Period(now, p)
    <3>1. CASE c.start \in Stuck
      <4>1. d = 0
        <5>1. c.start + d - p = m - p
          BY <1>2, <1>3, MonthsApart
        <5>2. (m - p) % Month = 0
          BY MonthsApart
        <5> QED BY <3>1, <5>1, <5>2, DriftAssumption
      <4>2. m < Period(now, p) + Month /\ Period(now, p) + Month \in Months(p)
        BY <1>0, <1>2, <1>3, <1>4, <4>1, MonthsApart
      <4>3. Period(now, p) < m => Period(now, p) + Month <= m
        BY <1>4, MonthsApart
      <4> QED BY <1>0, <1>2, <1>3, <1>4, <4>1, <4>2, <4>3
    <3>2. CASE c.start + Month <= now
      <4>1. m + Month < (Period(now, p) + Month) + Month
        BY <1>0, <1>2, <1>3, <1>4, <3>2
      <4>2. Period(now, p) < m => Period(now, p) + Month <= m
        BY <1>4, MonthsApart
      <4> QED BY <1>0, <1>2, <1>3, <1>4, <4>1, <4>2
    <3> QED BY <1>0, <1>1, <2>1, <3>1, <3>2
  <2>3. \A t \in 1..MaxTime : t >= Period(now, p) => c.used[t] = 0
    BY <1>0, <1>1, <1>4, <1>6, <2>1, <2>2
  <2> QED BY <1>1, <1>4, <2>3, ChargedLess
<1>10. ~c.lost => c.credits >= Charged(c.used, c.start + Span)
  <2>1. SUFFICES ASSUME ~cycle.blind PROVE Charged(c.used, c.start + Span) = 0
    BY <1>1
  <2>2. c.start + Span \in Int /\ \A t \in 1..MaxTime : t >= c.start + Span => c.used[t] = 0
    BY <1>0, <1>1, <1>3, <1>6, <2>1
  <2> QED BY <1>1, <2>2, ChargedLess
<1>11. c.credits <= Charged(c.used, m - Span)
  <2>1. Charged(c.used, m - Span) \in Nat
    BY <1>1, <1>3, ChargedLess
  <2> QED BY <2>1
<1>12. c.next > 0 => /\ c.start = c.next - Month
                     /\ \A t \in 1..MaxTime : t >= c.next => c.used[t] = 0
  BY <1>0, <1>1, <1>5
<1> QED BY <1>1, <1>2, <1>5, <1>7, <1>8, <1>9, <1>10, <1>11, <1>12 DEF SoundFor

\* A roll keeps a cycle sound for the subscription it tracks, and its end is then in the
\* future or missing.
LEMMA RollSoundFor ==
  ASSUME BillingType, now \in 1..MaxTime, NEW p \in Phases, SoundFor(cycle, now, p)
  PROVE  SoundFor(Roll, now, p) /\ Rolled(Roll, now) /\ Roll.sub = cycle.sub
         /\ (Roll = cycle \/ (0 < cycle.next /\ cycle.next <= now /\ Roll.next # Sentinel))
<1> DEFINE final == RolledBy[MaxCatchUps]
           ended == [final EXCEPT !.next = 0]
<1>0. /\ MaxCatchUps \in Nat \ {0} /\ MaxCatchUps \in 0..MaxCatchUps
      /\ now \in Nat /\ Month \in Nat \ {0} /\ now <= MaxTime /\ MaxTime \in Nat
      /\ Sentinel \in Nat /\ Sentinel > MaxTime + 2 * Month
  BY BillingAssumption
<1>1. final \in Cycles /\ cycle \in Cycles
  BY <1>0, RolledByFields DEF BillingType
<1>2. Roll = IF Behind(final) THEN ended ELSE final
  BY DEF Roll, RolledBy
<1>3. (final = cycle /\ ~Behind(cycle)) \/ Advanced(final, now, p)
  BY <1>0, RollAdvances
<1> HIDE DEF final
<1>5. CASE final = cycle /\ ~Behind(cycle)
  <2>1. Roll = cycle
    BY <1>2, <1>5
  <2>2. ~Behind(cycle) /\ cycle.next \in Nat
    BY <1>1, <1>5 DEF Cycles
  <2>3. Rolled(cycle, now)
    BY <1>0, <2>2 DEF Rolled, Behind, SoundFor
  <2> QED BY <2>1, <2>3
<1>6. CASE Advanced(final, now, p)
  <2>1. final.next \in Nat /\ final.start \in Int /\ final.start > 0 /\ cycle.next \in Nat
    BY <1>1, <1>6 DEF Advanced, Cycles
  <2>0. 0 < cycle.next /\ cycle.next <= now /\ final.next # Sentinel /\ Sentinel # 0
    BY <1>0, <1>6, <2>1 DEF Advanced
  <2>2. CASE Behind(final)
    <3>1. final.start + Month <= now
      BY <1>0, <1>6, <2>1, <2>2 DEF Advanced, Behind
    <3>2. /\ ended \in Cycles /\ ended.next = 0 /\ ended.start = final.start /\ ended.used = final.used
          /\ ended.credits = final.credits /\ ended.blind = final.blind /\ ended.booted = final.booted
          /\ ended.lost = final.lost /\ ended.skewed = final.skewed /\ ended.sub = final.sub
      BY <1>1 DEF Cycles
    <3> HIDE DEF ended
    <3>3. SoundFor(ended, now, p)
      BY <1>6, <3>1, <3>2, AdvancedSound DEF Advanced
    <3>4. Rolled(ended, now)
      BY <1>6, <3>2 DEF Advanced, Rolled
    <3> QED BY <1>2, <1>6, <2>0, <2>2, <3>2, <3>3, <3>4 DEF Advanced
  <2>3. CASE ~Behind(final)
    <3>0. ~(final.next > 0 /\ now >= final.next)
      BY <2>3 DEF Behind
    <3>1. \/ final.next = final.start + Month /\ final.next > now
          \/ final.next = 0 /\ final.start \in Stuck
      BY <1>0, <1>6, <2>1, <3>0 DEF Advanced
    <3>2. SoundFor(final, now, p)
      BY <1>1, <1>6, <3>1, AdvancedSound DEF Advanced
    <3>3. Rolled(final, now)
      BY <1>0, <1>6, <3>1 DEF Advanced, Rolled
    <3> QED BY <1>2, <1>6, <2>0, <2>3, <3>2, <3>3 DEF Advanced
  <2> QED BY <2>2, <2>3
<1> QED BY <1>3, <1>5, <1>6

\* A roll keeps a cycle sound.
LEMMA RollSound ==
  ASSUME BillingType, now \in 1..MaxTime, SoundAt(cycle, now)
  PROVE  SoundAt(Roll, now) /\ Rolled(Roll, now) /\ Roll \in Cycles
<1>0. /\ now \in Nat /\ MaxTime \in Nat /\ Month \in Nat /\ Sentinel \in Nat
      /\ Sentinel > MaxTime + 2 * Month /\ now <= MaxTime /\ Phases # {}
  BY BillingAssumption
<1>1. Roll \in Cycles
  BY RollType
<1>2. PICK p \in Phases : cycle.sub \subseteq {p}
  BY <1>0 DEF BillingType, Cycles
<1>3. ASSUME NEW q \in Phases, cycle.sub \subseteq {q}
      PROVE  /\ SoundFor(Roll, now, q) /\ Rolled(Roll, now) /\ Roll.sub = cycle.sub
             /\ Roll = cycle \/ (0 < cycle.next /\ cycle.next <= now /\ Roll.next # Sentinel)
  BY <1>3, RollSoundFor DEF SoundAt
<1>4. cycle.sub = {} => Roll = cycle
  BY <1>0, <1>2, <1>3 DEF SoundAt
<1>5. Roll.sub = cycle.sub /\ Rolled(Roll, now)
  BY <1>2, <1>3
<1>6. Roll.sub = {} => Roll.next \in {0, Sentinel} /\ HoldsAll(Roll) /\ Roll.booted
  BY <1>4, <1>5 DEF SoundAt
<1>7. Roll.next = Sentinel => Roll.sub = {}
  BY <1>2, <1>3 DEF SoundAt
<1>8. \A q \in Phases : Roll.sub \subseteq {q} => SoundFor(Roll, now, q)
  BY <1>3, <1>5
<1> QED BY <1>1, <1>5, <1>6, <1>7, <1>8 DEF SoundAt

\* A charge keeps a rolled cycle sound.
LEMMA ChargeSound ==
  ASSUME NEW n \in 1..MaxTime, NEW c \in Cycles, SoundAt(c, n), Rolled(c, n)
  PROVE  SoundAt([c EXCEPT !.credits = @ + 1, !.used[n] = @ + 1], n)
<1> DEFINE e == [c EXCEPT !.credits = @ + 1, !.used[n] = @ + 1]
           used == c.used
           more == [used EXCEPT ![n] = @ + 1]
<1>0. MaxTime \in Nat /\ n \in Nat
  BY BillingAssumption
<1>1. used \in Usages /\ c.start \in Int /\ c.credits \in Nat /\ c.next \in Nat
  BY DEF Cycles, Usages
<1>2. /\ e.used = more /\ e.credits = c.credits + 1 /\ e.start = c.start /\ e.next = c.next
      /\ e.blind = c.blind /\ e.lost = c.lost /\ e.booted = c.booted
      /\ e.sub = c.sub /\ e.skewed = c.skewed
  BY DEF Cycles
<1> HIDE DEF e, used
<1>3. \A t \in 1..MaxTime : t # n => more[t] = used[t]
  BY <1>1 DEF Usages
<1>4. \A t \in Int : /\ Charged(more, t) = Charged(used, t) + (IF n >= t THEN 1 ELSE 0)
                     /\ Charged(used, t) \in Nat
  BY <1>1, ChargedMore, ChargedLess
<1> HIDE DEF more
<1>5. HoldsAll(c) => HoldsAll(e)
  <2>1. SUFFICES ASSUME HoldsAll(c), NEW t \in Int PROVE e.credits >= Charged(more, t)
    BY <1>2 DEF HoldsAll
  <2>2. c.credits >= Charged(used, t)
    BY <2>1 DEF HoldsAll, used
  <2> QED BY <1>1, <1>2, <1>4, <2>2
<1>6. ASSUME NEW p \in Phases, SoundFor(c, n, p) PROVE SoundFor(e, n, p)
  <2>0. Period(n, p) \in Int /\ Period(n, p) <= n /\ Span \in Nat
    BY <1>0, PeriodOf, SpanOf
  <2>1. /\ \A t \in 1..MaxTime : t > n => more[t] = 0
        /\ e.next > 0 => \A t \in 1..MaxTime : t >= e.next => more[t] = 0
    BY <1>0, <1>1, <1>2, <1>3, <1>6 DEF SoundFor, Rolled, used
  <2>2. e.next = 0 /\ ~e.lost /\ ~e.skewed => e.credits >= Charged(more, Period(n, p))
    BY <1>1, <1>2, <1>4, <1>6, <2>0 DEF SoundFor, used
  <2>3. e.next > 0 /\ ~e.lost /\ ~e.blind /\ ~e.skewed => e.credits >= Charged(more, e.start + Span)
    <3>1. c.start + Span \in Int
      BY <1>1, <2>0
    <3> QED BY <1>1, <1>2, <1>4, <1>6, <3>1 DEF SoundFor, used
  <2>4. ~e.booted /\ ~e.skewed => \E m \in Months(p), d \in Drift :
                        e.start = m - d /\ e.credits <= Charged(more, m - Span)
    <3>1. SUFFICES ASSUME ~c.booted, ~c.skewed
                   PROVE  \E m \in Months(p), d \in Drift :
                            c.start = m - d /\ c.credits + 1 <= Charged(more, m - Span)
      BY <1>2
    <3>2. PICK m \in Months(p), d \in Drift : c.start = m - d /\ c.credits <= Charged(used, m - Span)
      BY <1>6, <3>1 DEF SoundFor, used
    <3>3. m \in Int /\ d \in Nat /\ d <= Span
      BY MonthsApart, SpanOf
    <3>4. m - Span \in Int /\ n >= m - Span
      BY <1>0, <1>6, <2>0, <3>2, <3>3 DEF SoundFor
    <3>5. c.credits + 1 <= Charged(more, m - Span)
      BY <1>1, <1>4, <3>2, <3>4
    <3> QED BY <3>2, <3>5
  <2>5. e.start <= n /\ ~e.blind
    BY <1>2, <1>6 DEF SoundFor, Rolled
  <2>6. e.next \in {0, Sentinel} \/ (Near(e.next, p) /\ e.start = e.next - Month)
    BY <1>2, <1>6 DEF SoundFor
  <2> QED BY <1>2, <2>1, <2>2, <2>3, <2>4, <2>5, <2>6 DEF SoundFor
<1>7. SoundAt(e, n)
  BY <1>2, <1>5, <1>6 DEF SoundAt
<1> QED BY <1>7 DEF e

\* Adopting a report that moves the boundary forward keeps a rolled cycle sound: what it
\* takes the place of is missing, without an end, or another report of the same boundary;
\* or it is another subscription's, and nothing is said of the credits.
LEMMA AdoptSound ==
  ASSUME BillingType, now \in 1..MaxTime, NEW c \in Cycles, SoundAt(c, now), Rolled(c, now),
         NEW p \in Phases, NEW reported \in Reports(p), reported > 0,
         ~(reported = c.next \/ (Plausible(c.next) /\ reported <= c.next))
  PROVE  SoundAt(Adopt(c, reported, p), now)
<1> DEFINE P == Period(now, p)
           B == P + Month
           a == Adopt(c, reported, p)
<1>0. /\ now \in Nat /\ MaxTime \in Nat /\ Month \in Nat \ {0} /\ Sentinel \in Nat
      /\ Sentinel > MaxTime + 2 * Month /\ now <= MaxTime /\ now > 0 /\ Tolerance \in Nat \ {0}
  BY BillingAssumption
<1>1. c.used \in Usages /\ c.start \in Int /\ c.credits \in Nat /\ c.next \in Nat
      /\ c.booted \in BOOLEAN /\ c.lost \in BOOLEAN /\ reported \in Int
  BY ReportsType DEF Cycles, Usages
<1>2. P \in Int /\ p \in Int /\ P \in Months(p) /\ P <= now /\ now < B /\ B \in Months(p)
  BY <1>0, PeriodOf, MonthsApart
<1>3. /\ Span \in Nat /\ Span < Tolerance /\ Span < Month
      /\ \A d \in Drift : d \in Nat /\ d <= Span
  BY SpanOf
<1>4. Boundary(p) = B
  <2> DEFINE k == (now - p) \div Month
  <2>1. k \in Int
    BY <1>0, <1>2, Z3T(30)
  <2> HIDE DEF k
  <2>2. p + Month * (k + 1) = (p + Month * k) + Month
    BY <1>0, <1>2, <2>1
  <2> QED BY <2>2 DEF Boundary, Period, k, P, B
<1>5. /\ a.next = reported /\ a.start = reported - Month /\ a.used = c.used /\ a.lost = c.lost
      /\ a.credits = IF c.next # 0 /\ reported - c.next >= Tolerance THEN 0 ELSE c.credits
      /\ a.booted = (c.next = 0 \/ ~Plausible(c.next)
                    \/ (c.booted /\ ~(c.next # 0 /\ reported - c.next >= Tolerance)))
      /\ a.blind = (reported <= now) /\ a.sub = {p} /\ a.skewed = (c.skewed \/ ~(c.sub \subseteq {p}))
  <2>1. reported \in Nat
    BY ReportsType
  <2> HIDE DEF P, B
  <2> QED BY <2>1, AdoptFields
<1> HIDE DEF P, B, a
<1>50. ~a.skewed => SoundFor(c, now, p) /\ ~c.skewed
  <2>1. ~a.skewed => ~c.skewed /\ c.sub \subseteq {p}
    BY <1>5
  <2> QED BY <2>1 DEF SoundAt
<1>51. ~a.booted => c.next # 0 /\ Plausible(c.next)
  BY <1>5
<1>52. (a.blind => reported <= now) /\ (~a.blind => ~(reported <= now))
  <2> DEFINE past == reported <= now
  <2>1. a.blind = past
    BY <1>5
  <2>2. (a.blind => past) /\ (~a.blind => ~past)
    <3> HIDE DEF past
    <3> QED BY <2>1
  <2> QED BY <2>2
<1>53. \E q \in Phases : SoundFor(c, now, q)
  BY DEF SoundAt, Cycles
<1>6. B = P + Month
  BY DEF B
<1>7. PICK m \in {P, B}, d \in Drift : reported = m - d
  <2>1. Reports(p) = {B - d : d \in Drift} \cup {(B - Month) - d : d \in Drift}
    BY <1>4 DEF Reports
  <2>2. B - Month = P
    BY <1>0, <1>2, <1>6
  <2> QED BY <2>1, <2>2
<1>8. m \in Months(p) /\ m \in Int /\ m <= B /\ d \in Nat /\ d <= Span /\ reported \in Nat
  BY <1>0, <1>2, <1>3, <1>6, <1>7
<1>9. Near(reported, p)
  BY <1>7, <1>8 DEF Near
<1>10. a.start <= now /\ reported < Sentinel /\ a.start \in Int
  BY <1>0, <1>2, <1>5, <1>6, <1>7, <1>8
<1>11. reported > now => m = B /\ a.start = P - d
  BY <1>0, <1>2, <1>5, <1>6, <1>7, <1>8
<1>12. a.skewed \/ c.next \in {0, Sentinel}
       \/ (/\ Plausible(c.next) /\ c.next # 0 /\ a.start = P - d /\ reported > now
           /\ a.credits = c.credits /\ a.booted = c.booted
           /\ \E e \in Drift : c.start = P - e /\ d <= e)
  <2>1. SUFFICES ASSUME ~a.skewed, c.next # 0, c.next # Sentinel
                 PROVE  /\ Plausible(c.next) /\ a.start = P - d /\ reported > now
                        /\ a.credits = c.credits /\ a.booted = c.booted
                        /\ \E e \in Drift : c.start = P - e /\ d <= e
    OBVIOUS
  <2>2. /\ Near(c.next, p) /\ c.start = c.next - Month /\ c.start <= now /\ c.next > now
    BY <1>50, <2>1 DEF SoundFor, Rolled
  <2>3. Plausible(c.next)
    BY <1>0, <1>1, <2>2 DEF Plausible
  <2>4. reported > c.next
    BY <1>1, <1>8, <2>3
  <2>5. m = B /\ a.start = P - d
    BY <1>0, <1>1, <1>8, <1>11, <2>2, <2>4
  <2>6. PICK l \in Months(p), e \in Drift : c.next = l - e
    BY <2>2 DEF Near
  <2>7. l \in Int /\ e \in Nat /\ e <= Span
    BY <1>3, MonthsApart
  <2>8. ~(l < B)
    <3>1. l > P
      BY <1>1, <1>2, <2>2, <2>6, <2>7
    <3>2. B <= l
      BY <1>2, <1>6, <3>1, MonthsApart
    <3> QED BY <1>2, <2>7, <3>2
  <2>9. ~(B < l)
    <3>1. B < l => B + Month <= l
      BY <1>2, MonthsApart
    <3> QED BY <1>0, <1>2, <1>3, <1>7, <1>8, <2>4, <2>5, <2>6, <2>7, <3>1
  <2>10. l = B
    BY <1>2, <1>6, <1>0, <2>7, <2>8, <2>9
  <2>11. c.start = P - e /\ d <= e /\ reported - c.next < Tolerance
    BY <1>0, <1>2, <1>3, <1>6, <1>7, <1>8, <2>2, <2>4, <2>5, <2>6, <2>7, <2>10
  <2>12. a.credits = c.credits /\ a.booted = c.booted
    BY <1>1, <1>0, <1>5, <1>8, <2>1, <2>3, <2>11
  <2>13. reported > now
    BY <1>0, <1>1, <1>8, <2>2, <2>4
  <2> QED BY <2>3, <2>5, <2>11, <2>12, <2>13
<1>13. a.next > 0 /\ ~a.lost /\ ~a.blind /\ ~a.skewed => a.credits >= Charged(a.used, a.start + Span)
  <2>1. SUFFICES ASSUME ~c.lost, reported > now, ~a.skewed
                 PROVE  a.credits >= Charged(c.used, a.start + Span)
    <3>1. ~a.blind => reported > now
      BY <1>0, <1>8, <1>52
    <3> QED BY <1>5, <3>1
  <2>2. a.start = P - d /\ a.start + Span \in Int /\ a.start + Span >= P
    BY <1>2, <1>3, <1>8, <1>11, <2>1
  <2>3. \A s \in Int : s <= a.start + Span => Charged(c.used, a.start + Span) <= Charged(c.used, s)
    BY <1>1, <2>2, ChargedLess
  <2>4. \A s \in Int : Charged(c.used, s) \in Nat
    BY <1>1, ChargedLess
  <2>5. CASE c.next = 0
    <3>1. a.credits = c.credits /\ c.credits >= Charged(c.used, P)
      BY <1>5, <1>50, <2>1, <2>5 DEF SoundFor, P
    <3> QED BY <1>1, <1>2, <2>2, <2>3, <2>4, <3>1
  <2>6. CASE c.next = Sentinel
    <3>1. reported - c.next < Tolerance
      BY <1>0, <1>8, <1>10, <2>6
    <3>2. a.credits = c.credits /\ HoldsAll(c)
      BY <1>0, <1>1, <1>5, <1>8, <2>6, <3>1 DEF SoundAt
    <3> QED BY <2>2, <3>2 DEF HoldsAll
  <2>7. CASE c.next \notin {0, Sentinel}
    <3>1. a.credits = c.credits /\ \E e \in Drift : c.start = P - e /\ d <= e
      BY <1>12, <2>1, <2>7
    <3>2. PICK e \in Drift : c.start = P - e /\ d <= e
      BY <3>1
    <3>3. c.start + Span \in Int /\ c.start + Span <= a.start + Span
      BY <1>1, <1>2, <1>3, <1>8, <2>2, <3>2
    <3>4. c.credits >= Charged(c.used, c.start + Span)
      <4>1. c.next > 0
        BY <1>1, <2>7
      <4> QED BY <1>50, <2>1, <4>1 DEF SoundFor, Rolled
    <3> QED BY <1>1, <2>2, <2>3, <2>4, <3>1, <3>3, <3>4
  <2> QED BY <2>5, <2>6, <2>7
<1>14. ~a.booted /\ ~a.skewed => \E l \in Months(p), e \in Drift :
                      a.start = l - e /\ a.credits <= Charged(a.used, l - Span)
  <2>1. SUFFICES ASSUME ~a.booted, ~a.skewed
                 PROVE  \E l \in Months(p), e \in Drift :
                          a.start = l - e /\ a.credits <= Charged(a.used, l - Span)
    OBVIOUS
  <2>2. c.next \notin {0, Sentinel}
    <3>1. c.next # 0 /\ c.next < Sentinel
      BY <1>51, <2>1 DEF Plausible
    <3> QED BY <1>0, <3>1
  <2>3. /\ a.start = P - d /\ a.credits = c.credits /\ ~c.booted
        /\ \E e \in Drift : c.start = P - e /\ d <= e
    BY <1>12, <2>1, <2>2
  <2>4. PICK e \in Drift : c.start = P - e /\ d <= e
    BY <2>3
  <2>5. PICK l \in Months(p), f \in Drift : c.start = l - f /\ c.credits <= Charged(c.used, l - Span)
    BY <1>50, <2>1, <2>3 DEF SoundFor
  <2>6. l \in Int /\ f \in Nat /\ f <= Span /\ e \in Nat /\ e <= Span
    BY <1>3, MonthsApart
  <2>7. ~(l < P) /\ ~(P < l)
    <3>1. (l < P => l + Month <= P) /\ (P < l => P + Month <= l)
      BY <1>2, MonthsApart
    <3> QED BY <1>0, <1>2, <1>3, <2>4, <2>5, <2>6, <3>1
  <2>8. l = P
    BY <1>2, <2>6, <2>7
  <2> QED BY <1>2, <1>5, <1>7, <2>3, <2>5, <2>8
<1>15. /\ \A t \in 1..MaxTime : t > now => a.used[t] = 0
       /\ a.next > 0 /\ ~a.blind => \A t \in 1..MaxTime : t >= a.next => a.used[t] = 0
  <2>1. \A t \in 1..MaxTime : t > now => a.used[t] = 0
    BY <1>5, <1>53 DEF SoundFor
  <2>2. ~a.blind => a.next > now
    BY <1>0, <1>5, <1>8, <1>52
  <2> QED BY <1>0, <1>5, <1>8, <2>1, <2>2
<1>16. /\ a.next # Sentinel /\ a.next # 0 /\ Near(a.next, p) /\ a.start = a.next - Month
       /\ a.blind => 0 < a.next /\ a.next <= now
  <2>1. a.next = reported /\ a.start = reported - Month
    BY <1>5
  <2> QED BY <1>0, <1>8, <1>9, <1>10, <1>52, <2>1
<1>17. SoundFor(a, now, p)
  BY <1>10, <1>13, <1>14, <1>15, <1>16 DEF SoundFor
<1>18. SoundAt(a, now)
  BY <1>5, <1>16, <1>17 DEF SoundAt
<1> QED BY <1>18 DEF a

\* The inductive invariant: the cycle and its saved copy, which a restart brings back, are
\* sound, and the recorder is dirty if they differ.
BillingSound ==
  /\ now \in 1..MaxTime
  /\ SoundAt(cycle, now) /\ SoundAt(saved, now)
  /\ ~dirty => cycle = saved

\* A recorder starts with an empty cycle, whose end is missing or never.
LEMMA BillingStartsSound == BillingInit => BillingSound
<1> SUFFICES ASSUME BillingInit PROVE BillingSound
  OBVIOUS
<1>0. /\ MaxTime \in Nat \ {0} /\ Sentinel \in Nat /\ Sentinel > 1 /\ now = 1 /\ Month \in Nat
      /\ Span \in Nat
  BY BillingAssumption, SpanOf DEF BillingInit
<1>1. PICK next \in {0, Sentinel} : cycle = [NoCycle EXCEPT !.next = next]
  BY DEF BillingInit
<1> DEFINE none == [t \in 1..MaxTime |-> 0]
<1>2. /\ cycle.next \in {0, Sentinel} /\ cycle.start = 0 /\ cycle.credits = 0 /\ cycle.used = none
      /\ ~cycle.blind /\ ~cycle.lost /\ cycle.booted /\ cycle.sub = {}
  BY <1>1 DEF NoCycle
<1>3. none \in Usages /\ \A t \in 1..MaxTime : none[t] = 0
  BY DEF Usages
<1> HIDE DEF none
<1>4. \A t \in Int : Charged(none, t) = 0
  BY <1>3, ChargedLess
<1>5. ASSUME NEW p \in Phases PROVE SoundFor(cycle, now, p)
  <2>1. Period(1, p) \in Int
    BY PeriodOf
  <2> QED BY <1>0, <1>2, <1>3, <1>4, <2>1 DEF SoundFor
<1>6. SoundAt(cycle, now)
  BY <1>2, <1>4, <1>5 DEF SoundAt, HoldsAll
<1> QED BY <1>0, <1>6 DEF BillingInit, BillingSound

\* Every step keeps it.
LEMMA BillingSoundKept == BillingType /\ BillingSound /\ [BillingNext]_billingVars => BillingSound'
<1> SUFFICES ASSUME BillingType, BillingSound, [BillingNext]_billingVars PROVE BillingSound'
  OBVIOUS
<1>0. now \in Nat /\ MaxTime \in Nat /\ cycle \in Cycles /\ saved \in Cycles
  BY BillingAssumption DEF BillingType
<1>1. now \in 1..MaxTime /\ SoundAt(cycle, now) /\ SoundAt(saved, now) /\ (~dirty => cycle = saved)
  BY DEF BillingSound
<1>2. CASE Tick
  <2>1. SoundAt(cycle, now + 1) /\ SoundAt(saved, now + 1)
    BY <1>0, <1>1, SoundLater
  <2>2. now + 1 \in 1..MaxTime /\ now' = now + 1 /\ cycle' = cycle /\ saved' = saved /\ dirty' = dirty
    BY <1>0, <1>1, <1>2 DEF Tick
  <2> QED BY <1>1, <2>1, <2>2 DEF BillingSound
<1>3. CASE Save
  BY <1>1, <1>3 DEF Save, BillingSound
<1>4. CASE Crash
  BY <1>1, <1>4 DEF Crash, BillingSound
<1>5. ASSUME NEW billable \in BOOLEAN, RecordUsage(billable) PROVE BillingSound'
  <2>1. now' = now /\ saved' = saved /\ dirty' = TRUE
    BY <1>5 DEF RecordUsage
  <2>2. CASE billable
    <3> DEFINE r == Roll
    <3>1. SoundAt(r, now) /\ Rolled(r, now) /\ r \in Cycles
      BY <1>1, RollSound
    <3>2. cycle' = [r EXCEPT !.credits = @ + 1, !.used[now] = @ + 1]
      BY <1>5, <2>2 DEF RecordUsage
    <3> HIDE DEF r
    <3>3. SoundAt(cycle', now)
      BY <1>1, <3>1, <3>2, ChargeSound
    <3> QED BY <1>1, <2>1, <3>3 DEF BillingSound
  <2>3. CASE ~billable
    BY <1>1, <1>5, <2>1, <2>3 DEF RecordUsage, BillingSound
  <2> QED BY <2>2, <2>3
<1>6. ASSUME NEW p \in Phases, NEW reported \in Reports(p), SetBillingCycle(reported, p)
      PROVE  BillingSound'
  <2> DEFINE r == Roll
             stale == reported = r.next \/ (Plausible(r.next) /\ reported <= r.next)
  <2>1. SoundAt(r, now) /\ Rolled(r, now) /\ r \in Cycles
    BY <1>1, RollSound
  <2>2. /\ cycle' = IF stale THEN r ELSE Adopt(r, reported, p)
        /\ dirty' = (dirty \/ ~stale \/ r # cycle)
        /\ now' = now /\ saved' = saved /\ reported > 0
    BY <1>6 DEF SetBillingCycle
  <2> HIDE DEF r
  <2>3. ~stale => SoundAt(Adopt(r, reported, p), now)
    BY <1>1, <2>1, <2>2, AdoptSound
  <2> HIDE DEF stale
  <2>4. SoundAt(cycle', now)
    BY <2>1, <2>2, <2>3
  <2>5. ~dirty' => ~dirty /\ stale /\ r = cycle
    BY <2>2
  <2>6. ~dirty' => cycle' = saved'
    BY <1>1, <2>2, <2>5
  <2> QED BY <1>1, <2>2, <2>4, <2>6 DEF BillingSound
<1>7. CASE UNCHANGED billingVars
  BY <1>1, <1>7 DEF billingVars, BillingSound
<1> QED BY <1>2, <1>3, <1>4, <1>5, <1>6, <1>7 DEF BillingNext

\* A sound cycle's total is this cycle's.
LEMMA SoundTotal == BillingType /\ BillingSound => TotalIsThisCycle
<1> SUFFICES ASSUME BillingType, BillingSound PROVE TotalIsThisCycle
  OBVIOUS
<1>1. /\ cycle.used \in Usages /\ cycle.start \in Int /\ cycle.credits \in Nat
      /\ SoundAt(cycle, now) /\ (~dirty => cycle = saved)
  BY DEF BillingType, Cycles, Usages, BillingSound
<1>2. \A t : UsedSince(t) = Charged(cycle.used, t)
  BY DEF UsedSince, Charged
<1>3. PICK p \in Phases : SoundFor(cycle, now, p)
  BY <1>1, BillingAssumption DEF SoundAt, BillingType, Cycles
<1>4. cycle.next > 0 /\ ~cycle.lost /\ ~cycle.blind /\ ~cycle.skewed =>
        cycle.credits >= UsedSince(cycle.start + Span)
  BY <1>2, <1>3 DEF SoundFor
<1>5. ~cycle.booted /\ ~cycle.skewed => cycle.credits <= UsedSince(cycle.start - Span)
  <2>1. SUFFICES ASSUME ~cycle.booted, ~cycle.skewed
                 PROVE  cycle.credits <= Charged(cycle.used, cycle.start - Span)
    BY <1>2
  <2>2. PICK m \in Months(p), d \in Drift :
          cycle.start = m - d /\ cycle.credits <= Charged(cycle.used, m - Span)
    BY <1>3, <2>1 DEF SoundFor
  <2>3. m \in Int /\ d \in Nat /\ Span \in Nat
    BY MonthsApart, SpanOf
  <2>4. cycle.start - Span \in Int /\ m - Span \in Int /\ cycle.start - Span <= m - Span
    BY <1>1, <2>2, <2>3
  <2>5. /\ Charged(cycle.used, m - Span) <= Charged(cycle.used, cycle.start - Span)
        /\ Charged(cycle.used, m - Span) \in Nat /\ Charged(cycle.used, cycle.start - Span) \in Nat
    BY <1>1, <2>4, ChargedLess
  <2> QED BY <1>1, <2>2, <2>5
<1> QED BY <1>1, <1>4, <1>5 DEF TotalIsThisCycle

\* The cycle's total is what was charged in the cycle, give or take the drift of its start:
\* no report of the tracked subscription, stale or drifting, no roll and no restart discards
\* more or leaves in it anything older, another subscription's skews it until the next
\* boundary passes and no longer, and a clean recorder's cycle is the saved one (setBillingCycleAt,
\* rollCycleLocked, RecordUsage).
THEOREM TotalIsThisCycleHolds == BillingSpec => []TotalIsThisCycle
<1>1. BillingInit => BillingType /\ BillingSound
  BY BillingTyped, BillingStartsSound
<1>2. BillingType /\ BillingSound /\ [BillingNext]_billingVars => (BillingType /\ BillingSound)'
  BY BillingTypeKept, BillingSoundKept
<1> QED BY <1>1, <1>2, SoundTotal, PTL DEF BillingSpec
===============================================================================

-------------------------------- MODULE Sums --------------------------------
(***************************************************************************)
(* What a sum over a finite set is: SumOf is the fold that the modules use *)
(* for the amounts of rows and the fees of applications, and the lemmas    *)
(* say how it changes with the set and with the amounts.                   *)
(***************************************************************************)
EXTENDS Integers, FiniteSets, Functions, FiniteSetTheorems, WellFoundedInduction, TLAPS

SumOf(f, S) == FoldFunctionOnSet(+, 0, f, S)

First(s) == CHOOSE x \in s : TRUE
Step(f, g, s) == IF s = {} THEN 0 ELSE f[First(s)] + g[s \ {First(s)}]

\* g gives the sum of every subset of S.
Sums(f, g, S) == g = [s \in SUBSET S |-> Step(f, g, s)]

\* The natural numbers are well-founded: a set of them has a least one.
LEMMA LeastNat ==
    ASSUME NEW T, T \subseteq Nat, T # {}
    PROVE  \E n \in T : \A m \in T : n <= m
<1>1. \E n \in T : \A m \in T : ~ (<<m, n>> \in OpToRel(<, Nat))
    BY WFMin, NatLessThanWellFounded
<1>2. PICK n \in T : \A m \in T : ~ (<<m, n>> \in OpToRel(<, Nat))
    BY <1>1
<1>3. \A m \in T : ~(m < n)
    BY <1>2 DEF OpToRel
<1>. QED BY <1>3

\* So has a collection of subsets of a finite set, by their size.
LEMMA SmallestSubset ==
    ASSUME NEW S, IsFiniteSet(S), NEW W, W \subseteq SUBSET S, W # {}
    PROVE  \E s \in W : IsFiniteSet(s) /\ \A r \in W : Cardinality(s) <= Cardinality(r)
<1> DEFINE T == {Cardinality(s) : s \in W}
<1>1. \A s \in W : IsFiniteSet(s) /\ Cardinality(s) \in Nat
    BY FS_Subset, FS_CardinalityType
<1>2. T \subseteq Nat /\ T # {}
    BY <1>1
<1>. HIDE DEF T
<1>3. PICK n \in T : \A m \in T : n <= m
    BY <1>2, LeastNat
<1>4. PICK s \in W : Cardinality(s) = n
    BY <1>3 DEF T
<1>. QED BY <1>1, <1>3, <1>4 DEF T

LEMMA FirstIsIn == ASSUME NEW s, s # {} PROVE First(s) \in s
BY DEF First

LEMMA SmallerByOne ==
    ASSUME NEW s, IsFiniteSet(s), NEW x \in s
    PROVE  /\ IsFiniteSet(s \ {x}) /\ Cardinality(s \ {x}) \in Nat /\ Cardinality(s) \in Nat
           /\ Cardinality(s \ {x}) = Cardinality(s) - 1
BY FS_RemoveElement, FS_CardinalityType

LEMMA Unfold ==
    ASSUME NEW f, NEW S
    PROVE  SumOf(f, S) = (CHOOSE g : Sums(f, g, S))[S]
BY DEF SumOf, FoldFunctionOnSet, MapThenFoldSet, Step, First, Sums

\* There is such a g: it is built up by the size of the subsets.
Upto(f, g, S, n) ==
    /\ g \in [SUBSET S -> Int]
    /\ \A s \in SUBSET S : Cardinality(s) <= n => g[s] = Step(f, g, s)

LEMMA SumsStart ==
    ASSUME NEW f, NEW S, IsFiniteSet(S)
    PROVE  \E g : Upto(f, g, S, 0)
<1> DEFINE g == [s \in SUBSET S |-> 0]
<1>1. g \in [SUBSET S -> Int]
    OBVIOUS
<1>2. \A s \in SUBSET S : Cardinality(s) <= 0 => s = {}
  <2>. SUFFICES ASSUME NEW s \in SUBSET S, Cardinality(s) <= 0
                PROVE  s = {}
      OBVIOUS
  <2>1. IsFiniteSet(s) /\ Cardinality(s) \in Nat
      BY FS_Subset, FS_CardinalityType
  <2>2. Cardinality(s) = 0
      BY <2>1
  <2>. QED BY <2>1, <2>2, FS_EmptySet
<1>3. \A s \in SUBSET S : Cardinality(s) <= 0 => g[s] = Step(f, g, s)
    BY <1>2 DEF Step
<1>. QED BY <1>1, <1>3 DEF Upto

LEMMA SumsGrow ==
    ASSUME NEW S, IsFiniteSet(S), NEW f, \A x \in S : f[x] \in Int, NEW n \in Nat,
           NEW g, Upto(f, g, S, n)
    PROVE  \E h : Upto(f, h, S, n + 1)
<1> DEFINE h == [s \in SUBSET S |-> IF Cardinality(s) = n + 1 THEN Step(f, g, s) ELSE g[s]]
<1>1. \A s \in SUBSET S : IsFiniteSet(s) /\ Cardinality(s) \in Nat
    BY FS_Subset, FS_CardinalityType
<1>2. \A s \in SUBSET S : Step(f, g, s) \in Int
  <2>. SUFFICES ASSUME NEW s \in SUBSET S
                PROVE  Step(f, g, s) \in Int
      OBVIOUS
  <2>1. CASE s = {}
      BY <2>1 DEF Step
  <2>2. CASE s # {}
    <3>1. First(s) \in s /\ s \ {First(s)} \in SUBSET S
        BY <2>2, FirstIsIn
    <3>2. f[First(s)] \in Int /\ g[s \ {First(s)}] \in Int
        BY <3>1 DEF Upto
    <3>. QED BY <2>2, <3>2 DEF Step
  <2>. QED BY <2>1, <2>2
<1>3. h \in [SUBSET S -> Int]
    BY <1>2 DEF Upto
<1>4. ASSUME NEW s \in SUBSET S, Cardinality(s) <= n + 1
      PROVE  h[s] = Step(f, h, s)
  <2>1. Step(f, h, s) = Step(f, g, s)
    <3>1. CASE s = {}
        BY <3>1 DEF Step
    <3>2. CASE s # {}
      <4>1. First(s) \in s /\ s \ {First(s)} \in SUBSET S
          BY <3>2, FirstIsIn
      <4>2. Cardinality(s \ {First(s)}) = Cardinality(s) - 1
            /\ Cardinality(s \ {First(s)}) \in Nat /\ Cardinality(s) \in Nat
          BY <1>1, <4>1, SmallerByOne
      <4>3. Cardinality(s \ {First(s)}) # n + 1
          BY <1>4, <4>2
      <4>4. h[s \ {First(s)}] = g[s \ {First(s)}]
          BY <4>1, <4>3
      <4>. QED BY <4>4 DEF Step
    <3>. QED BY <3>1, <3>2
  <2>2. CASE Cardinality(s) = n + 1
      BY <2>1, <2>2
  <2>3. CASE Cardinality(s) # n + 1
    <3>1. Cardinality(s) \in Nat /\ Cardinality(s) <= n
        BY <1>1, <1>4, <2>3
    <3>2. g[s] = Step(f, g, s)
        BY <3>1 DEF Upto
    <3>3. h[s] = g[s]
        BY <2>3
    <3>. QED BY <2>1, <3>2, <3>3
  <2>. QED BY <2>2, <2>3
<1>. HIDE DEF h
<1>. QED BY <1>3, <1>4 DEF Upto

LEMMA SumsExist ==
    ASSUME NEW S, IsFiniteSet(S), NEW f, \A x \in S : f[x] \in Int
    PROVE  \E g : Sums(f, g, S)
<1> DEFINE T == {n \in Nat : ~ \E g : Upto(f, g, S, n)}
<1>1. T = {}
  <2>1. SUFFICES ASSUME T # {}
                 PROVE  FALSE
      OBVIOUS
  <2>2. PICK n \in T : \A m \in T : n <= m
      BY <2>1, LeastNat
  <2>3. n \in Nat /\ n # 0
      BY SumsStart
  <2>4. n - 1 \in Nat /\ n - 1 \notin T
      BY <2>2, <2>3
  <2>5. PICK g : Upto(f, g, S, n - 1)
      BY <2>4
  <2>6. \E h : Upto(f, h, S, (n - 1) + 1)
      BY <2>4, <2>5, SumsGrow
  <2>. QED BY <2>3, <2>6
<1>2. Cardinality(S) \in Nat
    BY FS_CardinalityType
<1>3. PICK g : Upto(f, g, S, Cardinality(S))
    BY <1>1, <1>2
<1>4. \A s \in SUBSET S : Cardinality(s) <= Cardinality(S)
    BY FS_Subset
<1>5. g = [s \in SUBSET S |-> g[s]]
    BY <1>3 DEF Upto
<1>6. \A s \in SUBSET S : g[s] = Step(f, g, s)
    BY <1>3, <1>4 DEF Upto
<1>7. g = [s \in SUBSET S |-> Step(f, g, s)]
    BY <1>5, <1>6
<1>. QED BY <1>7 DEF Sums

\* Two such functions agree where both are defined.
LEMMA SumsAgree ==
    ASSUME NEW S, IsFiniteSet(S), NEW R \in SUBSET S, NEW f, NEW g, NEW h,
           Sums(f, g, S), Sums(f, h, R)
    PROVE  \A s \in SUBSET R : g[s] = h[s]
<1> DEFINE W == {s \in SUBSET R : g[s] # h[s]}
<1>1. SUFFICES ASSUME W # {}
               PROVE  FALSE
    OBVIOUS
<1>2. PICK s \in W : IsFiniteSet(s) /\ \A r \in W : Cardinality(s) <= Cardinality(r)
    BY <1>1, SmallestSubset
<1>3. g[s] = Step(f, g, s) /\ h[s] = Step(f, h, s)
    BY DEF Sums
<1>4. s # {}
    BY <1>3 DEF Step
<1>5. First(s) \in s /\ s \ {First(s)} \in SUBSET R
    BY <1>4, FirstIsIn
<1>6. Cardinality(s \ {First(s)}) < Cardinality(s) /\ Cardinality(s \ {First(s)}) \in Nat
      /\ Cardinality(s) \in Nat
    BY <1>2, <1>5, SmallerByOne
<1>7. s \ {First(s)} \notin W
    BY <1>2, <1>6
<1>8. g[s \ {First(s)}] = h[s \ {First(s)}]
    BY <1>5, <1>7
<1>. QED BY <1>3, <1>8 DEF Step

LEMMA SumFirst ==
    ASSUME NEW S, IsFiniteSet(S), NEW f, \A x \in S : f[x] \in Int
    PROVE  SumOf(f, S) = IF S = {} THEN 0 ELSE f[First(S)] + SumOf(f, S \ {First(S)})
<1> DEFINE G(T) == CHOOSE g : Sums(f, g, T)
<1>1. Sums(f, G(S), S)
    BY SumsExist
<1>2. CASE S = {}
    BY <1>1, <1>2, Unfold DEF Sums, Step
<1>3. CASE S # {}
  <2>. PICK T : T = S \ {First(S)}
      OBVIOUS
  <2>1. T \in SUBSET S /\ IsFiniteSet(T)
      BY FS_Subset
  <2>2. Sums(f, G(T), T)
      BY <2>1, SumsExist
  <2>3. G(S)[T] = G(T)[T]
      BY <1>1, <2>1, <2>2, SumsAgree
  <2>4. G(S)[S] = Step(f, G(S), S)
      BY <1>1 DEF Sums
  <2>5. SumOf(f, S) = G(S)[S] /\ SumOf(f, T) = G(T)[T]
      BY Unfold
  <2>. HIDE DEF G
  <2>. QED BY <1>3, <2>3, <2>4, <2>5 DEF Step
<1>. QED BY <1>2, <1>3
-----------------------------------------------------------------------------
(* What follows.                                                           *)

\* Nothing adds up to nothing.
LEMMA SumEmpty == ASSUME NEW f PROVE SumOf(f, {}) = 0
BY SumFirst, FS_EmptySet

\* A sum of integers is one, and of natural numbers is one.
LEMMA SumType ==
    ASSUME NEW S, IsFiniteSet(S), NEW f, NEW N \in {Nat, Int}, \A x \in S : f[x] \in N
    PROVE  SumOf(f, S) \in N
<1> DEFINE W == {s \in SUBSET S : SumOf(f, s) \notin N}
<1>1. SUFFICES ASSUME W # {}
               PROVE  FALSE
    BY FS_Subset
<1>2. PICK s \in W : IsFiniteSet(s) /\ \A r \in W : Cardinality(s) <= Cardinality(r)
    BY <1>1, SmallestSubset
<1>3. SumOf(f, s) = IF s = {} THEN 0 ELSE f[First(s)] + SumOf(f, s \ {First(s)})
  <2>1. \A x \in s : f[x] \in Int
      OBVIOUS
  <2>. QED BY <1>2, <2>1, SumFirst
<1>4. s # {}
    BY <1>3
<1>5. First(s) \in s /\ s \ {First(s)} \in SUBSET S
    BY <1>4, FirstIsIn
<1>6. Cardinality(s \ {First(s)}) < Cardinality(s) /\ Cardinality(s \ {First(s)}) \in Nat
      /\ Cardinality(s) \in Nat
    BY <1>2, <1>5, SmallerByOne
<1>7. SumOf(f, s \ {First(s)}) \in N
    BY <1>2, <1>5, <1>6
<1>8. f[First(s)] \in N
    BY <1>5
<1>9. \A a, b \in N : a + b \in N
    OBVIOUS
<1>. QED BY <1>3, <1>4, <1>7, <1>8, <1>9

\* Any element may be taken first.
LEMMA SumSplit ==
    ASSUME NEW S, IsFiniteSet(S), NEW f, \A x \in S : f[x] \in Int, NEW x \in S
    PROVE  SumOf(f, S) = f[x] + SumOf(f, S \ {x})
<1> DEFINE W == {s \in SUBSET S : \E y \in s : SumOf(f, s) # f[y] + SumOf(f, s \ {y})}
<1>1. SUFFICES ASSUME W # {}
               PROVE  FALSE
    OBVIOUS
<1>2. PICK s \in W : IsFiniteSet(s) /\ \A r \in W : Cardinality(s) <= Cardinality(r)
    BY <1>1, SmallestSubset
<1>3. PICK y \in s : SumOf(f, s) # f[y] + SumOf(f, s \ {y})
    OBVIOUS
<1>4. PICK z : z = First(s)
    OBVIOUS
<1>5. z \in s
    BY <1>4, FirstIsIn
<1>6. SumOf(f, s) = f[z] + SumOf(f, s \ {z})
  <2>1. \A w \in s : f[w] \in Int
      OBVIOUS
  <2>. QED BY <1>2, <1>4, <2>1, SumFirst
<1>7. y # z
    BY <1>3, <1>6
<1>8. \A w \in s : s \ {w} \in SUBSET S /\ s \ {w} \notin W
  <2>. SUFFICES ASSUME NEW w \in s
                PROVE  s \ {w} \in SUBSET S /\ s \ {w} \notin W
      OBVIOUS
  <2>1. Cardinality(s \ {w}) < Cardinality(s) /\ Cardinality(s \ {w}) \in Nat
        /\ Cardinality(s) \in Nat
      BY <1>2, SmallerByOne
  <2>. QED BY <1>2, <2>1
<1>9. SumOf(f, s \ {z}) = f[y] + SumOf(f, (s \ {z}) \ {y})
    BY <1>5, <1>7, <1>8
<1>10. SumOf(f, s \ {y}) = f[z] + SumOf(f, (s \ {y}) \ {z})
    BY <1>5, <1>7, <1>8
<1>11. (s \ {z}) \ {y} = (s \ {y}) \ {z}
    OBVIOUS
<1>12. SumOf(f, (s \ {y}) \ {z}) \in Int
  <2>1. (s \ {y}) \ {z} \in SUBSET S
      OBVIOUS
  <2>. QED BY <2>1, SumType, FS_Subset
<1>13. f[y] \in Int /\ f[z] \in Int
    BY <1>5
<1>14. \A a, b, c \in Int : a + (b + c) = b + (a + c)
    OBVIOUS
<1>15. SumOf(f, s) = f[z] + (f[y] + SumOf(f, (s \ {y}) \ {z}))
    BY <1>6, <1>9, <1>11, Zenon
<1>16. f[y] + SumOf(f, s \ {y}) = f[y] + (f[z] + SumOf(f, (s \ {y}) \ {z}))
    BY <1>10, Zenon
<1>. QED BY <1>3, <1>12, <1>13, <1>14, <1>15, <1>16, Zenon

\* One more element adds its amount.
LEMMA SumAdd ==
    ASSUME NEW S, IsFiniteSet(S), NEW f, NEW x, x \notin S, \A y \in S \cup {x} : f[y] \in Int
    PROVE  SumOf(f, S \cup {x}) = f[x] + SumOf(f, S)
<1>1. IsFiniteSet(S \cup {x})
    BY FS_AddElement
<1>2. (S \cup {x}) \ {x} = S
    OBVIOUS
<1>. QED BY <1>1, <1>2, SumSplit

\* A larger set of natural numbers has no smaller sum.
LEMMA SumMonotone ==
    ASSUME NEW S, IsFiniteSet(S), NEW f, \A x \in S : f[x] \in Nat, NEW T \in SUBSET S
    PROVE  SumOf(f, T) <= SumOf(f, S)
<1> DEFINE W == {s \in SUBSET S : T \subseteq s /\ ~(SumOf(f, T) <= SumOf(f, s))}
<1>1. SUFFICES ASSUME W # {}
               PROVE  FALSE
    OBVIOUS
<1>2. PICK s \in W : IsFiniteSet(s) /\ \A r \in W : Cardinality(s) <= Cardinality(r)
    BY <1>1, SmallestSubset
<1>3. \A r \in SUBSET S : SumOf(f, r) \in Nat
    BY SumType, FS_Subset
<1>4. s # T
    BY <1>3
<1>5. PICK x \in s : x \notin T
    BY <1>4
<1>6. SumOf(f, s) = f[x] + SumOf(f, s \ {x})
  <2>1. \A w \in s : f[w] \in Int
      OBVIOUS
  <2>. QED BY <1>2, <2>1, SumSplit
<1>7. s \ {x} \in SUBSET S /\ T \subseteq s \ {x} /\ s \ {x} \notin W
  <2>1. Cardinality(s \ {x}) < Cardinality(s) /\ Cardinality(s \ {x}) \in Nat
        /\ Cardinality(s) \in Nat
      BY <1>2, SmallerByOne
  <2>. QED BY <1>2, <1>5, <2>1
<1>8. SumOf(f, T) <= SumOf(f, s \ {x})
    BY <1>7
<1>9. f[x] \in Nat /\ SumOf(f, s \ {x}) \in Nat /\ SumOf(f, T) \in Nat
    BY <1>3, <1>7
<1>10. SumOf(f, T) <= SumOf(f, s)
    BY <1>6, <1>8, <1>9
<1>. QED BY <1>10

\* Only the amounts of the elements count.
LEMMA SumCongruent ==
    ASSUME NEW S, IsFiniteSet(S), NEW f, NEW h, \A x \in S : f[x] \in Int /\ h[x] = f[x]
    PROVE  SumOf(f, S) = SumOf(h, S)
<1> DEFINE W == {s \in SUBSET S : SumOf(f, s) # SumOf(h, s)}
<1>1. SUFFICES ASSUME W # {}
               PROVE  FALSE
    OBVIOUS
<1>2. PICK s \in W : IsFiniteSet(s) /\ \A r \in W : Cardinality(s) <= Cardinality(r)
    BY <1>1, SmallestSubset
<1>3. s # {}
    BY SumEmpty
<1>4. PICK x \in s : TRUE
    BY <1>3
<1>5. SumOf(f, s) = f[x] + SumOf(f, s \ {x}) /\ SumOf(h, s) = h[x] + SumOf(h, s \ {x})
  <2>1. \A w \in s : f[w] \in Int /\ h[w] \in Int
      OBVIOUS
  <2>. QED BY <1>2, <2>1, SumSplit
<1>6. s \ {x} \in SUBSET S /\ s \ {x} \notin W
  <2>1. Cardinality(s \ {x}) < Cardinality(s) /\ Cardinality(s \ {x}) \in Nat
        /\ Cardinality(s) \in Nat
      BY <1>2, SmallerByOne
  <2>. QED BY <1>2, <2>1
<1>7. SumOf(f, s \ {x}) = SumOf(h, s \ {x}) /\ h[x] = f[x]
    BY <1>6
<1>. QED BY <1>5, <1>7

\* If one amount changes, so does the sum.
LEMMA SumChange ==
    ASSUME NEW S, IsFiniteSet(S), NEW f, NEW h, NEW x \in S,
           \A y \in S : f[y] \in Int /\ h[y] \in Int, \A y \in S \ {x} : h[y] = f[y]
    PROVE  SumOf(h, S) = SumOf(f, S) - f[x] + h[x]
<1>1. IsFiniteSet(S \ {x})
    BY FS_Subset
<1>2. SumOf(f, S \ {x}) = SumOf(h, S \ {x})
    BY <1>1, SumCongruent
<1>3. SumOf(f, S) = f[x] + SumOf(f, S \ {x}) /\ SumOf(h, S) = h[x] + SumOf(h, S \ {x})
    BY SumSplit
<1>4. SumOf(f, S \ {x}) \in Int
    BY <1>1, SumType
<1>. QED BY <1>2, <1>3, <1>4

\* Smaller amounts have a smaller sum.
LEMMA SumAtMost ==
    ASSUME NEW S, IsFiniteSet(S), NEW f, NEW h, \A x \in S : f[x] \in Int /\ h[x] \in Int /\ f[x] <= h[x]
    PROVE  SumOf(f, S) <= SumOf(h, S)
<1> DEFINE W == {s \in SUBSET S : ~(SumOf(f, s) <= SumOf(h, s))}
<1>1. SUFFICES ASSUME W # {}
               PROVE  FALSE
    OBVIOUS
<1>2. PICK s \in W : IsFiniteSet(s) /\ \A r \in W : Cardinality(s) <= Cardinality(r)
    BY <1>1, SmallestSubset
<1>3. s # {}
    BY SumEmpty
<1>4. PICK x \in s : TRUE
    BY <1>3
<1>5. SumOf(f, s) = f[x] + SumOf(f, s \ {x}) /\ SumOf(h, s) = h[x] + SumOf(h, s \ {x})
  <2>1. \A w \in s : f[w] \in Int /\ h[w] \in Int
      OBVIOUS
  <2>. QED BY <1>2, <2>1, SumSplit
<1>6. s \ {x} \in SUBSET S /\ s \ {x} \notin W
  <2>1. Cardinality(s \ {x}) < Cardinality(s) /\ Cardinality(s \ {x}) \in Nat
        /\ Cardinality(s) \in Nat
      BY <1>2, SmallerByOne
  <2>. QED BY <1>2, <2>1
<1>7. SumOf(f, s \ {x}) \in Int /\ SumOf(h, s \ {x}) \in Int
  <2>1. IsFiniteSet(s \ {x}) /\ \A w \in s \ {x} : f[w] \in Int /\ h[w] \in Int
      BY <1>6, FS_Subset
  <2>. QED BY <2>1, SumType
<1>8. SumOf(f, s \ {x}) <= SumOf(h, s \ {x}) /\ f[x] \in Int /\ h[x] \in Int /\ f[x] <= h[x]
    BY <1>6
<1>. QED BY <1>5, <1>7, <1>8

\* Amounts of at most n each come to n times their number at most.
LEMMA SumBound ==
    ASSUME NEW S, IsFiniteSet(S), NEW n \in Nat, NEW f, \A x \in S : f[x] \in 0 .. n
    PROVE  SumOf(f, S) <= Cardinality(S) * n
<1> DEFINE W == {s \in SUBSET S : ~(SumOf(f, s) <= Cardinality(s) * n)}
<1>1. SUFFICES ASSUME W # {}
               PROVE  FALSE
    OBVIOUS
<1>2. PICK s \in W : IsFiniteSet(s) /\ \A r \in W : Cardinality(s) <= Cardinality(r)
    BY <1>1, SmallestSubset
<1>3. s # {}
    BY SumEmpty, FS_EmptySet
<1>4. PICK x \in s : TRUE
    BY <1>3
<1>5. SumOf(f, s) = f[x] + SumOf(f, s \ {x})
  <2>1. \A w \in s : f[w] \in Int
      OBVIOUS
  <2>. QED BY <1>2, <2>1, SumSplit
<1>6. /\ Cardinality(s \ {x}) = Cardinality(s) - 1 /\ Cardinality(s \ {x}) \in Nat
      /\ Cardinality(s) \in Nat /\ IsFiniteSet(s \ {x})
    BY <1>2, SmallerByOne
<1>7. s \ {x} \in SUBSET S /\ s \ {x} \notin W
    BY <1>2, <1>6
<1>8. SumOf(f, s \ {x}) <= Cardinality(s \ {x}) * n
    BY <1>7
<1>9. SumOf(f, s \ {x}) \in Int /\ f[x] \in 0 .. n
  <2>1. \A w \in s \ {x} : f[w] \in Int
      OBVIOUS
  <2>. QED BY <1>6, <2>1, SumType
<1>10. \A k \in Nat : (k + 1) * n = k * n + n /\ k * n \in Nat
    OBVIOUS
<1>11. PICK k \in Nat : k = Cardinality(s \ {x})
    BY <1>6
<1>12. Cardinality(s) = k + 1
    BY <1>6, <1>11
<1>13. SumOf(f, s) <= (k + 1) * n
    BY <1>5, <1>8, <1>9, <1>10, <1>11
<1>. QED BY <1>12, <1>13

\* Elements that add nothing may be left out.
LEMMA SumOfSome ==
    ASSUME NEW S, IsFiniteSet(S), NEW f, \A x \in S : f[x] \in Int, NEW T \in SUBSET S,
           \A x \in S \ T : f[x] = 0
    PROVE  SumOf(f, S) = SumOf(f, T)
<1> DEFINE W == {s \in SUBSET S : T \subseteq s /\ SumOf(f, s) # SumOf(f, T)}
<1>1. SUFFICES ASSUME W # {}
               PROVE  FALSE
    OBVIOUS
<1>2. PICK s \in W : IsFiniteSet(s) /\ \A r \in W : Cardinality(s) <= Cardinality(r)
    BY <1>1, SmallestSubset
<1>3. PICK x \in s : x \notin T
    OBVIOUS
<1>4. SumOf(f, s) = f[x] + SumOf(f, s \ {x})
  <2>1. \A w \in s : f[w] \in Int
      OBVIOUS
  <2>. QED BY <1>2, <2>1, SumSplit
<1>5. s \ {x} \in SUBSET S /\ T \subseteq s \ {x} /\ s \ {x} \notin W
  <2>1. Cardinality(s \ {x}) < Cardinality(s) /\ Cardinality(s \ {x}) \in Nat
        /\ Cardinality(s) \in Nat
    <3>1. IsFiniteSet(s) /\ x \in s
        BY <1>2, <1>3
    <3>2. /\ Cardinality(s \ {x}) \in Nat /\ Cardinality(s) \in Nat
          /\ Cardinality(s \ {x}) = Cardinality(s) - 1
      <4>. HIDE DEF W
      <4>. QED BY <3>1, SmallerByOne
    <3>. QED BY <3>2
  <2>. QED BY <1>2, <1>3, <2>1
<1>6. SumOf(f, s \ {x}) = SumOf(f, T) /\ f[x] = 0
    BY <1>3, <1>5
<1>7. SumOf(f, T) \in Int
    BY SumType, FS_Subset
<1>. QED BY <1>4, <1>6, <1>7

\* A sum may be taken over other names of the same things, each of which has one.
LEMMA SumRenamed ==
    ASSUME NEW S, IsFiniteSet(S), NEW T, IsFiniteSet(T), NEW f, NEW g, NEW h,
           \A x \in S : f[x] \in Int /\ h[x] \in T /\ g[h[x]] = f[x],
           \A x, y \in S : h[x] = h[y] => x = y,
           \A y \in T : g[y] \in Int /\ (g[y] # 0 => \E x \in S : h[x] = y)
    PROVE  SumOf(f, S) = SumOf(g, T)
<1> DEFINE Image(s) == {h[x] : x \in s}
<1> DEFINE W == {s \in SUBSET S : SumOf(f, s) # SumOf(g, Image(s))}
<1>1. W = {}
  <2>1. SUFFICES ASSUME W # {}
                 PROVE  FALSE
      OBVIOUS
  <2>2. PICK s \in W : IsFiniteSet(s) /\ \A r \in W : Cardinality(s) <= Cardinality(r)
      BY <2>1, SmallestSubset
  <2>3. s # {}
    <3>1. ASSUME s = {} PROVE Image(s) = {}
        BY <3>1
    <3>. QED BY <3>1, SumEmpty
  <2>4. PICK x \in s : TRUE
      BY <2>3
  <2>5. SumOf(f, s) = f[x] + SumOf(f, s \ {x})
    <3>1. \A w \in s : f[w] \in Int
        OBVIOUS
    <3>. QED BY <2>2, <3>1, SumSplit
  <2>6. Image(s) \in SUBSET T /\ h[x] \in Image(s) /\ Image(s \ {x}) = Image(s) \ {h[x]}
      OBVIOUS
  <2>7. SumOf(g, Image(s)) = g[h[x]] + SumOf(g, Image(s) \ {h[x]})
    <3>1. IsFiniteSet(Image(s)) /\ \A w \in Image(s) : g[w] \in Int
        BY <2>6, FS_Subset
    <3>. QED BY <2>6, <3>1, SumSplit
  <2>8. s \ {x} \in SUBSET S /\ s \ {x} \notin W
    <3>1. Cardinality(s \ {x}) < Cardinality(s) /\ Cardinality(s \ {x}) \in Nat
          /\ Cardinality(s) \in Nat
      <4>. HIDE DEF W, Image
      <4>. QED BY <2>2, <2>4, SmallerByOne
    <3>. QED BY <2>2, <3>1
  <2>9. SumOf(f, s \ {x}) = SumOf(g, Image(s) \ {h[x]}) /\ g[h[x]] = f[x]
      BY <2>6, <2>8
  <2>. QED BY <2>5, <2>7, <2>9
<1>2. SumOf(f, S) = SumOf(g, Image(S))
    BY <1>1
<1>3. Image(S) \in SUBSET T /\ \A y \in T \ Image(S) : g[y] = 0
    OBVIOUS
<1>4. SumOf(g, T) = SumOf(g, Image(S))
    BY <1>3, SumOfSome
<1>. QED BY <1>2, <1>4
-----------------------------------------------------------------------------
(* Parts of a sum, and how far it moves.                                   *)

\* The parts of a set sum up to the whole.
LEMMA SumParts ==
    ASSUME NEW S, IsFiniteSet(S), NEW T, IsFiniteSet(T), NEW f, NEW h,
           \A x \in S : f[x] \in Int /\ h[x] \in T
    PROVE  SumOf([t \in T |-> SumOf(f, {x \in S : h[x] = t})], T) = SumOf(f, S)
<1> DEFINE Part(s, t) == {x \in s : h[x] = t}
           Parts(s) == [t \in T |-> SumOf(f, Part(s, t))]
           W == {s \in SUBSET S : SumOf(Parts(s), T) # SumOf(f, s)}
<1>1. SUFFICES ASSUME W # {}
               PROVE  FALSE
    OBVIOUS
<1>2. PICK s \in W : IsFiniteSet(s) /\ \A r \in W : Cardinality(s) <= Cardinality(r)
    BY <1>1, SmallestSubset
<1>3. \A r \in SUBSET S : \A t \in T : IsFiniteSet(Part(r, t)) /\ Parts(r)[t] \in Int
  <2>. SUFFICES ASSUME NEW r \in SUBSET S, NEW t \in T
                PROVE  IsFiniteSet(Part(r, t)) /\ SumOf(f, Part(r, t)) \in Int
      OBVIOUS
  <2>1. IsFiniteSet(Part(r, t)) /\ \A x \in Part(r, t) : f[x] \in Int
      BY FS_Subset
  <2>. HIDE DEF Part
  <2>. QED BY <2>1, SumType
<1>4. CASE s = {}
  <2>1. \A t \in T : Parts(s)[t] = 0
    <3>1. \A t \in T : Part(s, t) = {}
        BY <1>4
    <3>. QED BY <3>1, SumEmpty
  <2>. HIDE DEF Part, Parts
  <2>2. SumOf(Parts(s), T) = SumOf(Parts(s), {})
    <3>1. {} \in SUBSET T /\ \A t \in T : Parts(s)[t] \in Int
        BY <2>1
    <3>. QED BY <2>1, <3>1, SumOfSome
  <2>3. SumOf(Parts(s), T) = 0 /\ SumOf(f, s) = 0
      BY <1>4, <2>2, SumEmpty
  <2>. QED BY <2>3
<1>5. CASE s # {}
  <2>1. PICK x \in s : TRUE
      BY <1>5
  <2> DEFINE r == s \ {x}
  <2>2. r \in SUBSET S /\ r \notin W /\ s \in SUBSET S /\ x \in S
    <3>1. IsFiniteSet(r) /\ Cardinality(r) = Cardinality(s) - 1 /\ Cardinality(s) \in Nat
        BY <1>2, <2>1, SmallerByOne
    <3>2. ~(Cardinality(s) <= Cardinality(r))
        BY <3>1
    <3>. QED BY <1>2, <2>1, <3>2
  <2>3. SumOf(Parts(r), T) = SumOf(f, r)
      BY <2>2
  <2>4. SumOf(f, s) = f[x] + SumOf(f, r)
      BY <1>2, <2>1, <2>2, SumSplit
  <2>5. \A t \in T \ {h[x]} : Parts(s)[t] = Parts(r)[t]
    <3>1. \A t \in T \ {h[x]} : Part(s, t) = Part(r, t)
        OBVIOUS
    <3>. QED BY <3>1
  <2>6. h[x] \in T /\ f[x] \in Int
      BY <2>2
  <2>7. Parts(s)[h[x]] = f[x] + Parts(r)[h[x]]
    <3>1. x \in Part(s, h[x]) /\ Part(s, h[x]) \ {x} = Part(r, h[x])
        BY <2>1
    <3>2. IsFiniteSet(Part(s, h[x])) /\ \A y \in Part(s, h[x]) : f[y] \in Int
        BY <1>3, <2>2, <2>6
    <3>3. SumOf(f, Part(s, h[x])) = f[x] + SumOf(f, Part(r, h[x]))
      <4>. HIDE DEF Part, r
      <4>. QED BY <3>1, <3>2, SumSplit
    <3>. QED BY <2>6, <3>3
  <2>8. \A t \in T : Parts(s)[t] \in Int /\ Parts(r)[t] \in Int
      BY <1>3, <2>2
  <2>9. SumOf(f, r) \in Int
    <3>1. IsFiniteSet(r) /\ \A y \in r : f[y] \in Int
        BY <2>2, FS_Subset
    <3>. HIDE DEF r
    <3>. QED BY <3>1, SumType
  <2>10. SumOf(Parts(s), T) = SumOf(Parts(r), T) - Parts(r)[h[x]] + Parts(s)[h[x]]
    <3>. HIDE DEF Parts, r
    <3>. QED BY <2>5, <2>6, <2>8, SumChange
  <2>11. Parts(r)[h[x]] \in Int
      BY <2>6, <2>8
  <2>12. SumOf(Parts(s), T) = SumOf(f, s)
    <3>. HIDE DEF Parts, r
    <3>. QED BY <2>3, <2>4, <2>6, <2>7, <2>9, <2>10, <2>11
  <2>. QED BY <2>12
<1>. QED BY <1>4, <1>5

\* A cardinality is a sum of ones.
LEMMA CountIsSum ==
    ASSUME NEW S, IsFiniteSet(S), NEW one, \A x \in S : one[x] = 1
    PROVE  SumOf(one, S) = Cardinality(S)
<1> DEFINE W == {s \in SUBSET S : SumOf(one, s) # Cardinality(s)}
<1>1. SUFFICES ASSUME W # {}
               PROVE  FALSE
    OBVIOUS
<1>2. PICK s \in W : IsFiniteSet(s) /\ \A r \in W : Cardinality(s) <= Cardinality(r)
    BY <1>1, SmallestSubset
<1>3. CASE s = {}
    BY <1>3, SumEmpty, FS_EmptySet
<1>4. CASE s # {}
  <2>1. PICK x \in s : TRUE
      BY <1>4
  <2>2. Cardinality(s \ {x}) = Cardinality(s) - 1 /\ Cardinality(s) \in Nat
      BY <1>2, <2>1, SmallerByOne
  <2>3. s \ {x} \notin W
      BY <1>2, <2>2
  <2>4. SumOf(one, s \ {x}) = Cardinality(s \ {x})
      BY <2>3
  <2>5. \A y \in s : one[y] \in Int
      OBVIOUS
  <2>6. SumOf(one, s) = one[x] + SumOf(one, s \ {x})
      BY <1>2, <2>1, <2>5, SumSplit
  <2>7. SumOf(one, s) = Cardinality(s)
      BY <2>1, <2>2, <2>4, <2>6
  <2>. QED BY <2>7
<1>. QED BY <1>3, <1>4

LEMMA CountParts ==
    ASSUME NEW S, IsFiniteSet(S), NEW T, IsFiniteSet(T), NEW h, \A x \in S : h[x] \in T,
           NEW g, DOMAIN g = T, \A t \in T : g[t] = Cardinality({x \in S : h[x] = t})
    PROVE  SumOf(g, T) = Cardinality(S)
<1> DEFINE one == [x \in S |-> 1]
           Part(t) == {x \in S : h[x] = t}
           parts == [t \in T |-> SumOf(one, Part(t))]
<1>1. \A t \in T : IsFiniteSet(Part(t)) /\ \A x \in Part(t) : one[x] = 1
    BY FS_Subset
<1>2. \A t \in T : parts[t] = g[t] /\ g[t] \in Int
  <2>. SUFFICES ASSUME NEW t \in T PROVE SumOf(one, Part(t)) = Cardinality(Part(t)) /\ g[t] \in Int
      OBVIOUS
  <2>1. Cardinality(Part(t)) \in Nat /\ g[t] = Cardinality(Part(t))
      BY <1>1, FS_CardinalityType
  <2>. HIDE DEF Part, one
  <2>. QED BY <1>1, <2>1, CountIsSum
<1>3. \A x \in S : one[x] \in Int /\ one[x] = 1
    OBVIOUS
<1>4. SumOf(parts, T) = SumOf(one, S)
  <2>. HIDE DEF one
  <2>. QED BY <1>3, SumParts
<1>. HIDE DEF one, parts
<1>5. SumOf(parts, T) = SumOf(g, T)
    BY <1>2, SumCongruent
<1>. QED BY <1>3, <1>4, <1>5, CountIsSum

\* How far a sum moves when one member comes or goes.
LEMMA SumDrift ==
    ASSUME NEW S, NEW R, NEW U, IsFiniteSet(U), S \subseteq U, R \subseteq U, NEW f,
           \A y \in U : f[y] \in Nat, NEW x, S \ {x} = R \ {x},
           NEW n \in Nat, (x \in S <=> x \in R) \/ f[x] <= n
    PROVE  /\ SumOf(f, S) \in Nat /\ SumOf(f, R) \in Nat
           /\ SumOf(f, R) - SumOf(f, S) \in -n..n
<1>1. IsFiniteSet(S) /\ IsFiniteSet(R)
    BY FS_Subset
<1>2. SumOf(f, S) \in Nat /\ SumOf(f, R) \in Nat
  <2>1. (\A y \in S : f[y] \in Nat) /\ \A y \in R : f[y] \in Nat
      OBVIOUS
  <2>. QED BY <1>1, <2>1, SumType
<1>3. (\A y \in S : f[y] \in Int) /\ \A y \in R : f[y] \in Int
    OBVIOUS
<1>4. CASE x \in S <=> x \in R
  <2>1. S = R
      BY <1>4
  <2>. QED BY <1>2, <2>1
<1>5. CASE x \in S /\ x \notin R
  <2>1. R = S \ {x} /\ f[x] \in Nat /\ f[x] <= n
      BY <1>5
  <2>2. SumOf(f, S) = f[x] + SumOf(f, R)
      BY <1>1, <1>3, <1>5, <2>1, SumSplit
  <2>. QED BY <1>2, <2>1, <2>2
<1>6. CASE x \notin S /\ x \in R
  <2>1. S = R \ {x} /\ f[x] \in Nat /\ f[x] <= n
      BY <1>6
  <2>2. SumOf(f, R) = f[x] + SumOf(f, S)
      BY <1>1, <1>3, <1>6, <2>1, SumSplit
  <2>. QED BY <1>2, <2>1, <2>2
<1>. QED BY <1>4, <1>5, <1>6

LEMMA CountDrift ==
    ASSUME NEW S, NEW R, NEW U, IsFiniteSet(U), S \subseteq U, R \subseteq U, NEW x, S \ {x} = R \ {x}
    PROVE  /\ Cardinality(S) \in Nat /\ Cardinality(R) \in Nat
           /\ Cardinality(R) - Cardinality(S) \in -1..1
<1> DEFINE one == [y \in U \cup {x} |-> 1]
<1>1. IsFiniteSet(S) /\ IsFiniteSet(R)
    BY FS_Subset
<1>2. (\A y \in U : one[y] \in Nat) /\ (\A y \in S : one[y] = 1) /\ (\A y \in R : one[y] = 1) /\ one[x] <= 1
    OBVIOUS
<1>. HIDE DEF one
<1>3. SumOf(one, S) = Cardinality(S) /\ SumOf(one, R) = Cardinality(R)
    BY <1>1, <1>2, CountIsSum
<1>4. /\ SumOf(one, S) \in Nat /\ SumOf(one, R) \in Nat
      /\ SumOf(one, R) - SumOf(one, S) \in -1..1
    BY <1>2, SumDrift
<1>. QED BY <1>3, <1>4
=============================================================================

---------------------------- MODULE SumTheorems ----------------------------
(***************************************************************************)
(* Sums of a function over a finite set, as every ledger of this project   *)
(* uses them: MapThenSumSet of the community modules.  The fold takes an   *)
(* arbitrary element first; the lemmas below say that the choice does not  *)
(* matter and how a sum moves when the function changes at one point.      *)
(* The library's induction theorems take a predicate; here induction goes  *)
(* through the least element of a set of numbers and through a set of      *)
(* "good" values, which keeps every fact first-order.                      *)
(***************************************************************************)
EXTENDS Integers, FiniteSets, FiniteSetsExt, FiniteSetTheorems,
        WellFoundedInduction, TLAPS

SumOver(f, S) == MapThenSumSet(LAMBDA x : f[x], S)

\* The recursion equation that the fold of f over S solves.
IsSum(g, f, S) ==
    g = [s \in SUBSET S |->
            IF s = {} THEN 0
            ELSE f[CHOOSE x \in s : TRUE] + g[s \ {CHOOSE x \in s : TRUE}]]

(***************************************************************************)
(* Induction                                                               *)
(***************************************************************************)
\* A nonempty set of natural numbers has a least element.
LEMMA LeastNumber ==
  ASSUME NEW T, T \subseteq Nat, T # {}
  PROVE  \E x \in T : \A y \in T : x <= y
<1> DEFINE R == OpToRel(<, Nat)
<1>1. IsWellFoundedOn(R, Nat)  BY NatLessThanWellFounded
<1>2. \A x, y \in Nat : x < y => <<x, y>> \in R  BY DEF OpToRel
<1> HIDE DEF R
<1>3. PICK x \in T : \A y \in T : <<y, x>> \notin R  BY <1>1, WFMin
<1>4. ASSUME NEW y \in T PROVE x <= y
  <2>1. x \in Nat /\ y \in Nat  OBVIOUS
  <2>2. ~(y < x)  BY <1>2, <1>3, <2>1
  <2> QED  BY <2>1, <2>2
<1> QED  BY <1>4

\* A set of numbers with zero and the successors of its members has them all.
LEMMA NumberInduction ==
  ASSUME NEW G, 0 \in G, \A n \in Nat : n \in G => n + 1 \in G
  PROVE  \A n \in Nat : n \in G
<1> SUFFICES ASSUME NEW k \in Nat, k \notin G PROVE FALSE  OBVIOUS
<1> DEFINE T == Nat \ G
<1>1. T # {} /\ T \subseteq Nat  OBVIOUS
<1> HIDE DEF T
<1>2. PICK m \in T : \A y \in T : m <= y  BY <1>1, LeastNumber
<1>3. m \in Nat /\ m # 0 /\ m \notin G  BY <1>2 DEF T
<1>4. m - 1 \in Nat /\ m - 1 \notin T  BY <1>1, <1>2, <1>3
<1>5. m - 1 \in G  BY <1>4 DEF T
<1> QED  BY <1>3, <1>4, <1>5

\* Subsets of a finite set: what holds of a set when it holds of the set
\* without any one of its elements, holds of all.
LEMMA SubsetInduction ==
  ASSUME NEW U, IsFiniteSet(U), NEW G,
         \A T \in SUBSET U : (\A x \in T : T \ {x} \in G) => T \in G
  PROVE  \A T \in SUBSET U : T \in G
<1> SUFFICES ASSUME NEW B \in SUBSET U, B \notin G PROVE FALSE  OBVIOUS
<1>1. \A T \in SUBSET U : IsFiniteSet(T) /\ Cardinality(T) \in Nat
  BY FS_Subset, FS_CardinalityType
<1> DEFINE Sizes == {Cardinality(T) : T \in (SUBSET U) \ G}
<1>2. Sizes \subseteq Nat /\ Sizes # {}  BY <1>1
<1>3. PICK n \in Sizes : \A m \in Sizes : n <= m  BY <1>2, LeastNumber
<1>4. PICK T \in (SUBSET U) \ G : Cardinality(T) = n  BY <1>3
<1>5. PICK x \in T : T \ {x} \notin G  BY <1>4
<1>6. Cardinality(T \ {x}) = n - 1 /\ T \ {x} \in SUBSET U
  BY <1>1, <1>4, <1>5, FS_RemoveElement
<1>7. n - 1 \in Sizes  BY <1>5, <1>6
<1>8. n \in Nat /\ n <= n - 1  BY <1>2, <1>3, <1>7
<1> QED  BY <1>8

(***************************************************************************)
(* The fold                                                                *)
(***************************************************************************)
\* The recursion equation has a solution on a finite set: extend a solution
\* for the subsets of at most n elements to those of n + 1.
LEMMA SumExists ==
  ASSUME NEW U, IsFiniteSet(U), NEW f
  PROVE  \E g : IsSum(g, f, U)
<1> DEFINE pick(s) == CHOOSE x \in s : TRUE
           rhs(g, s) == IF s = {} THEN 0 ELSE f[pick(s)] + g[s \ {pick(s)}]
           G == {n \in Nat : \E g : \A s \in SUBSET U :
                                 Cardinality(s) <= n => g[s] = rhs(g, s)}
<1>1. \A s \in SUBSET U : /\ IsFiniteSet(s) /\ Cardinality(s) \in Nat
                          /\ Cardinality(s) = 0 <=> s = {}
                          /\ Cardinality(s) <= Cardinality(U)
  BY FS_Subset, FS_CardinalityType, FS_EmptySet
<1>2. \A s \in SUBSET U : s # {} =>
          /\ pick(s) \in s /\ s \ {pick(s)} \in SUBSET U
          /\ Cardinality(s \ {pick(s)}) = Cardinality(s) - 1
  BY <1>1, FS_RemoveElement
<1> HIDE DEF pick
<1>3. 0 \in G
  <2> DEFINE g == [s \in SUBSET U |-> 0]
  <2>1. \A s \in SUBSET U : Cardinality(s) <= 0 => g[s] = rhs(g, s)
    BY <1>1
  <2> QED  BY <2>1
<1>4. ASSUME NEW n \in Nat, n \in G PROVE n + 1 \in G
  <2>1. PICK g : \A s \in SUBSET U : Cardinality(s) <= n => g[s] = rhs(g, s)
    BY <1>4
  <2> DEFINE h == [s \in SUBSET U |-> IF Cardinality(s) <= n THEN g[s] ELSE rhs(g, s)]
  <2>2. ASSUME NEW s \in SUBSET U, Cardinality(s) <= n + 1 PROVE h[s] = rhs(h, s)
    <3>1. s # {} => h[s \ {pick(s)}] = g[s \ {pick(s)}]
      BY <1>1, <1>2, <2>2
    <3>2. h[s] = rhs(g, s)  BY <2>1
    <3> QED  BY <3>1, <3>2
  <2> HIDE DEF h, rhs
  <2>3. \E e : \A s \in SUBSET U : Cardinality(s) <= n + 1 => e[s] = rhs(e, s)
    BY <2>2
  <2> QED  BY <2>3
<1>5. Cardinality(U) \in G
  <2> HIDE DEF G
  <2> QED  BY <1>1, <1>3, <1>4, NumberInduction
<1>6. PICK g : \A s \in SUBSET U : g[s] = rhs(g, s)  BY <1>1, <1>5
<1> DEFINE h == [s \in SUBSET U |-> g[s]]
<1>7. h = [s \in SUBSET U |-> rhs(h, s)]
  <2>1. ASSUME NEW s \in SUBSET U PROVE g[s] = rhs(h, s)
    <3>1. s # {} => h[s \ {pick(s)}] = g[s \ {pick(s)}]  BY <1>2
    <3> QED  BY <1>6, <3>1
  <2> QED  BY <2>1
<1> HIDE DEF h
<1>8. IsSum(h, f, U)  BY <1>7 DEF IsSum, pick
<1> QED  BY <1>8

\* It has no other: SumOver is the value of any solution, at every subset.
LEMMA SumUnique ==
  ASSUME NEW U, IsFiniteSet(U), NEW f, NEW g, IsSum(g, f, U)
  PROVE  \A T \in SUBSET U : SumOver(f, T) = g[T]
<1> SUFFICES ASSUME NEW T \in SUBSET U PROVE SumOver(f, T) = g[T]  OBVIOUS
<1> DEFINE h == CHOOSE e : IsSum(e, f, T)
<1>1. SumOver(f, T) = h[T]
  BY DEF SumOver, MapThenSumSet, MapThenFoldSet, IsSum
<1>2. IsFiniteSet(T)  BY FS_Subset
<1>3. IsSum(h, f, T)  BY <1>2, SumExists
<1> HIDE DEF h
<1> DEFINE G == {s \in SUBSET T : h[s] = g[s]}
<1>4. ASSUME NEW s \in SUBSET T, \A x \in s : s \ {x} \in G PROVE s \in G
  <2>1. CASE s = {}  BY <1>3, <2>1 DEF IsSum
  <2>2. CASE s # {}
    <3> DEFINE x == CHOOSE x \in s : TRUE
    <3>1. x \in s  BY <2>2
    <3>2. h[s] = f[x] + h[s \ {x}]  BY <1>3, <2>2 DEF IsSum
    <3>3. g[s] = f[x] + g[s \ {x}]  BY <2>2 DEF IsSum
    <3> QED  BY <1>4, <3>1, <3>2, <3>3
  <2> QED  BY <2>1, <2>2
<1>5. T \in G
  <2> HIDE DEF G
  <2> QED  BY <1>2, <1>4, SubsetInduction
<1> QED  BY <1>1, <1>5

\* The sum over no elements, and the sum after taking out the first element.
LEMMA SumEmpty == ASSUME NEW f PROVE SumOver(f, {}) = 0
<1>1. IsFiniteSet({})  BY FS_EmptySet
<1>2. PICK g : IsSum(g, f, {})  BY <1>1, SumExists
<1>3. g[{}] = 0  BY <1>2 DEF IsSum
<1> QED  BY <1>1, <1>2, <1>3, SumUnique

LEMMA SumFirst ==
  ASSUME NEW S, IsFiniteSet(S), S # {}, NEW f
  PROVE  \E x \in S : SumOver(f, S) = f[x] + SumOver(f, S \ {x})
<1>1. PICK g : IsSum(g, f, S)  BY SumExists
<1> DEFINE x == CHOOSE x \in S : TRUE
<1>2. x \in S  OBVIOUS
<1>3. g[S] = f[x] + g[S \ {x}]  BY <1>1 DEF IsSum
<1> HIDE DEF x
<1>4. SumOver(f, S) = g[S] /\ SumOver(f, S \ {x}) = g[S \ {x}]
  BY <1>1, SumUnique
<1> QED  BY <1>2, <1>3, <1>4

(***************************************************************************)
(* Sums                                                                    *)
(***************************************************************************)
\* The sum of integers is an integer.
LEMMA SumInt ==
  ASSUME NEW S, IsFiniteSet(S), NEW f, \A x \in S : f[x] \in Int
  PROVE  SumOver(f, S) \in Int
<1> DEFINE G == {T \in SUBSET S : SumOver(f, T) \in Int}
<1>1. ASSUME NEW T \in SUBSET S, \A x \in T : T \ {x} \in G PROVE T \in G
  <2>1. CASE T = {}  BY <2>1, SumEmpty
  <2>2. CASE T # {}
    <3>1. IsFiniteSet(T)  BY FS_Subset
    <3>2. PICK x \in T : SumOver(f, T) = f[x] + SumOver(f, T \ {x})
      BY <2>2, <3>1, SumFirst
    <3> QED  BY <1>1, <3>2
  <2> QED  BY <2>1, <2>2
<1>2. \A T \in SUBSET S : T \in G
  <2> HIDE DEF G
  <2> QED  BY <1>1, SubsetInduction
<1>3. S \in G  BY <1>2, Zenon
<1> QED  BY <1>3

\* Any element may be taken out, not only the one that the fold takes first.
LEMMA SumSplit ==
  ASSUME NEW S, IsFiniteSet(S), NEW f, \A x \in S : f[x] \in Int
  PROVE  \A x \in S : SumOver(f, S) = f[x] + SumOver(f, S \ {x})
<1> DEFINE G == {T \in SUBSET S : \A x \in T :
                     SumOver(f, T) = f[x] + SumOver(f, T \ {x})}
<1>1. ASSUME NEW T \in SUBSET S, \A x \in T : T \ {x} \in G PROVE T \in G
  <2> SUFFICES ASSUME NEW x \in T
               PROVE  SumOver(f, T) = f[x] + SumOver(f, T \ {x})
    OBVIOUS
  <2>1. \A R \in SUBSET S : IsFiniteSet(R) /\ SumOver(f, R) \in Int
    BY FS_Subset, SumInt
  <2>2. PICK c \in T : SumOver(f, T) = f[c] + SumOver(f, T \ {c})
    BY <2>1, SumFirst
  <2>3. CASE c = x  BY <2>2, <2>3
  <2>4. CASE c # x
    <3>1. (T \ {c}) \ {x} = (T \ {x}) \ {c}  OBVIOUS
    <3>2. SumOver(f, T \ {c}) = f[x] + SumOver(f, (T \ {c}) \ {x})
      BY <1>1, <2>4
    <3>3. SumOver(f, T \ {x}) = f[c] + SumOver(f, (T \ {c}) \ {x})
      BY <1>1, <2>4, <3>1
    <3>4. SumOver(f, (T \ {c}) \ {x}) \in Int  BY <2>1
    <3> QED  BY <2>2, <3>2, <3>3, <3>4
  <2> QED  BY <2>3, <2>4
<1>2. \A T \in SUBSET S : T \in G
  <2> HIDE DEF G
  <2> QED  BY <1>1, SubsetInduction
<1>3. S \in G  BY <1>2, Zenon
<1> QED  BY <1>3

\* Only the values on the set matter.
LEMMA SumSame ==
  ASSUME NEW S, IsFiniteSet(S), NEW f, NEW g, \A x \in S : f[x] = g[x]
  PROVE  SumOver(f, S) = SumOver(g, S)
<1>1. PICK e : IsSum(e, f, S)  BY SumExists
<1>2. IsSum(e, g, S)
  <2>1. \A s \in SUBSET S : s # {} => (CHOOSE x \in s : TRUE) \in S  OBVIOUS
  <2> QED  BY <1>1, <2>1 DEF IsSum
<1> QED  BY <1>1, <1>2, SumUnique

\* The sum of zeros is zero.
LEMMA SumZero ==
  ASSUME NEW S, IsFiniteSet(S), NEW f, \A x \in S : f[x] = 0
  PROVE  SumOver(f, S) = 0
<1> DEFINE G == {T \in SUBSET S : SumOver(f, T) = 0}
<1>1. ASSUME NEW T \in SUBSET S, \A x \in T : T \ {x} \in G PROVE T \in G
  <2>1. CASE T = {}  BY <2>1, SumEmpty
  <2>2. CASE T # {}
    <3>1. IsFiniteSet(T)  BY FS_Subset
    <3>2. PICK x \in T : SumOver(f, T) = f[x] + SumOver(f, T \ {x})
      BY <2>2, <3>1, SumFirst
    <3>3. f[x] = 0 /\ SumOver(f, T \ {x}) = 0  BY <1>1
    <3> QED  BY <3>2, <3>3
  <2> QED  BY <2>1, <2>2
<1>2. \A T \in SUBSET S : T \in G
  <2> HIDE DEF G
  <2> QED  BY <1>1, SubsetInduction
<1>3. S \in G  BY <1>2, Zenon
<1> QED  BY <1>3

\* The sum of natural numbers is one, and no term exceeds it.
LEMMA SumNat ==
  ASSUME NEW S, IsFiniteSet(S), NEW f, \A x \in S : f[x] \in Nat
  PROVE  SumOver(f, S) \in Nat /\ \A x \in S : f[x] <= SumOver(f, S)
<1> DEFINE G == {T \in SUBSET S : SumOver(f, T) \in Nat}
<1>1. ASSUME NEW T \in SUBSET S, \A x \in T : T \ {x} \in G PROVE T \in G
  <2>1. CASE T = {}  BY <2>1, SumEmpty
  <2>2. CASE T # {}
    <3>1. IsFiniteSet(T)  BY FS_Subset
    <3>2. PICK x \in T : SumOver(f, T) = f[x] + SumOver(f, T \ {x})
      BY <2>2, <3>1, SumFirst
    <3> QED  BY <1>1, <3>2
  <2> QED  BY <2>1, <2>2
<1>2. \A T \in SUBSET S : T \in G
  <2> HIDE DEF G
  <2> QED  BY <1>1, SubsetInduction
<1>3. \A T \in SUBSET S : SumOver(f, T) \in Nat  BY <1>2
<1>4. ASSUME NEW x \in S PROVE f[x] <= SumOver(f, S)
  <2>1. SumOver(f, S) = f[x] + SumOver(f, S \ {x})  BY SumSplit
  <2>2. SumOver(f, S \ {x}) \in Nat /\ f[x] \in Nat  BY <1>3
  <2> QED  BY <2>1, <2>2
<1>5. S \in SUBSET S  OBVIOUS
<1> QED  BY <1>3, <1>4, <1>5

\* The sum of the pointwise sums.
LEMMA SumPlus ==
  ASSUME NEW S, IsFiniteSet(S), NEW f, NEW g, NEW h,
         \A x \in S : f[x] \in Int /\ g[x] \in Int /\ h[x] = f[x] + g[x]
  PROVE  SumOver(h, S) = SumOver(f, S) + SumOver(g, S)
<1> DEFINE G == {T \in SUBSET S : SumOver(h, T) = SumOver(f, T) + SumOver(g, T)}
<1>1. ASSUME NEW T \in SUBSET S, \A x \in T : T \ {x} \in G PROVE T \in G
  <2>1. CASE T = {}  BY <2>1, SumEmpty
  <2>2. CASE T # {}
    <3>1. \A R \in SUBSET S :
              IsFiniteSet(R) /\ SumOver(f, R) \in Int /\ SumOver(g, R) \in Int
      BY FS_Subset, SumInt
    <3>2. PICK x \in T : SumOver(h, T) = h[x] + SumOver(h, T \ {x})
      BY <2>2, <3>1, SumFirst
    <3>3. /\ SumOver(f, T) = f[x] + SumOver(f, T \ {x})
          /\ SumOver(g, T) = g[x] + SumOver(g, T \ {x})
      BY <3>1, SumSplit
    <3>4. SumOver(h, T \ {x}) = SumOver(f, T \ {x}) + SumOver(g, T \ {x})
      BY <1>1
    <3>5. /\ f[x] \in Int /\ g[x] \in Int /\ h[x] = f[x] + g[x]
          /\ SumOver(f, T \ {x}) \in Int /\ SumOver(g, T \ {x}) \in Int
      BY <3>1
    <3> QED  BY <3>2, <3>3, <3>4, <3>5
  <2> QED  BY <2>1, <2>2
<1>2. \A T \in SUBSET S : T \in G
  <2> HIDE DEF G
  <2> QED  BY <1>1, SubsetInduction
<1>3. S \in G  BY <1>2, Zenon
<1> QED  BY <1>3

\* Sums are monotonic.
LEMMA SumLeq ==
  ASSUME NEW S, IsFiniteSet(S), NEW f, NEW g,
         \A x \in S : f[x] \in Int /\ g[x] \in Int /\ f[x] <= g[x]
  PROVE  SumOver(f, S) <= SumOver(g, S)
<1> DEFINE d == [x \in S |-> g[x] - f[x]]
<1>1. \A x \in S : f[x] \in Int /\ d[x] \in Int /\ g[x] = f[x] + d[x]  OBVIOUS
<1>2. \A x \in S : d[x] \in Nat  OBVIOUS
<1> HIDE DEF d
<1>3. SumOver(g, S) = SumOver(f, S) + SumOver(d, S)  BY <1>1, SumPlus
<1>4. SumOver(f, S) \in Int /\ SumOver(d, S) \in Nat  BY <1>2, SumInt, SumNat
<1> QED  BY <1>3, <1>4

\* The effect of a change at one point.
LEMMA SumChange ==
  ASSUME NEW S, IsFiniteSet(S), NEW f, NEW g, NEW x \in S,
         \A y \in S : f[y] \in Int, g[x] \in Int,
         \A y \in S : y # x => g[y] = f[y]
  PROVE  SumOver(g, S) = SumOver(f, S) + (g[x] - f[x])
<1>1. \A y \in S : g[y] \in Int  OBVIOUS
<1>2. /\ SumOver(f, S) = f[x] + SumOver(f, S \ {x})
      /\ SumOver(g, S) = g[x] + SumOver(g, S \ {x})
  BY <1>1, SumSplit
<1>3. IsFiniteSet(S \ {x})  BY FS_RemoveElement
<1>4. SumOver(g, S \ {x}) = SumOver(f, S \ {x})  BY <1>3, SumSame
<1>5. SumOver(f, S \ {x}) \in Int  BY <1>3, SumInt
<1>6. f[x] \in Int /\ g[x] \in Int  OBVIOUS
<1> QED  BY <1>2, <1>4, <1>5, <1>6

\* What goes from one account to another stays in the total.
LEMMA SumTransfer ==
  ASSUME NEW S, IsFiniteSet(S), NEW f, NEW g, NEW x \in S, NEW y \in S, x # y,
         \A z \in S : f[z] \in Int /\ g[z] \in Int,
         \A z \in S : z # x /\ z # y => g[z] = f[z],
         g[x] + g[y] = f[x] + f[y]
  PROVE  SumOver(g, S) = SumOver(f, S)
<1> DEFINE h == [z \in S |-> IF z = x THEN g[x] ELSE f[z]]
<1>1. /\ \A z \in S : h[z] \in Int /\ (z # x => h[z] = f[z])
                                   /\ (z # y => g[z] = h[z])
      /\ h[x] = g[x] /\ h[y] = f[y]
  OBVIOUS
<1> HIDE DEF h
<1>2. SumOver(h, S) = SumOver(f, S) + (h[x] - f[x])  BY <1>1, SumChange
<1>3. SumOver(g, S) = SumOver(h, S) + (g[y] - h[y])  BY <1>1, SumChange
<1>4. /\ f[x] \in Int /\ f[y] \in Int /\ g[x] \in Int /\ g[y] \in Int
      /\ SumOver(f, S) \in Int
  BY SumInt
<1> QED  BY <1>1, <1>2, <1>3, <1>4

\* Elements at which the function is zero do not count.
LEMMA SumOutside ==
  ASSUME NEW S, IsFiniteSet(S), NEW f, NEW T \in SUBSET S,
         \A x \in S : f[x] \in Int, \A x \in S \ T : f[x] = 0
  PROVE  SumOver(f, S) = SumOver(f, T)
<1> DEFINE G == {R \in SUBSET (S \ T) : SumOver(f, T \cup R) = SumOver(f, T)}
<1>1. \A R \in SUBSET S : IsFiniteSet(R) /\ SumOver(f, R) \in Int
  BY FS_Subset, SumInt
<1>2. ASSUME NEW R \in SUBSET (S \ T), \A x \in R : R \ {x} \in G PROVE R \in G
  <2>1. CASE R = {}
    <3>1. T \cup R = T  BY <2>1
    <3> QED  BY <3>1
  <2>2. CASE R # {}
    <3>1. PICK x \in R : TRUE  BY <2>2
    <3>2. /\ (T \cup R) \ {x} = T \cup (R \ {x})
          /\ x \in T \cup R /\ T \cup R \in SUBSET S
          /\ \A z \in T \cup R : f[z] \in Int
      OBVIOUS
    <3>3. SumOver(f, T \cup R) = f[x] + SumOver(f, (T \cup R) \ {x})
      BY <1>1, <3>2, SumSplit
    <3>4. f[x] = 0 /\ SumOver(f, T \cup (R \ {x})) = SumOver(f, T)
      BY <1>2
    <3>5. SumOver(f, T) \in Int  BY <1>1
    <3>6. SumOver(f, T \cup R) = f[x] + SumOver(f, T \cup (R \ {x}))
      <4> HIDE DEF G
      <4> QED  BY <3>2, <3>3, Zenon
    <3>7. SumOver(f, T \cup R) = SumOver(f, T)  BY <3>4, <3>5, <3>6
    <3> QED  BY <3>7
  <2> QED  BY <2>1, <2>2
<1>3. IsFiniteSet(S \ T)  BY <1>1
<1>4. \A R \in SUBSET (S \ T) : R \in G
  <2> HIDE DEF G
  <2> QED  BY <1>2, <1>3, SubsetInduction
<1>5. S \ T \in G  BY <1>4, Zenon
<1>6. T \cup (S \ T) = S  OBVIOUS
<1> QED  BY <1>5, <1>6

\* A common factor of all terms.
LEMMA SumScale ==
  ASSUME NEW S, IsFiniteSet(S), NEW f, NEW g, NEW c \in Int,
         \A x \in S : f[x] \in Int /\ g[x] = c * f[x]
  PROVE  SumOver(g, S) = c * SumOver(f, S)
<1> DEFINE G == {T \in SUBSET S : SumOver(g, T) = c * SumOver(f, T)}
<1>1. ASSUME NEW T \in SUBSET S, \A x \in T : T \ {x} \in G PROVE T \in G
  <2>1. CASE T = {}
    <3>1. c * 0 = 0  OBVIOUS
    <3> QED  BY <2>1, <3>1, SumEmpty
  <2>2. CASE T # {}
    <3>1. \A R \in SUBSET S : IsFiniteSet(R) /\ SumOver(f, R) \in Int
      BY FS_Subset, SumInt
    <3>2. PICK x \in T : SumOver(g, T) = g[x] + SumOver(g, T \ {x})
      BY <2>2, <3>1, SumFirst
    <3>3. SumOver(f, T) = f[x] + SumOver(f, T \ {x})  BY <3>1, SumSplit
    <3>4. SumOver(g, T \ {x}) = c * SumOver(f, T \ {x})  BY <1>1
    <3>5. f[x] \in Int /\ g[x] = c * f[x] /\ SumOver(f, T \ {x}) \in Int  BY <3>1
    <3> DEFINE y == f[x]  z == SumOver(f, T \ {x})
    <3>6. c * (y + z) = c * y + c * z  BY <3>5
    <3> QED  BY <3>2, <3>3, <3>4, <3>5, <3>6
  <2> QED  BY <2>1, <2>2
<1>2. \A T \in SUBSET S : T \in G
  <2> HIDE DEF G
  <2> QED  BY <1>1, SubsetInduction
<1>3. S \in G  BY <1>2, Zenon
<1> QED  BY <1>3

\* A table that changes in one row changes its total by what the row changes.
LEMMA SumRow ==
  ASSUME NEW P, NEW U, IsFiniteSet(P), IsFiniteSet(U), NEW p \in P,
         NEW f, NEW g, NEW frow, NEW grow,
         \A x \in P \X U : f[x] \in Int /\ g[x] \in Int,
         \A x \in P \X U : x[1] # p => g[x] = f[x],
         \A u \in U : frow[u] = f[<<p, u>>] /\ grow[u] = g[<<p, u>>]
  PROVE  SumOver(g, P \X U) - SumOver(f, P \X U) = SumOver(grow, U) - SumOver(frow, U)
<1> DEFINE S == P \X U
           Mixed(T) == [x \in S |-> IF x[1] = p /\ x[2] \in T THEN g[x] ELSE f[x]]
           G == {T \in SUBSET U : SumOver(Mixed(T), S) - SumOver(f, S)
                                    = SumOver(grow, T) - SumOver(frow, T)}
<1>1. IsFiniteSet(S)  BY FS_Product
<1>2. \A T : \A x \in S : Mixed(T)[x] \in Int  OBVIOUS
<1>3. \A u \in U : frow[u] \in Int /\ grow[u] \in Int  OBVIOUS
<1>4. \A T \in SUBSET U : /\ IsFiniteSet(T) /\ SumOver(frow, T) \in Int
                          /\ SumOver(grow, T) \in Int /\ SumOver(Mixed(T), S) \in Int
                          /\ SumOver(f, S) \in Int
  <2> TAKE T \in SUBSET U
  <2>1. IsFiniteSet(T)  BY FS_Subset
  <2>2. SumOver(frow, T) \in Int /\ SumOver(grow, T) \in Int  BY <1>3, <2>1, SumInt
  <2>3. \A x \in S : Mixed(T)[x] \in Int /\ f[x] \in Int  BY <1>2
  <2> HIDE DEF Mixed, S
  <2> QED  BY <1>1, <2>1, <2>2, <2>3, SumInt
<1>5. ASSUME NEW T \in SUBSET U, \A u \in T : T \ {u} \in G PROVE T \in G
  <2>1. CASE T = {}
    <3>1. \A x \in S : Mixed(T)[x] = f[x]  BY <2>1
    <3>2. SumOver(Mixed(T), S) = SumOver(f, S)
      <4> HIDE DEF Mixed, S
      <4> QED  BY <1>1, <3>1, SumSame
    <3>3. SumOver(grow, T) = 0 /\ SumOver(frow, T) = 0  BY <2>1, SumEmpty
    <3>4. SumOver(f, S) \in Int  BY <1>4
    <3> HIDE DEF Mixed, S
    <3>5. SumOver(Mixed(T), S) - SumOver(f, S) = SumOver(grow, T) - SumOver(frow, T)
      BY <3>2, <3>3, <3>4
    <3> QED  BY <3>5
  <2>2. CASE T # {}
    <3>1. PICK u \in T : TRUE  BY <2>2
    <3> DEFINE R == T \ {u}  x == <<p, u>>
    <3>2. /\ x \in S /\ \A y \in S : y # x => Mixed(T)[y] = Mixed(R)[y]
          /\ Mixed(T)[x] = grow[u] /\ Mixed(R)[x] = frow[u]
      OBVIOUS
    <3>3. \A y \in S : Mixed(T)[y] \in Int /\ Mixed(R)[y] \in Int  BY <1>2
    <3>4. SumOver(Mixed(T), S) = SumOver(Mixed(R), S) + (Mixed(T)[x] - Mixed(R)[x])
      <4> HIDE DEF Mixed, S, x, R
      <4> QED  BY <1>1, <3>2, <3>3, SumChange
    <3>5. SumOver(grow, T) = grow[u] + SumOver(grow, R) /\ SumOver(frow, T) = frow[u] + SumOver(frow, R)
      BY <1>3, <1>4, SumSplit
    <3>6. R \in SUBSET U /\ R \in G  BY <1>5
    <3>7. SumOver(Mixed(R), S) - SumOver(f, S) = SumOver(grow, R) - SumOver(frow, R)
      BY <3>6
    <3>8. /\ SumOver(Mixed(R), S) \in Int /\ SumOver(f, S) \in Int
          /\ SumOver(grow, R) \in Int /\ SumOver(frow, R) \in Int
          /\ grow[u] \in Int /\ frow[u] \in Int
      BY <1>3, <1>4, <3>6
    <3> HIDE DEF Mixed, S, x, R
    <3>9. SumOver(Mixed(T), S) - SumOver(f, S) = SumOver(grow, T) - SumOver(frow, T)
      BY <3>2, <3>4, <3>5, <3>7, <3>8
    <3> QED  BY <3>9
  <2> QED  BY <2>1, <2>2
<1>6. \A T \in SUBSET U : T \in G
  <2> HIDE DEF G
  <2> QED  BY <1>5, SubsetInduction
<1>7. U \in G  BY <1>6, Zenon
<1>8. \A x \in S : Mixed(U)[x] = g[x]  OBVIOUS
<1>9. SumOver(Mixed(U), S) = SumOver(g, S)
  <2> HIDE DEF Mixed, S
  <2> QED  BY <1>1, <1>8, SumSame
<1>10. SumOver(Mixed(U), S) - SumOver(f, S) = SumOver(grow, U) - SumOver(frow, U)
  BY <1>7
<1> QED  BY <1>9, <1>10

(***************************************************************************)
(* Products and quotients                                                  *)
(***************************************************************************)
\* The product of natural numbers is a natural number.
LEMMA ProductNat ==
    ASSUME NEW x \in Nat, NEW y \in Nat
    PROVE  x * y \in Nat
  OBVIOUS

\* A quotient times the divisor is the dividend but for less than a divisor.
LEMMA QuotientBounds ==
    ASSUME NEW x \in Nat, NEW d \in Nat \ {0}
    PROVE  /\ x \div d \in Nat
           /\ (x \div d) * d <= x
           /\ x < (x \div d) * d + d
<1> DEFINE q == x \div d
<1>1. q \in Nat /\ q * d <= x /\ x < (q + 1) * d  OBVIOUS
<1> HIDE DEF q
<1>2. (q + 1) * d = q * d + d  BY <1>1
<1> QED  BY <1>1, <1>2 DEF q

\* Products grow with their factors.
LEMMA ProductMonotone ==
    ASSUME NEW a \in Nat, NEW x \in Nat, NEW y \in Nat, x <= y
    PROVE  a * x <= a * y
<1>1. PICK z \in Nat : y = x + z
  <2>1. y - x \in Nat /\ y = x + (y - x)  OBVIOUS
  <2> QED  BY <2>1
<1>2. a * y = a * x + a * z  BY <1>1
<1>3. a * x \in Nat /\ a * z \in Nat  BY <1>1, ProductNat
<1> QED  BY <1>2, <1>3

\* A positive factor can be cancelled.
LEMMA ProductCancel ==
    ASSUME NEW x \in Nat, NEW y \in Nat, NEW d \in Nat \ {0}, x * d <= y * d
    PROVE  x <= y
<1>1. SUFFICES ASSUME y + 1 <= x PROVE FALSE  OBVIOUS
<1>2. d * (y + 1) <= d * x  BY <1>1, ProductMonotone
<1>3. d * (y + 1) = y * d + d /\ d * x = x * d  OBVIOUS
<1>4. y * d \in Nat /\ x * d \in Nat  BY ProductNat
<1> QED  BY <1>2, <1>3, <1>4

\* Quotients grow with the dividend.
LEMMA QuotientMonotone ==
  ASSUME NEW x \in Nat, NEW y \in Nat, x <= y, NEW d \in Nat \ {0}
  PROVE  x \div d <= y \div d
<1> DEFINE a == x \div d  b == y \div d
<1>1. a \in Nat /\ b \in Nat /\ a * d <= x /\ y < b * d + d  BY QuotientBounds
<1> HIDE DEF a, b
<1> SUFFICES ASSUME b + 1 <= a PROVE FALSE  BY <1>1 DEF a, b
<1>2. d * (b + 1) <= d * a  BY <1>1, ProductMonotone
<1>3. d * (b + 1) = b * d + d /\ d * a = a * d  BY <1>1
<1>4. a * d \in Nat /\ b * d \in Nat  BY <1>1, ProductNat
<1> QED  BY <1>1, <1>2, <1>3, <1>4
=============================================================================

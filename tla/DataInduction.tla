--------------------------- MODULE DataInduction ----------------------------
(***************************************************************************)
(* Induction over data.  The induction principles of the library take an    *)
(* operator as a parameter, which the provers cannot instantiate; here they *)
(* are stated with sets, which they can, and derived from the fact that     *)
(* < is well founded on Nat.  What the models compute by recursion over a    *)
(* set or a sequence is proved from them.                                   *)
(***************************************************************************)
EXTENDS Integers, SequencesExt, FiniteSetTheorems, WellFoundedInduction, TLAPS

\* A set of naturals that is not empty has a least element.
LEMMA LeastElement ==
  ASSUME NEW T, T \subseteq Nat, T # {}
  PROVE  \E x \in T : \A y \in T : x <= y
<1> DEFINE R == OpToRel(<, Nat)
<1>1. PICK x \in T : \A y \in T : ~ (<<y, x>> \in R)
  BY NatLessThanWellFounded, WFMin, Zenon
<1>2. \A m, n \in Nat : m < n => <<m, n>> \in R
  BY DEF OpToRel
<1> HIDE DEF R
<1>3. ASSUME NEW y \in T PROVE x <= y
  <2>1. x \in Nat /\ y \in Nat
    OBVIOUS
  <2>2. ~(<<y, x>> \in R)
    BY <1>1, Zenon
  <2>3. ~(y < x)
    BY <1>2, <2>1, <2>2, Zenon
  <2> QED
    BY <2>1, <2>3
<1> QED
  BY <1>3, Zenon

\* What holds 0 and with n also n + 1 holds every natural.
LEMMA SetInduction ==
  ASSUME NEW S, 0 \in S, \A n \in Nat : n \in S => n + 1 \in S
  PROVE  Nat \subseteq S
<1> DEFINE T == {n \in Nat : n \notin S}
<1>1. SUFFICES ASSUME T # {} PROVE FALSE
  OBVIOUS
<1>2. PICK x \in T : \A y \in T : x <= y
  BY <1>1, LeastElement
<1>3. x # 0 /\ x - 1 \in Nat
  OBVIOUS
<1>4. x - 1 \notin T
  BY <1>2, <1>3
<1> QED
  BY <1>3, <1>4

\* A set of numbers below a bound has a greatest element, which is its maximum.
LEMMA MaxElement ==
  ASSUME NEW n \in Nat, NEW S, S \subseteq 0..n, S # {}
  PROVE  Max(S) \in S /\ \A y \in S : y <= Max(S)
<1> DEFINE T == {k \in Nat : \A y \in S : y <= k}
<1>1. T \subseteq Nat /\ n \in T
  OBVIOUS
<1>2. PICK k \in T : \A j \in T : k <= j
  BY <1>1, LeastElement
<1>3. k \in Nat /\ \A y \in S : y <= k /\ y \in Nat
  BY <1>2
<1>4. k \in S
  <2>1. SUFFICES ASSUME k \notin S PROVE FALSE
    OBVIOUS
  <2>2. PICK z \in S : TRUE
    OBVIOUS
  <2>3. \A y \in S : y < k
    BY <1>3, <2>1
  <2>4. k - 1 \in T
    BY <1>3, <2>2, <2>3
  <2>5. QED
    BY <1>2, <1>3, <2>4
<1>5. \E x \in S : \A y \in S : x >= y
  BY <1>3, <1>4
<1>6. Max(S) \in S /\ \A y \in S : Max(S) >= y
  BY <1>5 DEF Max
<1>7. QED
  BY <1>3, <1>6

\* A finite set can be put in a sequence.
LEMMA SetInSequence ==
  ASSUME NEW S, IsFiniteSet(S)
  PROVE  Cardinality(S) \in Nat /\ SetToSeq(S) \in [1..Cardinality(S) -> S]
<1>1. Cardinality(S) \in Nat /\ ExistsBijection(1..Cardinality(S), S)
  BY FS_CardinalityType
<1>2. PICK f : f \in Bijection(1..Cardinality(S), S)
  BY <1>1 DEF ExistsBijection
<1>3. f \in [1..Cardinality(S) -> S] /\ IsInjective(f)
  BY <1>2 DEF Bijection, Injection
<1>4. QED
  BY <1>1, <1>3 DEF SetToSeq

\* Induction over the subsets of a finite set.
LEMMA FiniteInduction ==
  ASSUME NEW S, IsFiniteSet(S), NEW P, {} \in P,
         \A T \in SUBSET S : \A x \in S \ T : T \in P => T \cup {x} \in P
  PROVE  S \in P
<1> DEFINE N == {n \in Nat : \A T \in SUBSET S : Cardinality(T) = n => T \in P}
<1>1. \A T \in SUBSET S : IsFiniteSet(T) /\ Cardinality(T) \in Nat
  BY FS_Subset, FS_CardinalityType
<1>2. 0 \in N
  BY <1>1, FS_EmptySet
<1>3. ASSUME NEW n \in Nat, n \in N PROVE n + 1 \in N
  <2> SUFFICES ASSUME NEW T \in SUBSET S, Cardinality(T) = n + 1 PROVE T \in P
    OBVIOUS
  <2>1. PICK x \in T : TRUE
    BY <1>1, FS_EmptySet
  <2>2. Cardinality(T \ {x}) = Cardinality(T) - 1
    BY <1>1, FS_RemoveElement, Zenon
  <2>3. T \ {x} \in P
    <3>1. Cardinality(T \ {x}) = n
      BY <2>2
    <3> QED
      BY <1>3, <3>1
  <2>4. T = (T \ {x}) \cup {x} /\ x \in S \ (T \ {x})
    OBVIOUS
  <2> QED
    BY <2>3, <2>4
<1> HIDE DEF N
<1>4. Nat \subseteq N
  BY <1>2, <1>3, SetInduction
<1> QED
  BY <1>1, <1>4 DEF N

-----------------------------------------------------------------------------
(* Sums: SumFunctionOnSet takes the elements of the set in an order that nobody knows. *)

\* The recursion of SumFunctionOnSet, and a function that satisfies it on the sets in D.
Body(f, g, s) == IF s = {} THEN 0 ELSE LET x == CHOOSE x \in s : TRUE IN f[x] + g[s \ {x}]
SumsOn(f, g, D) == g = [s \in D |-> Body(f, g, s)]
Sums(f, g, S) == SumsOn(f, g, SUBSET S)

\* SumFunctionOnSet is the value at the set of a function that is defined by recursion.
LEMMA SumsOf ==
  ASSUME NEW S, NEW f
  PROVE  SumFunctionOnSet(f, S) = (CHOOSE g : Sums(f, g, S))[S]
BY DEF SumFunctionOnSet, FoldFunctionOnSet, MapThenFoldSet, Body, Sums, SumsOn

\* There is such a function on the subsets of a finite set.
LEMMA SumsExist ==
  ASSUME NEW S, IsFiniteSet(S), NEW f
  PROVE  \E g : Sums(f, g, S)
<1> DEFINE D(n) == {s \in SUBSET S : Cardinality(s) <= n}
           N == {n \in Nat : \E g : SumsOn(f, g, D(n))}
<1>1. \A T \in SUBSET S : IsFiniteSet(T) /\ Cardinality(T) \in Nat
  BY FS_Subset, FS_CardinalityType
<1>2. 0 \in N
  <2>1. \A s \in D(0) : s = {}
    BY <1>1, FS_EmptySet
  <2>2. SumsOn(f, [s \in D(0) |-> 0], D(0))
    BY <2>1 DEF SumsOn, Body
  <2> QED
    BY <2>2
<1>3. ASSUME NEW n \in Nat, n \in N PROVE n + 1 \in N
  <2>1. PICK g : SumsOn(f, g, D(n))
    BY <1>3
  <2> DEFINE h == [s \in D(n + 1) |-> Body(f, g, s)]
  <2>2. ASSUME NEW s \in D(n + 1) PROVE Body(f, h, s) = Body(f, g, s)
    <3>1. CASE s = {}
      BY <3>1 DEF Body
    <3>2. CASE s # {}
      <4> DEFINE x == CHOOSE x \in s : TRUE
      <4>1. x \in s
        BY <3>2
      <4>2. Cardinality(s \ {x}) = Cardinality(s) - 1
        BY <1>1, <4>1, FS_RemoveElement
      <4>3. s \ {x} \in D(n) /\ s \ {x} \in D(n + 1)
        BY <1>1, <4>2
      <4>4. h[s \ {x}] = g[s \ {x}]
        BY <2>1, <4>3 DEF SumsOn
      <4> QED
        BY <3>2, <4>4 DEF Body
    <3> QED
      BY <3>1, <3>2
  <2>3. SumsOn(f, h, D(n + 1))
    BY <2>2 DEF SumsOn
  <2>4. \E k : SumsOn(f, k, D(n + 1))
    BY <2>3, Zenon
  <2> HIDE DEF D, h
  <2> QED
    BY <2>4
<1>4. Cardinality(S) \in N
  <2> HIDE DEF N
  <2> QED
    BY <1>1, <1>2, <1>3, SetInduction
<1>5. D(Cardinality(S)) = SUBSET S
  BY <1>1, FS_Subset
<1> QED
  BY <1>4, <1>5 DEF Sums

\* Two such functions, one for each of two maps, agree where the maps do.
LEMMA SumsAgree ==
  ASSUME NEW S, IsFiniteSet(S), NEW T \in SUBSET S, NEW f, NEW e, NEW g, NEW h,
         \A x \in T : f[x] = e[x],
         Sums(f, g, S), Sums(e, h, T)
  PROVE  g[T] = h[T]
<1> DEFINE N == {n \in Nat : \A s \in SUBSET T : Cardinality(s) <= n => g[s] = h[s]}
<1>1. \A s \in SUBSET T : IsFiniteSet(s) /\ Cardinality(s) \in Nat
  BY FS_Subset, FS_CardinalityType
<1>2. \A s \in SUBSET T : g[s] = Body(f, g, s) /\ h[s] = Body(e, h, s)
  BY DEF Sums, SumsOn
<1>3. 0 \in N
  <2>1. \A s \in SUBSET T : Cardinality(s) <= 0 => s = {}
    BY <1>1, FS_EmptySet
  <2>2. {} \in SUBSET T
    OBVIOUS
  <2>3. g[{}] = 0 /\ h[{}] = 0
    BY <1>2, <2>2 DEF Body
  <2> QED
    BY <2>1, <2>3
<1>4. ASSUME NEW n \in Nat, n \in N PROVE n + 1 \in N
  <2> SUFFICES ASSUME NEW s \in SUBSET T, Cardinality(s) <= n + 1 PROVE g[s] = h[s]
    OBVIOUS
  <2>1. CASE s = {}
    BY <1>2, <2>1 DEF Body
  <2>2. CASE s # {}
    <3> DEFINE x == CHOOSE x \in s : TRUE
    <3>1. x \in s
      BY <2>2
    <3> HIDE DEF x
    <3>2. Cardinality(s \ {x}) = Cardinality(s) - 1 /\ s \ {x} \in SUBSET T
      BY <1>1, <3>1, FS_RemoveElement, Zenon
    <3>3. g[s \ {x}] = h[s \ {x}]
      BY <1>1, <1>4, <3>2
    <3> QED
      BY <1>2, <2>2, <3>1, <3>3 DEF Body, x
  <2> QED
    BY <2>1, <2>2
<1>5. Cardinality(T) \in N
  <2> HIDE DEF N
  <2> QED
    BY <1>1, <1>3, <1>4, SetInduction
<1> QED
  BY <1>1, <1>5

\* Such a function on fewer subsets has the same values.
LEMMA SumsRestrict ==
  ASSUME NEW S, IsFiniteSet(S), NEW T \in SUBSET S, NEW f, NEW g, NEW h,
         Sums(f, g, S), Sums(f, h, T)
  PROVE  g[T] = h[T]
<1>1. ASSUME NEW e, \A x \in T : f[x] = e[x], Sums(e, h, T)
      PROVE  g[T] = h[T]
  BY <1>1, SumsAgree
<1> QED
  BY <1>1

\* The sum depends on the values at the elements of the set only.
LEMMA SumCongruence ==
  ASSUME NEW S, IsFiniteSet(S), NEW f, NEW e, \A x \in S : f[x] = e[x]
  PROVE  SumFunctionOnSet(f, S) = SumFunctionOnSet(e, S)
<1> DEFINE g == CHOOSE g : Sums(f, g, S)
           h == CHOOSE h : Sums(e, h, S)
<1>1. Sums(f, g, S) /\ Sums(e, h, S)
  BY SumsExist
<1> HIDE DEF g, h
<1>2. g[S] = h[S]
  BY <1>1, SumsAgree
<1> QED
  BY <1>2, SumsOf DEF g, h

\* The sum over the empty set.
LEMMA SumEmpty ==
  ASSUME NEW f
  PROVE  SumFunctionOnSet(f, {}) = 0
<1> DEFINE g == CHOOSE g : Sums(f, g, {})
<1>1. Sums(f, g, {})
  BY SumsExist, FS_EmptySet
<1> HIDE DEF g
<1>2. g[{}] = 0
  BY <1>1 DEF Sums, SumsOn, Body
<1> QED
  BY <1>2, SumsOf DEF g

\* The sum is that of the element it takes first and of the others.
LEMMA SumOfChosen ==
  ASSUME NEW S, IsFiniteSet(S), S # {}, NEW f
  PROVE  LET x == CHOOSE x \in S : TRUE
         IN  SumFunctionOnSet(f, S) = f[x] + SumFunctionOnSet(f, S \ {x})
<1> DEFINE c == CHOOSE x \in S : TRUE
           g == CHOOSE g : Sums(f, g, S)
           h == CHOOSE h : Sums(f, h, S \ {c})
<1>1. c \in S
  OBVIOUS
<1>2. IsFiniteSet(S \ {c})
  BY FS_Subset
<1>3. Sums(f, g, S) /\ Sums(f, h, S \ {c})
  BY <1>2, SumsExist
<1>4. SumFunctionOnSet(f, S) = g[S] /\ SumFunctionOnSet(f, S \ {c}) = h[S \ {c}]
  BY SumsOf
<1> HIDE DEF g, h
<1>5. g[S \ {c}] = h[S \ {c}]
  <2> HIDE DEF c
  <2> QED
    BY <1>3, SumsRestrict, S \ {c} \in SUBSET S
<1>6. g[S] = f[c] + g[S \ {c}]
  BY <1>3 DEF Sums, SumsOn, Body
<1> QED
  BY <1>4, <1>5, <1>6

\* Whatever the order is, each element can be the last one to be added.
LEMMA SumOfElement ==
  ASSUME NEW S, IsFiniteSet(S), NEW f, \A x \in S : f[x] \in Int
  PROVE  /\ SumFunctionOnSet(f, S) \in Int
         /\ \A x \in S : SumFunctionOnSet(f, S) = f[x] + SumFunctionOnSet(f, S \ {x})
<1> DEFINE Sum(T) == SumFunctionOnSet(f, T)
           Good(T) == Sum(T) \in Int /\ \A x \in T : Sum(T) = f[x] + Sum(T \ {x})
           N == {n \in Nat : \A T \in SUBSET S : Cardinality(T) <= n => Good(T)}
<1>1. \A T \in SUBSET S : IsFiniteSet(T) /\ Cardinality(T) \in Nat
  BY FS_Subset, FS_CardinalityType
<1>2. Good({})
  BY SumEmpty
<1>3. 0 \in N
  BY <1>1, <1>2, FS_EmptySet
<1>4. ASSUME NEW n \in Nat, n \in N PROVE n + 1 \in N
  <2> SUFFICES ASSUME NEW T \in SUBSET S, Cardinality(T) <= n + 1 PROVE Good(T)
    OBVIOUS
  <2>1. CASE T = {}
    BY <1>2, <2>1
  <2>2. CASE T # {}
    <3> DEFINE y == CHOOSE y \in T : TRUE
    <3>1. y \in T
      BY <2>2
    <3>2. Sum(T) = f[y] + Sum(T \ {y})
      BY <1>1, <2>2, SumOfChosen
    <3> HIDE DEF y
    <3>3. ASSUME NEW x \in T PROVE Good(T \ {x})
      <4>1. Cardinality(T \ {x}) <= n
        BY <1>1, <3>3, FS_RemoveElement
      <4> QED
        BY <1>4, <4>1, Zenon
    <3> HIDE DEF Sum
    <3>4. Sum(T) \in Int
      BY <3>1, <3>2, <3>3
    <3>5. ASSUME NEW x \in T, x # y PROVE Sum(T) = f[x] + Sum(T \ {x})
      <4>1. (T \ {x}) \ {y} = (T \ {y}) \ {x}
        OBVIOUS
      <4>2. Sum(T \ {y}) = f[x] + Sum((T \ {y}) \ {x}) /\ x \in T \ {y}
        BY <3>1, <3>3, <3>5
      <4>3. Sum(T \ {x}) = f[y] + Sum((T \ {y}) \ {x}) /\ y \in T \ {x}
        BY <3>1, <3>3, <3>5, <4>1
      <4>4. Sum((T \ {y}) \ {x}) \in Int
        <5>1. Cardinality(T \ {x}) <= n /\ T \ {x} \in SUBSET S
          BY <1>1, FS_RemoveElement
        <5>2. Cardinality((T \ {x}) \ {y}) <= n
          <6>1. y \in T \ {x}
            BY <3>1, <3>5
          <6>2. Cardinality((T \ {x}) \ {y}) = Cardinality(T \ {x}) - 1
            BY <1>1, <5>1, <6>1, FS_RemoveElement, Zenon
          <6> QED
            BY <1>1, <5>1, <6>2
        <5>3. Good((T \ {x}) \ {y})
          BY <1>4, <5>2, Zenon
        <5> QED
          BY <4>1, <5>3
      <4> QED
        BY <3>1, <3>2, <4>2, <4>3, <4>4
    <3> QED
      BY <3>2, <3>4, <3>5
  <2> QED
    BY <2>1, <2>2
<1>5. Cardinality(S) \in N
  <2> HIDE DEF N
  <2> QED
    BY <1>1, <1>3, <1>4, SetInduction
<1>6. Good(S)
  BY <1>1, <1>5
<1> QED
  BY <1>6

\* A set that gets an element.
LEMMA SumAdd ==
  ASSUME NEW S, IsFiniteSet(S), NEW f, NEW y, y \notin S, \A x \in S \cup {y} : f[x] \in Int
  PROVE  SumFunctionOnSet(f, S \cup {y}) = SumFunctionOnSet(f, S) + f[y]
<1>1. IsFiniteSet(S \cup {y}) /\ (S \cup {y}) \ {y} = S
  BY FS_AddElement
<1>2. SumFunctionOnSet(f, S) \in Int
  BY SumOfElement
<1> QED
  BY <1>1, <1>2, SumOfElement

\* A function that changes at one element changes the sum by as much.
LEMMA SumChange ==
  ASSUME NEW S, IsFiniteSet(S), NEW f, NEW e, NEW y \in S,
         \A x \in S : f[x] \in Int /\ e[x] \in Int,
         \A x \in S \ {y} : f[x] = e[x]
  PROVE  SumFunctionOnSet(e, S) = SumFunctionOnSet(f, S) + e[y] - f[y]
<1>1. IsFiniteSet(S \ {y})
  BY FS_Subset
<1>2. SumFunctionOnSet(e, S \ {y}) = SumFunctionOnSet(f, S \ {y})
  BY <1>1, SumCongruence
<1>3. SumFunctionOnSet(f, S \ {y}) \in Int
  BY <1>1, SumOfElement
<1> QED
  BY <1>2, <1>3, SumOfElement

\* A sum of naturals is a natural.
LEMMA SumOfNaturals ==
  ASSUME NEW S, IsFiniteSet(S), NEW f, \A x \in S : f[x] \in Nat
  PROVE  SumFunctionOnSet(f, S) \in Nat
<1>1. PICK P : P = {T \in SUBSET S : SumFunctionOnSet(f, T) \in Nat}
  OBVIOUS
<1>2. {} \in P
  BY <1>1, SumEmpty
<1>3. ASSUME NEW T \in SUBSET S, NEW x \in S \ T, T \in P PROVE T \cup {x} \in P
  <2>1. IsFiniteSet(T) /\ x \notin T /\ \A y \in T \cup {x} : f[y] \in Int
    BY FS_Subset
  <2>2. SumFunctionOnSet(f, T \cup {x}) = SumFunctionOnSet(f, T) + f[x]
    BY <2>1, SumAdd
  <2>3. SumFunctionOnSet(f, T) \in Nat /\ f[x] \in Nat
    BY <1>1, <1>3
  <2>4. SumFunctionOnSet(f, T \cup {x}) \in Nat
    BY <2>2, <2>3
  <2>5. QED
    BY <1>1, <2>4
<1>4. S \in P
  BY <1>2, <1>3, FiniteInduction
<1>5. QED
  BY <1>1, <1>4
=============================================================================

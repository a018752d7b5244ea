----------------------------- MODULE DataTheorems ----------------------------
(***************************************************************************)
(* What the proofs need to know of data: sums of integers over finite      *)
(* sets, as the folds of the community modules compute them, and walks     *)
(* along linked lists.                                                     *)
(*                                                                         *)
(* An induction is made by looking at the smallest counterexample: that    *)
(* every nonempty set of naturals has a least element follows from WFMin,  *)
(* which is about a set and not about a predicate.                         *)
(***************************************************************************)
EXTENDS FiniteSetsExt, Sequences, FiniteSetTheorems, WellFoundedInduction, TLAPS

\* A nonempty set of naturals has a least element.
LEMMA LeastNat ==
  ASSUME NEW T, T \subseteq Nat, T # {}
  PROVE  \E n \in T : \A m \in T : n <= m
<1>1. PICK n \in T : \A m \in T : ~ (<<m, n>> \in OpToRel(<, Nat))
  BY NatLessThanWellFounded, WFMin
<1>2. \A m \in T : <<m, n>> \in OpToRel(<, Nat) <=> m < n
  BY DEF OpToRel
<1>3. \A m \in T : ~(m < n)
  BY <1>1, <1>2, Zenon
<1> QED
  BY <1>3

\* A nonempty set of subsets of a finite set has a member of which no
\* element can be taken away.
LEMMA SmallestSubset ==
  ASSUME NEW S, IsFiniteSet(S), NEW B, B \subseteq SUBSET S, B # {}
  PROVE  \E s \in B : IsFiniteSet(s) /\ \A x \in s : s \ {x} \notin B
<1>1. \A s \in SUBSET S : IsFiniteSet(s) /\ Cardinality(s) \in Nat
  BY FS_Subset, FS_CardinalityType
<1> DEFINE T == {Cardinality(s) : s \in B}
<1>2. T \subseteq Nat /\ T # {}
  BY <1>1
<1>3. PICK n \in T : \A m \in T : n <= m
  <2> HIDE DEF T
  <2> QED
    BY <1>2, LeastNat
<1>4. PICK s \in B : Cardinality(s) = n
  BY <1>3
<1>5. ASSUME NEW x \in s, s \ {x} \in B
      PROVE  FALSE
  <2>1. Cardinality(s \ {x}) = Cardinality(s) - 1
    BY <1>1, FS_RemoveElement
  <2>2. n <= Cardinality(s \ {x})
    BY <1>3, <1>5
  <2> QED
    BY <1>1, <1>4, <2>1, <2>2
<1> QED
  BY <1>1, <1>5

-----------------------------------------------------------------------------
(* Sums. *)

\* The element with which the folds go on.
First(s) == CHOOSE x \in s : TRUE

\* f gives the sum of w over each subset of S, in the order of the folds.
IsSumFcn(f, w, S) ==
  f = [s \in SUBSET S |-> IF s = {} THEN 0 ELSE w[First(s)] + f[s \ {First(s)}]]

SumOver(w, S) == (CHOOSE f : IsSumFcn(f, w, S))[S]

\* The element that a sum takes first is one of the set.
LEMMA FirstIn == ASSUME NEW s, s # {} PROVE First(s) \in s
BY Zenon DEF First

\* There is a function that sums as SumFcn says: otherwise take the smallest set
\* it cannot be extended to.
LEMMA SumFcnExists ==
  ASSUME NEW S, IsFiniteSet(S), NEW w, \A x \in S : w[x] \in Int
  PROVE  \E f : IsSumFcn(f, w, S) /\ f \in [SUBSET S -> Int]
<1> DEFINE Upto(n, f) ==
             \A s \in SUBSET S : Cardinality(s) <= n =>
               f[s] = IF s = {} THEN 0 ELSE w[First(s)] + f[s \ {First(s)}]
           T == {n \in Nat : ~ \E f \in [SUBSET S -> Int] : Upto(n, f)}
<1>1. \A s \in SUBSET S : IsFiniteSet(s) /\ Cardinality(s) \in Nat
  BY FS_Subset, FS_CardinalityType
<1>2. \A s \in SUBSET S : s # {} =>
        First(s) \in s /\ s \ {First(s)} \in SUBSET S
        /\ Cardinality(s \ {First(s)}) = Cardinality(s) - 1
  BY <1>1, FirstIn, FS_RemoveElement
<1>3. T = {}
  <2> SUFFICES ASSUME T # {} PROVE FALSE
    OBVIOUS
  <2>1. PICK n \in T : \A m \in T : n <= m
    <3>1. T \subseteq Nat
      OBVIOUS
    <3> HIDE DEF T
    <3> QED
      BY <3>1, LeastNat
  <2>2. CASE n = 0
    <3> DEFINE f == [s \in SUBSET S |-> 0]
    <3>1. f \in [SUBSET S -> Int]
      OBVIOUS
    <3>2. \A s \in SUBSET S : Cardinality(s) <= 0 => s = {}
      BY <1>1, FS_EmptySet
    <3>3. Upto(n, f)
      BY <2>2, <3>2
    <3> QED
      BY <3>1, <3>3, <2>1
  <2>3. CASE n # 0
    <3>1. n \in Nat
      OBVIOUS
    <3>2. n - 1 \in Nat /\ n - 1 \notin T
      <4> HIDE DEF T
      <4> QED
        BY <2>1, <2>3, <3>1
    <3>3. PICK f \in [SUBSET S -> Int] : Upto(n - 1, f)
      BY <3>2
    <3> DEFINE g == [s \in SUBSET S |->
                       IF s = {} THEN 0 ELSE w[First(s)] + f[s \ {First(s)}]]
    <3>4. g \in [SUBSET S -> Int]
      <4>1. ASSUME NEW s \in SUBSET S, s # {}
            PROVE  w[First(s)] + f[s \ {First(s)}] \in Int
        <5>1. w[First(s)] \in Int
          BY <1>2, <4>1
        <5>2. f[s \ {First(s)}] \in Int
          BY <1>2, <4>1
        <5> QED
          BY <5>1, <5>2
      <4> QED
        BY <4>1
    <3>5. ASSUME NEW s \in SUBSET S, Cardinality(s) <= n, s # {}
          PROVE  g[s] = w[First(s)] + g[s \ {First(s)}]
      <4> DEFINE r == s \ {First(s)}
      <4>1. r \in SUBSET S /\ Cardinality(r) <= n - 1
        BY <1>1, <1>2, <3>1, <3>5
      <4>2. f[r] = g[r]
        BY <3>3, <4>1
      <4> QED
        BY <3>5, <4>2
    <3>6. Upto(n, g)
      BY <3>5
    <3> HIDE DEF g, Upto
    <3> QED
      BY <3>4, <3>6, <2>1
  <2> QED
    BY <2>2, <2>3
<1>4. PICK f \in [SUBSET S -> Int] : Upto(Cardinality(S), f)
  <2>1. Cardinality(S) \in Nat
    BY FS_CardinalityType
  <2> HIDE DEF Upto
  <2> QED
    BY <1>3, <2>1
<1>5. \A s \in SUBSET S : Cardinality(s) <= Cardinality(S)
  BY FS_Subset
<1>6. \A s \in SUBSET S :
        f[s] = IF s = {} THEN 0 ELSE w[First(s)] + f[s \ {First(s)}]
  BY <1>4, <1>5
<1>7. IsSumFcn(f, w, S)
  BY <1>6 DEF IsSumFcn
<1> QED
  BY <1>7

\* The sum over s depends neither on the set of which s is a part, nor on
\* values elsewhere.
LEMMA SumFcnUnique ==
  ASSUME NEW s, IsFiniteSet(s), NEW S, NEW R, s \subseteq S, s \subseteq R,
         NEW w, NEW v, \A x \in s : w[x] = v[x],
         NEW f, IsSumFcn(f, w, S), NEW g, IsSumFcn(g, v, R)
  PROVE  f[s] = g[s]
<1> DEFINE B == {r \in SUBSET s : f[r] # g[r]}
<1> SUFFICES ASSUME B # {} PROVE FALSE
  OBVIOUS
<1>1. PICK r \in B : \A x \in r : r \ {x} \notin B
  <2>1. B \subseteq SUBSET s
    OBVIOUS
  <2> HIDE DEF B
  <2> QED
    BY <2>1, SmallestSubset
<1>2. /\ f[r] = IF r = {} THEN 0 ELSE w[First(r)] + f[r \ {First(r)}]
      /\ g[r] = IF r = {} THEN 0 ELSE v[First(r)] + g[r \ {First(r)}]
  BY DEF IsSumFcn
<1>3. CASE r = {}
  BY <1>1, <1>2, <1>3
<1>4. CASE r # {}
  <2>1. First(r) \in r
    BY <1>4, FirstIn
  <2>2. f[r \ {First(r)}] = g[r \ {First(r)}]
    BY <1>1, <2>1
  <2> QED
    BY <1>1, <1>2, <1>4, <2>1, <2>2
<1> QED
  BY <1>3, <1>4

\* What is known of the sum once its function exists.
LEMMA SumFcnIs ==
  ASSUME NEW S, IsFiniteSet(S), NEW w, \A x \in S : w[x] \in Int,
         NEW f, IsSumFcn(f, w, S)
  PROVE  f[S] = SumOver(w, S)
<1>1. IsSumFcn(CHOOSE g : IsSumFcn(g, w, S), w, S)
  BY Zenon
<1> DEFINE c == CHOOSE g : IsSumFcn(g, w, S)
<1>2. SumOver(w, S) = c[S]
  BY Zenon DEF SumOver
<1> HIDE DEF c
<1>3. IsSumFcn(c, w, S)
  BY <1>1, Zenon DEF c
<1>4. f[S] = c[S]
  BY <1>3, SumFcnUnique
<1> QED
  BY <1>2, <1>4

-----------------------------------------------------------------------------
\* A sum of integers is an integer.
LEMMA SumType ==
  ASSUME NEW S, IsFiniteSet(S), NEW w, \A x \in S : w[x] \in Int
  PROVE  SumOver(w, S) \in Int
<1>1. PICK f : IsSumFcn(f, w, S) /\ f \in [SUBSET S -> Int]
  BY SumFcnExists
<1>2. f[S] \in Int
  BY <1>1
<1> QED
  BY <1>1, <1>2, SumFcnIs

\* The sum over a set depends on the values at its elements only.
THEOREM SumSame ==
  ASSUME NEW S, IsFiniteSet(S), NEW w, \A x \in S : w[x] \in Int,
         NEW v, \A x \in S : v[x] = w[x]
  PROVE  SumOver(v, S) = SumOver(w, S)
<1>1. PICK f : IsSumFcn(f, w, S)
  BY SumFcnExists
<1>2. \A x \in S : v[x] \in Int
  OBVIOUS
<1>3. PICK g : IsSumFcn(g, v, S)
  BY <1>2, SumFcnExists
<1>4. f[S] = g[S]
  BY <1>1, <1>3, SumFcnUnique
<1>5. f[S] = SumOver(w, S)
  BY <1>1, SumFcnIs
<1>6. g[S] = SumOver(v, S)
  BY <1>2, <1>3, SumFcnIs
<1> QED
  BY <1>4, <1>5, <1>6

\* Nothing adds up to 0.
LEMMA SumEmpty == ASSUME NEW w PROVE SumOver(w, {}) = 0
<1>1. IsFiniteSet({}) /\ \A x \in {} : w[x] \in Int
  BY FS_EmptySet
<1>2. PICK f : IsSumFcn(f, w, {})
  BY <1>1, SumFcnExists
<1>3. f[{}] = SumOver(w, {})
  BY <1>1, <1>2, SumFcnIs
<1> QED
  BY <1>2, <1>3 DEF IsSumFcn

\* The equation that SumOver is defined by.
LEMMA SumFirst ==
  ASSUME NEW S, IsFiniteSet(S), NEW w, \A x \in S : w[x] \in Int, S # {}
  PROVE  SumOver(w, S) = w[First(S)] + SumOver(w, S \ {First(S)})
<1> DEFINE R == S \ {First(S)}
<1>1. PICK f : IsSumFcn(f, w, S)
  BY SumFcnExists
<1>2. IsFiniteSet(R) /\ \A x \in R : w[x] \in Int
  BY FS_RemoveElement
<1>3. PICK g : IsSumFcn(g, w, R)
  BY <1>2, SumFcnExists
<1>4. f[R] = g[R]
  <2> HIDE DEF R
  <2>1. R \subseteq S
    BY DEF R
  <2> QED
    BY <1>1, <1>2, <1>3, <2>1, SumFcnUnique
<1>5. g[R] = SumOver(w, R)
  BY <1>2, <1>3, SumFcnIs
<1>6. f[S] = w[First(S)] + f[R]
  BY <1>1 DEF IsSumFcn
<1>7. f[S] = SumOver(w, S)
  BY <1>1, SumFcnIs
<1> QED
  BY <1>4, <1>5, <1>6, <1>7

\* Any element may be the one that is counted last.
THEOREM SumRemove ==
  ASSUME NEW S, IsFiniteSet(S), NEW w, \A x \in S : w[x] \in Int, NEW x \in S
  PROVE  SumOver(w, S) = w[x] + SumOver(w, S \ {x})
<1> DEFINE B == {s \in SUBSET S :
                   \E y \in s : SumOver(w, s) # w[y] + SumOver(w, s \ {y})}
<1> SUFFICES ASSUME B # {} PROVE FALSE
  OBVIOUS
<1>1. PICK s \in B : IsFiniteSet(s) /\ \A z \in s : s \ {z} \notin B
  <2>1. B \subseteq SUBSET S
    OBVIOUS
  <2> HIDE DEF B
  <2> QED
    BY <2>1, SmallestSubset
<1>2. PICK y \in s : SumOver(w, s) # w[y] + SumOver(w, s \ {y})
  OBVIOUS
<1> DEFINE c == First(s)
<1>3. c \in s
  BY FirstIn
<1> HIDE DEF c
<1>4. SumOver(w, s) = w[c] + SumOver(w, s \ {c})
  BY <1>1, <1>2, SumFirst DEF c
<1>5. y # c
  BY <1>2, <1>4
<1>6. SumOver(w, s \ {c}) = w[y] + SumOver(w, (s \ {c}) \ {y})
  BY <1>1, <1>2, <1>3, <1>5
<1>7. SumOver(w, s \ {y}) = w[c] + SumOver(w, (s \ {y}) \ {c})
  BY <1>1, <1>2, <1>3, <1>5
<1>8. (s \ {c}) \ {y} = (s \ {y}) \ {c}
  OBVIOUS
<1>9. /\ SumOver(w, (s \ {c}) \ {y}) \in Int
      /\ w[c] \in Int /\ w[y] \in Int
  <2>1. IsFiniteSet((s \ {c}) \ {y})
    BY <1>1, FS_Subset
  <2> QED
    BY <1>1, <1>2, <1>3, <2>1, SumType
<1> DEFINE d == SumOver(w, (s \ {c}) \ {y})
<1>10. SumOver(w, s \ {c}) = w[y] + d /\ SumOver(w, s \ {y}) = w[c] + d
  BY <1>6, <1>7, <1>8
<1> HIDE DEF B, d
<1>11. d \in Int /\ w[c] \in Int /\ w[y] \in Int
  BY <1>9 DEF d
<1> QED
  BY <1>2, <1>4, <1>10, <1>11

\* The sum over a set with one more element, whichever element SumOver takes
\* first: what cache->size += and -= keep (tiny.c:403, 365, proxy.c:475, 458).
THEOREM SumAdd ==
  ASSUME NEW S, IsFiniteSet(S), NEW w, \A y \in S : w[y] \in Int,
         NEW x, x \notin S, w[x] \in Int
  PROVE  SumOver(w, S \cup {x}) = SumOver(w, S) + w[x]
<1> DEFINE R == S \cup {x}
<1>1. IsFiniteSet(R) /\ (\A y \in R : w[y] \in Int) /\ x \in R
  BY FS_AddElement
<1>2. R \ {x} = S
  OBVIOUS
<1> HIDE DEF R
<1>3. SumOver(w, R) = w[x] + SumOver(w, R \ {x})
  BY <1>1, SumRemove
<1>4. SumOver(w, S) \in Int
  BY SumType
<1>5. SumOver(w, R \ {x}) = SumOver(w, S)
  BY <1>2, Zenon
<1>6. SumOver(w, R) = SumOver(w, S) + w[x]
  BY <1>3, <1>4, <1>5
<1> QED
  BY <1>6 DEF R

\* A sum of naturals is not less than any of them.
THEOREM SumNat ==
  ASSUME NEW S, IsFiniteSet(S), NEW w, \A x \in S : w[x] \in Nat
  PROVE  SumOver(w, S) \in Nat /\ \A x \in S : SumOver(w, S) >= w[x]
<1> DEFINE B == {s \in SUBSET S : SumOver(w, s) \notin Nat}
<1>1. B = {}
  <2> SUFFICES ASSUME B # {} PROVE FALSE
    OBVIOUS
  <2>1. PICK s \in B : IsFiniteSet(s) /\ \A z \in s : s \ {z} \notin B
    <3>1. B \subseteq SUBSET S
      OBVIOUS
    <3> HIDE DEF B
    <3> QED
      BY <3>1, SmallestSubset
  <2>2. CASE s = {}
    BY <2>2, SumEmpty
  <2>3. CASE s # {}
    <3>1. PICK x \in s : TRUE
      BY <2>3
    <3>2. SumOver(w, s \ {x}) \in Nat /\ w[x] \in Nat
      BY <2>1
    <3>3. SumOver(w, s) = w[x] + SumOver(w, s \ {x})
      BY <2>1, SumRemove
    <3> QED
      BY <3>2, <3>3
  <2> QED
    BY <2>2, <2>3
<1>2. ASSUME NEW x \in S
      PROVE  SumOver(w, S) >= w[x]
  <2>1. SumOver(w, S) = w[x] + SumOver(w, S \ {x})
    BY SumRemove
  <2>2. SumOver(w, S \ {x}) \in Nat
    BY <1>1
  <2> QED
    BY <2>1, <2>2
<1> QED
  BY <1>1, <1>2

\* A sum does not change when the elements are renamed by f.
THEOREM SumRenamed ==
  ASSUME NEW S, NEW T, IsFiniteSet(T), NEW f \in [T -> S],
         \A x \in S : \E y \in T : f[y] = x,
         \A y, z \in T : f[y] = f[z] => y = z,
         NEW w, \A x \in S : w[x] \in Int,
         NEW v, \A y \in T : v[y] = w[f[y]]
  PROVE  SumOver(v, T) = SumOver(w, S)
<1> DEFINE Image(t) == {f[y] : y \in t}
           B == {t \in SUBSET T : SumOver(v, t) # SumOver(w, Image(t))}
<1>1. B = {}
  <2> SUFFICES ASSUME B # {} PROVE FALSE
    OBVIOUS
  <2>1. PICK t \in B : IsFiniteSet(t) /\ \A z \in t : t \ {z} \notin B
    <3>1. B \subseteq SUBSET T
      OBVIOUS
    <3> HIDE DEF B
    <3> QED
      BY <3>1, SmallestSubset
  <2>2. CASE t = {}
    <3>1. Image(t) = {}
      BY <2>2
    <3>2. SumOver(v, t) = 0
      BY <2>2, SumEmpty
    <3>3. SumOver(w, Image(t)) = 0
      <4> HIDE DEF Image
      <4> QED
        BY <3>1, SumEmpty
    <3> QED
      BY <3>2, <3>3
  <2>3. CASE t # {}
    <3>1. PICK y \in t : TRUE
      BY <2>3
    <3>2. SumOver(v, t \ {y}) = SumOver(w, Image(t \ {y}))
      BY <2>1
    <3>3. Image(t \ {y}) = Image(t) \ {f[y]} /\ f[y] \in Image(t)
      OBVIOUS
    <3>4. IsFiniteSet(Image(t)) /\ \A x \in Image(t) : w[x] \in Int
      <4>1. f \in [T -> S] /\ t \subseteq T /\ Image(t) \subseteq S
        OBVIOUS
      <4>2. [z \in t |-> f[z]] \in Surjection(t, Image(t))
        BY DEF Surjection
      <4>3. IsFiniteSet(Image(t))
        <5> HIDE DEF Image
        <5> QED
          BY <2>1, <4>2, FS_Surjection
      <4> QED
        BY <4>1, <4>3
    <3>5. SumOver(v, t) = v[y] + SumOver(v, t \ {y})
      <4>1. \A z \in t : v[z] \in Int
        OBVIOUS
      <4> QED
        BY <2>1, <4>1, SumRemove
    <3>6. SumOver(w, Image(t)) = w[f[y]] + SumOver(w, Image(t) \ {f[y]})
      <4> HIDE DEF Image
      <4> QED
        BY <3>3, <3>4, SumRemove
    <3>7. v[y] = w[f[y]]
      OBVIOUS
    <3>8. SumOver(v, t) = SumOver(w, Image(t))
      <4> HIDE DEF Image
      <4> QED
        BY <3>2, <3>3, <3>5, <3>6, <3>7
    <3> QED
      BY <3>8
  <2> QED
    BY <2>2, <2>3
<1>2. Image(T) = S
  OBVIOUS
<1>3. SumOver(v, T) = SumOver(w, Image(T))
  BY <1>1
<1> HIDE DEF Image
<1> QED
  BY <1>2, <1>3

-----------------------------------------------------------------------------
(* Sums over the places of a sequence. *)

\* How many numbers there are from a to b.
LEMMA CountedUp ==
  ASSUME NEW a \in Int, NEW b \in Int, b >= a - 1
  PROVE  IsFiniteSet(a..b) /\ Cardinality(a..b) = b - a + 1
<1>1. /\ IsFiniteSet(a..b)
      /\ Cardinality(a..b) = IF a > b THEN 0 ELSE b-a+1
  BY FS_Interval, Zenon
<1> QED
  BY <1>1

\* The sum without the first place.
LEMMA SumOfTail ==
  ASSUME NEW n \in Nat \ {0}, NEW w, \A i \in 1..n : w[i] \in Int,
         NEW v, \A i \in 1..(n-1) : v[i] = w[i+1]
  PROVE  SumOver(w, 1..n) = w[1] + SumOver(v, 1..(n-1))
<1> DEFINE S == (1..n) \ {1}
           T == 1..(n-1)
           f == [i \in T |-> i + 1]
<1>1. IsFiniteSet(1..n) /\ 1 \in 1..n /\ IsFiniteSet(T)
  BY CountedUp
<1>2. SumOver(w, 1..n) = w[1] + SumOver(w, S)
  BY <1>1, SumRemove
<1>3. f \in [T -> S]
  OBVIOUS
<1>4. \A x \in S : \E y \in T : f[y] = x
  <2> SUFFICES ASSUME NEW x \in S PROVE \E y \in T : f[y] = x
    OBVIOUS
  <2>1. x - 1 \in T /\ f[x-1] = x
    OBVIOUS
  <2> QED
    BY <2>1
<1>5. \A y, z \in T : f[y] = f[z] => y = z
  OBVIOUS
<1>6. \A y \in T : v[y] = w[f[y]]
  OBVIOUS
<1>7. \A x \in S : w[x] \in Int
  OBVIOUS
<1>8. SumOver(v, T) = SumOver(w, S)
  <2> HIDE DEF S, T, f
  <2> QED
    BY <1>1, <1>3, <1>4, <1>5, <1>6, <1>7, SumRenamed
<1> QED
  BY <1>2, <1>8

\* The sum with one more place.
LEMMA SumOfAppend ==
  ASSUME NEW n \in Nat, NEW w, \A i \in 1..n : w[i] \in Int,
         NEW v, \A i \in 1..n : v[i] = w[i], v[n+1] \in Int
  PROVE  SumOver(v, 1..(n+1)) = SumOver(w, 1..n) + v[n+1]
<1> DEFINE T == 1..n
<1>1. IsFiniteSet(T) /\ n + 1 \notin T /\ 1..(n+1) = T \cup {n+1}
  BY CountedUp
<1>2. SumOver(v, T) = SumOver(w, T)
  <2>1. \A i \in T : w[i] \in Int /\ v[i] = w[i]
    OBVIOUS
  <2> HIDE DEF T
  <2> QED
    BY <1>1, <2>1, SumSame
<1>3. SumOver(v, T \cup {n+1}) = SumOver(v, T) + v[n+1]
  <2>1. \A i \in T : v[i] \in Int
    OBVIOUS
  <2> HIDE DEF T
  <2> QED
    BY <1>1, <2>1, SumAdd
<1> QED
  BY <1>1, <1>2, <1>3

\* The sum when place k becomes the last one.
LEMMA SumOfMoved ==
  ASSUME NEW n \in Nat, NEW k \in 1..n, NEW w, \A i \in 1..n : w[i] \in Int,
         NEW v, \A i \in 1..n : v[i] = IF i < k THEN w[i]
                                       ELSE IF i < n THEN w[i+1] ELSE w[k]
  PROVE  SumOver(v, 1..n) = SumOver(w, 1..n)
<1> DEFINE T == 1..n
           f == [i \in T |-> IF i < k THEN i ELSE IF i < n THEN i + 1 ELSE k]
<1>1. IsFiniteSet(T)
  BY CountedUp
<1>2. f \in [T -> T]
  OBVIOUS
<1>3. \A x \in T : \E y \in T : f[y] = x
  <2> SUFFICES ASSUME NEW x \in T PROVE \E y \in T : f[y] = x
    OBVIOUS
  <2> DEFINE y == IF x < k THEN x ELSE IF x = k THEN n ELSE x - 1
  <2>1. y \in T /\ f[y] = x
    OBVIOUS
  <2> QED
    BY <2>1
<1>4. \A y, z \in T : f[y] = f[z] => y = z
  OBVIOUS
<1>5. \A y \in T : v[y] = w[f[y]]
  OBVIOUS
<1>6. \A x \in T : w[x] \in Int
  OBVIOUS
<1> HIDE DEF T, f
<1>7. SumOver(v, T) = SumOver(w, T)
  BY <1>1, <1>2, <1>3, <1>4, <1>5, <1>6, SumRenamed
<1> QED
  BY <1>7 DEF T

\* The elements of the tail of a sequence.
LEMMA TailIs ==
  ASSUME NEW S, NEW c \in Seq(S), c # <<>>
  PROVE  Tail(c) = [i \in 1..(Len(c) - 1) |-> c[i+1]]
<1> DEFINE d == Tail(c)
<1>1. Len(c) \in Nat \ {0}
  OBVIOUS
<1>2. d \in Seq(S) /\ Len(d) = Len(c) - 1
  OBVIOUS
<1>3. d = [i \in 1..Len(d) |-> d[i]]
  <2> HIDE DEF d
  <2> QED
    BY <1>2
<1>4. \A i \in 1..Len(d) : d[i] = c[i+1]
  BY <1>1, <1>2
<1> HIDE DEF d
<1> QED
  BY <1>1, <1>2, <1>3, <1>4 DEF d

-----------------------------------------------------------------------------
(* Walks along a linked list. *)

\* f says where a walk is after i steps, if it starts at s and stays at e.
IsWalkFcn(f, nxt, s, e, N) ==
  f = [i \in 0..N |-> IF i = 0 THEN s
                      ELSE IF f[i-1] = e THEN e ELSE nxt[f[i-1]]]

WalkFcn(nxt, s, e, N) == CHOOSE At : IsWalkFcn(At, nxt, s, e, N)

\* The function by which a walk over next pointers is defined is unique.
LEMMA WalkFcnIs ==
  ASSUME NEW nxt, NEW s, NEW e, NEW N \in Nat, NEW f,
         IsWalkFcn(f, nxt, s, e, N)
  PROVE  WalkFcn(nxt, s, e, N) = f
<1> DEFINE g == WalkFcn(nxt, s, e, N)
<1>1. g = [i \in 0..N |-> IF i = 0 THEN s
                          ELSE IF g[i-1] = e THEN e ELSE nxt[g[i-1]]]
  BY Zenon DEF WalkFcn, IsWalkFcn
<1>2. f = [i \in 0..N |-> IF i = 0 THEN s
                          ELSE IF f[i-1] = e THEN e ELSE nxt[f[i-1]]]
  BY DEF IsWalkFcn
<1> HIDE DEF g
<1> DEFINE T == {i \in 0..N : g[i] # f[i]}
<1>3. T = {}
  <2> SUFFICES ASSUME T # {} PROVE FALSE
    OBVIOUS
  <2>1. PICK i \in T : \A j \in T : i <= j
    <3>1. T \subseteq Nat
      OBVIOUS
    <3> HIDE DEF T
    <3> QED
      BY <3>1, LeastNat
  <2>2. i # 0
    BY <1>1, <1>2
  <2>3. i - 1 \in 0..N /\ g[i-1] = f[i-1]
    <3>1. i \in 0..N
      OBVIOUS
    <3>2. i - 1 \in 0..N
      BY <2>2, <3>1
    <3>3. i - 1 \notin T
      <4> HIDE DEF T
      <4> QED
        BY <2>1, <3>1
    <3> QED
      BY <3>2, <3>3
  <2>4. g[i] = f[i]
    <3>1. i \in 0..N
      OBVIOUS
    <3>2. g[i] = IF g[i-1] = e THEN e ELSE nxt[g[i-1]]
      BY <1>1, <2>2, <3>1
    <3>3. f[i] = IF f[i-1] = e THEN e ELSE nxt[f[i-1]]
      BY <1>2, <2>2, <3>1
    <3> QED
      BY <2>3, <3>2, <3>3
  <2> QED
    BY <2>4
<1>4. \A i \in 0..N : g[i] = f[i]
  BY <1>3
<1>5. g = [i \in 0..N |-> g[i]] /\ f = [i \in 0..N |-> f[i]]
  BY <1>1, <1>2
<1>6. g = f
  BY <1>4, <1>5
<1> QED
  BY <1>6 DEF g

\* c is what a walk from s to e meets, e left out, and nothing comes twice.
IsWalk(c, nxt, s, e) ==
  /\ s = IF c = <<>> THEN e ELSE c[1]
  /\ \A i \in DOMAIN c :
       c[i] # e /\ nxt[c[i]] = IF i = Len(c) THEN e ELSE c[i + 1]
  /\ \A i, j \in DOMAIN c : c[i] = c[j] => i = j

\* A sequence without repetitions is no longer than the set it is from.
LEMMA LengthBounded ==
  ASSUME NEW S, IsFiniteSet(S), NEW c \in Seq(S),
         \A i, j \in DOMAIN c : c[i] = c[j] => i = j
  PROVE  Len(c) <= Cardinality(S)
<1>1. IsFiniteSet(1..Len(c)) /\ Cardinality(1..Len(c)) = Len(c)
  <2>1. 1 \in Int /\ Len(c) \in Int /\ Len(c) >= 0
    OBVIOUS
  <2> QED
    BY <2>1, CountedUp
<1>2. c \in [1..Len(c) -> S] /\ DOMAIN c = 1..Len(c)
  OBVIOUS
<1>3. c \in Injection(1..Len(c), S)
  BY <1>2 DEF Injection, IsInjective
<1> QED
  BY <1>1, <1>3, FS_Injection

\* The list from s to e, and the list behind s, over at most N nodes.
ListFrom(nxt, s, e, N) ==
  [i \in 1..Cardinality({j \in 0..N : WalkFcn(nxt, s, e, N)[j] # e}) |->
     WalkFcn(nxt, s, e, N)[i-1]]

ListBehind(nxt, s, e, N) ==
  [i \in 1..Cardinality({j \in 1..N : WalkFcn(nxt, s, e, N)[j] # e}) |->
     WalkFcn(nxt, s, e, N)[i]]

\* A list that starts at s is what the walk from s meets.
THEOREM WalkFromStart ==
  ASSUME NEW S, IsFiniteSet(S), NEW c \in Seq(S), NEW nxt, NEW s, NEW e,
         IsWalk(c, nxt, s, e)
  PROVE  ListFrom(nxt, s, e, Cardinality(S)) = c
<1> DEFINE N == Cardinality(S)
           n == Len(c)
           f == [i \in 0..N |-> IF i < n THEN c[i+1] ELSE e]
           At == WalkFcn(nxt, s, e, N)
<1>1. N \in Nat /\ n \in Nat /\ n <= N
  BY FS_CardinalityType, LengthBounded DEF IsWalk
<1>2. DOMAIN c = 1..n
  OBVIOUS
<1>3. ASSUME NEW i \in 0..N
      PROVE  f[i] = IF i = 0 THEN s
                    ELSE IF f[i-1] = e THEN e ELSE nxt[f[i-1]]
  <2>1. CASE i = 0
    BY <1>1, <1>2, <2>1 DEF IsWalk
  <2>2. CASE i # 0 /\ i <= n
    BY <1>1, <1>2, <2>2 DEF IsWalk
  <2>3. CASE i > n
    BY <1>1, <2>3
  <2> QED
    BY <1>1, <2>1, <2>2, <2>3
<1>4. At = f
  <2>1. IsWalkFcn(f, nxt, s, e, N)
    BY <1>3 DEF IsWalkFcn
  <2>2. N \in Nat
    BY <1>1
  <2> HIDE DEF f, N
  <2> QED
    BY <2>1, <2>2, WalkFcnIs DEF At
<1>5. {j \in 0..N : f[j] # e} = 0..(n-1)
  BY <1>1, <1>2 DEF IsWalk
<1>6. Cardinality(0..(n-1)) = n
  <2> HIDE DEF n
  <2>1. 0 \in Int /\ n - 1 \in Int /\ n - 1 >= 0 - 1 /\ (n - 1) - 0 + 1 = n
    BY <1>1
  <2> QED
    BY <2>1, CountedUp
<1>7. c = [i \in 1..n |-> f[i-1]]
  BY <1>1, <1>2
<1> HIDE DEF f, At, N
<1>8. c = [i \in 1..Cardinality({j \in 0..N : At[j] # e}) |-> At[i-1]]
  BY <1>4, <1>5, <1>6, <1>7
<1> QED
  BY <1>8, Zenon DEF ListFrom, At, N

\* A list that hangs behind the node d is what the walk from d meets next.
THEOREM WalkFromDummy ==
  ASSUME NEW S, IsFiniteSet(S), NEW d, NEW c \in Seq(S \ {d}), NEW nxt, NEW e,
         d # e, IsWalk(c, nxt, nxt[d], e)
  PROVE  ListBehind(nxt, d, e, Cardinality(S)) = c
<1> DEFINE N == Cardinality(S)
           n == Len(c)
           f == [i \in 0..N |-> IF i = 0 THEN d ELSE IF i <= n THEN c[i] ELSE e]
           At == WalkFcn(nxt, d, e, N)
<1>1. N \in Nat /\ n \in Nat /\ n <= N
  <2>1. c \in Seq(S)
    OBVIOUS
  <2> QED
    BY <2>1, FS_CardinalityType, LengthBounded DEF IsWalk
<1>2. DOMAIN c = 1..n
  OBVIOUS
<1>3. ASSUME NEW i \in 0..N
      PROVE  f[i] = IF i = 0 THEN d
                    ELSE IF f[i-1] = e THEN e ELSE nxt[f[i-1]]
  <2>1. CASE i = 0
    BY <1>1, <2>1
  <2>2. CASE i = 1
    BY <1>1, <1>2, <2>2 DEF IsWalk
  <2>3. CASE i > 1 /\ i <= n + 1
    BY <1>1, <1>2, <2>3 DEF IsWalk
  <2>4. CASE i > n + 1
    BY <1>1, <2>4
  <2> QED
    BY <1>1, <2>1, <2>2, <2>3, <2>4
<1>4. At = f
  <2>1. IsWalkFcn(f, nxt, d, e, N)
    BY <1>3 DEF IsWalkFcn
  <2>2. N \in Nat
    BY <1>1
  <2> HIDE DEF f, N
  <2> QED
    BY <2>1, <2>2, WalkFcnIs DEF At
<1>5. {j \in 1..N : f[j] # e} = 1..n
  BY <1>1, <1>2 DEF IsWalk
<1>6. Cardinality(1..n) = n
  <2> HIDE DEF n
  <2>1. 1 \in Int /\ n \in Int /\ n >= 1 - 1 /\ n - 1 + 1 = n
    BY <1>1
  <2> QED
    BY <2>1, CountedUp
<1>7. c = [i \in 1..n |-> f[i]]
  BY <1>1, <1>2
<1> HIDE DEF f, At, N
<1>8. c = [i \in 1..Cardinality({j \in 1..N : At[j] # e}) |-> At[i]]
  BY <1>4, <1>5, <1>6, <1>7
<1> QED
  BY <1>8, Zenon DEF ListBehind, At, N

-----------------------------------------------------------------------------
(* What the operations on the list behind a dummy d do to it.              *)
(* e is the null pointer and S the set of all addresses.                   *)

Elems(c) == {c[i] : i \in DOMAIN c}

LastOf(c, d) == IF c = <<>> THEN d ELSE c[Len(c)]

\* Place k is left out.
Dropped(c, k) == [i \in 1..(Len(c) - 1) |-> IF i < k THEN c[i] ELSE c[i+1]]

IsChain(c, nxt, S, d, e) ==
  /\ c \in Seq(S \ {d})
  /\ IsWalk(c, nxt, nxt[d], e)

\* The same in terms of the places of c.
LEMMA ChainPlaces ==
  ASSUME NEW S, NEW d, NEW e, NEW nxt, NEW c
  PROVE  IsChain(c, nxt, S, d, e) <=>
           \E n \in Nat :
             /\ c \in [1..n -> S \ {d}]
             /\ nxt[d] = IF n = 0 THEN e ELSE c[1]
             /\ \A i \in 1..n :
                  c[i] # e /\ nxt[c[i]] = IF i = n THEN e ELSE c[i+1]
             /\ \A i, j \in 1..n : c[i] = c[j] => i = j
<1>1. ASSUME IsChain(c, nxt, S, d, e)
      PROVE  \E n \in Nat :
               /\ c \in [1..n -> S \ {d}]
               /\ nxt[d] = IF n = 0 THEN e ELSE c[1]
               /\ \A i \in 1..n :
                    c[i] # e /\ nxt[c[i]] = IF i = n THEN e ELSE c[i+1]
               /\ \A i, j \in 1..n : c[i] = c[j] => i = j
  <2> DEFINE n == Len(c)
  <2>1. n \in Nat /\ c \in [1..n -> S \ {d}] /\ DOMAIN c = 1..n
        /\ (c = <<>> <=> n = 0)
    BY <1>1 DEF IsChain
  <2>2. /\ nxt[d] = IF c = <<>> THEN e ELSE c[1]
        /\ \A i \in DOMAIN c :
             c[i] # e /\ nxt[c[i]] = IF i = n THEN e ELSE c[i + 1]
        /\ \A i, j \in DOMAIN c : c[i] = c[j] => i = j
    BY <1>1 DEF IsChain, IsWalk
  <2> HIDE DEF n
  <2> QED
    BY <2>1, <2>2
<1>2. ASSUME NEW n \in Nat,
             c \in [1..n -> S \ {d}],
             nxt[d] = IF n = 0 THEN e ELSE c[1],
             \A i \in 1..n :
               c[i] # e /\ nxt[c[i]] = IF i = n THEN e ELSE c[i+1],
             \A i, j \in 1..n : c[i] = c[j] => i = j
      PROVE  IsChain(c, nxt, S, d, e)
  <2>1. c \in Seq(S \ {d}) /\ Len(c) = n /\ DOMAIN c = 1..n
        /\ (c = <<>> <=> n = 0)
    BY <1>2
  <2>2. IsWalk(c, nxt, nxt[d], e)
    BY <1>2, <2>1 DEF IsWalk
  <2> QED
    BY <2>1, <2>2 DEF IsChain
<1> QED
  BY <1>1, <1>2

\* Pointers of other nodes do not matter.
LEMMA ChainElsewhere ==
  ASSUME NEW S, NEW d, NEW e, NEW nxt, NEW mxt, NEW c,
         IsChain(c, nxt, S, d, e),
         \A x \in Elems(c) \cup {d} : mxt[x] = nxt[x]
  PROVE  IsChain(c, mxt, S, d, e)
<1>1. \A i \in DOMAIN c : c[i] \in Elems(c)
  BY DEF Elems
<1> QED
  BY <1>1 DEF IsChain, IsWalk

\* The first node is taken away.
LEMMA ChainTail ==
  ASSUME NEW S, NEW e, e \notin S, NEW d \in S, NEW nxt \in [S -> S \cup {e}],
         NEW c, IsChain(c, nxt, S, d, e), nxt[d] # e,
         NEW mxt, \A x \in S : mxt[x] = IF x = nxt[d] THEN e
                                       ELSE IF x = d THEN nxt[nxt[d]] ELSE nxt[x]
  PROVE  /\ c # <<>> /\ nxt[d] = c[1]
         /\ IsChain(Tail(c), mxt, S, d, e)
         /\ Elems(Tail(c)) = Elems(c) \ {c[1]}
         /\ LastOf(Tail(c), d) = IF c[1] = LastOf(c, d) THEN d ELSE LastOf(c, d)
<1> DEFINE n == Len(c)
           t == [i \in 1..(n-1) |-> c[i+1]]
<1>1. /\ n \in Nat /\ c \in [1..n -> S \ {d}] /\ DOMAIN c = 1..n
      /\ (c = <<>> <=> n = 0)
  BY DEF IsChain
<1>2. /\ nxt[d] = IF n = 0 THEN e ELSE c[1]
      /\ \A i \in 1..n : c[i] # e /\ nxt[c[i]] = IF i = n THEN e ELSE c[i+1]
      /\ \A i, j \in 1..n : c[i] = c[j] => i = j
  BY <1>1 DEF IsChain, IsWalk
<1>3. n # 0 /\ c # <<>> /\ nxt[d] = c[1]
  BY <1>1, <1>2
<1>4. t = Tail(c)
  BY <1>3, TailIs DEF IsChain
<1> HIDE DEF n
<1>5. \A x \in S : mxt[x] = IF x = c[1] THEN e
                           ELSE IF x = d THEN nxt[c[1]] ELSE nxt[x]
  BY <1>1, <1>3
<1>6. IsChain(t, mxt, S, d, e)
  <2>1. n - 1 \in Nat /\ t \in [1..(n-1) -> S \ {d}]
    BY <1>1, <1>3
  <2>2. mxt[d] = IF n - 1 = 0 THEN e ELSE t[1]
    BY <1>1, <1>2, <1>3, <1>5
  <2>3. \A i \in 1..(n-1) : t[i] # c[1] /\ t[i] # d /\ t[i] \in S /\ t[i] # e
    BY <1>1, <1>2, <1>3
  <2>4. \A i \in 1..(n-1) : nxt[t[i]] = IF i = n - 1 THEN e ELSE t[i+1]
    BY <1>1, <1>2
  <2>5. \A i, j \in 1..(n-1) : t[i] = t[j] => i = j
    BY <1>1, <1>2
  <2> HIDE DEF t
  <2>6. \A i \in 1..(n-1) :
          t[i] # e /\ mxt[t[i]] = IF i = n - 1 THEN e ELSE t[i+1]
    BY <1>5, <2>3, <2>4
  <2> QED
    BY <2>1, <2>2, <2>5, <2>6, ChainPlaces
<1>7. Elems(t) = Elems(c) \ {c[1]}
  <2>1. Elems(c) = {c[i] : i \in 1..n} /\ Elems(t) = {t[i] : i \in 1..(n-1)}
    BY <1>1 DEF Elems
  <2>2. ASSUME NEW x \in Elems(c), x # c[1] PROVE x \in Elems(t)
    <3>1. PICK i \in 1..n : x = c[i]
      BY <2>1
    <3>2. i - 1 \in 1..(n-1) /\ t[i-1] = x
      BY <1>1, <2>2, <3>1
    <3> QED
      BY <2>1, <3>2
  <2>3. \A i \in 1..(n-1) : t[i] = c[i+1] /\ i + 1 \in 1..n /\ c[i+1] # c[1]
    BY <1>1, <1>2
  <2> HIDE DEF t
  <2> QED
    BY <2>1, <2>2, <2>3
<1>8. LastOf(t, d) = IF c[1] = LastOf(c, d) THEN d ELSE LastOf(c, d)
  <2>1. LastOf(c, d) = c[n]
    BY <1>3 DEF LastOf, n
  <2>2. c[1] = c[n] <=> n = 1
    BY <1>1, <1>2, <1>3
  <2>3. LastOf(t, d) = IF n = 1 THEN d ELSE c[n]
    <3>1. Len(t) = n - 1 /\ (t = <<>> <=> n = 1)
      BY <1>1, <1>3
    <3>2. n # 1 => t[n-1] = c[n]
      BY <1>1, <1>3
    <3> HIDE DEF t
    <3> QED
      BY <3>1, <3>2 DEF LastOf
  <2> QED
    BY <2>1, <2>2, <2>3
<1> QED
  BY <1>3, <1>4, <1>6, <1>7, <1>8

\* A node is linked behind the last one.
LEMMA ChainAppend ==
  ASSUME NEW S, NEW e, e \notin S, NEW d \in S, NEW nxt \in [S -> S \cup {e}],
         NEW c, IsChain(c, nxt, S, d, e), NEW x \in S \ {d}, x \notin Elems(c),
         NEW b, b = LastOf(c, d),
         NEW mxt, \A y \in S : mxt[y] = IF y = b THEN x
                                       ELSE IF y = x THEN e ELSE nxt[y]
  PROVE  /\ IsChain(Append(c, x), mxt, S, d, e)
         /\ Elems(Append(c, x)) = Elems(c) \cup {x}
         /\ LastOf(Append(c, x), d) = x
<1> DEFINE n == Len(c)
<1>a. PICK t : t = Append(c, x)
  OBVIOUS
<1>1. /\ n \in Nat /\ c \in [1..n -> S \ {d}] /\ DOMAIN c = 1..n
      /\ (c = <<>> <=> n = 0) /\ c \in Seq(S \ {d})
  BY DEF IsChain
<1>2. /\ nxt[d] = IF n = 0 THEN e ELSE c[1]
      /\ \A i \in 1..n : c[i] # e /\ nxt[c[i]] = IF i = n THEN e ELSE c[i+1]
      /\ \A i, j \in 1..n : c[i] = c[j] => i = j
  BY <1>1 DEF IsChain, IsWalk
<1>3. /\ t \in Seq(S \ {d}) /\ Len(t) = n + 1 /\ DOMAIN t = 1..(n+1) /\ t # <<>>
      /\ \A i \in 1..(n+1) : t[i] = IF i = n + 1 THEN x ELSE c[i]
  BY <1>a, <1>1
<1>4. b = IF n = 0 THEN d ELSE c[n]
  BY <1>1 DEF LastOf
<1> HIDE DEF n
<1>5. b \in S /\ b # x
  BY <1>1, <1>4 DEF Elems
<1>6. \A y \in S : mxt[y] = IF y = b THEN x ELSE IF y = x THEN e ELSE nxt[y]
  OBVIOUS
<1>7. \A i \in 1..n : c[i] # x /\ c[i] # d /\ c[i] \in S
  BY <1>1 DEF Elems
<1>8. IsChain(t, mxt, S, d, e)
  <2>1. n + 1 \in Nat /\ t \in [1..(n+1) -> S \ {d}]
    BY <1>1, <1>3
  <2>2. mxt[d] = t[1]
    <3>1. CASE n = 0
      BY <3>1, <1>3, <1>4, <1>6
    <3>2. CASE n # 0
      <4>1. b # d /\ t[1] = c[1]
        BY <3>2, <1>1, <1>3, <1>4, <1>7
      <4> QED
        BY <3>2, <4>1, <1>2, <1>6
    <3> QED
      BY <3>1, <3>2
  <2>3. \A i \in 1..n : i # n => c[i] # b /\ mxt[c[i]] = c[i+1]
    <3> SUFFICES ASSUME NEW i \in 1..n, i # n
                 PROVE  c[i] # b /\ mxt[c[i]] = c[i+1]
      OBVIOUS
    <3>1. n \in 1..n /\ b = c[n] /\ c[i] # b
      BY <1>1, <1>2, <1>4
    <3> QED
      BY <3>1, <1>1, <1>2, <1>6, <1>7
  <2>4. n # 0 => mxt[c[n]] = x
    BY <1>4, <1>5, <1>6
  <2>5. mxt[x] = e
    BY <1>5, <1>6
  <2>6. \A i \in 1..(n+1) : t[i] # e /\ mxt[t[i]] = IF i = n + 1 THEN e ELSE t[i+1]
    <3> SUFFICES ASSUME NEW i \in 1..(n+1)
                 PROVE  t[i] # e /\ mxt[t[i]] = IF i = n + 1 THEN e ELSE t[i+1]
      OBVIOUS
    <3>1. CASE i = n + 1
      BY <3>1, <2>5, <1>1, <1>3
    <3>2. CASE i = n
      BY <3>2, <2>4, <1>1, <1>2, <1>3
    <3>3. CASE i # n /\ i # n + 1
      <4>1. i \in 1..n /\ i + 1 \in 1..(n+1) /\ i + 1 # n + 1
        BY <3>3, <1>1
      <4> QED
        BY <3>3, <4>1, <2>3, <1>2, <1>3
    <3> QED
      BY <3>1, <3>2, <3>3
  <2>7. \A i, j \in 1..(n+1) : t[i] = t[j] => i = j
    BY <1>1, <1>2, <1>3, <1>7
  <2>8. mxt[d] = IF n + 1 = 0 THEN e ELSE t[1]
    BY <2>2, <1>1
  <2> QED
    BY <2>1, <2>6, <2>7, <2>8, ChainPlaces
<1>9. Elems(t) = Elems(c) \cup {x}
  <2>1. Elems(c) = {c[i] : i \in 1..n} /\ Elems(t) = {t[i] : i \in 1..(n+1)}
    BY <1>1, <1>3 DEF Elems
  <2>2. \A i \in 1..n : i \in 1..(n+1) /\ t[i] = c[i]
    BY <1>1, <1>3
  <2>3. n + 1 \in 1..(n+1) /\ t[n+1] = x
    BY <1>1, <1>3
  <2>4. \A i \in 1..(n+1) : i \in 1..n \/ i = n + 1
    BY <1>1
  <2> QED
    BY <2>1, <2>2, <2>3, <2>4
<1>10. LastOf(t, d) = x
  BY <1>1, <1>3 DEF LastOf
<1> QED
  BY <1>a, <1>8, <1>9, <1>10

\* A node is unlinked: the one before it points past it.
LEMMA ChainWithout ==
  ASSUME NEW S, NEW e, e \notin S, NEW d \in S, NEW nxt \in [S -> S \cup {e}],
         NEW c, IsChain(c, nxt, S, d, e), NEW k \in DOMAIN c,
         NEW p \in Elems(c) \cup {d}, nxt[p] = c[k],
         NEW mxt, \A y \in S : mxt[y] = IF y = p THEN nxt[c[k]] ELSE nxt[y]
  PROVE  /\ IsChain(Dropped(c, k), mxt, S, d, e)
         /\ Elems(Dropped(c, k)) = Elems(c) \ {c[k]}
         /\ k # Len(c) => LastOf(Dropped(c, k), d) = LastOf(c, d)
         /\ k = Len(c) => LastOf(Dropped(c, k), d) = p
         /\ p # c[k]
<1> DEFINE n == Len(c)
<1>a. PICK t : t = Dropped(c, k)
  OBVIOUS
<1>1. /\ n \in Nat /\ c \in [1..n -> S \ {d}] /\ DOMAIN c = 1..n
      /\ (c = <<>> <=> n = 0) /\ c \in Seq(S \ {d}) /\ k \in 1..n
  BY DEF IsChain
<1>2. /\ nxt[d] = IF n = 0 THEN e ELSE c[1]
      /\ \A i \in 1..n : c[i] # e /\ nxt[c[i]] = IF i = n THEN e ELSE c[i+1]
      /\ \A i, j \in 1..n : c[i] = c[j] => i = j
  BY <1>1 DEF IsChain, IsWalk
<1>3. t = [i \in 1..(n-1) |-> IF i < k THEN c[i] ELSE c[i+1]]
  BY <1>a DEF Dropped
<1> HIDE DEF n
<1>4. p = IF k = 1 THEN d ELSE c[k-1]
  <2>1. CASE p = d
    BY <2>1, <1>1, <1>2
  <2>2. CASE p \in Elems(c)
    <3>1. PICK j \in 1..n : p = c[j]
      BY <2>2, <1>1 DEF Elems
    <3>2. j # n /\ c[j+1] = c[k]
      BY <3>1, <1>1, <1>2
    <3>3. j + 1 \in 1..n
      BY <3>2, <1>1
    <3>4. j + 1 = k
      BY <3>2, <3>3, <1>1, <1>2
    <3> QED
      BY <3>1, <3>4, <1>1
  <2> QED
    BY <2>1, <2>2
<1>5. (\A y \in S : mxt[y] = IF y = p THEN nxt[c[k]] ELSE nxt[y]) /\ p \in S
  BY <1>1 DEF Elems
<1>6. n - 1 \in Nat /\ t \in [1..(n-1) -> S \ {d}]
  BY <1>1, <1>3
<1>7. \A i \in 1..(n-1) : t[i] = IF i < k THEN c[i] ELSE c[i+1]
  BY <1>3
<1>8. nxt[c[k]] = IF k = n THEN e ELSE c[k+1]
  BY <1>1, <1>2
<1>9. IsChain(t, mxt, S, d, e)
  <2>1. mxt[d] = IF n - 1 = 0 THEN e ELSE t[1]
    <3>1. CASE k = 1
      BY <3>1, <1>1, <1>4, <1>5, <1>7, <1>8
    <3>2. CASE k # 1
      <4>1. p # d /\ n - 1 # 0 /\ t[1] = c[1] /\ n # 0
        BY <3>2, <1>1, <1>4, <1>7
      <4> QED
        BY <4>1, <1>2, <1>5
    <3> QED
      BY <3>1, <3>2
  <2>2. \A i \in 1..(n-1) : t[i] # e /\ mxt[t[i]] = IF i = n - 1 THEN e ELSE t[i+1]
    <3> SUFFICES ASSUME NEW i \in 1..(n-1)
                 PROVE  t[i] # e /\ mxt[t[i]] = IF i = n - 1 THEN e ELSE t[i+1]
      OBVIOUS
    <3>1. CASE i < k - 1
      <4>1. /\ t[i] = c[i] /\ t[i+1] = c[i+1] /\ i \in 1..n /\ i # n /\ i # n - 1
        BY <3>1, <1>1, <1>7
      <4>2. c[i] # p /\ c[i] \in S
        BY <3>1, <4>1, <1>1, <1>2, <1>4
      <4> QED
        BY <4>1, <4>2, <1>2, <1>5
    <3>2. CASE i = k - 1
      <4>1. t[i] = p /\ i \in 1..n /\ t[i] # e
        BY <3>2, <1>1, <1>2, <1>4, <1>7
      <4>2. mxt[p] = nxt[c[k]]
        BY <1>5
      <4>3. i # n - 1 => t[i+1] = c[k+1]
        BY <3>2, <1>1, <1>7
      <4> QED
        BY <3>2, <4>1, <4>2, <4>3, <1>1, <1>8
    <3>3. CASE i >= k
      <4>1. /\ t[i] = c[i+1] /\ i + 1 \in 1..n
            /\ i # n - 1 => t[i+1] = c[i+2]
        BY <3>3, <1>1, <1>7
      <4>2. c[i+1] # p /\ c[i+1] \in S
        <5>1. CASE k = 1
          BY <4>1, <5>1, <1>1, <1>4
        <5>2. CASE k # 1
          <6>1. k - 1 \in 1..n /\ k - 1 # i + 1 /\ p = c[k-1]
            BY <3>3, <4>1, <5>2, <1>1, <1>4
          <6> QED
            BY <4>1, <6>1, <1>1, <1>2
        <5> QED
          BY <5>1, <5>2
      <4>3. nxt[c[i+1]] = IF i + 1 = n THEN e ELSE c[i+2]
        BY <4>1, <1>1, <1>2
      <4> QED
        BY <4>1, <4>2, <4>3, <1>1, <1>2, <1>5
    <3> QED
      BY <1>1, <3>1, <3>2, <3>3
  <2>3. \A i, j \in 1..(n-1) : t[i] = t[j] => i = j
    <3> SUFFICES ASSUME NEW i \in 1..(n-1), NEW j \in 1..(n-1), t[i] = t[j]
                 PROVE  i = j
      OBVIOUS
    <3>1. /\ i \in 1..n /\ i + 1 \in 1..n /\ j \in 1..n /\ j + 1 \in 1..n
      BY <1>1
    <3> QED
      BY <3>1, <1>1, <1>2, <1>7
  <2> QED
    BY <1>6, <2>1, <2>2, <2>3, ChainPlaces
<1>10. Elems(t) = Elems(c) \ {c[k]}
  <2>1. Elems(c) = {c[i] : i \in 1..n} /\ Elems(t) = {t[i] : i \in 1..(n-1)}
    BY <1>1, <1>6 DEF Elems
  <2>2. ASSUME NEW i \in 1..n, i # k PROVE c[i] \in Elems(t)
    <3>1. CASE i < k
      BY <2>1, <2>2, <3>1, <1>1, <1>7
    <3>2. CASE i > k
      <4>1. i - 1 \in 1..(n-1) /\ t[i-1] = c[i]
        BY <2>2, <3>2, <1>1, <1>7
      <4> QED
        BY <2>1, <4>1
    <3> QED
      BY <2>2, <3>1, <3>2, <1>1
  <2>3. ASSUME NEW i \in 1..(n-1) PROVE t[i] \in Elems(c) /\ t[i] # c[k]
    <3>1. i \in 1..n /\ i + 1 \in 1..n
      BY <1>1
    <3> QED
      BY <2>1, <3>1, <1>1, <1>2, <1>7
  <2> QED
    BY <2>1, <2>2, <2>3
<1>11. Len(t) = n - 1 /\ (t = <<>> <=> n = 1)
  BY <1>1, <1>3
<1>12. LastOf(c, d) = c[n]
  BY <1>1 DEF LastOf, n
<1>13. k # n => LastOf(t, d) = c[n]
  BY <1>1, <1>7, <1>11 DEF LastOf
<1>14. k = n => LastOf(t, d) = p
  BY <1>1, <1>4, <1>7, <1>11 DEF LastOf
<1>15. p # c[k]
  BY <1>1, <1>2, <1>4
<1> QED
  BY <1>a, <1>9, <1>10, <1>12, <1>13, <1>14, <1>15 DEF n

\* The chain is the list behind the dummy.
LEMMA ChainIsList ==
  ASSUME NEW S, IsFiniteSet(S), NEW d, NEW e, e # d, NEW nxt, NEW c,
         IsChain(c, nxt, S, d, e)
  PROVE  ListBehind(nxt, d, e, Cardinality(S)) = c
BY WalkFromDummy DEF IsChain

\* What follows a node of the list is a node of the list.
LEMMA ChainNext ==
  ASSUME NEW S, NEW d, NEW e, NEW nxt, NEW c, IsChain(c, nxt, S, d, e),
         NEW p \in Elems(c) \cup {d}, nxt[p] # e
  PROVE  \E k \in DOMAIN c : nxt[p] = c[k]
<1>1. PICK n \in Nat :
        /\ c \in [1..n -> S \ {d}]
        /\ nxt[d] = IF n = 0 THEN e ELSE c[1]
        /\ \A i \in 1..n :
             c[i] # e /\ nxt[c[i]] = IF i = n THEN e ELSE c[i+1]
  BY ChainPlaces
<1>2. CASE p = d
  <2>1. n # 0 /\ 1 \in 1..n
    BY <1>1, <1>2
  <2> QED
    BY <1>1, <1>2, <2>1
<1>3. CASE p \in Elems(c)
  <2>1. PICK i \in 1..n : p = c[i]
    BY <1>1, <1>3 DEF Elems
  <2>2. i # n
    BY <1>1, <2>1
  <2>3. i + 1 \in 1..n
    BY <1>1, <2>2
  <2> QED
    BY <1>1, <2>1, <2>2, <2>3
<1> QED
  BY <1>2, <1>3

\* A chain has as many nodes as places, and a sum over the one is a sum over
\* the other.
LEMMA ChainCounts ==
  ASSUME NEW S, NEW d, NEW e, NEW nxt, NEW c, IsChain(c, nxt, S, d, e)
  PROVE  /\ IsFiniteSet(DOMAIN c) /\ IsFiniteSet(Elems(c))
         /\ Cardinality(DOMAIN c) = Len(c) /\ Cardinality(Elems(c)) = Len(c)
         /\ DOMAIN c = 1..Len(c) /\ Len(c) \in Nat
         /\ Elems(c) \subseteq S \ {d}
         /\ c = <<>> <=> nxt[d] = e
<1> DEFINE T == 1..Len(c)
<1>1. Len(c) \in Nat /\ DOMAIN c = T /\ c \in [T -> S \ {d}]
  BY DEF IsChain
<1>2. IsFiniteSet(T) /\ Cardinality(T) = Len(c)
  BY <1>1, CountedUp
<1>3. c \in Bijection(T, Elems(c))
  <2>1. c \in [T -> Elems(c)]
    BY <1>1 DEF Elems
  <2>2. \A x \in Elems(c) : \E y \in T : c[y] = x
    BY <1>1 DEF Elems
  <2>3. \A x, y \in T : c[x] = c[y] => x = y
    BY <1>1 DEF IsChain, IsWalk
  <2> HIDE DEF T
  <2> QED
    BY <2>1, <2>2, <2>3 DEF Bijection, Injection, Surjection, IsInjective
<1>4. IsFiniteSet(Elems(c)) /\ Cardinality(Elems(c)) = Len(c)
  <2> HIDE DEF T
  <2> QED
    BY <1>2, <1>3, FS_Bijection DEF ExistsBijection
<1>5. Elems(c) \subseteq S \ {d}
  BY <1>1 DEF Elems
<1>6. c = <<>> <=> nxt[d] = e
  <2>1. c # <<>> => 1 \in DOMAIN c
    BY <1>1 DEF IsChain
  <2> QED
    BY <2>1 DEF IsChain, IsWalk
<1> QED
  BY <1>1, <1>2, <1>4, <1>5, <1>6

\* Summing along a list is summing over its nodes, as no node is on it twice.
LEMMA ChainSum ==
  ASSUME NEW S, NEW d, NEW e, NEW nxt, NEW c, IsChain(c, nxt, S, d, e),
         NEW w, \A x \in Elems(c) : w[x] \in Int,
         NEW v, \A i \in DOMAIN c : v[i] = w[c[i]]
  PROVE  SumOver(v, DOMAIN c) = SumOver(w, Elems(c))
<1> DEFINE T == DOMAIN c
<1>1. IsFiniteSet(T)
  BY ChainCounts
<1>2. c \in [T -> Elems(c)]
  BY DEF IsChain, Elems
<1>3. \A x \in Elems(c) : \E y \in T : c[y] = x
  BY DEF Elems
<1>4. \A y, z \in T : c[y] = c[z] => y = z
  BY DEF IsChain, IsWalk
<1>5. \A y \in T : v[y] = w[c[y]]
  OBVIOUS
<1> HIDE DEF T
<1>6. SumOver(v, T) = SumOver(w, Elems(c))
  BY <1>1, <1>2, <1>3, <1>4, <1>5, SumRenamed
<1> QED
  BY <1>6 DEF T
==============================================================================

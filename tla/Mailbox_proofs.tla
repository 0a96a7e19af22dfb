--------------------------- MODULE Mailbox_proofs ----------------------------
(***************************************************************************)
(* Proofs about Mailbox and AuctionHouse, for any number of characters,    *)
(* items, mails, auctions, crashes and transactions in the queue.          *)
(***************************************************************************)
EXTENDS AuctionHouse, Integers, FiniteSetsExt, Functions, SequenceTheorems,
        WellFoundedInduction, FiniteSetTheorems, TLAPS

-----------------------------------------------------------------------------
(* Induction.  The induction theorems of the library take an operator as a   *)
(* parameter; here a property is the set of what has it.                     *)

\* There is no infinite descent in the natural numbers.
LEMMA NatOrder == IsWellFoundedOn({ss \in Nat \X Nat : ss[1] < ss[2]}, Nat)
BY NatLessThanWellFounded DEF OpToRel

\* Every set of numbers that is not empty has a least element.
LEMMA LeastNumber ==
    ASSUME NEW S \in SUBSET Nat, S # {}
    PROVE  \E n \in S : \A m \in S : n <= m
<1> DEFINE R == {ss \in Nat \X Nat : ss[1] < ss[2]}
<1>1. IsWellFoundedOn(R, Nat)
  BY NatOrder
<1>2. PICK x \in S : \A y \in S : ~(<<y, x>> \in R)
  <2> HIDE DEF R
  <2> QED BY <1>1, WFMin
<1>3. ASSUME NEW m \in S, ~(x <= m)
      PROVE  <<m, x>> \in R
  <2>1. m \in Nat /\ x \in Nat
    OBVIOUS
  <2>2. m < x
    BY <1>3, <2>1
  <2> QED BY <2>1, <2>2
<1> HIDE DEF R
<1> QED BY <1>2, <1>3

\* Induction over the natural numbers.
LEMMA NumberInduction ==
    ASSUME NEW S, 0 \in S, \A n \in Nat : n \in S => n + 1 \in S
    PROVE  \A n \in Nat : n \in S
<1> SUFFICES ASSUME NEW k \in Nat, k \notin S PROVE FALSE
  OBVIOUS
<1> DEFINE B == Nat \ S
<1>1. PICK n \in B : \A m \in B : n <= m
  <2> B \in SUBSET Nat /\ B # {}
    OBVIOUS
  <2> HIDE DEF B
  <2> QED BY LeastNumber
<1>2. n # 0 /\ n \in Nat
  OBVIOUS
<1>3. n - 1 \in Nat /\ n - 1 < n /\ ~(n <= n - 1) /\ n - 1 + 1 = n
  BY <1>2
<1>4. n - 1 \in S
  BY <1>1, <1>3
<1>5. n \in S
  BY <1>3, <1>4
<1> QED BY <1>5

\* Induction over the subsets of a finite set, one element added at a time.
LEMMA FiniteInduction ==
    ASSUME NEW S, IsFiniteSet(S), NEW C, {} \in C,
           \A T \in SUBSET S : \A x \in S \ T : T \in C => T \cup {x} \in C
    PROVE  \A T \in SUBSET S : T \in C
<1> DEFINE N == {n \in Nat : \A T \in SUBSET S : Cardinality(T) = n => T \in C}
<1>f. \A T \in SUBSET S : IsFiniteSet(T) /\ Cardinality(T) \in Nat
  BY FS_Subset, FS_CardinalityType
<1>1. 0 \in N
  <2>1. ASSUME NEW T \in SUBSET S, Cardinality(T) = 0
        PROVE  T \in C
    BY <1>f, <2>1, FS_EmptySet
  <2> QED BY <2>1
<1>2. ASSUME NEW n \in Nat, n \in N
      PROVE  n + 1 \in N
  <2>1. ASSUME NEW T \in SUBSET S, Cardinality(T) = n + 1
        PROVE  T \in C
    <3>1. T # {}
      <4>1. Cardinality({}) = 0
        BY FS_EmptySet
      <4>2. Cardinality(T) # 0
        BY <2>1
      <4> QED BY <4>1, <4>2
    <3>2. PICK x \in T : TRUE
      BY <3>1
    <3> DEFINE U == T \ {x}
    <3>3. U \in SUBSET S /\ x \in S \ U /\ T = U \cup {x}
      OBVIOUS
    <3>4. Cardinality(U) = n
      <4>1. Cardinality(U) = Cardinality(T) - 1
        BY <1>f, <3>2, FS_RemoveElement
      <4> QED BY <4>1, <2>1
    <3> HIDE DEF U
    <3>5. U \in C
      BY <1>2, <3>3, <3>4
    <3> QED BY <3>3, <3>5
  <2> QED BY <2>1
<1> HIDE DEF N
<1>3. \A n \in Nat : n \in N
  BY <1>1, <1>2, NumberInduction
<1> QED BY <1>3, <1>f DEF N

-----------------------------------------------------------------------------
(* Sums.                                                                     *)

\* The equation a sum is defined by, for a function on the subsets of a set.
SumBody(f, g, s) == IF s = {} THEN 0 ELSE f[CHOOSE x \in s : TRUE] + g[s \ {CHOOSE x \in s : TRUE}]

SumIter(f, S) == CHOOSE g : g = [s \in SUBSET S |-> SumBody(f, g, s)]

\* The sum of the community modules, SumFunctionOnSet, is the value at S of that
\* function.
LEMMA SumIsIter == \A f, S : SumFunctionOnSet(f, S) = SumIter(f, S)[S]
BY DEF SumFunctionOnSet, FoldFunctionOnSet, MapThenFoldSet, SumIter, SumBody

\* There is such a function: one for the sets of at most n elements, for each n.
LEMMA SumIterExists ==
    ASSUME NEW S, IsFiniteSet(S), NEW f
    PROVE  SumIter(f, S) = [s \in SUBSET S |-> SumBody(f, SumIter(f, S), s)]
<1> DEFINE D(n) == {s \in SUBSET S : Cardinality(s) <= n}
<1> DEFINE N == {n \in Nat : \E g : g = [s \in D(n) |-> SumBody(f, g, s)]}
<1>f. \A s \in SUBSET S : IsFiniteSet(s) /\ Cardinality(s) \in Nat /\ Cardinality(s) <= Cardinality(S)
  BY FS_Subset, FS_CardinalityType
<1>c. \A s \in SUBSET S : s # {} => (CHOOSE x \in s : TRUE) \in s
  OBVIOUS
<1>1. 0 \in N
  <2> DEFINE g == [s \in D(0) |-> 0]
  <2>1. \A s \in D(0) : s = {}
    BY <1>f, FS_EmptySet
  <2>2. g = [s \in D(0) |-> SumBody(f, g, s)]
    BY <2>1 DEF SumBody
  <2> QED BY <2>2
<1>2. ASSUME NEW n \in Nat, n \in N
      PROVE  n + 1 \in N
  <2>1. PICK g : g = [s \in D(n) |-> SumBody(f, g, s)]
    BY <1>2
  <2> DEFINE h == [s \in D(n + 1) |-> SumBody(f, g, s)]
  <2>2. ASSUME NEW s \in D(n + 1)
        PROVE  SumBody(f, g, s) = SumBody(f, h, s)
    <3>1. CASE s = {}
      BY <3>1 DEF SumBody
    <3>2. CASE s # {}
      <4> DEFINE u == s \ {CHOOSE x \in s : TRUE}
      <4>1. Cardinality(u) = Cardinality(s) - 1
        BY <1>f, <1>c, <3>2, FS_RemoveElement
      <4>2. Cardinality(s) \in Nat /\ Cardinality(s) <= n + 1
        BY <1>f
      <4>3. Cardinality(u) <= n /\ Cardinality(u) <= n + 1
        BY <4>1, <4>2
      <4>4. u \in D(n) /\ u \in D(n + 1)
        BY <4>3
      <4>5. h[u] = g[u]
        <5>1. h[u] = SumBody(f, g, u)
          BY <4>4
        <5>2. g[u] = SumBody(f, g, u)
          BY <4>4, <2>1
        <5> QED BY <5>1, <5>2
      <4> HIDE DEF h
      <4> QED BY <4>5, <3>2 DEF SumBody
    <3> QED BY <3>1, <3>2
  <2>3. h = [s \in D(n + 1) |-> SumBody(f, h, s)]
    <3> HIDE DEF D
    <3> QED BY <2>2
  <2> HIDE DEF h
  <2> QED BY <2>3
<1> HIDE DEF N
<1>3. Cardinality(S) \in N
  BY <1>1, <1>2, <1>f, NumberInduction
<1>4. D(Cardinality(S)) = SUBSET S
  BY <1>f
<1>5. \E g : g = [s \in SUBSET S |-> SumBody(f, g, s)]
  <2> HIDE DEF D
  <2> QED BY <1>3, <1>4 DEF N
<1> QED BY <1>5 DEF SumIter

\* So a sum is what its definition says, with the element it chooses first.
LEMMA SumStep ==
    ASSUME NEW S, IsFiniteSet(S), NEW f
    PROVE  LET c == CHOOSE x \in S : TRUE IN
           SumFunctionOnSet(f, S) = IF S = {} THEN 0 ELSE f[c] + SumFunctionOnSet(f, S \ {c})
<1> DEFINE c(s) == CHOOSE x \in s : TRUE
<1>f. \A s \in SUBSET S : IsFiniteSet(s) /\ Cardinality(s) \in Nat
  BY FS_Subset, FS_CardinalityType
<1>i. \A T \in SUBSET S : \A s \in SUBSET T : SumIter(f, T)[s] = SumBody(f, SumIter(f, T), s)
  <2>1. ASSUME NEW T \in SUBSET S, NEW s \in SUBSET T
        PROVE  SumIter(f, T)[s] = SumBody(f, SumIter(f, T), s)
    <3>1. SumIter(f, T) = [u \in SUBSET T |-> SumBody(f, SumIter(f, T), u)]
      BY <1>f, SumIterExists
    <3> QED BY <3>1
  <2> QED BY <2>1
<1>1. CASE S = {}
  BY <1>1, <1>i, SumIsIter DEF SumBody
<1>2. CASE S # {}
  <2> DEFINE T == S \ {c(S)}
  <2> DEFINE N == {n \in Nat : \A s \in SUBSET T : Cardinality(s) = n => SumIter(f, S)[s] = SumIter(f, T)[s]}
  <2>1. 0 \in N
    <3>1. \A s \in SUBSET T : Cardinality(s) = 0 => s = {}
      BY <1>f, FS_EmptySet
    <3>2. T \in SUBSET S /\ {} \in SUBSET T /\ {} \in SUBSET S
      OBVIOUS
    <3>3. SumIter(f, S)[{}] = 0 /\ SumIter(f, T)[{}] = 0
      <4> HIDE DEF T
      <4> QED BY <1>i, <3>2 DEF SumBody
    <3> QED BY <3>1, <3>3
  <2>2. ASSUME NEW n \in Nat, n \in N
        PROVE  n + 1 \in N
    <3>1. ASSUME NEW s \in SUBSET T, Cardinality(s) = n + 1
          PROVE  SumIter(f, S)[s] = SumIter(f, T)[s]
      <4>1. s # {}
        <5>1. Cardinality({}) = 0
          BY FS_EmptySet
        <5>2. Cardinality(s) # 0
          BY <3>1
        <5> QED BY <5>1, <5>2
      <4> DEFINE u == s \ {c(s)}
      <4>2. c(s) \in s
        BY <4>1
      <4>3. IsFiniteSet(s)
        BY <1>f
      <4>4. Cardinality(u) = n
        <5>1. Cardinality(u) = Cardinality(s) - 1
          BY <4>2, <4>3, FS_RemoveElement
        <5> QED BY <5>1, <3>1
      <4>5. u \in SUBSET T
        OBVIOUS
      <4>6. SumIter(f, S)[u] = SumIter(f, T)[u]
        BY <4>4, <4>5, <2>2
      <4>7. SumIter(f, S)[s] = SumBody(f, SumIter(f, S), s) /\ SumIter(f, T)[s] = SumBody(f, SumIter(f, T), s)
        BY <1>i
      <4> QED BY <4>6, <4>7 DEF SumBody
    <3> QED BY <3>1
  <2>3. T \in SUBSET T /\ Cardinality(T) \in Nat
    BY <1>f
  <2>4. SumIter(f, S)[T] = SumIter(f, T)[T]
    <3> HIDE DEF N
    <3>1. \A n \in Nat : n \in N
      BY <2>1, <2>2, NumberInduction
    <3> QED BY <3>1, <2>3 DEF N
  <2>5. SumIter(f, S)[S] = f[c(S)] + SumIter(f, S)[T]
    BY <1>i, <1>2 DEF SumBody
  <2> QED BY <2>4, <2>5, <1>2, SumIsIter
<1> QED BY <1>1, <1>2

\* The sum over no elements.
LEMMA SumEmpty == \A f : SumFunctionOnSet(f, {}) = 0
BY SumStep, FS_EmptySet

\* A sum of integers is an integer.
LEMMA SumInt ==
    ASSUME NEW S, IsFiniteSet(S), NEW f, \A x \in S : f[x] \in Int
    PROVE  SumFunctionOnSet(f, S) \in Int
<1> DEFINE N == {n \in Nat : \A s \in SUBSET S : Cardinality(s) = n => SumFunctionOnSet(f, s) \in Int}
<1>f. \A s \in SUBSET S : IsFiniteSet(s) /\ Cardinality(s) \in Nat
  BY FS_Subset, FS_CardinalityType
<1>1. 0 \in N
  <2>1. \A s \in SUBSET S : Cardinality(s) = 0 => s = {}
    BY <1>f, FS_EmptySet
  <2> QED BY <2>1, SumEmpty
<1>2. ASSUME NEW n \in Nat, n \in N
      PROVE  n + 1 \in N
  <2>1. ASSUME NEW s \in SUBSET S, Cardinality(s) = n + 1
        PROVE  SumFunctionOnSet(f, s) \in Int
    <3>1. s # {}
      <4>1. Cardinality({}) = 0
        BY FS_EmptySet
      <4>2. Cardinality(s) # 0
        BY <2>1
      <4> QED BY <4>1, <4>2
    <3>2. PICK c \in s : SumFunctionOnSet(f, s) = f[c] + SumFunctionOnSet(f, s \ {c})
      <4>1. IsFiniteSet(s)
        BY <1>f
      <4>2. (CHOOSE x \in s : TRUE) \in s
        BY <3>1
      <4> QED BY <4>1, <4>2, <3>1, SumStep
    <3>3. Cardinality(s \ {c}) = n
      <4>1. IsFiniteSet(s)
        BY <1>f
      <4>2. Cardinality(s \ {c}) = Cardinality(s) - 1
        BY <4>1, FS_RemoveElement
      <4> QED BY <4>2, <2>1
    <3>4. SumFunctionOnSet(f, s \ {c}) \in Int /\ f[c] \in Int
      BY <3>3, <1>2
    <3> QED BY <3>2, <3>4
  <2> QED BY <2>1
<1> HIDE DEF N
<1>3. \A n \in Nat : n \in N
  BY <1>1, <1>2, NumberInduction
<1> QED BY <1>3, <1>f DEF N

\* The numbers a sum is made of can be taken out in any order.
LEMMA SumOut ==
    ASSUME NEW S, IsFiniteSet(S), NEW f, \A x \in S : f[x] \in Int
    PROVE  \A x \in S : SumFunctionOnSet(f, S) = f[x] + SumFunctionOnSet(f, S \ {x})
<1> DEFINE Sum(s) == SumFunctionOnSet(f, s)
           P(s) == \A x \in s : Sum(s) = f[x] + Sum(s \ {x})
           N == {n \in Nat : \A s \in SUBSET S : Cardinality(s) = n => P(s)}
<1>f. \A s \in SUBSET S : IsFiniteSet(s) /\ Cardinality(s) \in Nat
  BY FS_Subset, FS_CardinalityType
<1>1. 0 \in N
  <2>1. \A s \in SUBSET S : Cardinality(s) = 0 => s = {}
    BY <1>f, FS_EmptySet
  <2>2. P({})
    OBVIOUS
  <2> HIDE DEF P
  <2> QED BY <2>1, <2>2
<1>2. ASSUME NEW n \in Nat, n \in N
      PROVE  n + 1 \in N
  <2>1. ASSUME NEW s \in SUBSET S, Cardinality(s) = n + 1
        PROVE  P(s)
    <3>1. s # {}
      <4>1. Cardinality({}) = 0
        BY FS_EmptySet
      <4>2. Cardinality(s) # 0
        BY <2>1
      <4> QED BY <4>1, <4>2
    <3>2. \A x \in s : s \ {x} \in SUBSET S /\ Cardinality(s \ {x}) = n
      <4>1. IsFiniteSet(s)
        BY <1>f
      <4>2. \A x \in s : Cardinality(s \ {x}) = Cardinality(s) - 1
        BY <4>1, FS_RemoveElement
      <4> QED BY <4>2, <2>1
    <3>3. \A x \in s : P(s \ {x})
      <4> HIDE DEF P
      <4> QED BY <3>2, <1>2
    <3>4. PICK c \in s : Sum(s) = f[c] + Sum(s \ {c})
      <4>1. IsFiniteSet(s)
        BY <1>f
      <4>2. (CHOOSE x \in s : TRUE) \in s
        BY <3>1
      <4> QED BY <4>1, <4>2, <3>1, SumStep
    <3>6. ASSUME NEW x \in s
          PROVE  Sum(s) = f[x] + Sum(s \ {x})
      <4>1. CASE x = c
        BY <4>1, <3>4
      <4>2. CASE x # c
        <5>1. c \in s \ {x} /\ x \in s \ {c} /\ (s \ {x}) \ {c} = (s \ {c}) \ {x}
          BY <4>2
        <5>2. Sum(s \ {c}) = f[x] + Sum((s \ {c}) \ {x})
          BY <5>1, <3>3
        <5>3. Sum(s \ {x}) = f[c] + Sum((s \ {c}) \ {x})
          BY <5>1, <3>3
        <5>4. (s \ {c}) \ {x} \in SUBSET S
          OBVIOUS
        <5>5. Sum((s \ {c}) \ {x}) \in Int /\ f[c] \in Int /\ f[x] \in Int
          BY <5>4, <1>f, SumInt
        <5> HIDE DEF Sum
        <5> QED BY <5>2, <5>3, <5>5, <3>4
      <4> QED BY <4>1, <4>2
    <3> QED BY <3>6
  <2> HIDE DEF P
  <2> QED BY <2>1
<1> HIDE DEF N
<1>3. \A n \in Nat : n \in N
  BY <1>1, <1>2, NumberInduction
<1>4. P(S)
  <2> HIDE DEF P
  <2> QED BY <1>3, <1>f DEF N
<1> QED BY <1>4

\* One more element.
LEMMA SumAdd ==
    ASSUME NEW S, IsFiniteSet(S), NEW x, x \notin S, NEW f, \A y \in S \cup {x} : f[y] \in Int
    PROVE  SumFunctionOnSet(f, S \cup {x}) = f[x] + SumFunctionOnSet(f, S)
<1>1. IsFiniteSet(S \cup {x})
  BY FS_AddElement
<1>2. (S \cup {x}) \ {x} = S
  OBVIOUS
<1> QED BY <1>1, <1>2, SumOut

\* Smaller numbers have a smaller sum.
LEMMA SumAtMost ==
    ASSUME NEW S, IsFiniteSet(S), NEW f, NEW g,
           \A x \in S : f[x] \in Int /\ g[x] \in Int /\ f[x] <= g[x]
    PROVE  SumFunctionOnSet(f, S) <= SumFunctionOnSet(g, S)
<1> DEFINE C == {T \in SUBSET S : SumFunctionOnSet(f, T) <= SumFunctionOnSet(g, T)}
<1>1. {} \in C
  BY SumEmpty
<1>2. ASSUME NEW T \in SUBSET S, NEW x \in S \ T, T \in C
      PROVE  T \cup {x} \in C
  <2>1. IsFiniteSet(T)
    BY FS_Subset
  <2>2. /\ SumFunctionOnSet(f, T \cup {x}) = f[x] + SumFunctionOnSet(f, T)
        /\ SumFunctionOnSet(g, T \cup {x}) = g[x] + SumFunctionOnSet(g, T)
    BY <2>1, SumAdd
  <2>3. SumFunctionOnSet(f, T) \in Int /\ SumFunctionOnSet(g, T) \in Int
    BY <2>1, SumInt
  <2>4. SumFunctionOnSet(f, T) <= SumFunctionOnSet(g, T) /\ T \cup {x} \in SUBSET S
    BY <1>2
  <2> QED BY <2>2, <2>3, <2>4
<1> HIDE DEF C
<1>3. \A T \in SUBSET S : T \in C
  BY <1>1, <1>2, FiniteInduction
<1> QED BY <1>3 DEF C

\* Only the numbers count.
LEMMA SumSame ==
    ASSUME NEW S, IsFiniteSet(S), NEW f, NEW g, \A x \in S : f[x] \in Int /\ f[x] = g[x]
    PROVE  SumFunctionOnSet(f, S) = SumFunctionOnSet(g, S)
<1>1. SumFunctionOnSet(f, S) <= SumFunctionOnSet(g, S)
  BY SumAtMost
<1>2. SumFunctionOnSet(g, S) <= SumFunctionOnSet(f, S)
  BY SumAtMost
<1>3. SumFunctionOnSet(f, S) \in Int /\ SumFunctionOnSet(g, S) \in Int
  BY SumInt
<1> QED BY <1>1, <1>2, <1>3

\* One number changes.
LEMMA SumChange ==
    ASSUME NEW S, IsFiniteSet(S), NEW p \in S, NEW f, NEW g,
           \A x \in S : f[x] \in Int /\ g[x] \in Int,
           \A x \in S \ {p} : f[x] = g[x]
    PROVE  SumFunctionOnSet(g, S) = SumFunctionOnSet(f, S) + (g[p] - f[p])
<1> DEFINE T == S \ {p}
<1>1. IsFiniteSet(T)
  BY FS_Subset
<1>2. /\ SumFunctionOnSet(f, S) = f[p] + SumFunctionOnSet(f, T)
      /\ SumFunctionOnSet(g, S) = g[p] + SumFunctionOnSet(g, T)
  BY SumOut
<1>3. SumFunctionOnSet(f, T) = SumFunctionOnSet(g, T)
  BY <1>1, SumSame
<1>4. SumFunctionOnSet(f, T) \in Int
  BY <1>1, SumInt
<1> HIDE DEF T
<1>5. f[p] \in Int /\ g[p] \in Int
  OBVIOUS
<1> QED BY <1>2, <1>3, <1>4, <1>5

\* Two numbers change.
LEMMA SumTwo ==
    ASSUME NEW S, IsFiniteSet(S), NEW p \in S, NEW q \in S, p # q, NEW f, NEW g,
           \A x \in S : f[x] \in Int /\ g[x] \in Int,
           \A x \in S \ {p, q} : f[x] = g[x]
    PROVE  SumFunctionOnSet(g, S) = SumFunctionOnSet(f, S) + (g[p] - f[p]) + (g[q] - f[q])
<1> DEFINE h == [x \in S |-> IF x = p THEN g[x] ELSE f[x]]
<1>1. /\ \A x \in S : h[x] \in Int /\ f[x] \in Int /\ g[x] \in Int
      /\ \A x \in S \ {p} : f[x] = h[x]
      /\ \A x \in S \ {q} : h[x] = g[x]
      /\ h[p] = g[p] /\ h[q] = f[q]
  OBVIOUS
<1> HIDE DEF h
<1>2. SumFunctionOnSet(h, S) = SumFunctionOnSet(f, S) + (h[p] - f[p])
  BY <1>1, SumChange
<1>3. SumFunctionOnSet(g, S) = SumFunctionOnSet(h, S) + (g[q] - h[q])
  BY <1>1, SumChange
<1>4. SumFunctionOnSet(f, S) \in Int
  BY <1>1, SumInt
<1> QED BY <1>1, <1>2, <1>3, <1>4

\* One value of a function changes.
LEMMA ChangeOne ==
    ASSUME NEW S, NEW f, NEW g, f = [x \in S |-> f[x]], g = [x \in S |-> g[x]],
           NEW i \in S, \A j \in S : j # i => g[j] = f[j]
    PROVE  g = [f EXCEPT ![i] = g[i]]
OBVIOUS

\* A part of a sum of natural numbers.
LEMMA SumPart ==
    ASSUME NEW S, IsFiniteSet(S), NEW R \in SUBSET S, NEW f, \A x \in S : f[x] \in Nat
    PROVE  SumFunctionOnSet(f, R) <= SumFunctionOnSet(f, S) /\ SumFunctionOnSet(f, R) \in Nat
<1> DEFINE C == {T \in SUBSET S : /\ SumFunctionOnSet(f, T \cap R) <= SumFunctionOnSet(f, T)
                                  /\ 0 <= SumFunctionOnSet(f, T)}
<1>i. \A x \in S : f[x] \in Int
  OBVIOUS
<1>0. \A T \in SUBSET S : IsFiniteSet(T) /\ SumFunctionOnSet(f, T) \in Int
  <2> SUFFICES ASSUME NEW T \in SUBSET S PROVE IsFiniteSet(T) /\ SumFunctionOnSet(f, T) \in Int
    OBVIOUS
  <2>1. IsFiniteSet(T) /\ \A x \in T : f[x] \in Int
    BY <1>i, FS_Subset
  <2> QED BY <2>1, SumInt
<1>1. {} \in C
  <2>1. {} \cap R = {}
    OBVIOUS
  <2> QED BY <2>1, SumEmpty
<1>2. ASSUME NEW T \in SUBSET S, NEW x \in S \ T, T \in C
      PROVE  T \cup {x} \in C
  <2>1. IsFiniteSet(T) /\ IsFiniteSet(T \cap R) /\ T \cap R \in SUBSET S
    BY <1>0
  <2>2. SumFunctionOnSet(f, T \cup {x}) = f[x] + SumFunctionOnSet(f, T)
    BY <2>1, SumAdd
  <2>3. /\ SumFunctionOnSet(f, T) \in Int /\ SumFunctionOnSet(f, T \cap R) \in Int
        /\ SumFunctionOnSet(f, T \cap R) <= SumFunctionOnSet(f, T)
        /\ 0 <= SumFunctionOnSet(f, T) /\ f[x] \in Nat
    BY <1>0, <1>2, <2>1
  <2>4. CASE x \in R
    <3>1. (T \cup {x}) \cap R = (T \cap R) \cup {x}
      BY <2>4
    <3>2. SumFunctionOnSet(f, (T \cap R) \cup {x}) = f[x] + SumFunctionOnSet(f, T \cap R)
      <4>1. x \notin T \cap R /\ \A y \in (T \cap R) \cup {x} : f[y] \in Int
        BY <1>i
      <4> QED BY <4>1, <2>1, SumAdd
    <3>3. /\ SumFunctionOnSet(f, (T \cup {x}) \cap R) <= SumFunctionOnSet(f, T \cup {x})
          /\ 0 <= SumFunctionOnSet(f, T \cup {x})
      BY <2>2, <2>3, <3>1, <3>2
    <3> QED BY <3>3
  <2>5. CASE x \notin R
    <3>1. (T \cup {x}) \cap R = T \cap R
      BY <2>5
    <3>2. /\ SumFunctionOnSet(f, (T \cup {x}) \cap R) <= SumFunctionOnSet(f, T \cup {x})
          /\ 0 <= SumFunctionOnSet(f, T \cup {x})
      <4>1. SumFunctionOnSet(f, (T \cup {x}) \cap R) = SumFunctionOnSet(f, T \cap R)
        BY <3>1
      <4> HIDE DEF C
      <4> QED BY <2>2, <2>3, <4>1
    <3> QED BY <3>2
  <2> QED BY <2>4, <2>5
<1>3. {} \in C /\ \A T \in SUBSET S : \A x \in S \ T : T \in C => T \cup {x} \in C
  <2> HIDE DEF C
  <2> QED BY <1>1, <1>2
<1>4. \A T \in SUBSET S : T \in C
  <2> HIDE DEF C
  <2> QED BY <1>3, FiniteInduction
<1>5. S \cap R = R /\ R \cap R = R
  OBVIOUS
<1>6. S \in C /\ R \in C
  BY <1>4
<1> QED BY <1>5, <1>6, <1>0

\* The sum of the sums of the parts.
LEMMA SumParts ==
    ASSUME NEW S, IsFiniteSet(S), NEW P, IsFiniteSet(P), NEW key, \A x \in S : key[x] \in P,
           NEW f, \A x \in S : f[x] \in Int, NEW g, NEW part,
           \A p \in P : part[p] \subseteq S /\ \A x \in S : x \in part[p] <=> key[x] = p,
           \A p \in P : g[p] = SumFunctionOnSet(f, part[p])
    PROVE  SumFunctionOnSet(g, P) = SumFunctionOnSet(f, S)
<1> DEFINE Part(T, p) == {x \in T : key[x] = p}
           G(T) == [p \in P |-> SumFunctionOnSet(f, Part(T, p))]
           C == {T \in SUBSET S : SumFunctionOnSet(G(T), P) = SumFunctionOnSet(f, T)}
<1>0. \A T \in SUBSET S : /\ IsFiniteSet(T) /\ SumFunctionOnSet(f, T) \in Int
                          /\ \A p \in P : G(T)[p] \in Int /\ IsFiniteSet(Part(T, p))
  <2>1. \A T \in SUBSET S : IsFiniteSet(T) /\ SumFunctionOnSet(f, T) \in Int
    BY FS_Subset, SumInt
  <2>2. \A T \in SUBSET S, p \in P : Part(T, p) \in SUBSET S
    OBVIOUS
  <2> QED BY <2>1, <2>2
<1>1. {} \in C
  <2> DEFINE z == [p \in P |-> 0]
             D == {T \in SUBSET P : SumFunctionOnSet(z, T) = 0}
  <2>1. {} \in D
    BY SumEmpty
  <2>2. ASSUME NEW T \in SUBSET P, NEW x \in P \ T, T \in D
        PROVE  T \cup {x} \in D
    <3>1. IsFiniteSet(T)
      BY FS_Subset
    <3>2. SumFunctionOnSet(z, T \cup {x}) = z[x] + SumFunctionOnSet(z, T)
      BY <3>1, SumAdd
    <3> QED BY <3>2, <2>2
  <2>3. P \in D
    <3> HIDE DEF D
    <3>1. \A T \in SUBSET P : \A x \in P \ T : T \in D => T \cup {x} \in D
      BY <2>2
    <3>2. \A T \in SUBSET P : T \in D
      BY <2>1, <3>1, FiniteInduction
    <3> QED BY <3>2
  <2>4. \A p \in P : Part({}, p) = {}
    OBVIOUS
  <2>5. G({}) = z
    BY <2>4, SumEmpty
  <2> QED BY <2>3, <2>5, SumEmpty
<1>2. ASSUME NEW T \in SUBSET S, NEW x \in S \ T, T \in C
      PROVE  T \cup {x} \in C
  <2> DEFINE U == T \cup {x}
             q == key[x]
  <2>1. U \in SUBSET S /\ T \in SUBSET S /\ q \in P /\ x \notin T
    OBVIOUS
  <2>2. SumFunctionOnSet(f, U) = f[x] + SumFunctionOnSet(f, T)
    <3>1. IsFiniteSet(T) /\ x \notin T /\ \A y \in T \cup {x} : f[y] \in Int
      BY <1>0
    <3> QED BY <3>1, SumAdd
  <2>3. \A p \in P \ {q} : Part(U, p) = Part(T, p)
    OBVIOUS
  <2>4. Part(U, q) = Part(T, q) \cup {x}
    OBVIOUS
  <2>5. SumFunctionOnSet(f, Part(T, q) \cup {x}) = f[x] + SumFunctionOnSet(f, Part(T, q))
    <3>1. IsFiniteSet(Part(T, q)) /\ x \notin Part(T, q)
      BY <1>0, <2>1
    <3>2. \A y \in Part(T, q) \cup {x} : f[y] \in Int
      OBVIOUS
    <3> HIDE DEF Part, q
    <3> QED BY <3>1, <3>2, SumAdd
  <2>6. /\ \A p \in P \ {q} : G(T)[p] = G(U)[p]
        /\ G(U)[q] = f[x] + G(T)[q]
    BY <2>1, <2>3, <2>4, <2>5
  <2>7. \A p \in P : G(T)[p] \in Int /\ G(U)[p] \in Int
    BY <1>0, <2>1
  <2>8. SumFunctionOnSet(G(U), P) = SumFunctionOnSet(G(T), P) + (G(U)[q] - G(T)[q])
    <3> HIDE DEF G, q, U
    <3> QED BY <2>1, <2>6, <2>7, SumChange
  <2>9. f[x] \in Int /\ G(T)[q] \in Int /\ SumFunctionOnSet(f, T) \in Int
    BY <1>0, <2>1, <2>7
  <2>10. SumFunctionOnSet(G(T), P) = SumFunctionOnSet(f, T)
    BY <1>2
  <2> HIDE DEF G, q, U
  <2>11. SumFunctionOnSet(G(U), P) = SumFunctionOnSet(f, U)
    BY <2>2, <2>6, <2>8, <2>9, <2>10
  <2> QED BY <2>1, <2>11 DEF U
<1>3. S \in C
  <2> HIDE DEF C
  <2>1. \A T \in SUBSET S : \A x \in S \ T : T \in C => T \cup {x} \in C
    BY <1>2
  <2>2. \A T \in SUBSET S : T \in C
    BY <1>1, <2>1, FiniteInduction
  <2> QED BY <2>2
<1>4. \A p \in P : G(S)[p] \in Int /\ g[p] = G(S)[p]
  <2>1. \A p \in P : part[p] = Part(S, p)
    OBVIOUS
  <2> QED BY <1>0, <2>1
<1>5. SumFunctionOnSet(g, P) = SumFunctionOnSet(G(S), P)
  <2> HIDE DEF G
  <2> QED BY <1>4, SumSame
<1> QED BY <1>3, <1>5

\* Each summand on the left is at most one of its own on the right.
LEMMA SumInto ==
    ASSUME NEW S, IsFiniteSet(S), NEW R, IsFiniteSet(R), NEW h, \A x \in S : h[x] \in R,
           \A x, y \in S : h[x] = h[y] => x = y, NEW f, NEW g,
           \A x \in S : f[x] \in Nat /\ f[x] <= g[h[x]], \A x \in R : g[x] \in Nat
    PROVE  SumFunctionOnSet(f, S) <= SumFunctionOnSet(g, R)
<1> DEFINE Im(T) == {h[x] : x \in T}
           C == {T \in SUBSET S : SumFunctionOnSet(f, T) <= SumFunctionOnSet(g, Im(T))}
<1>0. \A T \in SUBSET S : /\ IsFiniteSet(T) /\ Im(T) \in SUBSET R /\ IsFiniteSet(Im(T))
                          /\ SumFunctionOnSet(f, T) \in Nat /\ SumFunctionOnSet(g, Im(T)) \in Nat
                          /\ SumFunctionOnSet(g, Im(T)) <= SumFunctionOnSet(g, R)
  <2>1. \A T \in SUBSET S : Im(T) \in SUBSET R /\ IsFiniteSet(Im(T)) /\ IsFiniteSet(T)
    BY FS_Subset
  <2>2. \A T \in SUBSET S : SumFunctionOnSet(f, T) \in Nat
    BY SumPart
  <2>3. \A T \in SUBSET R : SumFunctionOnSet(g, T) \in Nat /\ SumFunctionOnSet(g, T) <= SumFunctionOnSet(g, R)
    BY SumPart
  <2> HIDE DEF Im
  <2> QED BY <2>1, <2>2, <2>3
<1>1. {} \in C
  <2>1. Im({}) = {}
    OBVIOUS
  <2> QED BY <2>1, SumEmpty
<1>2. ASSUME NEW T \in SUBSET S, NEW x \in S \ T, T \in C
      PROVE  T \cup {x} \in C
  <2>1. SumFunctionOnSet(f, T \cup {x}) = f[x] + SumFunctionOnSet(f, T)
    <3>1. IsFiniteSet(T) /\ x \notin T
      BY <1>0
    <3>2. \A y \in T \cup {x} : f[y] \in Int
      OBVIOUS
    <3> QED BY <3>1, <3>2, SumAdd
  <2>2. Im(T \cup {x}) = Im(T) \cup {h[x]} /\ h[x] \notin Im(T)
    OBVIOUS
  <2>3. SumFunctionOnSet(g, Im(T) \cup {h[x]}) = g[h[x]] + SumFunctionOnSet(g, Im(T))
    <3>1. IsFiniteSet(Im(T)) /\ \A y \in Im(T) \cup {h[x]} : g[y] \in Int
      BY <1>0
    <3> HIDE DEF Im
    <3> QED BY <3>1, <2>2, SumAdd
  <2>4. /\ SumFunctionOnSet(f, T) \in Nat /\ SumFunctionOnSet(g, Im(T)) \in Nat
        /\ f[x] \in Nat /\ g[h[x]] \in Nat /\ f[x] <= g[h[x]]
        /\ SumFunctionOnSet(f, T) <= SumFunctionOnSet(g, Im(T))
    BY <1>0, <1>2
  <2>5. SumFunctionOnSet(f, T \cup {x}) <= SumFunctionOnSet(g, Im(T \cup {x}))
    <3>1. SumFunctionOnSet(g, Im(T \cup {x})) = g[h[x]] + SumFunctionOnSet(g, Im(T))
      BY <2>2, <2>3
    <3> HIDE DEF Im, C
    <3> QED BY <2>1, <3>1, <2>4
  <2> QED BY <2>5
<1>3. S \in C
  <2> HIDE DEF C
  <2>1. \A T \in SUBSET S : \A x \in S \ T : T \in C => T \cup {x} \in C
    BY <1>2
  <2>2. \A T \in SUBSET S : T \in C
    BY <1>1, <2>1, FiniteInduction
  <2> QED BY <2>2
<1>4. SumFunctionOnSet(f, S) <= SumFunctionOnSet(g, Im(S))
  BY <1>3
<1>5. /\ SumFunctionOnSet(g, Im(S)) <= SumFunctionOnSet(g, R)
      /\ SumFunctionOnSet(f, S) \in Nat /\ SumFunctionOnSet(g, Im(S)) \in Nat
      /\ SumFunctionOnSet(g, R) \in Nat
  <2>1. S \in SUBSET S /\ R \in SUBSET R
    OBVIOUS
  <2>2. SumFunctionOnSet(g, R) \in Nat
    BY <2>1, SumPart
  <2> HIDE DEF Im
  <2> QED BY <1>0, <2>1, <2>2
<1> HIDE DEF Im
<1> QED BY <1>4, <1>5

\* Sets whose elements have numbers of their own up to n are finite.
LEMMA NumberedFinite ==
    ASSUME NEW n \in Nat, NEW S, NEW key, \A x \in S : key[x] \in 1..n,
           \A x, y \in S : key[x] = key[y] => x = y
    PROVE  IsFiniteSet(S)
<1> DEFINE k == [x \in S |-> key[x]]
<1>1. k \in Injection(S, 1..n)
  BY DEF Injection, IsInjective
<1>2. IsFiniteSet(1..n)
  BY FS_Interval
<1> HIDE DEF k
<1> QED BY <1>1, <1>2, FS_Injection

\* Two sums over the same set.
LEMMA SumPlus ==
    ASSUME NEW S, IsFiniteSet(S), NEW f, NEW g, NEW h,
           \A x \in S : f[x] \in Int /\ g[x] \in Int /\ h[x] = f[x] + g[x]
    PROVE  SumFunctionOnSet(h, S) = SumFunctionOnSet(f, S) + SumFunctionOnSet(g, S)
<1> DEFINE C == {T \in SUBSET S :
                    SumFunctionOnSet(h, T) = SumFunctionOnSet(f, T) + SumFunctionOnSet(g, T)}
<1>1. {} \in C
  BY SumEmpty
<1>2. ASSUME NEW T \in SUBSET S, NEW x \in S \ T, T \in C
      PROVE  T \cup {x} \in C
  <2>1. IsFiniteSet(T) /\ \A y \in T \cup {x} : f[y] \in Int /\ g[y] \in Int /\ h[y] \in Int
    BY FS_Subset
  <2>2. /\ SumFunctionOnSet(f, T \cup {x}) = f[x] + SumFunctionOnSet(f, T)
        /\ SumFunctionOnSet(g, T \cup {x}) = g[x] + SumFunctionOnSet(g, T)
        /\ SumFunctionOnSet(h, T \cup {x}) = h[x] + SumFunctionOnSet(h, T)
    BY <2>1, SumAdd
  <2>3. SumFunctionOnSet(f, T) \in Int /\ SumFunctionOnSet(g, T) \in Int
    BY <2>1, SumInt
  <2>4. SumFunctionOnSet(h, T) = SumFunctionOnSet(f, T) + SumFunctionOnSet(g, T)
    BY <1>2
  <2> QED BY <2>1, <2>2, <2>3, <2>4
<1> HIDE DEF C
<1>3. \A T \in SUBSET S : \A x \in S \ T : T \in C => T \cup {x} \in C
  BY <1>2
<1>4. \A T \in SUBSET S : T \in C
  BY <1>1, <1>3, FiniteInduction
<1> QED BY <1>4 DEF C


-----------------------------------------------------------------------------
(* The rows after each of the statements. *)

\* The tables there are.
Shaped(d) ==
    d = [money |-> d.money, inv |-> d.inv, items |-> d.items, mails |-> d.mails,
         auctions |-> d.auctions]

\* Who is answered, with the item or the payment, is a character.
Answerable(m) == m.kind = "MAIL_NORMAL" \/ m.cod > 0 => m.from \in Player

\* The items of inventories exist, every item is in one inventory or mail at
\* most, and no mail is empty.
RowsSound(d) ==
    /\ \A p \in Player : \A i \in d.inv[p] :
           /\ i \in d.items
           /\ \A q \in Player : i \in d.inv[q] => q = p
           /\ \A m \in d.mails : m.item # i
    /\ \A m, n \in d.mails : m.item = n.item /\ m.item # NoItem => m = n
    /\ \A m \in d.mails : ~IsEmpty(m) /\ Answerable(m)

RowsOK(d) == Shaped(d) /\ MailRows(d) /\ RowsSound(d)

\* A mail in memory and its row: what a save writes back may be newer.
Follows(m, x) ==
    /\ x.id = m.id /\ x.to = m.to /\ x.from = m.from /\ x.kind = m.kind
    /\ m.item # NoItem => x.item = m.item
    /\ m.state # "changed" => x.money = m.money /\ x.cod = m.cod

RowOf(m, x) ==
    /\ x.id = m.id /\ x.to = m.to /\ x.from = m.from /\ x.kind = m.kind
    /\ m.item # NoItem => x.item = m.item
    /\ x.money = m.money /\ x.cod = m.cod

OneEach(mails) == \A m, n \in mails : m.id = n.id => m = n

LEMMA RowsFields ==
    ASSUME NEW d, RowsOK(d)
    PROVE  /\ d.money \in [Player -> 0..MaxMoney] /\ d.inv \in [Player -> SUBSET Item]
           /\ d.items \subseteq Item /\ d.mails \subseteq Mail
           /\ \A m \in d.mails : m.state = "unchanged" /\ m \in Mail /\ ~IsEmpty(m) /\ Answerable(m)
           /\ \A m, n \in d.mails : m.id = n.id => m = n
BY DEF RowsOK, MailRows, RowsSound

\* New mails in rows that know neither their ids nor their items.
LEMMA MailsAdded ==
    ASSUME NEW d, RowsOK(d), NEW S, S \subseteq Mail, OneEach(S),
           \A s \in S : /\ s.state = "unchanged" /\ ~IsEmpty(s) /\ Answerable(s)
                        /\ \A m \in d.mails : m.id # s.id
                        /\ s.item # NoItem =>
                              /\ \A q \in Player : s.item \notin d.inv[q]
                              /\ \A m \in d.mails : m.item # s.item
                              /\ \A t \in S : t.item = s.item => t = s,
           NEW r, r = [d EXCEPT !.mails = @ \cup S]
    PROVE  /\ RowsOK(r) /\ r.mails = d.mails \cup S
           /\ r.money = d.money /\ r.inv = d.inv /\ r.items = d.items /\ r.auctions = d.auctions
<1>1. /\ Shaped(r) /\ r.mails = d.mails \cup S
      /\ r.money = d.money /\ r.inv = d.inv /\ r.items = d.items /\ r.auctions = d.auctions
  BY DEF RowsOK, Shaped
<1>2. MailRows(r)
  <2>1. \A m, n \in r.mails : m.id = n.id => m = n
    BY <1>1, RowsFields DEF OneEach
  <2> QED
    BY <1>1, <2>1, RowsFields DEF MailRows
<1>3. RowsSound(r)
  <2>1. ASSUME NEW p \in Player, NEW i \in r.inv[p]
        PROVE  /\ i \in r.items
               /\ \A q \in Player : i \in r.inv[q] => q = p
               /\ \A m \in r.mails : m.item # i
    <3>1. i # NoItem
      BY <1>1, RowsFields, NoItemAssumption
    <3> QED
      BY <1>1, <2>1, <3>1 DEF RowsOK, RowsSound
  <2>2. \A m, n \in r.mails : m.item = n.item /\ m.item # NoItem => m = n
    BY <1>1 DEF RowsOK, RowsSound
  <2>3. \A m \in r.mails : ~IsEmpty(m) /\ Answerable(m)
    BY <1>1, RowsFields
  <2> QED
    BY <2>1, <2>2, <2>3 DEF RowsSound
<1> QED
  BY <1>1, <1>2, <1>3 DEF RowsOK

\* DELETE of a mail.
LEMMA MailDeleted ==
    ASSUME NEW d, RowsOK(d), NEW id
    PROVE  LET r == DeleteMail(d, id)
           IN  /\ RowsOK(r) /\ r.mails = {m \in d.mails : m.id # id}
               /\ r.money = d.money /\ r.inv = d.inv /\ r.items = d.items /\ r.auctions = d.auctions
<1> DEFINE r == DeleteMail(d, id)
<1>1. /\ Shaped(r) /\ r.mails = {m \in d.mails : m.id # id}
      /\ r.money = d.money /\ r.inv = d.inv /\ r.items = d.items /\ r.auctions = d.auctions
  BY DEF RowsOK, Shaped, DeleteMail
<1> HIDE DEF r
<1>2. r.mails \subseteq d.mails
  BY <1>1
<1>3. MailRows(r)
  BY <1>1, <1>2, RowsFields DEF MailRows
<1>4. RowsSound(r)
  BY <1>1, <1>2 DEF RowsOK, RowsSound
<1>5. RowsOK(r)
  BY <1>1, <1>3, <1>4 DEF RowsOK
<1> QED
  BY <1>1, <1>5 DEF r

\* An item leaves the inventory of p.
LEMMA ItemUnbagged ==
    ASSUME NEW d, RowsOK(d), NEW i
    PROVE  LET r == DeleteFromInventoryDB(d, i)
           IN  /\ RowsOK(r) /\ \A q \in Player : r.inv[q] = d.inv[q] \ {i}
               /\ r.money = d.money /\ r.mails = d.mails /\ r.items = d.items /\ r.auctions = d.auctions
<1> DEFINE r == DeleteFromInventoryDB(d, i)
<1>1. /\ Shaped(r) /\ r.inv = [p \in Player |-> d.inv[p] \ {i}]
      /\ r.money = d.money /\ r.mails = d.mails /\ r.items = d.items /\ r.auctions = d.auctions
  BY DEF RowsOK, Shaped, DeleteFromInventoryDB
<1> HIDE DEF r
<1>2. r.inv \in [Player -> SUBSET Item] /\ \A q \in Player : r.inv[q] = d.inv[q] \ {i}
  BY <1>1, RowsFields
<1>3. MailRows(r)
  BY <1>1, <1>2, RowsFields DEF MailRows
<1>4. RowsSound(r)
  BY <1>1, <1>2 DEF RowsOK, RowsSound
<1>5. RowsOK(r)
  BY <1>1, <1>3, <1>4 DEF RowsOK
<1> QED
  BY <1>1, <1>2, <1>5 DEF r

\* Items that exist and that no one but p has.
ForOne(d, p, items) ==
    /\ items \subseteq d.items
    /\ \A i \in items : /\ \A q \in Player \ {p} : i \notin d.inv[q]
                        /\ \A m \in d.mails : m.item # i

\* SaveInventoryAndGold with items nobody else has.
LEMMA InventorySaved ==
    ASSUME NEW d, RowsOK(d), NEW p \in Player, NEW items, ForOne(d, p, items),
           NEW gold \in 0..MaxMoney
    PROVE  LET r == SaveInventoryAndGold(d, p, items, gold)
           IN  /\ RowsOK(r) /\ r.inv[p] = d.inv[p] \cup items /\ r.money[p] = gold
               /\ \A q \in Player \ {p} : r.inv[q] = d.inv[q] /\ r.money[q] = d.money[q]
               /\ r.mails = d.mails /\ r.items = d.items /\ r.auctions = d.auctions
<1> DEFINE r == SaveInventoryAndGold(d, p, items, gold)
<1>1. /\ Shaped(r)
      /\ r.inv = [q \in Player |-> IF q = p THEN d.inv[q] \cup items ELSE d.inv[q] \ items]
      /\ r.money = [d.money EXCEPT ![p] = gold]
      /\ r.mails = d.mails /\ r.items = d.items /\ r.auctions = d.auctions
  <2> DEFINE bags == [q \in Player |-> IF q = p THEN d.inv[q] \cup items ELSE d.inv[q] \ items]
             purses == [d.money EXCEPT ![p] = gold]
  <2>1. bags = [q \in Player |-> IF q = p THEN d.inv[q] \cup items ELSE d.inv[q] \ items]
    OBVIOUS
  <2>2. r = [d EXCEPT !.inv = bags, !.money = purses]
    BY DEF RowsOK, Shaped, SaveInventoryAndGold
  <2> HIDE DEF bags, r
  <2> QED
    BY <2>1, <2>2 DEF RowsOK, Shaped
<1> HIDE DEF r
<1>2. /\ r.inv \in [Player -> SUBSET Item] /\ r.money \in [Player -> 0..MaxMoney]
      /\ r.inv[p] = d.inv[p] \cup items /\ r.money[p] = gold
      /\ \A q \in Player \ {p} : r.money[q] = d.money[q]
  BY <1>1, RowsFields DEF ForOne
<1>3. \A q \in Player \ {p} : r.inv[q] = d.inv[q]
  BY <1>1, RowsFields DEF ForOne
<1>4. MailRows(r)
  BY <1>1, <1>2, RowsFields DEF MailRows, ForOne
<1>5. RowsSound(r)
  BY <1>1, <1>2, <1>3 DEF RowsOK, RowsSound, ForOne
<1>6. RowsOK(r)
  BY <1>1, <1>4, <1>5 DEF RowsOK
<1> QED
  BY <1>1, <1>2, <1>3, <1>6 DEF r

-----------------------------------------------------------------------------
(* _SaveMail. *)

\* The columns the UPDATE of one mail names.
Updated(x, m) ==
    [x EXCEPT !.money = m.money, !.cod = m.cod, !.checked = m.checked,
              !.item = IF m.item = NoItem THEN NoItem ELSE @]

LEMMA UpdatedRow ==
    ASSUME NEW mails, OneEach(mails), NEW x, NEW m \in mails, m.id = x.id, m.state = "changed"
    PROVE  UpdateRow(x, mails) = Updated(x, m)
<1> DEFINE changed == {n \in mails : n.id = x.id /\ n.state = "changed"}
<1>1. changed = {m}
  BY DEF OneEach
<1>2. (CHOOSE n \in changed : TRUE) = m
  BY <1>1
<1>3. UpdateRow(x, mails) =
          IF changed = {} THEN x
          ELSE Updated(x, CHOOSE n \in changed : TRUE)
  BY DEF UpdateRow, Updated
<1> HIDE DEF changed
<1> QED
  BY <1>1, <1>2, <1>3

LEMMA UntouchedRow ==
    ASSUME NEW mails, NEW x, \A m \in mails : m.id = x.id => m.state # "changed"
    PROVE  UpdateRow(x, mails) = x
BY DEF UpdateRow

\* What becomes of one row whose mail is in memory.
LEMMA FollowedRow ==
    ASSUME NEW mails, mails \subseteq Mail, OneEach(mails), NEW x \in Mail, ~IsEmpty(x), Answerable(x),
           x.state = "unchanged", NEW m \in mails, Follows(m, x), Answerable(m)
    PROVE  LET y == UpdateRow(x, mails)
           IN  /\ y \in Mail /\ y.state = "unchanged" /\ Answerable(y)
               /\ y.id = x.id /\ y.to = x.to /\ y.from = x.from /\ y.kind = x.kind
               /\ y.item \in {x.item, NoItem}
               /\ m.state = "changed" /\ m.item = NoItem => y.item = NoItem
               /\ ~IsEmpty(m) => ~IsEmpty(y)
               /\ RowOf(m, y)
<1>1. m \in Mail /\ m.id = x.id
  BY DEF Follows
<1>2. CASE m.state = "changed"
  <2> DEFINE y == Updated(x, m)
  <2>1. UpdateRow(x, mails) = y
    BY <1>1, <1>2, UpdatedRow
  <2>2. /\ y \in Mail /\ y.state = "unchanged" /\ y.id = x.id /\ y.to = x.to /\ y.from = x.from
        /\ y.kind = x.kind /\ y.money = m.money /\ y.cod = m.cod
        /\ y.item = IF m.item = NoItem THEN NoItem ELSE x.item
    BY <1>1 DEF Mail, Updated
  <2> HIDE DEF y
  <2>3. m.kind = x.kind /\ m.from = x.from
    BY DEF Follows
  <2>4. Answerable(y)
    BY <2>2, <2>3 DEF Answerable
  <2> QED
    BY <1>1, <1>2, <2>1, <2>2, <2>4 DEF Follows, RowOf, IsEmpty
<1>3. CASE m.state # "changed"
  <2>1. UpdateRow(x, mails) = x
    BY <1>1, <1>3, UntouchedRow DEF OneEach
  <2> QED
    BY <1>1, <1>3, <2>1 DEF Follows, RowOf
<1> QED
  BY <1>2, <1>3

\* Mails in memory that can be written back to the rows d.
Savable(mails, d) ==
    /\ mails \subseteq Mail /\ OneEach(mails)
    /\ \A m \in mails : Answerable(m) /\ \E x \in d.mails : Follows(m, x)

\* What becomes of any row.
LEMMA AnyRow ==
    ASSUME NEW d, RowsOK(d), NEW mails, Savable(mails, d), NEW x \in d.mails
    PROVE  LET y == UpdateRow(x, mails)
           IN  /\ y \in Mail /\ y.state = "unchanged" /\ Answerable(y)
               /\ y.id = x.id /\ y.to = x.to /\ y.from = x.from /\ y.kind = x.kind
               /\ y.item \in {x.item, NoItem}
               /\ (\A m \in mails : m.id # x.id) => y = x
               /\ \A m \in mails : m.id = x.id =>
                     /\ Follows(m, x)
                     /\ m.state = "changed" /\ m.item = NoItem => y.item = NoItem
                     /\ ~IsEmpty(m) => ~IsEmpty(y)
                     /\ RowOf(m, y)
<1>1. x \in Mail /\ x.state = "unchanged" /\ ~IsEmpty(x) /\ Answerable(x)
  BY RowsFields
<1>2. CASE \A m \in mails : m.id # x.id
  BY <1>1, <1>2, UntouchedRow
<1>3. ASSUME NEW m \in mails, m.id = x.id
      PROVE  Follows(m, x) /\ \A n \in mails : n.id = x.id => n = m
  <2>1. PICK z \in d.mails : Follows(m, z)
    BY DEF Savable
  <2>2. z = x
    BY <1>3, <2>1, RowsFields DEF Follows
  <2>3. \A n \in mails : n.id = x.id => n = m
    BY <1>3 DEF Savable, OneEach
  <2> QED
    BY <2>1, <2>2, <2>3
<1>4. CASE \E m \in mails : m.id = x.id
  <2>1. PICK m \in mails : m.id = x.id
    BY <1>4
  <2>2. Follows(m, x) /\ \A n \in mails : n.id = x.id => n = m
    BY <1>3, <2>1
  <2>3. mails \subseteq Mail /\ OneEach(mails) /\ Answerable(m)
    BY DEF Savable
  <2> DEFINE y == UpdateRow(x, mails)
  <2>4. /\ y \in Mail /\ y.state = "unchanged" /\ Answerable(y)
        /\ y.id = x.id /\ y.to = x.to /\ y.from = x.from /\ y.kind = x.kind
        /\ y.item \in {x.item, NoItem}
        /\ m.state = "changed" /\ m.item = NoItem => y.item = NoItem
        /\ ~IsEmpty(m) => ~IsEmpty(y)
        /\ RowOf(m, y)
    BY <1>1, <2>2, <2>3, FollowedRow
  <2> HIDE DEF y
  <2> QED
    BY <2>1, <2>2, <2>4 DEF y
<1> QED
  BY <1>2, <1>4

LEMMA MailsSaved ==
    ASSUME NEW d, RowsOK(d), NEW mails, Savable(mails, d)
    PROVE  LET r == SaveMail(d, mails)
           IN  /\ RowsOK(r) /\ r.money = d.money /\ r.inv = d.inv /\ r.auctions = d.auctions
               /\ \A y \in r.mails : \E x \in d.mails :
                     /\ y.id = x.id /\ y.to = x.to /\ y.from = x.from /\ y.kind = x.kind
                     /\ y.item \in {x.item, NoItem}
               /\ \A x \in d.mails : (\A m \in mails : m.id # x.id) =>
                     x \in r.mails /\ (x.item \in d.items => x.item \in r.items)
               /\ \A m \in mails : m.state # "deleted" /\ ~IsEmpty(m) =>
                     /\ \E y \in r.mails : RowOf(m, y)
                     /\ m.item # NoItem /\ m.item \in d.items => m.item \in r.items
               /\ \A m \in mails : m.state = "changed" /\ m.item = NoItem =>
                     \A y \in r.mails : y.id = m.id => y.item = NoItem
               /\ r.items \subseteq d.items
               /\ \A i \in d.items \ r.items :
                     \E m \in mails : m.state = "deleted" /\ m.item = i
<1> DEFINE doomed == {m \in mails : m.state = "deleted"}
           kept == {m \in d.mails : m.id \notin {n.id : n \in doomed}}
           gone == {m.item : m \in doomed}
           rows == {m \in {UpdateRow(x, mails) : x \in kept} : ~IsEmpty(m)}
           r == SaveMail(d, mails)
<1>1. /\ Shaped(r) /\ r.mails = rows /\ r.items = d.items \ gone
      /\ r.money = d.money /\ r.inv = d.inv /\ r.auctions = d.auctions
  <2>1. r = [d EXCEPT !.items = @ \ gone, !.mails = rows]
    BY DEF RowsOK, Shaped, SaveMail
  <2> HIDE DEF gone, rows, r
  <2> QED
    BY <2>1 DEF RowsOK, Shaped
<1> HIDE DEF r
<1>2. ASSUME NEW m \in mails
      PROVE  \E x \in d.mails : Follows(m, x)
  BY DEF Savable
<1>3. ASSUME NEW y \in rows
      PROVE  \E x \in kept : x \in d.mails /\ y = UpdateRow(x, mails)
  OBVIOUS
<1>4. ASSUME NEW y \in rows
      PROVE  /\ y \in Mail /\ y.state = "unchanged" /\ Answerable(y) /\ ~IsEmpty(y)
             /\ \E x \in d.mails :
                   /\ y = UpdateRow(x, mails)
                   /\ y.id = x.id /\ y.to = x.to /\ y.from = x.from /\ y.kind = x.kind
                   /\ y.item \in {x.item, NoItem}
  <2>1. PICK x \in kept : x \in d.mails /\ y = UpdateRow(x, mails)
    BY <1>3
  <2>2. ~IsEmpty(y)
    OBVIOUS
  <2> HIDE DEF kept, rows
  <2> QED
    BY <2>1, <2>2, AnyRow
<1>5. ASSUME NEW i \in gone, i # NoItem
      PROVE  \E m \in mails, x \in d.mails : m.state = "deleted" /\ m.item = i /\ Follows(m, x) /\ x.item = i
  <2>1. PICK m \in doomed : i = m.item
    OBVIOUS
  <2>2. m \in mails /\ m.state = "deleted"
    OBVIOUS
  <2>3. PICK x \in d.mails : Follows(m, x)
    BY <1>2, <2>2
  <2> QED
    BY <1>5, <2>1, <2>2, <2>3 DEF Follows
<1>6. NoItem \notin d.items
  BY RowsFields, NoItemAssumption
<1>7. ASSUME NEW m \in mails, NEW x \in d.mails, x.id = m.id, m.state # "deleted"
      PROVE  x \in kept
  <2>1. \A n \in doomed : n.id # m.id
    BY <1>7 DEF Savable, OneEach
  <2> QED
    BY <1>7, <2>1
<1>8. ASSUME NEW x \in d.mails, \A m \in mails : m.id # x.id
      PROVE  x \in kept
  BY <1>8
<1> HIDE DEF doomed, kept, gone
<1>9. ASSUME NEW x \in kept, ~IsEmpty(UpdateRow(x, mails))
      PROVE  UpdateRow(x, mails) \in rows
  BY <1>9
<1> HIDE DEF rows
<1>10. MailRows(r)
  <2>1. \A m, n \in rows : m.id = n.id => m = n
    BY <1>4, RowsFields
  <2> QED
    BY <1>1, <1>4, <1>6, <2>1, RowsFields DEF MailRows
<1>11. RowsSound(r)
  <2>1. ASSUME NEW p \in Player, NEW i \in d.inv[p]
        PROVE  i \in r.items /\ i # NoItem /\ \A m \in rows : m.item # i
    <3>1. i \in d.items /\ i # NoItem /\ \A m \in d.mails : m.item # i
      BY <1>6 DEF RowsOK, RowsSound
    <3>2. i \notin gone
      BY <1>5, <3>1
    <3>3. \A m \in rows : m.item # i
      BY <1>4, <3>1
    <3> QED
      BY <1>1, <3>1, <3>2, <3>3
  <2>2. ASSUME NEW m \in rows, NEW n \in rows, m.item = n.item, m.item # NoItem
        PROVE  m = n
    <3>1. PICK x \in d.mails : m = UpdateRow(x, mails) /\ m.item \in {x.item, NoItem}
      BY <1>4
    <3>2. PICK z \in d.mails : n = UpdateRow(z, mails) /\ n.item \in {z.item, NoItem}
      BY <1>4
    <3>3. x = z
      BY <2>2, <3>1, <3>2 DEF RowsOK, RowsSound
    <3> QED
      BY <3>1, <3>2, <3>3
  <2>3. \A p \in Player : \A i \in d.inv[p] : \A q \in Player : i \in d.inv[q] => q = p
    BY DEF RowsOK, RowsSound
  <2> QED
    BY <1>1, <1>4, <2>1, <2>2, <2>3 DEF RowsSound
<1>12. RowsOK(r)
  BY <1>1, <1>10, <1>11 DEF RowsOK
<1>13. ASSUME NEW x \in d.mails, \A m \in mails : m.id # x.id
       PROVE  x \in rows /\ (x.item \in d.items => x.item \in r.items)
  <2>1. UpdateRow(x, mails) = x /\ ~IsEmpty(x)
    BY <1>13, AnyRow, RowsFields
  <2>2. x \in rows
    BY <1>8, <1>9, <1>13, <2>1
  <2>3. ASSUME x.item \in gone, x.item # NoItem
        PROVE  FALSE
    <3>1. PICK m \in mails, z \in d.mails : Follows(m, z) /\ z.item = x.item
      BY <1>5, <2>3
    <3>2. z = x
      BY <2>3, <3>1 DEF RowsOK, RowsSound
    <3> QED
      BY <1>13, <3>1, <3>2 DEF Follows
  <2> QED
    BY <1>1, <1>6, <2>2, <2>3
<1>14. ASSUME NEW m \in mails, m.state # "deleted", ~IsEmpty(m)
       PROVE  /\ \E y \in rows : RowOf(m, y)
              /\ m.item # NoItem /\ m.item \in d.items => m.item \in r.items
  <2>1. PICK x \in d.mails : Follows(m, x)
    BY <1>2
  <2>2. x.id = m.id
    BY <2>1 DEF Follows
  <2>3. RowOf(m, UpdateRow(x, mails)) /\ ~IsEmpty(UpdateRow(x, mails))
    BY <1>14, <2>2, AnyRow
  <2>4. UpdateRow(x, mails) \in rows
    BY <1>7, <1>9, <1>14, <2>2, <2>3
  <2>5. ASSUME m.item # NoItem, m.item \in gone
        PROVE  FALSE
    <3>1. PICK n \in mails, z \in d.mails :
             n.state = "deleted" /\ n.item = m.item /\ Follows(n, z) /\ z.item = m.item
      BY <1>5, <2>5
    <3>2. x.item = m.item
      BY <2>1, <2>5 DEF Follows
    <3>3. z = x
      BY <2>5, <3>1, <3>2 DEF RowsOK, RowsSound
    <3>4. n.id = m.id
      BY <2>2, <3>1, <3>3 DEF Follows
    <3>5. n = m
      BY <3>4 DEF Savable, OneEach
    <3> QED
      BY <1>14, <3>1, <3>5
  <2> QED
    BY <1>1, <2>3, <2>4, <2>5
<1>15. ASSUME NEW m \in mails, m.state = "changed", m.item = NoItem, NEW y \in rows, y.id = m.id
       PROVE  y.item = NoItem
  <2>1. PICK x \in d.mails : y = UpdateRow(x, mails) /\ y.id = x.id
    BY <1>4
  <2> QED
    BY <1>15, <2>1, AnyRow
<1>16. ASSUME NEW i \in d.items \ r.items
       PROVE  \E m \in mails : m.state = "deleted" /\ m.item = i
  BY <1>1, <1>5, <1>6
<1>17. \A y \in rows : \E x \in d.mails :
          /\ y.id = x.id /\ y.to = x.to /\ y.from = x.from /\ y.kind = x.kind
          /\ y.item \in {x.item, NoItem}
  BY <1>4
<1> QED
  BY <1>1, <1>12, <1>13, <1>14, <1>15, <1>16, <1>17 DEF r

-----------------------------------------------------------------------------
(* Items in inventories and mails. *)

Placed(d, i) == (\E q \in Player : i \in d.inv[q]) \/ \E m \in d.mails : m.item = i

\* From d to r only items of inventories and mails got there, or ceased to be.
GoodsMoved(d, r) ==
    /\ r.auctions = d.auctions
    /\ \A i \in Item : Placed(r, i) \/ i \in d.items \ r.items => Placed(d, i)

LEMMA GoodsMoveOn ==
    ASSUME NEW d, NEW e, NEW r, GoodsMoved(d, e), GoodsMoved(e, r)
    PROVE  GoodsMoved(d, r)
BY DEF GoodsMoved

LEMMA GoodsStay ==
    ASSUME NEW d, NEW r, r.auctions = d.auctions, r.items = d.items, r.mails = d.mails,
           \A q \in Player : r.inv[q] = d.inv[q]
    PROVE  GoodsMoved(d, r)
BY DEF GoodsMoved, Placed

\* A save of mails takes items only from mails.
LEMMA SaveMoves ==
    ASSUME NEW d, RowsOK(d), NEW mails, Savable(mails, d)
    PROVE  GoodsMoved(d, SaveMail(d, mails))
<1> DEFINE r == SaveMail(d, mails)
<1>1. /\ r.inv = d.inv /\ r.auctions = d.auctions
      /\ \A y \in r.mails : \E x \in d.mails :
            /\ y.id = x.id /\ y.to = x.to /\ y.from = x.from /\ y.kind = x.kind
            /\ y.item \in {x.item, NoItem}
      /\ \A i \in d.items \ r.items : \E m \in mails : m.state = "deleted" /\ m.item = i
  BY MailsSaved
<1> HIDE DEF r
<1>2. ASSUME NEW i \in Item, Placed(r, i) \/ i \in d.items \ r.items
      PROVE  Placed(d, i)
  <2>1. i # NoItem
    BY NoItemAssumption
  <2>2. CASE Placed(r, i)
    BY <1>1, <2>1, <2>2 DEF Placed
  <2>3. CASE i \in d.items \ r.items
    <3>1. PICK m \in mails : m.item = i
      BY <1>1, <2>3
    <3>2. PICK x \in d.mails : Follows(m, x)
      BY DEF Savable
    <3> QED
      BY <2>1, <3>1, <3>2 DEF Follows, Placed
  <2> QED
    BY <1>2, <2>2, <2>3
<1> QED
  BY <1>1, <1>2 DEF GoodsMoved, r

-----------------------------------------------------------------------------
(* Ids and drafts. *)

\* Drafts have all of a mail but the id.
Draft == [id : {0}, from : Player \cup {Nobody}, to : Player,
          item : Item \cup {NoItem}, money : Nat, cod : Nat,
          kind : {"MAIL_NORMAL", "MAIL_AUCTION"},
          checked : {"none", "returned", "codPayment"},
          state : {"unchanged", "changed", "deleted"}]

LEMMA FreeIdsAreFree ==
    /\ IsFiniteSet(MailId \ UsedIds)
    /\ FreeIds \in [1..Cardinality(MailId \ UsedIds) -> MailId \ UsedIds]
    /\ Cardinality(MailId \ UsedIds) \in Nat
    /\ IsInjective(FreeIds)
<1> DEFINE S == MailId \ UsedIds
<1>1. IsFiniteSet(MailId)
  BY MailsAssumption, FS_Interval DEF MailId
<1>2. IsFiniteSet(S)
  BY <1>1, FS_Subset
<1>3. Cardinality(S) \in Nat /\ ExistsBijection(1..Cardinality(S), S)
  BY <1>2, FS_CardinalityType
<1> HIDE DEF S
<1>4. \E f \in [1..Cardinality(S) -> S] : IsInjective(f)
  BY <1>3 DEF ExistsBijection, Bijection, Injection, IsInjective
<1>5. SetToSeq(S) \in [1..Cardinality(S) -> S] /\ IsInjective(SetToSeq(S))
  BY <1>4 DEF SetToSeq
<1> QED
  BY <1>2, <1>3, <1>5 DEF FreeIds, S

\* What becomes of a draft.
LEMMA SentMails ==
    ASSUME NEW drafts \in Seq(Draft), Len(drafts) <= 1, RoomFor(drafts)
    PROVE  /\ \A n \in Sent(drafts) :
                 /\ n \in Mail /\ n.id \notin UsedIds /\ drafts # <<>>
                 /\ n.from = drafts[1].from /\ n.to = drafts[1].to /\ n.item = drafts[1].item
                 /\ n.money = drafts[1].money /\ n.cod = drafts[1].cod
                 /\ n.kind = drafts[1].kind /\ n.state = drafts[1].state
           /\ \A n, m \in Sent(drafts) : n = m
           /\ drafts # <<>> => Sent(drafts) # {}
<1> DEFINE S == MailId \ UsedIds
           c == Cardinality(S)
<1>1. c \in Nat /\ FreeIds \in [1..c -> S]
  BY FreeIdsAreFree
<1>2. S \subseteq MailId /\ S \cap UsedIds = {}
  OBVIOUS
<1> HIDE DEF S, c
<1>3. Len(FreeIds) = c /\ DOMAIN FreeIds = 1..c
  BY <1>1
<1>4. Len(drafts) \in Nat /\ DOMAIN drafts = 1..Len(drafts)
  BY LenProperties
<1>5. \A k \in DOMAIN drafts : k = 1
  BY <1>4
<1>6. Len(drafts) <= c
  BY <1>3 DEF RoomFor
<1>7. \A k \in DOMAIN drafts : 1 \in DOMAIN drafts /\ 1 \in DOMAIN FreeIds /\ FreeIds[1] \in S
  BY <1>1, <1>3, <1>4, <1>6
<1>8. drafts # <<>> => 1 \in DOMAIN drafts
  BY <1>4, EmptySeq
<1>9. \A n \in Sent(drafts) : 1 \in DOMAIN drafts /\ n = [drafts[1] EXCEPT !.id = FreeIds[1]]
  BY <1>5, <1>7 DEF Sent
<1>10. ASSUME 1 \in DOMAIN drafts
       PROVE  LET n == [drafts[1] EXCEPT !.id = FreeIds[1]]
              IN  /\ n \in Mail /\ n.id \notin UsedIds /\ drafts # <<>>
                  /\ n.from = drafts[1].from /\ n.to = drafts[1].to /\ n.item = drafts[1].item
                  /\ n.money = drafts[1].money /\ n.cod = drafts[1].cod
                  /\ n.kind = drafts[1].kind /\ n.state = drafts[1].state
  <2>1. drafts[1] \in Draft /\ FreeIds[1] \in MailId /\ FreeIds[1] \notin UsedIds
    BY <1>2, <1>4, <1>7, <1>10
  <2>2. drafts # <<>>
    BY <1>4, <1>10
  <2> QED
    BY <2>1, <2>2 DEF Draft, Mail
<1>11. 1 \in DOMAIN drafts => Sent(drafts) # {}
  BY <1>7 DEF Sent
<1> QED
  BY <1>8, <1>9, <1>10, <1>11

\* A letter, with one of its fields changed.
LEMMA LetterDrafts ==
    ASSUME NEW from \in Player, NEW to \in Player, NEW i \in Item \cup {NoItem}, NEW amount \in Nat
    PROVE  /\ Letter(from, to, i, amount) = <<>> <=> (i = NoItem /\ amount = 0)
           /\ Letter(from, to, i, amount) \in Seq(Draft) /\ Len(Letter(from, to, i, amount)) <= 1
           /\ Letter(from, to, i, amount) # <<>> =>
                 LET l == Letter(from, to, i, amount)[1]
                 IN  /\ DOMAIN Letter(from, to, i, amount) = 1..1
                     /\ l \in Draft /\ l.from = from /\ l.to = to /\ l.item = i /\ l.money = amount
                     /\ l.cod = 0 /\ l.kind = "MAIL_NORMAL" /\ l.state = "unchanged"
<1> DEFINE l == [id |-> 0, from |-> from, to |-> to, item |-> i, money |-> amount, cod |-> 0,
                 kind |-> "MAIL_NORMAL", checked |-> "none", state |-> "unchanged"]
<1>1. l \in Draft /\ l.from = from /\ l.to = to /\ l.item = i /\ l.money = amount
      /\ l.cod = 0 /\ l.kind = "MAIL_NORMAL" /\ l.state = "unchanged"
  BY DEF Draft
<1>2. Letter(from, to, i, amount) = IF i = NoItem /\ amount = 0 THEN <<>> ELSE <<l>>
  BY DEF Letter
<1> HIDE DEF l
<1> QED
  BY <1>1, <1>2

-----------------------------------------------------------------------------
(* The queue of the database. *)

\* The rows after j of the transactions that wait.
State(j) == IF j = 0 THEN db ELSE writes[j].rows

Queued == \E S : writes \in Seq(S)

LEMMA QueueRows ==
    ASSUME Queued
    PROVE  /\ Len(writes) \in Nat /\ DOMAIN writes = 1..Len(writes)
           /\ Latest = State(Len(writes))
           /\ Versions = {State(j) : j \in 0..Len(writes)}
<1>1. PICK S : writes \in Seq(S)
  BY DEF Queued
<1>2. Len(writes) \in Nat /\ DOMAIN writes = 1..Len(writes) /\ (writes = <<>> <=> Len(writes) = 0)
  BY <1>1, LenProperties, EmptySeq
<1>3. Latest = State(Len(writes))
  BY <1>2 DEF Latest, Last, State
<1>4. Versions = {State(j) : j \in 0..Len(writes)}
  BY <1>2 DEF Versions, State
<1> QED
  BY <1>2, <1>3, <1>4

LEMMA QueueRowsNext ==
    ASSUME Queued'
    PROVE  /\ Len(writes') \in Nat /\ DOMAIN writes' = 1..Len(writes')
           /\ Latest' = State(Len(writes))'
           /\ Versions' = {State(j)' : j \in 0..Len(writes')}
<1>1. PICK S : writes' \in Seq(S)
  BY DEF Queued
<1>2. Len(writes') \in Nat /\ DOMAIN writes' = 1..Len(writes') /\ (writes' = <<>> <=> Len(writes') = 0)
  BY <1>1, LenProperties, EmptySeq
<1>3. Latest' = State(Len(writes))'
  BY <1>2 DEF Latest, Last, State
<1>4. Versions' = {State(j)' : j \in 0..Len(writes')}
  BY <1>2 DEF Versions, State
<1> QED
  BY <1>2, <1>3, <1>4

\* One transaction more.
LEMMA OneMore ==
    ASSUME Queued, NEW r, NEW p, Commit(r, p)
    PROVE  /\ Queued' /\ Len(writes') = Len(writes) + 1
           /\ \A j \in 0..Len(writes) : State(j)' = State(j)
           /\ Latest' = r
           /\ \A k \in 1..Len(writes) : writes'[k] = writes[k]
           /\ writes'[Len(writes) + 1].by = {p}
           /\ Versions' = Versions \cup {r}
<1> DEFINE t == [rows |-> r, by |-> {p}]
<1>1. PICK S : writes \in Seq(S)
  BY DEF Queued
<1>2. writes' = writes \o <<t>> /\ db' = db
  <2>1. [k \in DOMAIN <<r>> |-> [rows |-> <<r>>[k], by |-> {p}]] = <<t>>
    OBVIOUS
  <2> QED
    BY <2>1 DEF Commit, CommitAll
<1>3. t.rows = r /\ t.by = {p}
  OBVIOUS
<1> HIDE DEF t
<1>4. writes \in Seq(S \cup {t}) /\ <<t>> \in Seq(S \cup {t}) /\ Len(<<t>>) = 1
  BY <1>1, SeqMonotonic
<1>5. /\ writes' \in Seq(S \cup {t}) /\ Len(writes) \in Nat /\ Len(writes') = Len(writes) + 1
      /\ \A k \in 1..Len(writes) : writes'[k] = writes[k]
      /\ writes'[Len(writes) + 1] = t
  BY <1>2, <1>4, ConcatProperties, LenProperties
<1>6. Queued'
  BY <1>5 DEF Queued
<1>7. ASSUME NEW j \in 0..Len(writes)
      PROVE  State(j)' = State(j)
  <2>1. j = 0 \/ j \in 1..Len(writes)
    BY <1>5
  <2> QED
    BY <1>2, <1>5, <2>1 DEF State
<1>8. State(Len(writes))' = r
  <2>1. Len(writes') # 0 /\ writes'[Len(writes')] = t
    BY <1>5
  <2> QED
    BY <1>3, <2>1 DEF State
<1>9. Latest' = r
  BY <1>5, <1>6, <1>8, QueueRowsNext
<1>10. Versions' = Versions \cup {r}
  <2>1. DOMAIN writes = 1..Len(writes) /\ DOMAIN writes' = 1..Len(writes) + 1
    BY <1>1, <1>5, LenProperties
  <2> QED
    BY <1>2, <1>3, <1>5, <2>1 DEF Versions
<1> QED
  BY <1>3, <1>5, <1>6, <1>7, <1>8, <1>9, <1>10

-----------------------------------------------------------------------------
(* The invariant. *)

\* The mails of q are in the later rows r as they are in d.
Kept(d, r, q) ==
    \A x \in d.mails : x.to = q => x \in r.mails /\ (x.item \in d.items => x.item \in r.items)

\* To q the rows d are as good as the later rows r, once it can log in.
Alike(d, r, q) == d.inv[q] = r.inv[q] /\ d.money[q] = r.money[q] /\ Kept(d, r, q)

\* What p has of its mails in memory, next to the newest rows.
BoxOK(b, p, d) ==
    /\ b \subseteq Mail /\ OneEach(b)
    /\ \A m \in b : /\ m.to = p /\ Answerable(m)
                    /\ \E x \in d.mails : RowOf(m, x)
                    /\ m.item # NoItem => m.item \in d.items

Memory ==
    /\ loaded \subseteq online /\ online \subseteq Player
    /\ money \in [Player -> 0..MaxMoney]
    /\ inv \in [Player -> SUBSET Item]
    /\ box \in [Player -> SUBSET Mail]
    /\ \A p \in Player : /\ p \notin online => money[p] = 0 /\ inv[p] = {}
                         /\ p \notin loaded => box[p] = {}

AllRowsOK == \A d \in Versions : RowsOK(d)

Boxes == \A p \in Player : BoxOK(box[p], p, Latest)

\* A login that is answered from rows nothing of p waits behind reads the
\* newest ones.
ReadBack ==
    \A j \in 0..Len(writes), p \in Player :
        (\A k \in j + 1..Len(writes) : p \notin writes[k].by) => Alike(State(j), Latest, p)

\* No version has a mail that is gone for who may still list its mails.
NotListed == \A p \in online \ loaded : \A d \in Versions : Kept(d, Latest, p)

DatabaseOK == Queued /\ AllRowsOK /\ ReadBack /\ NotListed

MailIInv == Memory /\ DatabaseOK /\ Boxes /\ PursesSaved

\* What a step of a session may do with the rows.
Moved == GoodsMoved(Latest, Latest') /\ Versions' \subseteq Versions \cup {Latest'}

\* What a step of p does to the others.
Apart(p) == \A q \in Player \ {p} : Alike(Latest, Latest', q)

\* It leaves them alone...
LEMMA RowsAlone ==
    ASSUME UNCHANGED <<db, writes>>
    PROVE  Moved /\ Latest' = Latest /\ Versions' = Versions
<1>1. Latest' = Latest /\ Versions' = Versions
  BY DEF Latest, Versions
<1> QED
  BY <1>1 DEF Moved, GoodsMoved

\* ... or commits one transaction.
LEMMA CommitMoves ==
    ASSUME MailIInv, NEW r, NEW p, Commit(r, p), GoodsMoved(Latest, r)
    PROVE  Moved
<1>1. Latest' = r /\ Versions' = Versions \cup {r}
  BY OneMore DEF MailIInv, DatabaseOK
<1> QED
  BY <1>1 DEF Moved

LEMMA IdsUsed ==
    /\ \A d \in Versions : \A m \in d.mails : m.id \in UsedIds
    /\ \A p \in Player : \A m \in box[p] : m.id \in UsedIds
<1>1. ASSUME NEW d \in Versions, NEW m \in d.mails
      PROVE  m.id \in UsedIds
  <2>1. m.id \in {n.id : n \in d.mails}
    OBVIOUS
  <2>2. {n.id : n \in d.mails} \in {{n.id : n \in e.mails} : e \in Versions}
    OBVIOUS
  <2> QED
    BY <2>1, <2>2 DEF UsedIds
<1>2. ASSUME NEW p \in Player, NEW m \in box[p]
      PROVE  m.id \in UsedIds
  <2>1. m.id \in {n.id : n \in box[p]}
    OBVIOUS
  <2>2. {n.id : n \in box[p]} \in {{n.id : n \in box[q]} : q \in Player}
    OBVIOUS
  <2> QED
    BY <2>1, <2>2 DEF UsedIds
<1> QED
  BY <1>1, <1>2

LEMMA LatestRows ==
    ASSUME DatabaseOK
    PROVE  /\ Latest \in Versions /\ db \in Versions /\ RowsOK(Latest) /\ RowsOK(db)
           /\ \A m \in Latest.mails : m.id \in UsedIds
<1>1. Latest \in Versions /\ db \in Versions
  BY QueueRows DEF DatabaseOK, State, Versions
<1> QED
  BY <1>1, IdsUsed DEF DatabaseOK, AllRowsOK

LEMMA KeptOn ==
    ASSUME NEW d, NEW e, NEW r, NEW q, Kept(d, e, q), Kept(e, r, q)
    PROVE  Kept(d, r, q)
BY DEF Kept

\* A transaction of the session of p.
LEMMA CommitKeeps ==
    ASSUME MailIInv, NEW p \in Player, NEW r, Commit(r, p), RowsOK(r),
           \A q \in Player \ {p} : Alike(Latest, r, q),
           online' \ loaded' \subseteq online \ loaded,
           p \in online' \ loaded' => Kept(Latest, r, p)
    PROVE  DatabaseOK' /\ Latest' = r
<1>1. Queued /\ AllRowsOK /\ ReadBack /\ NotListed /\ online \subseteq Player
  BY DEF MailIInv, DatabaseOK, Memory
<1>2. /\ Queued' /\ Len(writes') = Len(writes) + 1
      /\ \A j \in 0..Len(writes) : State(j)' = State(j)
      /\ Latest' = r
      /\ \A k \in 1..Len(writes) : writes'[k] = writes[k]
      /\ writes'[Len(writes) + 1].by = {p}
      /\ Versions' = Versions \cup {r}
  BY <1>1, OneMore
<1>3. Len(writes) \in Nat
  BY <1>1, QueueRows
<1>4. AllRowsOK'
  BY <1>1, <1>2 DEF AllRowsOK
<1>5. \A q \in Player : Alike(r, r, q)
  BY DEF Alike, Kept
<1>6. ReadBack'
  <2> SUFFICES ASSUME NEW j \in 0..Len(writes'), NEW q \in Player,
                      \A k \in j + 1..Len(writes') : q \notin writes'[k].by
               PROVE  Alike(State(j)', r, q)
    BY <1>2 DEF ReadBack, Alike, Kept
  <2>1. CASE j = Len(writes')
    <3>1. State(j)' = r
      BY <1>2, <2>1, QueueRowsNext
    <3> QED
      BY <1>5, <3>1
  <2>2. CASE j # Len(writes')
    <3>1. j \in 0..Len(writes)
      BY <1>2, <1>3, <2>2
    <3>2. q # p
      <4>1. Len(writes) + 1 \in j + 1..Len(writes')
        BY <1>2, <1>3, <3>1
      <4> QED
        BY <1>2, <4>1
    <3>3. \A k \in j + 1..Len(writes) : q \notin writes[k].by
      <4>1. \A k \in j + 1..Len(writes) : k \in 1..Len(writes) /\ k \in j + 1..Len(writes')
        BY <1>2, <1>3, <3>1
      <4> QED
        BY <1>2, <4>1
    <3>4. Alike(State(j), Latest, q)
      BY <1>1, <3>1, <3>3 DEF ReadBack
    <3>5. Alike(Latest, r, q)
      BY <3>2
    <3>6. State(j)' = State(j)
      BY <1>2, <3>1
    <3> QED
      BY <3>4, <3>5, <3>6, KeptOn DEF Alike
  <2> QED
    BY <2>1, <2>2
<1>7. NotListed'
  <2> SUFFICES ASSUME NEW q \in online' \ loaded', NEW d \in Versions'
               PROVE  Kept(d, r, q)
    BY <1>2 DEF NotListed, Kept
  <2>1. q \in online \ loaded /\ q \in Player
    BY <1>1
  <2>2. Kept(Latest, r, q)
    BY <2>1 DEF Alike
  <2>3. d = r \/ d \in Versions
    BY <1>2
  <2> QED
    BY <1>1, <1>5, <2>1, <2>2, <2>3, KeptOn DEF NotListed, Alike
<1> QED
  BY <1>2, <1>4, <1>6, <1>7 DEF DatabaseOK

-----------------------------------------------------------------------------
(* Boxes. *)

LEMMA BoxKept ==
    ASSUME NEW b, NEW q, NEW d, NEW r, BoxOK(b, q, d), Kept(d, r, q)
    PROVE  BoxOK(b, q, r)
<1>1. ASSUME NEW m \in b
      PROVE  (\E x \in r.mails : RowOf(m, x)) /\ (m.item # NoItem => m.item \in r.items)
  <2>1. PICK x \in d.mails : RowOf(m, x)
    BY DEF BoxOK
  <2>2. x.to = q /\ (m.item # NoItem => x.item = m.item /\ m.item \in d.items)
    BY <2>1 DEF BoxOK, RowOf
  <2> QED
    BY <2>1, <2>2 DEF Kept
<1> QED
  BY <1>1 DEF BoxOK

LEMMA BoxIsSavable ==
    ASSUME NEW b, NEW p, NEW d, BoxOK(b, p, d)
    PROVE  Savable(b, d)
BY DEF BoxOK, Savable, RowOf, Follows

LEMMA CleanedMails ==
    ASSUME NEW b, b \subseteq Mail
    PROVE  /\ Cleaned(b) \subseteq Mail
           /\ \A n \in Cleaned(b) : \E m \in b :
                 /\ m.state # "deleted" /\ ~IsEmpty(m)
                 /\ n.id = m.id /\ n.to = m.to /\ n.from = m.from /\ n.kind = m.kind
                 /\ n.item = m.item /\ n.money = m.money /\ n.cod = m.cod
                 /\ n = [m EXCEPT !.state = "unchanged"]
<1> SUFFICES ASSUME NEW n \in Cleaned(b)
             PROVE  n \in Mail /\ \E m \in b :
                       /\ m.state # "deleted" /\ ~IsEmpty(m)
                       /\ n.id = m.id /\ n.to = m.to /\ n.from = m.from /\ n.kind = m.kind
                       /\ n.item = m.item /\ n.money = m.money /\ n.cod = m.cod
                       /\ n = [m EXCEPT !.state = "unchanged"]
  OBVIOUS
<1>1. PICK m \in b : m.state # "deleted" /\ ~IsEmpty(m) /\ n = [m EXCEPT !.state = "unchanged"]
  BY DEF Cleaned
<1>2. m \in Mail
  OBVIOUS
<1> QED
  BY <1>1, <1>2 DEF Mail

LEMMA BoxSaved ==
    ASSUME NEW d, RowsOK(d), NEW b, Savable(b, d), NEW p,
           \A m \in b : m.to = p /\ (m.item # NoItem => m.item \in d.items)
    PROVE  BoxOK(Cleaned(b), p, SaveMail(d, b))
<1> DEFINE r == SaveMail(d, b)
<1>1. b \subseteq Mail /\ OneEach(b) /\ \A m \in b : Answerable(m)
  BY DEF Savable
<1>2. \A m \in b : m.state # "deleted" /\ ~IsEmpty(m) =>
         /\ \E y \in r.mails : RowOf(m, y)
         /\ m.item # NoItem /\ m.item \in d.items => m.item \in r.items
  BY MailsSaved
<1> HIDE DEF r
<1>3. Cleaned(b) \subseteq Mail
  BY <1>1, CleanedMails
<1>4. OneEach(Cleaned(b))
  BY <1>1, CleanedMails DEF OneEach
<1>5. ASSUME NEW n \in Cleaned(b)
      PROVE  /\ n.to = p /\ Answerable(n) /\ \E y \in r.mails : RowOf(n, y)
             /\ n.item # NoItem => n.item \in r.items
  <2>1. PICK m \in b :
           /\ m.state # "deleted" /\ ~IsEmpty(m)
           /\ n.id = m.id /\ n.to = m.to /\ n.from = m.from /\ n.kind = m.kind
           /\ n.item = m.item /\ n.money = m.money /\ n.cod = m.cod
    BY <1>1, CleanedMails
  <2>2. PICK y \in r.mails : RowOf(m, y)
    BY <1>2, <2>1
  <2>3. RowOf(n, y)
    BY <2>1, <2>2 DEF RowOf
  <2>4. Answerable(n)
    BY <1>1, <2>1 DEF Answerable
  <2>5. n.item # NoItem => n.item \in r.items
    BY <1>2, <2>1
  <2> QED
    BY <2>1, <2>3, <2>4, <2>5
<1> QED
  BY <1>3, <1>4, <1>5 DEF BoxOK, r

\* A save of the mails of p leaves those of the others.
LEMMA OthersKept ==
    ASSUME NEW d, RowsOK(d), NEW b, Savable(b, d), NEW p, \A m \in b : m.to = p, NEW q,
           q # p \/ b = {}
    PROVE  Kept(d, SaveMail(d, b), q)
<1> DEFINE r == SaveMail(d, b)
<1>1. \A x \in d.mails : (\A m \in b : m.id # x.id) =>
         x \in r.mails /\ (x.item \in d.items => x.item \in r.items)
  BY MailsSaved
<1> HIDE DEF r
<1>2. ASSUME NEW x \in d.mails, x.to = q, NEW m \in b, m.id = x.id
      PROVE  FALSE
  <2>1. PICK z \in d.mails : Follows(m, z)
    BY DEF Savable
  <2>2. z = x
    BY <1>2, <2>1, RowsFields DEF Follows
  <2> QED
    BY <1>2, <2>1, <2>2 DEF Follows
<1> QED
  BY <1>1, <1>2 DEF Kept, r

\* New mails reach the boxes of their receivers.
LEMMA BoxDelivered ==
    ASSUME NEW b, NEW p, NEW r, BoxOK(b, p, r), \A m \in b : m.id \in UsedIds,
           NEW N, N \subseteq Mail, OneEach(N),
           \A n \in N : /\ n.id \notin UsedIds /\ Answerable(n) /\ n \in r.mails
                        /\ n.item # NoItem => n.item \in r.items
    PROVE  BoxOK(b \cup {n \in N : n.to = p}, p, r)
<1>1. OneEach(b \cup {n \in N : n.to = p})
  BY DEF BoxOK, OneEach
<1>2. \A n \in N : RowOf(n, n)
  BY DEF RowOf
<1> QED
  BY <1>1, <1>2 DEF BoxOK

-----------------------------------------------------------------------------
(* Steps of the database. *)

LEMMA ExecuteKeeps ==
    ASSUME MailIInv, WorkerNext
    PROVE  MailIInv' /\ Latest' = Latest /\ Versions' \subseteq Versions
<1>1. Queued /\ AllRowsOK /\ ReadBack /\ NotListed
  BY DEF MailIInv, DatabaseOK
<1>2. PICK S : writes \in Seq(S)
  BY <1>1 DEF Queued
<1>3. /\ writes # <<>> /\ db' = Head(writes).rows /\ writes' = Tail(writes)
      /\ UNCHANGED <<online, money, inv, loaded, box>>
  BY DEF WorkerNext, ExecuteNext, memoryVars
<1>4. /\ writes' \in Seq(S) /\ Len(writes) \in Nat /\ Len(writes) > 0
      /\ Len(writes') = Len(writes) - 1 /\ db' = writes[1].rows
      /\ \A k \in 1..Len(writes') : writes'[k] = writes[k + 1]
  BY <1>2, <1>3
<1>5. Queued'
  BY <1>4 DEF Queued
<1>6. ASSUME NEW j \in 0..Len(writes')
      PROVE  State(j)' = State(j + 1) /\ j + 1 \in 0..Len(writes)
  <2>1. j \in Nat /\ j + 1 # 0 /\ j + 1 \in 0..Len(writes) /\ (j = 0 \/ j \in 1..Len(writes'))
    BY <1>4
  <2> QED
    BY <1>4, <2>1 DEF State
<1>7. Latest' = Latest
  <2>1. Latest' = State(Len(writes))'
    BY <1>5, QueueRowsNext
  <2>2. Len(writes') \in 0..Len(writes') /\ Len(writes') + 1 = Len(writes)
    BY <1>4
  <2>3. State(Len(writes))' = State(Len(writes))
    <3> DEFINE n == Len(writes')
    <3>1. \A j \in 0..Len(writes') : State(j)' = IF j = 0 THEN db' ELSE writes'[j].rows
      BY DEF State
    <3>2. State(Len(writes))' = IF n = 0 THEN db' ELSE writes'[n].rows
      BY DEF State
    <3> QED
      BY <1>4, <2>2, <3>2 DEF State
  <2>4. Latest = State(Len(writes))
    BY <1>1, QueueRows
  <2> QED
    BY <2>1, <2>3, <2>4
<1>8. Versions' \subseteq Versions
  <2>1. Versions' = {State(j)' : j \in 0..Len(writes')} /\ Versions = {State(j) : j \in 0..Len(writes)}
    BY <1>1, <1>5, QueueRows, QueueRowsNext
  <2> QED
    BY <1>6, <2>1
<1>9. AllRowsOK'
  BY <1>1, <1>8 DEF AllRowsOK
<1>10. ReadBack'
  <2> SUFFICES ASSUME NEW j \in 0..Len(writes'), NEW q \in Player,
                      \A k \in j + 1..Len(writes') : q \notin writes'[k].by
               PROVE  Alike(State(j)', Latest, q)
    BY <1>7 DEF ReadBack, Alike, Kept
  <2>1. ASSUME NEW k \in (j + 1) + 1..Len(writes)
        PROVE  q \notin writes[k].by
    <3>1. k - 1 \in j + 1..Len(writes') /\ k - 1 \in 1..Len(writes') /\ (k - 1) + 1 = k
      BY <1>4
    <3> QED
      BY <1>4, <3>1
  <2>2. Alike(State(j + 1), Latest, q)
    BY <1>1, <1>6, <2>1 DEF ReadBack
  <2> QED
    BY <1>6, <2>2
<1>11. NotListed'
  BY <1>1, <1>3, <1>7, <1>8 DEF NotListed, Kept
<1>12. DatabaseOK'
  BY <1>5, <1>9, <1>10, <1>11 DEF DatabaseOK
<1>13. Memory' /\ Boxes' /\ PursesSaved'
  BY <1>3, <1>7 DEF MailIInv, Memory, Boxes, PursesSaved, BoxOK
<1> QED
  BY <1>7, <1>8, <1>12, <1>13 DEF MailIInv

\* Nobody is online, and nothing waits.
LEMMA CrashKeeps ==
    ASSUME MailIInv, Crash
    PROVE  MailIInv' /\ Latest' = db /\ Versions' = {db}
<1>1. writes' = <<>> /\ db' = db /\ online' = {} /\ loaded' = {}
  BY DEF Crash, LoseQueue
<1>2. Queued' /\ Len(writes') = 0
  BY <1>1, EmptySeq DEF Queued
<1>3. Latest' = db /\ State(0)' = db /\ Versions' = {db}
  BY <1>1 DEF Latest, State, Versions
<1>4. AllRowsOK'
  BY <1>3, LatestRows DEF AllRowsOK, MailIInv
<1>5. ReadBack'
  <2>1. \A j \in 0..Len(writes') : j = 0
    BY <1>2
  <2> QED
    BY <1>3, <2>1 DEF ReadBack, Alike, Kept
<1>6. NotListed' /\ PursesSaved'
  BY <1>1 DEF NotListed, PursesSaved
<1>7. /\ money' = [p \in Player |-> 0] /\ inv' = [p \in Player |-> {}]
      /\ box' = [p \in Player |-> {}]
  BY DEF Crash
<1>8. Memory'
  BY <1>1, <1>7, MoneyAssumption DEF Memory
<1>9. Boxes'
  BY <1>7 DEF Boxes, BoxOK, OneEach
<1> QED
  BY <1>2, <1>3, <1>4, <1>5, <1>6, <1>8, <1>9 DEF MailIInv, DatabaseOK

-----------------------------------------------------------------------------
(* Steps that leave the rows alone. *)

LEMMA LoginKeeps ==
    ASSUME MailIInv, NEW p \in Player, Login(p)
    PROVE  MailIInv'
<1>1. /\ p \notin online /\ Written(p) /\ online' = online \cup {p}
      /\ money' = [money EXCEPT ![p] = db.money[p]]
      /\ inv' = [inv EXCEPT ![p] = db.inv[p] \cap db.items]
      /\ loaded' = loaded /\ box' = box /\ db' = db /\ writes' = writes
  BY DEF Login, dbVars
<1>2. Memory /\ DatabaseOK /\ Boxes /\ PursesSaved
  BY DEF MailIInv
<1>3. Len(writes) \in Nat /\ DOMAIN writes = 1..Len(writes) /\ Versions = {State(j) : j \in 0..Len(writes)}
  BY <1>2, QueueRows DEF DatabaseOK
<1>4. ASSUME NEW j \in 0..Len(writes)
      PROVE  Alike(State(j), Latest, p)
  <2>1. \A k \in j + 1..Len(writes) : k \in DOMAIN writes
    BY <1>3
  <2>2. \A k \in j + 1..Len(writes) : p \notin writes[k].by
    BY <1>1, <2>1 DEF Written
  <2> QED
    BY <1>2, <2>2 DEF DatabaseOK, ReadBack
<1>5. db.inv[p] = Latest.inv[p] /\ db.money[p] = Latest.money[p]
  <2>1. 0 \in 0..Len(writes) /\ State(0) = db
    BY <1>3 DEF State
  <2> QED
    BY <1>4, <2>1 DEF Alike
<1>6. RowsOK(db)
  BY <1>2, LatestRows
<1>7. db.inv[p] \cap db.items = db.inv[p] /\ db.inv[p] \subseteq Item /\ db.money[p] \in 0..MaxMoney
  BY <1>6, RowsFields DEF RowsOK, RowsSound
<1>8. Latest' = Latest /\ Versions' = Versions
  BY <1>1 DEF Latest, Versions
<1>9. Memory'
  BY <1>1, <1>2, <1>7 DEF Memory
<1>10. Queued' /\ AllRowsOK' /\ ReadBack'
  BY <1>1, <1>2, <1>8 DEF DatabaseOK, Queued, AllRowsOK, ReadBack, State
<1>11. NotListed'
  <2>1. \A d \in Versions : Kept(d, Latest, p)
    BY <1>3, <1>4 DEF Alike
  <2> QED
    BY <1>1, <1>2, <1>8, <2>1 DEF DatabaseOK, NotListed, Kept
<1>12. Boxes'
  BY <1>1, <1>2, <1>8 DEF Boxes, BoxOK
<1>13. PursesSaved'
  BY <1>1, <1>2, <1>5, <1>7, <1>8 DEF PursesSaved, Memory
<1> QED
  BY <1>9, <1>10, <1>11, <1>12, <1>13 DEF MailIInv, DatabaseOK

\* What a change of one box has to show.
LEMMA BoxChangeKeeps ==
    ASSUME MailIInv, NEW p \in Player, NEW b, BoxOK(b, p, Latest),
           box' = [box EXCEPT ![p] = b], loaded \subseteq loaded', loaded' \subseteq loaded \cup {p},
           p \in loaded', loaded' \subseteq online,
           UNCHANGED <<online, money, inv, db, writes>>
    PROVE  MailIInv'
<1>1. Memory /\ DatabaseOK /\ Boxes /\ PursesSaved
  BY DEF MailIInv
<1>2. Latest' = Latest /\ Versions' = Versions
  BY DEF Latest, Versions
<1>3. b \subseteq Mail
  BY DEF BoxOK
<1>4. Memory'
  BY <1>1, <1>3 DEF Memory
<1>5. DatabaseOK'
  BY <1>1, <1>2 DEF DatabaseOK, Queued, AllRowsOK, ReadBack, State, NotListed
<1>6. \A q \in Player : box'[q] = IF q = p THEN b ELSE box[q]
  BY <1>1 DEF Memory
<1>7. Boxes'
  BY <1>1, <1>2, <1>6 DEF Boxes, BoxOK
<1>8. PursesSaved'
  BY <1>1, <1>2 DEF PursesSaved
<1> QED
  BY <1>4, <1>5, <1>7, <1>8 DEF MailIInv

LEMMA GetMailListKeeps ==
    ASSUME MailIInv, NEW p \in Player, GetMailList(p)
    PROVE  MailIInv'
<1> DEFINE read(n) == [n EXCEPT !.item = IF @ \in db.items THEN @ ELSE NoItem]
           b == {m \in {read(n) : n \in {n \in db.mails : n.to = p}} : ~IsEmpty(m)}
<1>1. /\ p \in online \ loaded /\ loaded' = loaded \cup {p}
      /\ box' = [box EXCEPT ![p] = b]
      /\ UNCHANGED <<online, money, inv, db, writes>>
  BY DEF GetMailList, dbVars
<1>2. Memory /\ DatabaseOK
  BY DEF MailIInv
<1>3. RowsOK(db) /\ db \in Versions
  BY <1>2, LatestRows
<1>4. Kept(db, Latest, p)
  BY <1>1, <1>2, <1>3 DEF DatabaseOK, NotListed
<1>5. ASSUME NEW n \in db.mails
      PROVE  /\ read(n) \in Mail /\ RowOf(read(n), n)
             /\ read(n).id = n.id /\ read(n).to = n.to
             /\ read(n).item # NoItem => read(n).item = n.item /\ n.item \in db.items
             /\ Answerable(read(n))
  <2>1. n \in Mail /\ Answerable(n)
    BY <1>3, RowsFields
  <2>2. /\ read(n) \in Mail /\ read(n).id = n.id /\ read(n).to = n.to /\ read(n).from = n.from
        /\ read(n).kind = n.kind /\ read(n).money = n.money /\ read(n).cod = n.cod
        /\ read(n).item = IF n.item \in db.items THEN n.item ELSE NoItem
    BY <2>1 DEF Mail
  <2> HIDE DEF read
  <2> QED
    BY <2>1, <2>2 DEF RowOf, Answerable
<1> HIDE DEF read
<1>6. \A m \in b : \E n \in db.mails : n.to = p /\ m = read(n)
  OBVIOUS
<1> HIDE DEF b
<1>7. BoxOK(b, p, Latest)
  <2>1. b \subseteq Mail
    BY <1>5, <1>6
  <2>2. OneEach(b)
    BY <1>3, <1>5, <1>6, RowsFields DEF OneEach
  <2>3. ASSUME NEW m \in b
        PROVE  /\ m.to = p /\ Answerable(m) /\ \E x \in Latest.mails : RowOf(m, x)
               /\ m.item # NoItem => m.item \in Latest.items
    <3>1. PICK n \in db.mails : n.to = p /\ m = read(n)
      BY <1>6
    <3>2. n \in Latest.mails /\ (n.item \in db.items => n.item \in Latest.items)
      BY <1>4, <3>1 DEF Kept
    <3> QED
      BY <1>5, <3>1, <3>2
  <2> QED
    BY <2>1, <2>2, <2>3 DEF BoxOK
<1>8. loaded' \subseteq online
  BY <1>1, <1>2 DEF Memory
<1> QED
  BY <1>1, <1>7, <1>8, BoxChangeKeeps

LEMMA MarkMailKeeps ==
    ASSUME MailIInv, NEW p \in Player, NEW m \in box[p], NEW state \in {"changed", "deleted"},
           MarkMail(p, m, state)
    PROVE  MailIInv'
<1> DEFINE new == [m EXCEPT !.state = state]
           b == Changed(p, m, new)
<1>1. /\ box' = [box EXCEPT ![p] = b]
      /\ UNCHANGED <<online, money, inv, loaded, db, writes>>
  BY DEF MarkMail, dbVars
<1>2. Memory /\ BoxOK(box[p], p, Latest)
  BY DEF MailIInv, Boxes
<1>3. p \in loaded /\ loaded \subseteq online
  BY <1>2 DEF Memory
<1>4. m \in Mail /\ box[p] \subseteq Mail
  BY <1>2 DEF BoxOK
<1>5. /\ new \in Mail /\ new.id = m.id /\ new.to = m.to /\ new.from = m.from /\ new.kind = m.kind
      /\ new.item = m.item /\ new.money = m.money /\ new.cod = m.cod
  BY <1>4 DEF Mail
<1>6. b = (box[p] \ {m}) \cup {new}
  BY DEF Changed
<1> HIDE DEF new, b
<1>7. BoxOK(b, p, Latest)
  <2>1. OneEach(b)
    BY <1>2, <1>5, <1>6 DEF BoxOK, OneEach
  <2>2. Answerable(new) /\ \E x \in Latest.mails : RowOf(new, x)
    <3>1. Answerable(m) /\ \E x \in Latest.mails : RowOf(m, x)
      BY <1>2 DEF BoxOK
    <3> QED
      BY <1>5, <3>1 DEF Answerable, RowOf
  <2>3. new.to = p /\ (new.item # NoItem => new.item \in Latest.items)
    BY <1>2, <1>5 DEF BoxOK
  <2> QED
    BY <1>2, <1>4, <1>5, <1>6, <2>1, <2>2, <2>3 DEF BoxOK
<1> QED
  BY <1>1, <1>3, <1>7, BoxChangeKeeps

-----------------------------------------------------------------------------
(* Saves. *)

\* Only the columns of mails and items matter to what is kept.
LEMMA KeptSame ==
    ASSUME NEW d, NEW r, r.mails = d.mails, r.items = d.items, NEW q
    PROVE  Kept(d, r, q) /\ Kept(r, d, q)
BY DEF Kept

LEMMA SavedRows ==
    ASSUME MailIInv, NEW p \in online
    PROVE  LET r == Saved(p)
           IN  /\ RowsOK(r)
               /\ \A q \in Player : r.inv[q] = Latest.inv[q] /\ r.money[q] = Latest.money[q]
               /\ \A q \in Player : q # p \/ p \notin loaded => Kept(Latest, r, q)
               /\ BoxOK(Cleaned(box[p]), p, r)
               /\ GoodsMoved(Latest, r)
<1> DEFINE d == SaveInventoryAndGold(Latest, p, inv[p], money[p])
           r == SaveMail(d, box[p])
<1>1. Memory /\ DatabaseOK /\ Boxes /\ PursesSaved
  BY DEF MailIInv
<1>2. p \in Player /\ RowsOK(Latest)
  BY <1>1, LatestRows DEF Memory
<1>3. inv[p] = Latest.inv[p] /\ money[p] = Latest.money[p] /\ money[p] \in 0..MaxMoney
  BY <1>1, <1>2 DEF PursesSaved, Memory
<1>4. /\ RowsOK(d) /\ d.inv[p] = Latest.inv[p] /\ d.money[p] = Latest.money[p]
      /\ \A q \in Player \ {p} : d.inv[q] = Latest.inv[q] /\ d.money[q] = Latest.money[q]
      /\ d.mails = Latest.mails /\ d.items = Latest.items /\ d.auctions = Latest.auctions
  <2>1. ForOne(Latest, p, inv[p])
    BY <1>2, <1>3 DEF RowsOK, RowsSound, ForOne
  <2>2. /\ RowsOK(d) /\ d.inv[p] = Latest.inv[p] \cup inv[p] /\ d.money[p] = money[p]
        /\ \A q \in Player \ {p} : d.inv[q] = Latest.inv[q] /\ d.money[q] = Latest.money[q]
        /\ d.mails = Latest.mails /\ d.items = Latest.items /\ d.auctions = Latest.auctions
    BY <1>2, <1>3, <2>1, InventorySaved
  <2> HIDE DEF d
  <2> QED
    BY <1>3, <2>2
<1>5. Saved(p) = r
  BY DEF Saved
<1> HIDE DEF d
<1>6. BoxOK(box[p], p, d)
  <2>1. BoxOK(box[p], p, Latest)
    BY <1>1, <1>2 DEF Boxes
  <2> QED
    BY <1>4, <2>1, BoxKept, KeptSame
<1>7. Savable(box[p], d) /\ \A m \in box[p] : m.to = p /\ (m.item # NoItem => m.item \in d.items)
  BY <1>6, BoxIsSavable DEF BoxOK
<1>8. BoxOK(Cleaned(box[p]), p, r)
  BY <1>4, <1>7, BoxSaved
<1>9. RowsOK(r) /\ r.money = d.money /\ r.inv = d.inv
  BY <1>4, <1>7, MailsSaved
<1>10. ASSUME NEW q \in Player, q # p \/ p \notin loaded
       PROVE  Kept(Latest, r, q)
  <2>1. p \notin loaded => box[p] = {}
    BY <1>1, <1>2 DEF Memory
  <2>2. Kept(d, r, q)
    BY <1>4, <1>7, <1>10, <2>1, OthersKept
  <2>3. Kept(Latest, d, q)
    BY <1>4, KeptSame
  <2> QED
    BY <2>2, <2>3, KeptOn
<1>11. GoodsMoved(Latest, r)
  <2>1. GoodsMoved(d, r)
    BY <1>4, <1>7, SaveMoves
  <2>2. \A q \in Player : d.inv[q] = Latest.inv[q]
    BY <1>4
  <2>3. GoodsMoved(Latest, d)
    BY <1>4, <2>2, GoodsStay
  <2> QED
    BY <2>1, <2>3, GoodsMoveOn
<1> HIDE DEF r
<1> QED
  BY <1>2, <1>4, <1>5, <1>8, <1>9, <1>10, <1>11

\* The boxes of the others after a transaction.
LEMMA OtherBoxes ==
    ASSUME MailIInv, NEW p, NEW r, \A q \in Player \ {p} : Alike(Latest, r, q)
    PROVE  \A q \in Player \ {p} : BoxOK(box[q], q, r)
BY BoxKept DEF MailIInv, Boxes, Alike

LEMMA SaveKeeps ==
    ASSUME MailIInv, NEW p \in Player, Save(p)
    PROVE  MailIInv'
<1> DEFINE r == Saved(p)
           b == Cleaned(box[p])
<1>1. /\ p \in online /\ Commit(r, p) /\ box' = [box EXCEPT ![p] = b]
      /\ UNCHANGED <<online, money, inv, loaded>>
  BY DEF Save
<1>2. /\ RowsOK(r)
      /\ \A q \in Player : r.inv[q] = Latest.inv[q] /\ r.money[q] = Latest.money[q]
      /\ \A q \in Player : q # p \/ p \notin loaded => Kept(Latest, r, q)
      /\ BoxOK(b, p, r)
  BY <1>1, SavedRows
<1> HIDE DEF r, b
<1>3. \A q \in Player \ {p} : Alike(Latest, r, q)
  BY <1>2 DEF Alike
<1>4. DatabaseOK' /\ Latest' = r
  BY <1>1, <1>2, <1>3, CommitKeeps
<1>5. Memory /\ PursesSaved
  BY DEF MailIInv
<1>6. b \subseteq Mail /\ (p \notin loaded => b = {})
  BY <1>2, <1>5, CleanedMails DEF BoxOK, Memory, b, Cleaned
<1>7. Memory'
  BY <1>1, <1>5, <1>6 DEF Memory
<1>8. \A q \in Player : box'[q] = IF q = p THEN b ELSE box[q]
  BY <1>1, <1>5 DEF Memory
<1>9. Boxes'
  <2>1. \A q \in Player : BoxOK(box'[q], q, r)
    BY <1>2, <1>3, <1>8, OtherBoxes
  <2> QED
    BY <1>4, <2>1 DEF Boxes, BoxOK
<1>10. PursesSaved'
  BY <1>1, <1>2, <1>4, <1>5 DEF PursesSaved, Memory
<1> QED
  BY <1>4, <1>7, <1>9, <1>10 DEF MailIInv

LEMMA LogoutKeeps ==
    ASSUME MailIInv, NEW p \in Player, Logout(p)
    PROVE  MailIInv' /\ Moved
<1> DEFINE r == Saved(p)
<1>1. /\ p \in online /\ Commit(r, p) /\ box' = [box EXCEPT ![p] = {}]
      /\ online' = online \ {p} /\ loaded' = loaded \ {p}
      /\ money' = [money EXCEPT ![p] = 0] /\ inv' = [inv EXCEPT ![p] = {}]
  BY DEF Logout
<1>2. /\ RowsOK(r)
      /\ \A q \in Player : r.inv[q] = Latest.inv[q] /\ r.money[q] = Latest.money[q]
      /\ \A q \in Player : q # p \/ p \notin loaded => Kept(Latest, r, q)
      /\ GoodsMoved(Latest, r)
  BY <1>1, SavedRows
<1> HIDE DEF r
<1>3. \A q \in Player \ {p} : Alike(Latest, r, q)
  BY <1>2 DEF Alike
<1>4. DatabaseOK' /\ Latest' = r
  BY <1>1, <1>2, <1>3, CommitKeeps
<1>5. Memory /\ PursesSaved
  BY DEF MailIInv
<1>6. Memory'
  BY <1>1, <1>5, MoneyAssumption DEF Memory
<1>7. \A q \in Player : box'[q] = IF q = p THEN {} ELSE box[q]
  BY <1>1, <1>5 DEF Memory
<1>8. Boxes'
  <2>1. BoxOK({}, p, r)
    BY DEF BoxOK, OneEach
  <2>2. \A q \in Player : BoxOK(box'[q], q, r)
    BY <1>3, <1>7, <2>1, OtherBoxes
  <2> QED
    BY <1>4, <2>2 DEF Boxes, BoxOK
<1>9. PursesSaved'
  BY <1>1, <1>2, <1>4, <1>5 DEF PursesSaved, Memory
<1>10. Moved
  BY <1>1, <1>2, CommitMoves
<1> QED
  BY <1>4, <1>6, <1>8, <1>9, <1>10 DEF MailIInv

-----------------------------------------------------------------------------
(* Letters and what is taken from them. *)

\* A drafted sequence: one draft at most, and an id for it.
Drafted(drafts) == drafts \in Seq(Draft) /\ Len(drafts) <= 1 /\ RoomFor(drafts)

\* What is sent is in the rows, its items exist, its sender is answered.
Posted(drafts, r) ==
    \A n \in Sent(drafts) : /\ Answerable(n) /\ n \in r.mails
                            /\ n.item # NoItem => n.item \in r.items

\* New mails.
Fresh(N) == N \subseteq Mail /\ OneEach(N) /\ \A n \in N : n.id \notin UsedIds

LEMMA DraftedFresh ==
    ASSUME NEW drafts, Drafted(drafts)
    PROVE  Fresh(Sent(drafts))
BY SentMails DEF Drafted, Fresh, OneEach

\* Any handler that sends and saves.
LEMMA MailStep ==
    ASSUME MailIInv, NEW p \in online, NEW r, NEW drafts, NEW b, NEW items, NEW gold,
           Fresh(Sent(drafts)), Posted(drafts, r), Commit(r, p), RowsOK(r),
           \A q \in Player \ {p} : Alike(Latest, r, q),
           p \notin loaded => b = {} /\ Kept(Latest, r, p),
           BoxOK(b, p, r), \A m \in b : m.id \in UsedIds,
           box' = Delivered([box EXCEPT ![p] = b], drafts),
           money' = [money EXCEPT ![p] = gold], gold \in 0..MaxMoney, r.money[p] = gold,
           inv' = [inv EXCEPT ![p] = items], items \in SUBSET Item, r.inv[p] = items,
           UNCHANGED <<online, loaded>>
    PROVE  MailIInv'
<1>1. Memory /\ PursesSaved /\ p \in Player
  BY DEF MailIInv, Memory
<1>2. DatabaseOK' /\ Latest' = r
  BY <1>1, CommitKeeps
<1> DEFINE N == Sent(drafts)
<1>3. /\ N \subseteq Mail /\ OneEach(N)
      /\ \A n \in N : /\ n.id \notin UsedIds /\ Answerable(n) /\ n \in r.mails
                      /\ n.item # NoItem => n.item \in r.items
  BY DEF Fresh, Posted
<1> DEFINE own(q) == IF q = p THEN b ELSE box[q]
<1>4. /\ box' = [q \in Player |-> IF q \in loaded THEN own(q) \cup {n \in N : n.to = q} ELSE own(q)]
      /\ \A q \in Player : own(q) \subseteq Mail /\ (q \notin loaded => own(q) = {})
  <2>1. \A q \in Player : [box EXCEPT ![p] = b][q] = own(q)
    BY <1>1 DEF Memory
  <2>2. b \subseteq Mail
    BY DEF BoxOK
  <2> QED
    BY <1>1, <2>1, <2>2 DEF Delivered, Memory
<1>5. ASSUME NEW q \in Player
      PROVE  BoxOK(own(q), q, r) /\ \A m \in own(q) : m.id \in UsedIds
  BY <1>1, OtherBoxes, IdsUsed
<1> HIDE DEF N, own
<1>6. ASSUME NEW q \in Player
      PROVE  BoxOK(box'[q], q, r)
  <2>1. BoxOK(own(q) \cup {n \in N : n.to = q}, q, r)
    BY <1>3, <1>5, BoxDelivered
  <2> QED
    BY <1>4, <1>5, <2>1
<1>7. Boxes'
  BY <1>2, <1>6 DEF Boxes, BoxOK
<1>8. Memory'
  <2>1. \A q \in Player : box'[q] \subseteq Mail /\ (q \notin loaded => box'[q] = {})
    BY <1>3, <1>4
  <2>2. box' \in [Player -> SUBSET Mail]
    BY <1>4, <2>1
  <2> QED
    BY <1>1, <2>1, <2>2 DEF Memory
<1>9. PursesSaved'
  BY <1>1, <1>2 DEF PursesSaved, Memory, Alike
<1> QED
  BY <1>2, <1>7, <1>8, <1>9 DEF MailIInv

LEMMA PostStep ==
    ASSUME MailIInv, NEW p \in online, NEW r, NEW drafts, NEW b, NEW items, NEW gold,
           Drafted(drafts), Posted(drafts, r), Commit(r, p), RowsOK(r),
           \A q \in Player \ {p} : Alike(Latest, r, q),
           p \notin loaded => b = {} /\ Kept(Latest, r, p),
           BoxOK(b, p, r), \A m \in b : m.id \in UsedIds,
           box' = Delivered([box EXCEPT ![p] = b], drafts),
           money' = [money EXCEPT ![p] = gold], gold \in 0..MaxMoney, r.money[p] = gold,
           inv' = [inv EXCEPT ![p] = items], items \in SUBSET Item, r.inv[p] = items,
           UNCHANGED <<online, loaded>>
    PROVE  MailIInv'
<1>1. Fresh(Sent(drafts))
  BY DraftedFresh
<1> QED
  BY <1>1, MailStep

\* The money a handler leaves in a purse.
LEMMA Purses ==
    ASSUME NEW gold \in 0..MaxMoney, NEW amount \in Nat
    PROVE  Paid(gold, amount) \in 0..MaxMoney /\ Received(gold, amount) \in 0..MaxMoney
BY MoneyAssumption DEF Paid, Received

\* The rows of a mail in the box of p, in rows with nothing of it changed.
LEMMA BoxFacts ==
    ASSUME MailIInv, NEW p \in Player, NEW m \in box[p]
    PROVE  /\ p \in online /\ p \in loaded /\ m \in Mail /\ m.to = p /\ Answerable(m)
           /\ BoxOK(box[p], p, Latest) /\ m.id \in UsedIds
           /\ RowsOK(Latest) /\ \A x \in Latest.mails : x.id \in UsedIds
           /\ inv[p] = Latest.inv[p] /\ money[p] = Latest.money[p]
           /\ money[p] \in 0..MaxMoney /\ inv[p] \subseteq Item
           /\ \E x \in Latest.mails : RowOf(m, x)
           /\ m.item # NoItem => m.item \in Latest.items
<1>1. Memory /\ DatabaseOK /\ BoxOK(box[p], p, Latest) /\ PursesSaved
  BY DEF MailIInv, Boxes
<1>2. p \in loaded /\ p \in online
  BY <1>1 DEF Memory
<1> QED
  BY <1>1, <1>2, IdsUsed, LatestRows DEF BoxOK, PursesSaved, Memory

\* The mails of p with one of them emptied, to be saved.
LEMMA ChangedSavable ==
    ASSUME NEW b, NEW p, NEW d, BoxOK(b, p, d), NEW m \in b, NEW new \in Mail,
           new.id = m.id, new.to = m.to, new.from = m.from, new.kind = m.kind,
           new.item \in {m.item, NoItem}, new.cod \in {m.cod, 0}, new.state = "changed"
    PROVE  LET mails == (b \ {m}) \cup {new}
           IN  /\ Savable(mails, d)
               /\ \A n \in mails : n.to = p /\ (n.item # NoItem => n.item \in d.items)
               /\ \A n \in mails : \E o \in b : n.id = o.id
<1> DEFINE mails == (b \ {m}) \cup {new}
<1>1. Savable(b, d)
  BY BoxIsSavable
<1>2. m \in Mail /\ Answerable(m) /\ m.to = p /\ (m.item # NoItem => m.item \in d.items)
  BY DEF BoxOK
<1>3. PICK x \in d.mails : RowOf(m, x)
  BY DEF BoxOK
<1>4. Follows(new, x)
  BY <1>3 DEF RowOf, Follows
<1>5. Answerable(new)
  <2>1. new.cod > 0 => m.cod > 0
    BY <1>2 DEF Mail
  <2> QED
    BY <1>2, <2>1 DEF Answerable
<1>6. OneEach(mails)
  BY DEF OneEach, BoxOK
<1>7. Savable(mails, d)
  BY <1>1, <1>4, <1>5, <1>6 DEF Savable
<1>8. \A n \in mails : n.to = p /\ (n.item # NoItem => n.item \in d.items)
  BY <1>2 DEF BoxOK
<1>9. \A n \in mails : \E o \in b : n.id = o.id
  OBVIOUS
<1> QED
  BY <1>7, <1>8, <1>9

\* The money of a row.
LEMMA PurseSaved ==
    ASSUME NEW d, RowsOK(d), NEW p \in Player, NEW gold \in 0..MaxMoney
    PROVE  LET r == [d EXCEPT !.money[p] = gold]
           IN  /\ RowsOK(r) /\ r.money[p] = gold /\ \A q \in Player \ {p} : r.money[q] = d.money[q]
               /\ r.inv = d.inv /\ r.mails = d.mails /\ r.items = d.items /\ r.auctions = d.auctions
<1> DEFINE r == [d EXCEPT !.money[p] = gold]
           purses == [d.money EXCEPT ![p] = gold]
<1>1. r = [d EXCEPT !.money = purses]
  BY DEF RowsOK, Shaped
<1>2. purses \in [Player -> 0..MaxMoney] /\ purses[p] = gold /\ \A q \in Player \ {p} : purses[q] = d.money[q]
  BY RowsFields
<1> HIDE DEF r, purses
<1>3. /\ Shaped(r) /\ r.money = purses
      /\ r.inv = d.inv /\ r.mails = d.mails /\ r.items = d.items /\ r.auctions = d.auctions
  BY <1>1 DEF RowsOK, Shaped
<1>4. MailRows(r)
  BY <1>2, <1>3, RowsFields DEF MailRows
<1>5. RowsSound(r)
  BY <1>3 DEF RowsOK, RowsSound
<1>6. RowsOK(r)
  BY <1>3, <1>4, <1>5 DEF RowsOK
<1> QED
  BY <1>2, <1>3, <1>6 DEF r

LEMMA NoDrafts ==
    /\ <<>> \in Seq(Draft) /\ Len(<<>>) <= 1 /\ Sent(<<>>) = {} /\ RoomFor(<<>>)
    /\ \A r : Posted(<<>>, r)
<1>1. <<>> \in Seq(Draft) /\ Len(<<>>) = 0
  BY EmptySeq
<1>2. Len(FreeIds) \in Nat
  BY FreeIdsAreFree
<1>3. RoomFor(<<>>)
  BY <1>1, <1>2 DEF RoomFor
<1>4. Sent(<<>>) = {}
  <2>1. DOMAIN <<>> = {}
    OBVIOUS
  <2> QED
    BY <2>1 DEF Sent
<1> QED
  BY <1>1, <1>3, <1>4 DEF Posted

\* With nothing sent, nothing is delivered.
LEMMA NothingDelivered ==
    ASSUME NEW boxes, boxes = [q \in Player |-> boxes[q]]
    PROVE  Delivered(boxes, <<>>) = boxes
BY NoDrafts DEF Delivered

LEMMA TakeMoneyKeeps ==
    ASSUME MailIInv, NEW p \in Player, NEW m \in box[p], TakeMoney(p, m)
    PROVE  MailIInv' /\ Moved /\ Apart(p)
<1> DEFINE new == [m EXCEPT !.money = 0, !.state = "changed"]
           mails == Changed(p, m, new)
           gold == Received(money[p], m.money)
           d == [Latest EXCEPT !.money[p] = gold]
           r == SaveMail(d, mails)
           b == Cleaned(mails)
<1>1. /\ money' = [money EXCEPT ![p] = gold] /\ box' = [box EXCEPT ![p] = b]
      /\ Commit(r, p) /\ UNCHANGED <<online, inv, loaded>>
  BY DEF TakeMoney
<1>2. Memory
  BY DEF MailIInv
<1>3. /\ p \in online /\ p \in loaded /\ m \in Mail
      /\ BoxOK(box[p], p, Latest) /\ RowsOK(Latest)
      /\ inv[p] = Latest.inv[p] /\ money[p] \in 0..MaxMoney /\ inv[p] \subseteq Item
  BY BoxFacts
<1>4. gold \in 0..MaxMoney
  BY <1>3, Purses DEF Mail
<1>5. /\ new \in Mail /\ new.id = m.id /\ new.to = m.to /\ new.from = m.from /\ new.kind = m.kind
      /\ new.item = m.item /\ new.cod = m.cod /\ new.state = "changed"
  BY <1>3 DEF Mail
<1>6. mails = (box[p] \ {m}) \cup {new}
  BY DEF Changed
<1> HIDE DEF new, mails, gold
<1>7. /\ RowsOK(d) /\ d.money[p] = gold /\ \A q \in Player \ {p} : d.money[q] = Latest.money[q]
      /\ d.inv = Latest.inv /\ d.mails = Latest.mails /\ d.items = Latest.items
      /\ d.auctions = Latest.auctions
  BY <1>3, <1>4, PurseSaved
<1> HIDE DEF d
<1>8. BoxOK(box[p], p, d)
  BY <1>3, <1>7, BoxKept, KeptSame
<1>9. /\ Savable(mails, d)
      /\ \A n \in mails : n.to = p /\ (n.item # NoItem => n.item \in d.items)
      /\ \A n \in mails : \E o \in box[p] : n.id = o.id
  BY <1>5, <1>6, <1>8, ChangedSavable
<1>10. RowsOK(r) /\ r.money = d.money /\ r.inv = d.inv
  BY <1>7, <1>9, MailsSaved
<1>11. BoxOK(b, p, r)
  BY <1>7, <1>9, BoxSaved
<1>12. \A n \in b : n.id \in UsedIds
  <2>1. mails \subseteq Mail
    BY <1>9 DEF Savable
  <2>2. \A n \in b : \E o \in mails : n.id = o.id
    BY <2>1, CleanedMails
  <2> QED
    BY <1>9, <2>2, IdsUsed
<1>g. GoodsMoved(Latest, r)
  <2>1. GoodsMoved(d, r)
    BY <1>7, <1>9, SaveMoves
  <2>2. GoodsMoved(Latest, d)
    BY <1>7, GoodsStay
  <2> QED
    BY <2>1, <2>2, GoodsMoveOn
<1>13. ASSUME NEW q \in Player \ {p}
       PROVE  Alike(Latest, r, q)
  <2>1. Kept(d, r, q)
    BY <1>7, <1>9, OthersKept
  <2>2. Kept(Latest, d, q)
    BY <1>7, KeptSame
  <2> QED
    BY <1>7, <1>10, <2>1, <2>2, KeptOn DEF Alike
<1>14. box' = Delivered([box EXCEPT ![p] = b], <<>>)
  <2>1. [box EXCEPT ![p] = b] = [q \in Player |-> [box EXCEPT ![p] = b][q]]
    BY <1>2 DEF Memory
  <2> HIDE DEF b
  <2> QED
    BY <1>1, <2>1, NothingDelivered
<1>15. inv' = [inv EXCEPT ![p] = inv[p]]
  BY <1>1, <1>2 DEF Memory
<1> HIDE DEF r, b
<1>16. Drafted(<<>>) /\ Posted(<<>>, r)
  BY NoDrafts DEF Drafted
<1>17. r.money[p] = gold /\ r.inv[p] = inv[p] /\ inv[p] \in SUBSET Item
  BY <1>3, <1>7, <1>10
<1>18. Moved
  BY <1>1, <1>g, CommitMoves
<1>l. Apart(p)
  <2>1. Latest' = r
    BY <1>1, OneMore DEF MailIInv, DatabaseOK
  <2> QED
    BY <1>13, <2>1 DEF Apart
<1> QED
  BY <1>l, <1>18, <1>1, <1>3, <1>4, <1>10, <1>11, <1>12, <1>13, <1>14, <1>15, <1>16, <1>17, PostStep

\* The draft of a mail that is sent.
SendDraft(p, q, i, amount, cod) ==
    [k \in DOMAIN Letter(p, q, i, amount) |-> [Letter(p, q, i, amount)[k] EXCEPT !.cod = cod]]

LEMMA SendDraftIs ==
    ASSUME NEW p \in Player, NEW q \in Player, NEW i \in Item \cup {NoItem}, NEW amount \in Nat,
           NEW cod \in Nat
    PROVE  LET draft == SendDraft(p, q, i, amount, cod)
           IN  draft # <<>> =>
                  /\ draft \in Seq(Draft) /\ Len(draft) = 1
                  /\ draft[1].from = p /\ draft[1].to = q /\ draft[1].item = i
                  /\ draft[1].money = amount /\ draft[1].cod = cod
                  /\ draft[1].kind = "MAIL_NORMAL" /\ draft[1].state = "unchanged"
                  /\ ~(i = NoItem /\ amount = 0)
<1> DEFINE letter == Letter(p, q, i, amount)
           draft == SendDraft(p, q, i, amount, cod)
<1>1. draft = [k \in DOMAIN letter |-> [letter[k] EXCEPT !.cod = cod]]
  BY DEF SendDraft
<1>2. letter # <<>> =>
         /\ DOMAIN letter = 1..1 /\ letter[1] \in Draft
         /\ letter[1].from = p /\ letter[1].to = q /\ letter[1].item = i /\ letter[1].money = amount
         /\ letter[1].kind = "MAIL_NORMAL" /\ letter[1].state = "unchanged"
         /\ ~(i = NoItem /\ amount = 0)
  BY LetterDrafts
<1> HIDE DEF letter, draft
<1>3. CASE letter = <<>>
  <2>1. draft = <<>>
    BY <1>1, <1>3
  <2> QED
    BY <2>1 DEF draft
<1>4. CASE letter # <<>>
  <2> DEFINE l == [letter[1] EXCEPT !.cod = cod]
  <2>1. /\ l \in Draft /\ l.from = p /\ l.to = q /\ l.item = i /\ l.money = amount
        /\ l.cod = cod /\ l.kind = "MAIL_NORMAL" /\ l.state = "unchanged"
    BY <1>2, <1>4 DEF Draft
  <2>2. draft = <<l>>
    BY <1>1, <1>2, <1>4
  <2> HIDE DEF l
  <2>3. /\ draft \in Seq(Draft) /\ Len(draft) = 1
        /\ draft[1].from = p /\ draft[1].to = q /\ draft[1].item = i
        /\ draft[1].money = amount /\ draft[1].cod = cod
        /\ draft[1].kind = "MAIL_NORMAL" /\ draft[1].state = "unchanged"
    BY <2>1, <2>2
  <2> QED
    BY <1>2, <1>4, <2>3 DEF draft
<1> QED
  BY <1>3, <1>4

LEMMA SendMailKeeps ==
    ASSUME MailIInv, NEW p \in Player, NEW q \in Player, NEW i \in Item \cup {NoItem},
           NEW amount \in Amounts, NEW cod \in Amounts, SendMail(p, q, i, amount, cod)
    PROVE  MailIInv' /\ Apart(p)
<1> DEFINE letter == Letter(p, q, i, amount)
           draft == [k \in DOMAIN letter |-> [letter[k] EXCEPT !.cod = cod]]
           gold == Paid(money[p], Postage + amount)
           items == inv[p] \ {i}
           d == DeleteFromInventoryDB(Latest, i)
           e == InsertMails(d, draft)
           r == SaveInventoryAndGold(e, p, items, gold)
<1>1. /\ p \in online /\ i \in inv[p] \cup {NoItem} /\ draft # <<>> /\ RoomFor(draft)
      /\ money' = [money EXCEPT ![p] = gold] /\ inv' = [inv EXCEPT ![p] = items]
      /\ box' = Delivered(box, draft) /\ Commit(r, p)
      /\ UNCHANGED <<online, loaded>>
  BY DEF SendMail
<1>2. Memory /\ DatabaseOK /\ Boxes /\ PursesSaved
  BY DEF MailIInv
<1>3. RowsOK(Latest) /\ \A x \in Latest.mails : x.id \in UsedIds
  BY <1>2, LatestRows
<1>4. /\ inv[p] = Latest.inv[p] /\ money[p] \in 0..MaxMoney /\ inv[p] \subseteq Item
      /\ BoxOK(box[p], p, Latest) /\ (p \notin loaded => box[p] = {})
  BY <1>1, <1>2 DEF PursesSaved, Memory, Boxes
<1>5. amount \in Nat /\ cod \in Nat /\ gold \in 0..MaxMoney
  <2>1. amount \in Nat /\ cod \in Nat /\ Postage + amount \in Nat
    BY PriceAssumption
  <2> QED
    BY <1>4, <2>1, Purses
<1>6. /\ draft \in Seq(Draft) /\ Len(draft) = 1
      /\ draft[1].from = p /\ draft[1].to = q /\ draft[1].item = i /\ draft[1].money = amount
      /\ draft[1].cod = cod /\ draft[1].kind = "MAIL_NORMAL" /\ draft[1].state = "unchanged"
      /\ ~(i = NoItem /\ amount = 0)
  <2>1. draft = SendDraft(p, q, i, amount, cod)
    BY DEF SendDraft
  <2>2. draft # <<>>
    BY <1>1
  <2>3. amount \in Nat /\ cod \in Nat
    BY <1>5
  <2> HIDE DEF draft
  <2>4. LET l == SendDraft(p, q, i, amount, cod)
        IN  l # <<>> =>
               /\ l \in Seq(Draft) /\ Len(l) = 1
               /\ l[1].from = p /\ l[1].to = q /\ l[1].item = i /\ l[1].money = amount
               /\ l[1].cod = cod /\ l[1].kind = "MAIL_NORMAL" /\ l[1].state = "unchanged"
               /\ ~(i = NoItem /\ amount = 0)
    BY <2>3, SendDraftIs
  <2> QED
    BY <2>1, <2>2, <2>4
<1> HIDE DEF letter, draft, gold
<1>7. Drafted(draft)
  BY <1>1, <1>6 DEF Drafted
<1>8. /\ RowsOK(d) /\ \A o \in Player : d.inv[o] = Latest.inv[o] \ {i}
      /\ d.money = Latest.money /\ d.mails = Latest.mails /\ d.items = Latest.items
  BY <1>3, ItemUnbagged
<1> HIDE DEF d
<1> DEFINE N == Sent(draft)
<1>9. /\ N \subseteq Mail /\ \A n, m \in N : n = m
      /\ \A n \in N : /\ n.id \notin UsedIds /\ n.from = p /\ n.to = q /\ n.item = i
                      /\ n.money = amount /\ n.kind = "MAIL_NORMAL" /\ n.state = "unchanged"
  BY <1>6, <1>7, SentMails DEF Drafted
<1>10. i # NoItem => /\ i \in Latest.items
                     /\ \A m \in Latest.mails : m.item # i
  BY <1>1, <1>3, <1>4 DEF RowsOK, RowsSound
<1> HIDE DEF N
<1>11. \A n \in N : ~IsEmpty(n) /\ Answerable(n)
  BY <1>6, <1>9 DEF IsEmpty, Answerable
<1>12. e = [d EXCEPT !.mails = @ \cup N]
  BY DEF InsertMails, N
<1> HIDE DEF e
<1>13. /\ RowsOK(e) /\ e.mails = Latest.mails \cup N /\ e.money = Latest.money
       /\ e.inv = d.inv /\ e.items = Latest.items
  <2>1. OneEach(N)
    BY <1>9 DEF OneEach
  <2>2. \A s \in N : /\ s.state = "unchanged" /\ ~IsEmpty(s) /\ Answerable(s)
                     /\ \A m \in d.mails : m.id # s.id
                     /\ s.item # NoItem =>
                           /\ \A o \in Player : s.item \notin d.inv[o]
                           /\ \A m \in d.mails : m.item # s.item
                           /\ \A t \in N : t.item = s.item => t = s
    BY <1>3, <1>8, <1>9, <1>10, <1>11
  <2> QED
    BY <1>8, <1>9, <1>12, <2>1, <2>2, MailsAdded
<1>14. items = e.inv[p] /\ items \subseteq Item
  BY <1>4, <1>8, <1>13
<1> HIDE DEF items
<1>15. ForOne(e, p, items)
  <2>1. RowsSound(e)
    BY <1>13 DEF RowsOK
  <2> QED
    BY <1>14, <2>1 DEF RowsSound, ForOne
<1>16. /\ RowsOK(r) /\ r.inv[p] = items /\ r.money[p] = gold
       /\ \A o \in Player \ {p} : r.inv[o] = e.inv[o] /\ r.money[o] = e.money[o]
       /\ r.mails = e.mails /\ r.items = e.items
  <2>1. /\ RowsOK(r) /\ r.inv[p] = e.inv[p] \cup items /\ r.money[p] = gold
        /\ \A o \in Player \ {p} : r.inv[o] = e.inv[o] /\ r.money[o] = e.money[o]
        /\ r.mails = e.mails /\ r.items = e.items
    BY <1>5, <1>13, <1>15, InventorySaved
  <2>2. e.inv[p] \cup items = items
    BY <1>14
  <2> HIDE DEF r
  <2> QED
    BY <2>1, <2>2
<1> HIDE DEF r
<1>17. ASSUME NEW o \in Player \ {p}
       PROVE  Latest.inv[o] = r.inv[o]
  <2>1. i \notin Latest.inv[o]
    <3>1. CASE i = NoItem
      BY <1>3, <3>1, NoItemAssumption, RowsFields
    <3>2. CASE i # NoItem
      <4>1. i \in Latest.inv[p]
        BY <1>1, <1>4, <3>2
      <4>2. RowsSound(Latest)
        BY <1>3 DEF RowsOK
      <4> QED
        BY <4>1, <4>2 DEF RowsSound
    <3> QED
      BY <3>1, <3>2
  <2>2. Latest.inv[o] \ {i} = Latest.inv[o]
    BY <2>1
  <2>3. d.inv[o] = Latest.inv[o] \ {i}
    BY <1>8
  <2>4. r.inv[o] = d.inv[o]
    BY <1>13, <1>16
  <2> QED
    BY <2>2, <2>3, <2>4
<1>18. \A o \in Player : Kept(Latest, r, o)
  BY <1>13, <1>16 DEF Kept
<1>19. \A o \in Player \ {p} : Alike(Latest, r, o)
  BY <1>13, <1>16, <1>17, <1>18 DEF Alike
<1>20. BoxOK(box[p], p, r) /\ \A m \in box[p] : m.id \in UsedIds
  BY <1>4, <1>18, BoxKept, IdsUsed
<1>21. Posted(draft, r)
  BY <1>9, <1>10, <1>11, <1>13, <1>16 DEF Posted, N
<1>22. box' = Delivered([box EXCEPT ![p] = box[p]], draft)
  <2>1. [box EXCEPT ![p] = box[p]] = box
    BY <1>2 DEF Memory
  <2> QED
    BY <1>1, <2>1
<1>l. Apart(p)
  <2>1. Latest' = r
    BY <1>1, OneMore DEF MailIInv, DatabaseOK
  <2> QED
    BY <1>19, <2>1 DEF Apart
<1> QED
  BY <1>l, <1>1, <1>4, <1>5, <1>7, <1>14, <1>16, <1>18, <1>19, <1>20, <1>21, <1>22, PostStep

\* The statements of _SaveMail and those of the inventory and the money do not
\* touch the same columns.
LEMMA SavesCommute ==
    ASSUME NEW d, Shaped(d), NEW p, NEW items, NEW gold, NEW mails
    PROVE  SaveMail(SaveInventoryAndGold(d, p, items, gold), mails)
              = SaveInventoryAndGold(SaveMail(d, mails), p, items, gold)
<1> DEFINE bags == [q \in Player |-> IF q = p THEN d.inv[q] \cup items ELSE d.inv[q] \ items]
           purses == [d.money EXCEPT ![p] = gold]
           doomed == {m \in mails : m.state = "deleted"}
           left == d.items \ {m.item : m \in doomed}
           rows == {m \in {UpdateRow(x, mails) :
                              x \in {m \in d.mails : m.id \notin {n.id : n \in doomed}}} : ~IsEmpty(m)}
           e == SaveInventoryAndGold(d, p, items, gold)
           f == SaveMail(d, mails)
<1>1. e = [d EXCEPT !.inv = bags, !.money = purses]
  BY DEF Shaped, SaveInventoryAndGold
<1>2. f = [d EXCEPT !.items = left, !.mails = rows]
  BY DEF Shaped, SaveMail
<1>3. /\ Shaped(e) /\ e.inv = bags /\ e.money = purses
      /\ e.items = d.items /\ e.mails = d.mails /\ e.auctions = d.auctions
  <2> HIDE DEF bags, purses, e
  <2> QED
    BY <1>1 DEF Shaped
<1>4. /\ Shaped(f) /\ f.items = left /\ f.mails = rows
      /\ f.inv = d.inv /\ f.money = d.money /\ f.auctions = d.auctions
  <2> HIDE DEF left, rows, f
  <2> QED
    BY <1>2 DEF Shaped
<1>5. SaveMail(e, mails) = [e EXCEPT !.items = left, !.mails = rows]
  <2> HIDE DEF e
  <2> QED
    BY <1>3 DEF Shaped, SaveMail
<1>6. SaveInventoryAndGold(f, p, items, gold) = [f EXCEPT !.inv = bags, !.money = purses]
  <2> HIDE DEF f
  <2>1. bags = [q \in Player |-> IF q = p THEN f.inv[q] \cup items ELSE f.inv[q] \ items]
    BY <1>4
  <2>2. purses = [f.money EXCEPT ![p] = gold]
    BY <1>4
  <2> HIDE DEF bags, purses
  <2> QED
    BY <1>4, <2>1, <2>2 DEF Shaped, SaveInventoryAndGold
<1> HIDE DEF bags, purses, left, rows, e, f
<1>7. [e EXCEPT !.items = left, !.mails = rows] = [f EXCEPT !.inv = bags, !.money = purses]
  BY <1>3, <1>4 DEF Shaped
<1> QED
  BY <1>5, <1>6, <1>7 DEF e, f

LEMMA CashDrafts ==
    ASSUME NEW p \in Player, NEW m \in Mail, m.cod # 0 => m.from \in Player,
           RoomFor(CashOnDelivery(p, m))
    PROVE  /\ Drafted(CashOnDelivery(p, m))
           /\ CashOnDelivery(p, m) # <<>> =>
                 LET l == CashOnDelivery(p, m)[1]
                 IN  /\ m.cod # 0 /\ l.from = p /\ l.to = m.from /\ l.item = NoItem
                     /\ l.money = m.cod /\ l.cod = 0 /\ l.kind = "MAIL_NORMAL" /\ l.state = "unchanged"
<1>1. CASE m.cod = 0
  BY <1>1, NoDrafts DEF CashOnDelivery, Drafted
<1>2. CASE m.cod # 0
  <2> DEFINE letter == Letter(p, m.from, NoItem, m.cod)
             l == [letter[1] EXCEPT !.checked = "codPayment"]
  <2>1. m.cod \in Nat /\ m.from \in Player
    BY <1>2 DEF Mail
  <2>2. letter # <<>> => /\ letter[1] \in Draft
                         /\ letter[1].from = p /\ letter[1].to = m.from /\ letter[1].item = NoItem
                         /\ letter[1].money = m.cod /\ letter[1].cod = 0
                         /\ letter[1].kind = "MAIL_NORMAL" /\ letter[1].state = "unchanged"
    <3> DEFINE from == m.from
               cod == m.cod
    <3>1. from \in Player /\ cod \in Nat /\ NoItem \in Item \cup {NoItem}
      BY <2>1
    <3> HIDE DEF from, cod
    <3>2. Letter(p, from, NoItem, cod) # <<>> =>
             LET k == Letter(p, from, NoItem, cod)[1]
             IN  /\ k \in Draft /\ k.from = p /\ k.to = from /\ k.item = NoItem /\ k.money = cod
                 /\ k.cod = 0 /\ k.kind = "MAIL_NORMAL" /\ k.state = "unchanged"
      BY <3>1, LetterDrafts
    <3> QED
      BY <3>2 DEF from, cod
  <2>3. letter # <<>>
    BY <1>2 DEF Letter
  <2>4. CashOnDelivery(p, m) = <<l>>
    BY <1>2 DEF CashOnDelivery
  <2> HIDE DEF letter
  <2>5. /\ l \in Draft /\ l.from = p /\ l.to = m.from /\ l.item = NoItem /\ l.money = m.cod
        /\ l.cod = 0 /\ l.kind = "MAIL_NORMAL" /\ l.state = "unchanged"
    BY <2>2, <2>3 DEF Draft
  <2> HIDE DEF l
  <2> QED
    BY <1>2, <2>4, <2>5 DEF Drafted
<1> QED
  BY <1>1, <1>2

\* Mails without items are added to any rows.
LEMMA LettersAdded ==
    ASSUME NEW d, RowsOK(d), \A x \in d.mails : x.id \in UsedIds, NEW drafts, Drafted(drafts),
           drafts # <<>> => /\ drafts[1].state = "unchanged"
                            /\ ~(drafts[1].item = NoItem /\ drafts[1].money = 0)
                            /\ drafts[1].from \in Player
                            /\ drafts[1].item # NoItem =>
                                  /\ \A q \in Player : drafts[1].item \notin d.inv[q]
                                  /\ \A x \in d.mails : x.item # drafts[1].item
    PROVE  LET r == InsertMails(d, drafts)
           IN  /\ RowsOK(r) /\ r.mails = d.mails \cup Sent(drafts)
               /\ r.money = d.money /\ r.inv = d.inv /\ r.items = d.items
               /\ r.auctions = d.auctions
               /\ \A n \in Sent(drafts) :
                     /\ Answerable(n) /\ n.id \notin UsedIds /\ drafts # <<>>
                     /\ n.item = drafts[1].item /\ n.money = drafts[1].money /\ n.to = drafts[1].to
<1> DEFINE N == Sent(drafts)
           r == InsertMails(d, drafts)
<1>1. /\ \A n, m \in N : n = m
      /\ \A n \in N : /\ n \in Mail /\ n.id \notin UsedIds /\ drafts # <<>>
                      /\ n.from = drafts[1].from /\ n.item = drafts[1].item /\ n.to = drafts[1].to
                      /\ n.money = drafts[1].money /\ n.state = drafts[1].state
  BY SentMails DEF Drafted
<1>2. r = [d EXCEPT !.mails = @ \cup N]
  BY DEF InsertMails
<1> HIDE DEF N, r
<1>3. \A n \in N : ~IsEmpty(n) /\ Answerable(n) /\ n.state = "unchanged"
  BY <1>1 DEF IsEmpty, Answerable
<1>4. N \subseteq Mail /\ OneEach(N)
  BY <1>1 DEF OneEach
<1>5. \A s \in N : /\ s.state = "unchanged" /\ ~IsEmpty(s) /\ Answerable(s)
                   /\ \A m \in d.mails : m.id # s.id
                   /\ s.item # NoItem =>
                         /\ \A q \in Player : s.item \notin d.inv[q]
                         /\ \A m \in d.mails : m.item # s.item
                         /\ \A t \in N : t.item = s.item => t = s
  BY <1>1, <1>3
<1>6. /\ RowsOK(r) /\ r.mails = d.mails \cup N
      /\ r.money = d.money /\ r.inv = d.inv /\ r.items = d.items /\ r.auctions = d.auctions
  BY <1>2, <1>4, <1>5, MailsAdded
<1> QED
  BY <1>1, <1>3, <1>6 DEF N, r

LEMMA TakeItemKeeps ==
    ASSUME MailIInv, NEW p \in Player, NEW m \in box[p], TakeItem(p, m)
    PROVE  MailIInv' /\ Moved /\ Apart(p)
<1> DEFINE payment == CashOnDelivery(p, m)
           new == [m EXCEPT !.item = NoItem, !.cod = 0, !.state = "changed"]
           mails == Changed(p, m, new)
           gold == Paid(money[p], m.cod)
           items == inv[p] \cup {m.item}
           d == InsertMails(Latest, payment)
           e == SaveMail(d, mails)
           r == SaveInventoryAndGold(e, p, items, gold)
           b == Cleaned(mails)
<1>1. /\ m.state # "deleted" /\ m.item # NoItem /\ RoomFor(payment)
      /\ money' = [money EXCEPT ![p] = gold] /\ inv' = [inv EXCEPT ![p] = items]
      /\ box' = Delivered([box EXCEPT ![p] = b], payment)
      /\ Commit(SaveMail(SaveInventoryAndGold(d, p, items, gold), mails), p)
      /\ UNCHANGED <<online, loaded>>
  BY DEF TakeItem
<1>2. /\ p \in online /\ p \in loaded /\ m \in Mail /\ Answerable(m)
      /\ BoxOK(box[p], p, Latest) /\ RowsOK(Latest) /\ \A x \in Latest.mails : x.id \in UsedIds
      /\ inv[p] = Latest.inv[p] /\ money[p] \in 0..MaxMoney /\ inv[p] \subseteq Item
      /\ m.item \in Latest.items
  BY <1>1, BoxFacts
<1>3. gold \in 0..MaxMoney
  BY <1>2, Purses DEF Mail
<1>4. /\ new \in Mail /\ new.id = m.id /\ new.to = m.to /\ new.from = m.from /\ new.kind = m.kind
      /\ new.item = NoItem /\ new.cod = 0 /\ new.state = "changed"
  BY <1>2 DEF Mail
<1>5. mails = (box[p] \ {m}) \cup {new}
  BY DEF Changed
<1>6. /\ Drafted(payment)
      /\ payment # <<>> =>
            LET l == payment[1]
            IN  /\ m.cod # 0 /\ l.from = p /\ l.item = NoItem
                /\ l.money = m.cod /\ l.state = "unchanged"
  <2>1. m.cod # 0 => m.from \in Player
    BY <1>2 DEF Answerable, Mail
  <2> QED
    BY <1>1, <1>2, <2>1, CashDrafts
<1> HIDE DEF new, mails, gold, payment
<1>7. /\ RowsOK(d) /\ d.mails = Latest.mails \cup Sent(payment)
      /\ d.money = Latest.money /\ d.inv = Latest.inv /\ d.items = Latest.items
      /\ d.auctions = Latest.auctions
      /\ \A n \in Sent(payment) : Answerable(n) /\ n.id \notin UsedIds /\ n.item = NoItem
  BY <1>2, <1>6, LettersAdded
<1>8. Commit(r, p)
  <2>1. Shaped(d)
    BY <1>7 DEF RowsOK
  <2> HIDE DEF d, items
  <2>2. SaveMail(SaveInventoryAndGold(d, p, items, gold), mails) = r
    BY <2>1, SavesCommute
  <2> HIDE DEF r
  <2> QED
    BY <1>1, <2>2
<1> HIDE DEF d
<1>9. \A q \in Player : Kept(Latest, d, q)
  BY <1>7 DEF Kept
<1>10. BoxOK(box[p], p, d)
  BY <1>2, <1>9, BoxKept
<1>11. /\ Savable(mails, d)
       /\ \A n \in mails : n.to = p /\ (n.item # NoItem => n.item \in d.items)
       /\ \A n \in mails : \E o \in box[p] : n.id = o.id
  BY <1>4, <1>5, <1>10, ChangedSavable
<1>12. /\ RowsOK(e) /\ e.money = d.money /\ e.inv = d.inv /\ e.auctions = d.auctions
       /\ \A y \in e.mails : \E x \in d.mails :
             /\ y.id = x.id /\ y.to = x.to /\ y.from = x.from /\ y.kind = x.kind
             /\ y.item \in {x.item, NoItem}
       /\ \A x \in d.mails : (\A n \in mails : n.id # x.id) =>
             x \in e.mails /\ (x.item \in d.items => x.item \in e.items)
       /\ \A n \in mails : n.state = "changed" /\ n.item = NoItem =>
             \A y \in e.mails : y.id = n.id => y.item = NoItem
       /\ \A i \in d.items \ e.items : \E n \in mails : n.state = "deleted" /\ n.item = i
  BY <1>7, <1>11, MailsSaved
<1>13. BoxOK(b, p, e)
  BY <1>7, <1>11, BoxSaved
<1>14. \A n \in b : n.id \in UsedIds
  <2>1. mails \subseteq Mail
    BY <1>11 DEF Savable
  <2>2. \A n \in b : \E o \in mails : n.id = o.id
    BY <2>1, CleanedMails
  <2> QED
    BY <1>11, <2>2, IdsUsed
<1>15. \A q \in Player \ {p} : Kept(d, e, q)
  BY <1>7, <1>11, OthersKept
<1> HIDE DEF e, b
<1>16. PICK x \in d.mails : RowOf(m, x)
  BY <1>10 DEF BoxOK
<1>17. x.id = m.id /\ x.item = m.item /\ m.item # NoItem
  BY <1>1, <1>16 DEF RowOf
<1>18. RowsSound(d) /\ RowsSound(e)
  BY <1>7, <1>12 DEF RowsOK
<1>19. ForOne(e, p, items)
  <2>1. inv[p] = e.inv[p]
    BY <1>2, <1>7, <1>12
  <2>2. ForOne(e, p, inv[p])
    BY <1>18, <2>1 DEF RowsSound, ForOne
  <2>3. \A q \in Player : m.item \notin e.inv[q]
    <3>1. \A q \in Player : m.item \notin d.inv[q]
      BY <1>17, <1>18 DEF RowsSound
    <3> QED
      BY <1>12, <3>1
  <2>4. ASSUME NEW y \in e.mails, y.item = m.item
        PROVE  FALSE
    <3>1. PICK z \in d.mails : y.id = z.id /\ y.item \in {z.item, NoItem}
      BY <1>12
    <3>2. z = x
      BY <1>17, <1>18, <2>4, <3>1 DEF RowsSound
    <3>3. new \in mails
      BY <1>5
    <3> QED
      BY <1>4, <1>12, <1>17, <2>4, <3>1, <3>2, <3>3
  <2>5. m.item \in e.items
    <3> SUFFICES ASSUME m.item \notin e.items PROVE FALSE
      OBVIOUS
    <3>1. PICK n \in mails : n.state = "deleted" /\ n.item = m.item
      BY <1>2, <1>7, <1>12
    <3>2. n \in box[p] /\ n # m
      BY <1>4, <1>5, <3>1
    <3>3. PICK z \in d.mails : RowOf(n, z)
      BY <1>10, <3>2 DEF BoxOK
    <3>4. z.id = n.id /\ z.item = x.item
      BY <1>17, <3>1, <3>3 DEF RowOf
    <3>5. z = x
      BY <1>17, <1>18, <3>4 DEF RowsSound
    <3> QED
      BY <1>10, <1>17, <3>2, <3>4, <3>5 DEF BoxOK, OneEach
  <2>6. \A i \in items : i \in inv[p] \/ i = m.item
    OBVIOUS
  <2> HIDE DEF items
  <2> QED
    BY <2>2, <2>3, <2>4, <2>5, <2>6 DEF ForOne
<1>20. inv[p] \cup items = items /\ items \in SUBSET Item
  <2>1. m.item \in Item
    BY <1>2, <1>17 DEF Mail
  <2> QED
    BY <1>2, <2>1
<1> HIDE DEF items
<1>21. /\ RowsOK(r) /\ r.inv[p] = items /\ r.money[p] = gold
       /\ \A q \in Player \ {p} : r.inv[q] = e.inv[q] /\ r.money[q] = e.money[q]
       /\ r.mails = e.mails /\ r.items = e.items /\ r.auctions = e.auctions
  <2>1. /\ RowsOK(r) /\ r.inv[p] = e.inv[p] \cup items /\ r.money[p] = gold
        /\ \A q \in Player \ {p} : r.inv[q] = e.inv[q] /\ r.money[q] = e.money[q]
        /\ r.mails = e.mails /\ r.items = e.items /\ r.auctions = e.auctions
    BY <1>3, <1>12, <1>19, InventorySaved
  <2>2. e.inv[p] = inv[p]
    BY <1>2, <1>7, <1>12
  <2> HIDE DEF r
  <2> QED
    BY <1>20, <2>1, <2>2
<1> HIDE DEF r
<1>22. ASSUME NEW q \in Player \ {p}
       PROVE  Alike(Latest, r, q)
  <2>1. Kept(Latest, d, q) /\ Kept(d, e, q) /\ Kept(e, r, q)
    BY <1>9, <1>15, <1>21, KeptSame
  <2>2. Kept(Latest, r, q)
    BY <2>1, KeptOn
  <2>3. Latest.inv[q] = r.inv[q] /\ Latest.money[q] = r.money[q]
    BY <1>7, <1>12, <1>21
  <2> QED
    BY <2>2, <2>3 DEF Alike
<1>23. BoxOK(b, p, r)
  BY <1>13, <1>21, BoxKept, KeptSame
<1>24. Posted(payment, r)
  <2>1. ASSUME NEW n \in Sent(payment)
        PROVE  n \in r.mails
    <3>1. n \in d.mails /\ \A o \in mails : o.id # n.id
      BY <1>7, <1>11, IdsUsed
    <3> QED
      BY <1>12, <1>21, <3>1
  <2> QED
    BY <1>7, <2>1 DEF Posted
<1>25. GoodsMoved(Latest, r)
  <2>1. ASSUME NEW i \in Item, Placed(e, i) \/ i \in d.items \ e.items
        PROVE  Placed(Latest, i)
    <3>1. GoodsMoved(d, e)
      BY <1>7, <1>11, SaveMoves DEF e
    <3>2. Placed(d, i)
      BY <2>1, <3>1 DEF GoodsMoved
    <3>3. i # NoItem
      BY NoItemAssumption
    <3> QED
      BY <1>7, <3>2, <3>3 DEF Placed
  <2>2. Placed(Latest, m.item)
    <3>1. \E y \in Latest.mails : RowOf(m, y)
      BY BoxFacts
    <3> QED
      BY <1>17, <3>1 DEF Placed, RowOf
  <2>3. ASSUME NEW i \in Item, NEW q \in Player, i \in r.inv[q]
        PROVE  Placed(e, i) \/ i = m.item
    <3>1. CASE q = p
      <4>1. i \in inv[p] \/ i = m.item
        BY <1>21, <2>3, <3>1 DEF items
      <4>2. inv[p] = e.inv[p]
        BY <1>2, <1>7, <1>12
      <4> QED
        BY <4>1, <4>2 DEF Placed
    <3>2. CASE q # p
      BY <1>21, <2>3, <3>2 DEF Placed
    <3> QED
      BY <3>1, <3>2
  <2>4. ASSUME NEW i \in Item, Placed(r, i) \/ i \in Latest.items \ r.items
        PROVE  Placed(Latest, i)
    <3>1. CASE \E q \in Player : i \in r.inv[q]
      BY <2>1, <2>2, <2>3, <3>1
    <3>2. CASE \E y \in r.mails : y.item = i
      BY <1>21, <2>1, <3>2 DEF Placed
    <3>3. CASE i \in Latest.items \ r.items
      BY <1>7, <1>21, <2>1, <3>3
    <3> QED
      BY <2>4, <3>1, <3>2, <3>3 DEF Placed
  <2>5. r.auctions = Latest.auctions
    BY <1>7, <1>12, <1>21
  <2> QED
    BY <2>4, <2>5 DEF GoodsMoved
<1>26. Moved
  BY <1>8, <1>25, CommitMoves
<1>l. Apart(p)
  <2>1. Latest' = r
    BY <1>8, OneMore DEF MailIInv, DatabaseOK
  <2> QED
    BY <1>22, <2>1 DEF Apart
<1> QED
  BY <1>l, <1>26, <1>1, <1>2, <1>3, <1>6, <1>8, <1>14, <1>20, <1>21, <1>22, <1>23, <1>24, PostStep

\* The draft of a mail that is returned.
ReturnDraft(p, m) ==
    [k \in DOMAIN Letter(p, m.from, m.item, m.money) |->
        [Letter(p, m.from, m.item, m.money)[k] EXCEPT !.checked = "returned"]]

LEMMA ReturnDraftIs ==
    ASSUME NEW p \in Player, NEW m \in Mail, m.from \in Player
    PROVE  LET draft == ReturnDraft(p, m)
           IN  /\ draft \in Seq(Draft) /\ Len(draft) <= 1
               /\ draft = <<>> => m.item = NoItem /\ m.money = 0
               /\ draft # <<>> =>
                     /\ ~(m.item = NoItem /\ m.money = 0)
                     /\ draft[1].from = p /\ draft[1].to = m.from /\ draft[1].item = m.item
                     /\ draft[1].money = m.money /\ draft[1].cod = 0
                     /\ draft[1].kind = "MAIL_NORMAL" /\ draft[1].state = "unchanged"
<1> DEFINE from == m.from
           item == m.item
           sum == m.money
           letter == Letter(p, from, item, sum)
           draft == ReturnDraft(p, m)
<1>1. from \in Player /\ item \in Item \cup {NoItem} /\ sum \in Nat
  BY DEF Mail
<1>2. draft = [k \in DOMAIN letter |-> [letter[k] EXCEPT !.checked = "returned"]]
  BY DEF ReturnDraft
<1> HIDE DEF from, item, sum, draft
<1>3. /\ letter = <<>> => item = NoItem /\ sum = 0
      /\ letter # <<>> =>
            /\ DOMAIN letter = 1..1 /\ letter[1] \in Draft /\ ~(item = NoItem /\ sum = 0)
            /\ letter[1].from = p /\ letter[1].to = from /\ letter[1].item = item
            /\ letter[1].money = sum /\ letter[1].cod = 0
            /\ letter[1].kind = "MAIL_NORMAL" /\ letter[1].state = "unchanged"
  BY <1>1, LetterDrafts
<1> HIDE DEF letter
<1>4. CASE letter = <<>>
  <2>1. draft = <<>>
    BY <1>2, <1>4
  <2>2. draft \in Seq(Draft) /\ Len(draft) <= 1
    BY <2>1, NoDrafts
  <2> QED
    BY <1>3, <1>4, <2>1, <2>2 DEF draft, item, sum
<1>5. CASE letter # <<>>
  <2> DEFINE l == [letter[1] EXCEPT !.checked = "returned"]
  <2>1. /\ l \in Draft /\ l.from = p /\ l.to = from /\ l.item = item /\ l.money = sum /\ l.cod = 0
        /\ l.kind = "MAIL_NORMAL" /\ l.state = "unchanged"
    BY <1>3, <1>5 DEF Draft
  <2>2. draft = <<l>>
    BY <1>2, <1>3, <1>5
  <2> HIDE DEF l
  <2>3. /\ draft \in Seq(Draft) /\ Len(draft) <= 1 /\ draft # <<>>
        /\ draft[1].from = p /\ draft[1].to = from /\ draft[1].item = item
        /\ draft[1].money = sum /\ draft[1].cod = 0
        /\ draft[1].kind = "MAIL_NORMAL" /\ draft[1].state = "unchanged"
    BY <2>1, <2>2
  <2> QED
    BY <1>3, <1>5, <2>3 DEF draft, from, item, sum
<1> QED
  BY <1>4, <1>5

LEMMA ReturnToSenderKeeps ==
    ASSUME MailIInv, NEW p \in Player, NEW m \in box[p], ReturnToSender(p, m)
    PROVE  MailIInv' /\ Apart(p)
<1> DEFINE letter == Letter(p, m.from, m.item, m.money)
           draft == [k \in DOMAIN letter |-> [letter[k] EXCEPT !.checked = "returned"]]
           b == box[p] \ {m}
           d == DeleteMail(Latest, m.id)
           r == InsertMails(d, draft)
<1>1. /\ m.state # "deleted" /\ m.kind = "MAIL_NORMAL" /\ RoomFor(draft)
      /\ box' = Delivered([box EXCEPT ![p] = b], draft) /\ Commit(r, p)
      /\ UNCHANGED <<online, money, inv, loaded>>
  BY DEF ReturnToSender
<1>2. /\ p \in online /\ p \in loaded /\ m \in Mail /\ Answerable(m) /\ m.to = p
      /\ BoxOK(box[p], p, Latest) /\ RowsOK(Latest) /\ \A x \in Latest.mails : x.id \in UsedIds
      /\ inv[p] = Latest.inv[p] /\ money[p] = Latest.money[p]
      /\ money[p] \in 0..MaxMoney /\ inv[p] \subseteq Item
      /\ m.item # NoItem => m.item \in Latest.items
  BY BoxFacts
<1>3. /\ draft \in Seq(Draft) /\ Len(draft) <= 1
      /\ draft # <<>> =>
            /\ ~(m.item = NoItem /\ m.money = 0)
            /\ draft[1].from = p /\ draft[1].item = m.item /\ draft[1].money = m.money
            /\ draft[1].state = "unchanged"
  <2>1. m.from \in Player
    BY <1>1, <1>2 DEF Answerable
  <2> QED
    <3>1. draft = ReturnDraft(p, m)
      BY DEF ReturnDraft
    <3> HIDE DEF draft
    <3> QED
      BY <1>2, <2>1, <3>1, ReturnDraftIs
<1> HIDE DEF letter, draft
<1>4. Drafted(draft)
  BY <1>1, <1>3 DEF Drafted
<1>5. /\ RowsOK(d) /\ d.mails = {x \in Latest.mails : x.id # m.id}
      /\ d.money = Latest.money /\ d.inv = Latest.inv /\ d.items = Latest.items
  BY <1>2, MailDeleted
<1> HIDE DEF d
<1>6. ASSUME m.item # NoItem
      PROVE  /\ \A q \in Player : m.item \notin d.inv[q]
             /\ \A x \in d.mails : x.item # m.item
  <2>1. PICK x \in Latest.mails : RowOf(m, x)
    BY <1>2 DEF BoxOK
  <2>2. x.id = m.id /\ x.item = m.item
    BY <1>6, <2>1 DEF RowOf
  <2>3. RowsSound(Latest)
    BY <1>2 DEF RowsOK
  <2>4. \A q \in Player : m.item \notin Latest.inv[q]
    BY <2>2, <2>3 DEF RowsSound
  <2>5. \A z \in Latest.mails : z.item = m.item => z = x
    BY <1>6, <2>2, <2>3 DEF RowsSound
  <2> QED
    BY <1>5, <2>2, <2>4, <2>5
<1>7. /\ RowsOK(r) /\ r.mails = d.mails \cup Sent(draft)
      /\ r.money = d.money /\ r.inv = d.inv /\ r.items = d.items
      /\ \A n \in Sent(draft) :
            Answerable(n) /\ n.id \notin UsedIds /\ draft # <<>> /\ n.item = draft[1].item
  <2>1. \A x \in d.mails : x.id \in UsedIds
    BY <1>2, <1>5
  <2> QED
    BY <1>2, <1>3, <1>4, <1>5, <1>6, <2>1, LettersAdded
<1> HIDE DEF r
<1>8. ASSUME NEW x \in Latest.mails, x.id # m.id
      PROVE  x \in r.mails
  BY <1>5, <1>7, <1>8
<1>9. ASSUME NEW q \in Player \ {p}
      PROVE  Alike(Latest, r, q)
  <2>1. PICK z \in Latest.mails : RowOf(m, z)
    BY <1>2 DEF BoxOK
  <2>2. ASSUME NEW x \in Latest.mails, x.to = q
        PROVE  x \in r.mails
    <3>1. x # z /\ z.id = m.id
      BY <1>2, <2>1, <2>2 DEF RowOf
    <3>2. x.id # m.id
      BY <1>2, <3>1, RowsFields
    <3> QED
      BY <1>8, <3>2
  <2>3. r.items = Latest.items /\ r.inv = Latest.inv /\ r.money = Latest.money
    BY <1>5, <1>7
  <2> QED
    BY <2>2, <2>3 DEF Alike, Kept
<1>10. BoxOK(b, p, r)
  <2>1. ASSUME NEW n \in b
        PROVE  \E x \in r.mails : RowOf(n, x)
    <3>1. PICK x \in Latest.mails : RowOf(n, x)
      BY <1>2 DEF BoxOK
    <3>2. n.id # m.id
      BY <1>2 DEF BoxOK, OneEach
    <3>3. x \in r.mails
      BY <1>8, <3>1, <3>2 DEF RowOf
    <3> QED
      BY <3>1, <3>3
  <2>2. r.items = Latest.items
    BY <1>5, <1>7
  <2> QED
    BY <1>2, <2>1, <2>2 DEF BoxOK, OneEach
<1>11. Posted(draft, r)
  BY <1>2, <1>3, <1>5, <1>7 DEF Posted
<1>12. \A n \in b : n.id \in UsedIds
  BY IdsUsed
<1>13. money' = [money EXCEPT ![p] = money[p]] /\ inv' = [inv EXCEPT ![p] = inv[p]]
  BY <1>1 DEF MailIInv, Memory
<1> DEFINE gold == money[p]
           items == inv[p]
<1>14. /\ r.money[p] = gold /\ gold \in 0..MaxMoney /\ money' = [money EXCEPT ![p] = gold]
       /\ r.inv[p] = items /\ items \in SUBSET Item /\ inv' = [inv EXCEPT ![p] = items]
  BY <1>2, <1>5, <1>7, <1>13
<1>15. /\ box' = Delivered([box EXCEPT ![p] = b], draft) /\ Commit(r, p)
       /\ UNCHANGED <<online, loaded>>
  BY <1>1
<1>16. p \in online /\ p \in loaded /\ RowsOK(r)
  BY <1>2, <1>7
<1> HIDE DEF b, gold, items
<1>l. Apart(p)
  <2>1. Latest' = r
    BY <1>1, OneMore DEF MailIInv, DatabaseOK
  <2> QED
    BY <1>9, <2>1 DEF Apart
<1> QED
  BY <1>l, <1>4, <1>9, <1>10, <1>11, <1>12, <1>14, <1>15, <1>16, PostStep

-----------------------------------------------------------------------------
(* ReturnOrDeleteOldMails. *)

\* One old mail whose item, if it has one, is in no inventory.
LEMMA OldMailRows ==
    ASSUME NEW d, RowsOK(d), NEW m \in Mail, Answerable(m), NEW bags, d.inv = bags,
           \A p \in Player : m.item \notin bags[p]
    PROVE  \E T : /\ OldMail(d, m) \in Seq(T)
                  /\ \A r \in T : RowsOK(r) /\ r.inv = bags
<1>1. CASE m.item # NoItem /\ m.kind = "MAIL_NORMAL" /\ m.checked = "none"
  <2> DEFINE back(x) == [x EXCEPT !.from = m.to, !.to = m.from, !.cod = 0, !.checked = "returned"]
             swap(x) == IF x.id = m.id THEN back(x) ELSE x
             rows == {swap(x) : x \in d.mails}
             r == [d EXCEPT !.mails = rows]
  <2>1. OldMail(d, m) = <<r>>
    BY <1>1 DEF OldMail, RowsOK, Shaped
  <2>2. m.from \in Player /\ m.to \in Player
    BY <1>1 DEF Answerable, Mail
  <2>3. ASSUME NEW x \in d.mails
        PROVE  /\ swap(x) \in Mail /\ swap(x).state = "unchanged" /\ swap(x).id = x.id
               /\ swap(x).item = x.item /\ ~IsEmpty(swap(x)) /\ Answerable(swap(x))
    <3>1. x \in Mail /\ x.state = "unchanged" /\ ~IsEmpty(x) /\ Answerable(x)
      BY RowsFields
    <3>2. /\ back(x) \in Mail /\ back(x).state = "unchanged" /\ back(x).id = x.id
          /\ back(x).item = x.item /\ back(x).money = x.money /\ back(x).from = m.to
      BY <2>2, <3>1 DEF Mail
    <3> HIDE DEF back
    <3> QED
      BY <2>2, <3>1, <3>2 DEF IsEmpty, Answerable
  <2> HIDE DEF swap
  <2>4. \A y \in rows : \E x \in d.mails : y = swap(x)
    OBVIOUS
  <2> HIDE DEF rows
  <2>5. /\ Shaped(r) /\ r.mails = rows /\ r.inv = d.inv /\ r.money = d.money /\ r.items = d.items
    BY DEF RowsOK, Shaped
  <2> HIDE DEF r
  <2>6. MailRows(r)
    <3>1. \A y, z \in rows : y.id = z.id => y = z
      BY <2>3, <2>4, RowsFields
    <3>2. \A y \in rows : y \in Mail /\ y.state = "unchanged"
      BY <2>3, <2>4
    <3> QED
      BY <2>5, <3>1, <3>2, RowsFields DEF MailRows
  <2>7. RowsSound(r)
    <3>1. RowsSound(d)
      BY DEF RowsOK
    <3>2. \A y \in rows : ~IsEmpty(y) /\ Answerable(y) /\ \E x \in d.mails : y = swap(x) /\ y.item = x.item
      BY <2>3, <2>4
    <3>3. \A y, z \in rows : y.item = z.item /\ y.item # NoItem => y = z
      BY <3>1, <3>2 DEF RowsSound
    <3>4. \A p \in Player : \A i \in d.inv[p] : \A y \in rows : y.item # i
      BY <3>1, <3>2 DEF RowsSound
    <3> QED
      BY <2>5, <3>1, <3>2, <3>3, <3>4 DEF RowsSound
  <2>8. RowsOK(r) /\ r.inv = bags
    BY <2>5, <2>6, <2>7 DEF RowsOK
  <2> WITNESS {r}
  <2> QED
    BY <2>1, <2>8
<1>2. CASE ~(m.item # NoItem /\ m.kind = "MAIL_NORMAL" /\ m.checked = "none") /\ m.item = NoItem
  <2> DEFINE r == DeleteMail(d, m.id)
  <2>1. OldMail(d, m) = <<r>>
    <3>1. Last(<<d>> \o <<>>) = d
      BY DEF Last
    <3>2. OldMail(d, m) = Append(<<>>, DeleteMail(Last(<<d>> \o <<>>), m.id))
      BY <1>2 DEF OldMail
    <3> QED
      BY <3>1, <3>2
  <2>2. RowsOK(r) /\ r.inv = bags
    BY MailDeleted
  <2> HIDE DEF r
  <2> WITNESS {r}
  <2> QED
    BY <2>1, <2>2
<1>3. CASE ~(m.item # NoItem /\ m.kind = "MAIL_NORMAL" /\ m.checked = "none") /\ m.item # NoItem
  <2> DEFINE e == DeleteItem(d, m.item)
             r == DeleteMail(e, m.id)
  <2>1. /\ Shaped(e) /\ e.inv = d.inv /\ e.money = d.money /\ e.mails = d.mails
        /\ e.items = d.items \ {m.item}
    BY DEF RowsOK, Shaped, DeleteItem
  <2>2. OldMail(d, m) = Append(<<e>>, r)
    <3> HIDE DEF e
    <3> DEFINE last == Last(<<d>> \o <<e>>)
    <3>1. last = e
      BY DEF Last
    <3>2. OldMail(d, m) = Append(<<e>>, DeleteMail(last, m.id))
      BY <1>3 DEF OldMail, e
    <3> HIDE DEF last
    <3> QED
      BY <3>1, <3>2
  <2> HIDE DEF e
  <2>3. RowsOK(e)
    <3>1. MailRows(e)
      BY <2>1, RowsFields DEF MailRows
    <3>2. RowsSound(e)
      BY <2>1 DEF RowsOK, RowsSound
    <3> QED
      BY <2>1, <3>1, <3>2 DEF RowsOK
  <2>4. RowsOK(r) /\ r.inv = bags
    BY <2>1, <2>3, MailDeleted
  <2> HIDE DEF r
  <2>5. e.inv = bags
    BY <2>1
  <2>6. <<e>> \in Seq({e, r}) /\ Append(<<e>>, r) \in Seq({e, r})
    BY AppendProperties
  <2> WITNESS {e, r}
  <2> QED
    BY <2>2, <2>3, <2>4, <2>5, <2>6
<1> QED
  BY <1>1, <1>2, <1>3

\* The recursive function of OldMails, and that there is one.
OldBody(old, f, n) ==
    IF n = 0 THEN <<>>
    ELSE LET before == f[n - 1]
             mail == {m \in old : m.id = n}
         IN  IF mail = {} THEN before
             ELSE before \o OldMail(Last(<<Latest>> \o before), CHOOSE m \in mail : TRUE)

OldRows(old) == CHOOSE f : f = [n \in 0..MaxMails |-> OldBody(old, f, n)]

LEMMA OldMailsRows == \A old : OldMails(old) = OldRows(old)[MaxMails]
BY DEF OldMails, OldRows, OldBody

LEMMA OldRowsExists ==
    ASSUME NEW old
    PROVE  OldRows(old) = [n \in 0..MaxMails |-> OldBody(old, OldRows(old), n)]
<1> DEFINE N == {k \in Nat : \E g : g = [n \in 0..k |-> OldBody(old, g, n)]}
<1>1. 0 \in N
  <2> DEFINE g == [n \in 0..0 |-> <<>>]
  <2>1. g = [n \in 0..0 |-> OldBody(old, g, n)]
    BY DEF OldBody
  <2> QED
    BY <2>1
<1>2. ASSUME NEW k \in Nat, k \in N
      PROVE  k + 1 \in N
  <2>1. PICK g : g = [n \in 0..k |-> OldBody(old, g, n)]
    BY <1>2
  <2> DEFINE h == [n \in 0..k + 1 |-> OldBody(old, g, n)]
  <2>2. ASSUME NEW n \in 0..k + 1
        PROVE  OldBody(old, g, n) = OldBody(old, h, n)
    <3>1. CASE n = 0
      BY <3>1 DEF OldBody
    <3>2. CASE n # 0
      <4>1. n - 1 \in 0..k /\ n - 1 \in 0..k + 1
        BY <3>2
      <4>2. h[n - 1] = OldBody(old, g, n - 1)
        BY <4>1
      <4>3. g[n - 1] = OldBody(old, g, n - 1)
        BY <2>1, <4>1
      <4> HIDE DEF h
      <4> QED
        BY <4>2, <4>3 DEF OldBody
    <3> QED
      BY <3>1, <3>2
  <2>3. h = [n \in 0..k + 1 |-> OldBody(old, h, n)]
    BY <2>2
  <2> HIDE DEF h
  <2>4. \E e : e = [n \in 0..k + 1 |-> OldBody(old, e, n)]
    BY <2>3
  <2> QED
    BY <2>4
<1> HIDE DEF N
<1>3. MaxMails \in N
  BY <1>1, <1>2, NumberInduction, MailsAssumption
<1> QED
  BY <1>3 DEF N, OldRows

LEMMA OldMailsOK ==
    ASSUME RowsOK(Latest), NEW old, old \subseteq Latest.mails
    PROVE  \E T : OldMails(old) \in Seq(T) /\ \A r \in T : RowsOK(r)
<1> DEFINE OK(s) == \E T : s \in Seq(T) /\ \A r \in T : RowsOK(r) /\ r.inv = Latest.inv
           f == OldRows(old)
           N == {n \in Nat : n \in 0..MaxMails => OK(f[n])}
<1>1. \A n \in 0..MaxMails : f[n] = OldBody(old, f, n)
  <2>1. f = [n \in 0..MaxMails |-> OldBody(old, f, n)]
    BY OldRowsExists
  <2> HIDE DEF f
  <2> QED
    BY <2>1
<1> HIDE DEF f
<1>2. 0 \in N
  <2>1. ASSUME 0 \in 0..MaxMails
        PROVE  OK(f[0])
    <3>1. f[0] = <<>>
      BY <1>1, <2>1 DEF OldBody
    <3>2. <<>> \in Seq({}) /\ \A r \in {} : RowsOK(r) /\ r.inv = Latest.inv
      OBVIOUS
    <3> QED
      BY <3>1, <3>2
  <2> HIDE DEF OK
  <2> QED
    BY <2>1
<1>3. ASSUME NEW n \in Nat, n \in N
      PROVE  n + 1 \in N
  <2>1. ASSUME n + 1 \in 0..MaxMails
        PROVE  OK(f[n + 1])
    <3> DEFINE mail == {m \in old : m.id = n + 1}
               d == Last(<<Latest>> \o f[n])
    <3>1. n \in 0..MaxMails /\ n + 1 # 0 /\ (n + 1) - 1 = n
      BY <2>1, MailsAssumption
    <3>2. PICK T : f[n] \in Seq(T) /\ \A r \in T : RowsOK(r) /\ r.inv = Latest.inv
      <4>1. OK(f[n])
        <5> HIDE DEF OK
        <5> QED
          BY <1>3, <3>1
      <4> QED
        BY <4>1
    <3>3. f[n + 1] = IF mail = {} THEN f[n] ELSE f[n] \o OldMail(d, CHOOSE m \in mail : TRUE)
      <4>1. f[n + 1] = OldBody(old, f, n + 1)
        BY <1>1, <2>1
      <4> QED
        BY <3>1, <4>1 DEF OldBody
    <3>4. RowsOK(d) /\ d.inv = Latest.inv
      <4> DEFINE U == T \cup {Latest}
                 s == <<Latest>> \o f[n]
      <4>1. /\ f[n] \in Seq(U) /\ <<Latest>> \in Seq(U) /\ Len(<<Latest>>) = 1
        BY <3>2, SeqMonotonic
      <4>2. s \in Seq(U) /\ Len(s) = 1 + Len(f[n]) /\ Len(f[n]) \in Nat
        BY <4>1, ConcatProperties, LenProperties
      <4> HIDE DEF U, s
      <4>3. Len(s) \in 1..Len(s)
        BY <4>2
      <4>4. s[Len(s)] \in U
        BY <4>2, <4>3, ElementOfSeq
      <4>5. d = s[Len(s)]
        BY DEF Last, s
      <4> QED
        BY <3>2, <4>4, <4>5 DEF U
    <3> HIDE DEF d
    <3>5. CASE mail = {}
      BY <3>2, <3>3, <3>5
    <3>6. CASE mail # {}
      <4> DEFINE m == CHOOSE m \in mail : TRUE
      <4>1. m \in old
        BY <3>6
      <4> HIDE DEF mail, m
      <4>2. m \in Mail /\ Answerable(m) /\ m \in Latest.mails
        BY <4>1, RowsFields
      <4>3. \A p \in Player : m.item \notin Latest.inv[p]
        <5>1. RowsSound(Latest)
          BY DEF RowsOK
        <5> QED
          BY <4>2, <5>1 DEF RowsSound
      <4>4. PICK W : OldMail(d, m) \in Seq(W) /\ \A r \in W : RowsOK(r) /\ r.inv = Latest.inv
        BY <3>4, <4>2, <4>3, OldMailRows
      <4>5. f[n] \o OldMail(d, m) \in Seq(T \cup W)
        BY <3>2, <4>4, SeqMonotonic, ConcatProperties
      <4>6. f[n + 1] = f[n] \o OldMail(d, m)
        BY <3>3, <3>6 DEF m
      <4> QED
        BY <3>2, <4>4, <4>5, <4>6
    <3> QED
      BY <3>5, <3>6
  <2> HIDE DEF OK
  <2> QED
    BY <2>1
<1> HIDE DEF N
<1>4. MaxMails \in N
  BY <1>2, <1>3, NumberInduction, MailsAssumption
<1>5. OK(f[MaxMails])
  <2> HIDE DEF OK
  <2>1. MaxMails \in 0..MaxMails
    BY MailsAssumption
  <2> QED
    BY <1>4, <2>1 DEF N
<1>6. OldMails(old) = f[MaxMails]
  BY OldMailsRows DEF f
<1> QED
  BY <1>5, <1>6

LEMMA ReturnOrDeleteKeeps ==
    ASSUME MailIInv, ~DailyRun, NEW old, old \subseteq db.mails, ReturnOrDeleteOldMails(old)
    PROVE  MailIInv'
<1> DEFINE some == {m \in old : m.to \notin loaded}
           rows == OldMails(some)
           added == [k \in DOMAIN rows |-> [rows |-> rows[k], by |-> Player]]
<1>1. /\ online = {} /\ writes = <<>> /\ writes' = writes \o added /\ db' = db
      /\ UNCHANGED <<online, money, inv, loaded, box>>
  BY DEF ReturnOrDeleteOldMails, CommitAll, memoryVars
<1>2. Memory /\ DatabaseOK
  BY DEF MailIInv
<1>3. Latest = db /\ RowsOK(Latest)
  BY <1>1, <1>2, LatestRows DEF Latest
<1>4. PICK T : rows \in Seq(T) /\ \A r \in T : RowsOK(r)
  BY <1>3, OldMailsOK
<1> HIDE DEF rows
<1> DEFINE W == {[rows |-> r, by |-> Player] : r \in T}
<1>5. added \in Seq(W) /\ DOMAIN added = DOMAIN rows /\ \A k \in DOMAIN rows : added[k].rows = rows[k] /\ added[k].by = Player
  <2>1. Len(rows) \in Nat /\ DOMAIN rows = 1..Len(rows) /\ \A k \in DOMAIN rows : rows[k] \in T
    BY <1>4, LenProperties, ElementOfSeq
  <2>2. \A k \in DOMAIN rows : [rows |-> rows[k], by |-> Player] \in W
    BY <2>1
  <2> HIDE DEF W
  <2>3. added \in [1..Len(rows) -> W]
    BY <2>1, <2>2
  <2>4. added \in Seq(W)
    BY <2>1, <2>3
  <2> QED
    BY <2>4
<1>6. writes' = added
  BY <1>1, <1>5, ConcatEmptySeq
<1> HIDE DEF added
<1>7. Queued'
  BY <1>5, <1>6 DEF Queued
<1>8. \A r \in T : RowsOK(r)
  BY <1>4
<1>9. ASSUME NEW k \in DOMAIN writes'
      PROVE  RowsOK(writes'[k].rows) /\ writes'[k].by = Player
  <2>1. Len(rows) \in Nat /\ DOMAIN rows = 1..Len(rows) /\ \A j \in DOMAIN rows : rows[j] \in T
    BY <1>4, LenProperties, ElementOfSeq
  <2> QED
    BY <1>5, <1>6, <1>8, <2>1
<1>10. AllRowsOK'
  BY <1>1, <1>3, <1>9 DEF AllRowsOK, Versions
<1>11. ReadBack'
  <2> SUFFICES ASSUME NEW j \in 0..Len(writes'), NEW q \in Player,
                      \A k \in j + 1..Len(writes') : q \notin writes'[k].by
               PROVE  Alike(State(j)', Latest', q)
    BY DEF ReadBack, Alike, Kept
  <2>1. Len(writes') \in Nat /\ DOMAIN writes' = 1..Len(writes') /\ Latest' = State(Len(writes))'
    BY <1>7, QueueRowsNext
  <2>2. j = Len(writes')
    <3> SUFFICES ASSUME j # Len(writes') PROVE FALSE
      OBVIOUS
    <3> DEFINE n == Len(writes')
               D == DOMAIN writes'
    <3>1. n \in Nat /\ j \in 0..n /\ j # n /\ D = 1..n
      BY <2>1
    <3> HIDE DEF n, D
    <3>2. j + 1 \in j + 1..n /\ j + 1 \in D
      BY <3>1
    <3> QED
      BY <1>9, <3>2 DEF n, D
  <2>3. Latest' = State(j)'
    <3> DEFINE n == Len(writes')
    <3>1. Latest' = IF n = 0 THEN db' ELSE writes'[n].rows
      BY <2>1 DEF State
    <3>2. j = n
      BY <2>2
    <3> HIDE DEF n
    <3>3. Latest' = IF j = 0 THEN db' ELSE writes'[j].rows
      BY <3>1, <3>2
    <3> QED
      BY <3>3 DEF State
  <2> QED
    BY <2>3 DEF Alike, Kept
<1>12. NotListed' /\ PursesSaved'
  BY <1>1 DEF NotListed, PursesSaved
<1>13. Memory'
  BY <1>1, <1>2 DEF Memory
<1>14. Boxes'
  <2>1. \A p \in Player : box'[p] = {}
    BY <1>1, <1>2 DEF Memory
  <2> QED
    BY <2>1 DEF Boxes, BoxOK, OneEach
<1> QED
  BY <1>7, <1>10, <1>11, <1>12, <1>13, <1>14 DEF MailIInv, DatabaseOK

-----------------------------------------------------------------------------
(* The invariant holds. *)

LEMMA InitMails ==
    ASSUME MailInit
    PROVE  MailIInv
<1>1. PICK owner \in [Item -> Player] :
         db = [money |-> [p \in Player |-> StartMoney],
               inv |-> [p \in Player |-> {i \in Item : owner[i] = p}],
               items |-> Item, mails |-> {}, auctions |-> {}]
  BY DEF MailInit
<1>2. /\ online = {} /\ loaded = {} /\ money = [p \in Player |-> 0]
      /\ inv = [p \in Player |-> {}] /\ box = [p \in Player |-> {}] /\ writes = <<>>
  BY DEF MailInit, Nothing
<1>3. RowsOK(db)
  <2>1. Shaped(db)
    BY <1>1 DEF Shaped
  <2>2. MailRows(db)
    BY <1>1, MoneyAssumption DEF MailRows
  <2>3. RowsSound(db)
    BY <1>1 DEF RowsSound
  <2> QED
    BY <2>1, <2>2, <2>3 DEF RowsOK
<1>4. Queued /\ Len(writes) = 0
  BY <1>2, EmptySeq DEF Queued
<1>5. Latest = db /\ State(0) = db /\ Versions = {db}
  BY <1>2 DEF Latest, State, Versions
<1>6. ReadBack
  <2>1. \A j \in 0..Len(writes) : j = 0
    BY <1>4
  <2> QED
    BY <1>5, <2>1 DEF ReadBack, Alike, Kept
<1>7. AllRowsOK /\ NotListed /\ PursesSaved
  BY <1>2, <1>3, <1>5 DEF AllRowsOK, NotListed, PursesSaved
<1>8. Memory
  BY <1>2, MoneyAssumption DEF Memory
<1>9. Boxes
  BY <1>2 DEF Boxes, BoxOK, OneEach
<1> QED
  BY <1>4, <1>6, <1>7, <1>8, <1>9 DEF MailIInv, DatabaseOK

LEMMA SessionKeeps ==
    ASSUME MailIInv, SessionNext
    PROVE  MailIInv' /\ Moved
<1>1. ASSUME NEW p \in Player, Login(p) PROVE MailIInv' /\ Moved
  BY <1>1, LoginKeeps, RowsAlone DEF Login, dbVars
<1>2. ASSUME NEW p \in Player, Logout(p) PROVE MailIInv' /\ Moved
  BY <1>2, LogoutKeeps
<1>3. ASSUME NEW p \in Player, GetMailList(p) PROVE MailIInv' /\ Moved
  BY <1>3, GetMailListKeeps, RowsAlone DEF GetMailList, dbVars
<1>4. ASSUME NEW p \in Player, NEW m \in box[p], TakeItem(p, m) PROVE MailIInv' /\ Moved
  BY <1>4, TakeItemKeeps
<1>5. ASSUME NEW p \in Player, NEW m \in box[p], TakeMoney(p, m) PROVE MailIInv' /\ Moved
  BY <1>5, TakeMoneyKeeps
<1> QED
  BY <1>1, <1>2, <1>3, <1>4, <1>5 DEF SessionNext

LEMMA StepsKeepMails ==
    ASSUME ~DailyRun, MailIInv, [MailNext]_mailVars
    PROVE  MailIInv'
<1>1. CASE SessionNext
  BY <1>1, SessionKeeps
<1>2. CASE PostNext
  <2>1. ASSUME NEW p \in Player, NEW q \in Player, NEW i \in Item \cup {NoItem},
               NEW amount \in Amounts, NEW cod \in Amounts, SendMail(p, q, i, amount, cod)
        PROVE  MailIInv'
    BY <2>1, SendMailKeeps
  <2>2. ASSUME NEW p \in Player, Save(p) PROVE MailIInv'
    BY <2>2, SaveKeeps
  <2>3. ASSUME NEW p \in Player, NEW m \in box[p], ReturnToSender(p, m) PROVE MailIInv'
    BY <2>3, ReturnToSenderKeeps
  <2>4. ASSUME NEW p \in Player, NEW m \in box[p], HandleMailDelete(p, m) PROVE MailIInv'
    BY <2>4, MarkMailKeeps DEF HandleMailDelete
  <2>5. ASSUME NEW p \in Player, NEW m \in box[p], HandleMailMarkAsRead(p, m) PROVE MailIInv'
    BY <2>5, MarkMailKeeps DEF HandleMailMarkAsRead
  <2>6. ASSUME NEW old \in SUBSET db.mails, ReturnOrDeleteOldMails(old) PROVE MailIInv'
    BY <2>6, ReturnOrDeleteKeeps
  <2> QED
    BY <1>2, <2>1, <2>2, <2>3, <2>4, <2>5, <2>6 DEF PostNext
<1>3. CASE WorkerNext
  BY <1>3, ExecuteKeeps
<1>4. CASE Crash
  BY <1>4, CrashKeeps
<1>5. CASE UNCHANGED mailVars
  <2>1. UNCHANGED <<online, money, inv, loaded, box, db, writes>>
    BY <1>5 DEF mailVars, memoryVars, dbVars
  <2>2. Latest' = Latest /\ Versions' = Versions
    BY <2>1 DEF Latest, Versions
  <2> QED
    BY <2>1, <2>2 DEF MailIInv, DatabaseOK, Memory, Queued, AllRowsOK, ReadBack, State,
                      NotListed, Boxes, PursesSaved
<1> QED
  BY <1>1, <1>2, <1>3, <1>4, <1>5 DEF MailNext

LEMMA MailsInvariant == ASSUME ~DailyRun PROVE MailSpec => []MailIInv
<1>1. MailInit => MailIInv
  BY InitMails
<1>2. MailIInv /\ [MailNext]_mailVars => MailIInv'
  BY StepsKeepMails
<1> QED
  BY <1>1, <1>2, PTL DEF MailSpec

LEMMA TypesAreRight ==
    ASSUME MailIInv
    PROVE  MailTypeOK
BY DEF MailIInv, DatabaseOK, AllRowsOK, RowsOK, Memory, MailTypeOK

LEMMA OneMailPlace ==
    ASSUME MailIInv, NEW i \in Item
    PROVE  AtMostOne(MemoryPlaces(i)) /\ \A d \in Versions : AtMostOne(MailPlaces(d, i))
<1>1. Memory /\ DatabaseOK /\ Boxes /\ PursesSaved /\ i # NoItem
  BY NoItemAssumption DEF MailIInv
<1>2. ASSUME NEW d \in Versions
      PROVE  AtMostOne(MailPlaces(d, i))
  <2>1. RowsSound(d) /\ MailRows(d)
    BY <1>1 DEF DatabaseOK, AllRowsOK, RowsOK
  <2>2. \A p, q \in Player : i \in d.inv[p] /\ i \in d.inv[q] => p = q
    BY <2>1 DEF RowsSound
  <2>3. \A p \in Player, m \in d.mails : ~(i \in d.inv[p] /\ m.item = i)
    BY <2>1 DEF RowsSound
  <2>4. \A m, n \in d.mails : m.item = i /\ n.item = i => m = n
    BY <1>1, <2>1 DEF RowsSound
  <2> QED
    BY <2>2, <2>3, <2>4 DEF AtMostOne, MailPlaces
<1>3. AtMostOne(MemoryPlaces(i))
  <2>1. RowsSound(Latest)
    BY <1>1, LatestRows DEF RowsOK
  <2>2. \A p \in Player : i \in inv[p] => i \in Latest.inv[p]
    BY <1>1 DEF Memory, PursesSaved
  <2>3. ASSUME NEW p \in Player, NEW m \in box[p], m.item = i
        PROVE  \E x \in Latest.mails : x.item = i /\ x.to = p
    BY <1>1, <2>3 DEF Boxes, BoxOK, RowOf
  <2>4. \A p, q \in Player : i \in inv[p] /\ i \in inv[q] => p = q
    BY <2>1, <2>2 DEF RowsSound
  <2>5. \A p, q \in Player : \A m \in box[q] : ~(i \in inv[p] /\ m.item = i)
    BY <2>1, <2>2, <2>3 DEF RowsSound
  <2>6. \A p, q \in Player : \A m \in box[p], n \in box[q] : m.item = i /\ n.item = i => p = q
    BY <1>1, <2>1, <2>3 DEF RowsSound
  <2> QED
    BY <2>4, <2>5, <2>6 DEF AtMostOne, MemoryPlaces
<1> QED
  BY <1>2, <1>3

\* While mails are cleared up at startup only, an item never has two places: no
\* two characters hold it, in an inventory or in the mails they have listed, and
\* neither do any rows the queue of the database may leave behind in a crash.
THEOREM ItemsAreInOnePlace == ASSUME ~DailyRun PROVE MailSpec => []OnePlace
<1>1. MailIInv => OnePlace
  BY OneMailPlace, TypesAreRight DEF OnePlace
<1> QED
  BY <1>1, MailsInvariant, PTL

\* Whoever is online has in memory the purse and the inventory of the newest
\* rows: every handler saves what it changes, and a login reads the newest rows
\* of its character although it is answered before the queue is empty.
THEOREM MemoryIsSaved == ASSUME ~DailyRun PROVE MailSpec => []PursesSaved
<1>1. MailIInv => PursesSaved
  BY DEF MailIInv
<1> QED
  BY <1>1, MailsInvariant, PTL

-----------------------------------------------------------------------------
(* Auctions and rows. *)

\* Auctions whose items exist, and are in no inventory and in no mail of d.
OnSale(A, d) ==
    /\ A \subseteq AuctionEntry
    /\ \A a, b \in A : a.id = b.id \/ a.item = b.item => a = b
    /\ \A a \in A : /\ a.item \in d.items /\ ~Placed(d, a.item)
                    /\ a.buyout # 0 => a.bid < a.buyout

\* Auctions in memory next to the newest rows, which may lack some of them.
Matching(a, b) ==
    /\ a.id = b.id <=> a.item = b.item
    /\ a.id = b.id => a.buyout = b.buyout

Housed(A, d) == OnSale(A, d) /\ \A a \in A, b \in d.auctions : Matching(a, b)

AllOnSale == \A d \in Versions : OnSale(d.auctions, d)

House ==
    /\ aitems \subseteq Item /\ ended \subseteq AuctionId
    /\ phase \in {"down", "items", "auctions", "up"}
    /\ crashes \in 0..MaxCrashes
    /\ phase = "up" => Housed(auctions, Latest)
    /\ phase # "up" => /\ online = {} /\ auctions = {}
                       /\ \A d \in Versions : Housed(d.auctions, Latest)

AuctionIInv == MailIInv /\ AllOnSale /\ House

\* While no auction ends with the server down.
InStep ==
    /\ phase = "up" => auctions = Latest.auctions /\ \A a \in auctions : a.item \in aitems
    /\ phase # "up" => writes = <<>>
    /\ phase = "down" => \A a \in db.auctions : a.id \notin ended
    /\ phase = "auctions" => \A a \in db.auctions : a.item \in aitems

-----------------------------------------------------------------------------
(* The mails of auctions. *)

\* A mail made of a draft.
Copy(n, l) ==
    /\ n.from = l.from /\ n.to = l.to /\ n.item = l.item /\ n.money = l.money
    /\ n.cod = l.cod /\ n.kind = l.kind /\ n.state = l.state

LEMMA SentDrafts ==
    ASSUME NEW drafts \in Seq(Draft)
    PROVE  /\ Fresh(Sent(drafts))
           /\ \A n \in Sent(drafts) : \E k \in 1..Len(drafts) :
                 k \in DOMAIN FreeIds /\ n.id = FreeIds[k] /\ Copy(n, drafts[k])
           /\ \A m, n \in Sent(drafts), k \in 1..Len(drafts) :
                 m.id = FreeIds[k] /\ n.id = FreeIds[k] => m = n
<1> DEFINE S == MailId \ UsedIds
           c == Cardinality(S)
<1>1. c \in Nat /\ FreeIds \in [1..c -> S] /\ IsInjective(FreeIds)
  BY FreeIdsAreFree
<1>2. S \subseteq MailId /\ S \cap UsedIds = {}
  OBVIOUS
<1> HIDE DEF S, c
<1>3. DOMAIN FreeIds = 1..c /\ \A k \in DOMAIN FreeIds : FreeIds[k] \in MailId /\ FreeIds[k] \notin UsedIds
  BY <1>1, <1>2
<1>4. DOMAIN drafts = 1..Len(drafts) /\ \A k \in 1..Len(drafts) : drafts[k] \in Draft
  BY LenProperties, ElementOfSeq
<1> DEFINE mail(k) == [drafts[k] EXCEPT !.id = FreeIds[k]]
<1>5. ASSUME NEW k \in 1..Len(drafts), k \in DOMAIN FreeIds
      PROVE  mail(k) \in Mail /\ mail(k).id = FreeIds[k] /\ Copy(mail(k), drafts[k])
  <2>1. drafts[k] \in Draft /\ FreeIds[k] \in MailId
    BY <1>3, <1>4, <1>5
  <2> QED
    BY <2>1 DEF Draft, Mail, Copy
<1>6. ASSUME NEW n \in Sent(drafts)
      PROVE  \E k \in 1..Len(drafts) : k \in DOMAIN FreeIds /\ n = mail(k)
  BY <1>4 DEF Sent
<1> HIDE DEF mail
<1>7. ASSUME NEW m \in Sent(drafts), NEW n \in Sent(drafts), m.id = n.id
      PROVE  m = n
  <2>1. PICK k \in 1..Len(drafts) : k \in DOMAIN FreeIds /\ n = mail(k)
    BY <1>6
  <2>2. PICK j \in 1..Len(drafts) : j \in DOMAIN FreeIds /\ m = mail(j)
    BY <1>6
  <2>3. FreeIds[j] = FreeIds[k]
    BY <1>5, <1>7, <2>1, <2>2
  <2>4. j = k
    BY <1>1, <2>1, <2>2, <2>3 DEF IsInjective
  <2> QED
    BY <2>1, <2>2, <2>4
<1>8. ASSUME NEW n \in Sent(drafts)
      PROVE  /\ n \in Mail /\ n.id \notin UsedIds
             /\ \E k \in 1..Len(drafts) : k \in DOMAIN FreeIds /\ n.id = FreeIds[k] /\ Copy(n, drafts[k])
  <2>1. PICK k \in 1..Len(drafts) : k \in DOMAIN FreeIds /\ n = mail(k)
    BY <1>6
  <2> QED
    BY <1>3, <1>5, <2>1
<1>9. Sent(drafts) \subseteq Mail
  BY <1>8
<1> QED
  BY <1>7, <1>8, <1>9 DEF Fresh, OneEach

\* A draft of an auction, and a sequence of them that sends each of the items G
\* once at most, and nothing else.
Notice(l) ==
    /\ l \in Draft /\ l.state = "unchanged" /\ l.from = Nobody /\ l.cod = 0
    /\ l.kind = "MAIL_AUCTION" /\ ~(l.item = NoItem /\ l.money = 0)

Notices(s, G) ==
    /\ s \in Seq(Draft)
    /\ \A k \in 1..Len(s) : Notice(s[k]) /\ s[k].item \in G \cup {NoItem}
    /\ \A j, k \in 1..Len(s) : s[j].item = s[k].item /\ s[j].item # NoItem => j = k

LEMMA NoNotices == \A G : Notices(<<>>, G)
<1>1. <<>> \in Seq(Draft) /\ Len(<<>>) = 0
  BY EmptySeq
<1>2. \A k \in 1..Len(<<>>) : FALSE
  BY <1>1
<1> QED
  BY <1>1, <1>2 DEF Notices

LEMMA MoreNotices ==
    ASSUME NEW s, NEW t, NEW G, NEW H, Notices(s, G), Notices(t, H), \A i \in G : i \notin H
    PROVE  Notices(s \o t, G \cup H)
<1> DEFINE u == s \o t
<1>1. /\ Len(s) \in Nat /\ Len(t) \in Nat /\ u \in Seq(Draft) /\ Len(u) = Len(s) + Len(t)
      /\ \A k \in 1..Len(u) : u[k] = IF k <= Len(s) THEN s[k] ELSE t[k - Len(s)]
  BY ConcatProperties, LenProperties DEF Notices
<1> HIDE DEF u
<1>2. ASSUME NEW k \in 1..Len(u)
      PROVE  \/ k \in 1..Len(s) /\ u[k] = s[k]
             \/ k - Len(s) \in 1..Len(t) /\ u[k] = t[k - Len(s)] /\ ~(k <= Len(s))
  BY <1>1
<1>3. \A k \in 1..Len(u) : Notice(u[k]) /\ u[k].item \in G \cup H \cup {NoItem}
  BY <1>2 DEF Notices
<1>4. ASSUME NEW j \in 1..Len(u), NEW k \in 1..Len(u), u[j].item = u[k].item, u[j].item # NoItem
      PROVE  j = k
  <2>1. \A n \in 1..Len(s) : s[n].item \in G \cup {NoItem}
    BY DEF Notices
  <2>2. \A n \in 1..Len(t) : t[n].item \in H \cup {NoItem}
    BY DEF Notices
  <2>3. CASE j \in 1..Len(s) /\ k \in 1..Len(s) /\ u[j] = s[j] /\ u[k] = s[k]
    BY <1>4, <2>3 DEF Notices
  <2>4. CASE /\ j - Len(s) \in 1..Len(t) /\ u[j] = t[j - Len(s)]
             /\ k - Len(s) \in 1..Len(t) /\ u[k] = t[k - Len(s)]
    <3>1. j - Len(s) = k - Len(s)
      BY <1>4, <2>4 DEF Notices
    <3> QED
      BY <1>1, <3>1
  <2> QED
    BY <1>2, <1>4, <2>1, <2>2, <2>3, <2>4
<1>5. u \in Seq(Draft)
  BY <1>1
<1> QED
  BY <1>3, <1>4, <1>5 DEF Notices, u

LEMMA OneNotice ==
    ASSUME NEW to \in Player, NEW i \in Item \cup {NoItem}, NEW amount \in Nat
    PROVE  \A G : i \in G \cup {NoItem} => Notices(AuctionMail(to, i, amount), G)
<1> DEFINE l == [id |-> 0, from |-> Nobody, to |-> to, item |-> i, money |-> amount, cod |-> 0,
                 kind |-> "MAIL_NORMAL", checked |-> "none", state |-> "unchanged"]
           n == [l EXCEPT !.kind = "MAIL_AUCTION"]
<1>1. l \in Draft /\ l.item = i /\ l.money = amount /\ l.cod = 0 /\ l.state = "unchanged" /\ l.from = Nobody
  BY DEF Draft
<1>2. CASE i = NoItem /\ amount = 0
  BY <1>2, NoNotices DEF AuctionMail
<1>3. CASE ~(i = NoItem /\ amount = 0)
  <2>1. Letter(Nobody, to, i, amount) = <<l>>
    BY <1>3 DEF Letter
  <2>2. AuctionMail(to, i, amount) = <<n>>
    BY <1>3, <2>1 DEF AuctionMail
  <2> HIDE DEF l
  <2>3. n \in Draft /\ n.item = i /\ n.money = amount /\ n.cod = 0 /\ n.state = "unchanged"
        /\ n.from = Nobody /\ n.kind = "MAIL_AUCTION"
    BY <1>1 DEF Draft
  <2> HIDE DEF n
  <2>4. <<n>> \in Seq(Draft) /\ Len(<<n>>) = 1 /\ <<n>>[1] = n
    BY <2>3
  <2>5. \A k \in 1..Len(<<n>>) : k = 1
    BY <2>4
  <2>6. Notice(n)
    BY <1>3, <2>3 DEF Notice
  <2> QED
    BY <2>2, <2>3, <2>4, <2>5, <2>6 DEF Notices
<1> QED
  BY <1>2, <1>3

\* What is left after the cut.
LEMMA CutIsLess ==
    ASSUME NEW a \in AuctionEntry
    PROVE  AuctionCut(a) \in Nat /\ a.bid + Deposit - AuctionCut(a) \in Nat /\ a.bid \in Nat
<1>1. a.bid \in Nat /\ CutPercent \in 0..100 /\ Deposit \in Nat
  BY AuctionAssumption DEF AuctionEntry
<1> DEFINE b == a.bid
           x == a.bid * CutPercent
<1>2. x \in Nat /\ x <= 100 * b
  <2>1. \A m \in Nat, n \in 0..100 : m * n \in Nat /\ m * n <= 100 * m
    OBVIOUS
  <2> QED
    BY <1>1, <2>1
<1>3. AuctionCut(a) = x \div 100
  BY DEF AuctionCut
<1>4. b \in Nat
  BY <1>1
<1> HIDE DEF x, b
<1>5. x \div 100 \in Nat /\ x \div 100 <= b
  BY <1>2, <1>4
<1> QED
  BY <1>1, <1>3, <1>5 DEF b

\* The mails of one auction.
LEMMA AuctionMails ==
    ASSUME NEW a \in AuctionEntry
    PROVE  /\ Notices(SuccessfulMail(a), {})
           /\ a.bidder # Nobody => \A known : Notices(WonMail(a, known), {a.item})
           /\ \A known : Notices(ExpiredMail(a, known), {a.item})
           /\ \A known : Notices(SettlementMails(a, known), {a.item})
           /\ Notices(RefundMail(a), {})
           /\ \A known : a.item \notin known => Notices(SettlementMails(a, known), {})
<1>1. /\ a.owner \in Player /\ a.bidder \in Player \cup {Nobody} /\ a.item \in Item /\ a.bid \in Nat
  BY DEF AuctionEntry
<1>2. Notices(SuccessfulMail(a), {})
  BY <1>1, CutIsLess, OneNotice DEF SuccessfulMail
<1>3. ASSUME a.bidder # Nobody, NEW known
      PROVE  /\ Notices(WonMail(a, known), {a.item})
             /\ a.item \notin known => Notices(WonMail(a, known), {})
  BY <1>1, <1>3, OneNotice, NoNotices DEF WonMail
<1>4. ASSUME NEW known
      PROVE  /\ Notices(ExpiredMail(a, known), {a.item})
             /\ a.item \notin known => Notices(ExpiredMail(a, known), {})
  BY <1>1, OneNotice, NoNotices DEF ExpiredMail
<1>5. Notices(RefundMail(a), {})
  BY <1>1, OneNotice, NoNotices DEF RefundMail
<1>6. ASSUME NEW known
      PROVE  /\ Notices(SettlementMails(a, known), {a.item})
             /\ a.item \notin known => Notices(SettlementMails(a, known), {})
  <2>1. CASE a.bidder = Nobody
    BY <1>4, <2>1 DEF SettlementMails
  <2>2. CASE a.bidder # Nobody
    <3>1. SettlementMails(a, known) = SuccessfulMail(a) \o WonMail(a, known)
      BY <2>2 DEF SettlementMails
    <3>2. Notices(SuccessfulMail(a) \o WonMail(a, known), {} \cup {a.item})
      BY <1>2, <1>3, <2>2, MoreNotices
    <3>3. a.item \notin known => Notices(SuccessfulMail(a) \o WonMail(a, known), {} \cup {})
      BY <1>2, <1>3, <2>2, MoreNotices
    <3> QED
      BY <3>1, <3>2, <3>3
  <2> QED
    BY <2>1, <2>2
<1> QED
  BY <1>2, <1>3, <1>4, <1>5, <1>6

\* Their rows, in rows that have their items in no other place.
LEMMA NoticesSent ==
    ASSUME NEW d, RowsOK(d), \A x \in d.mails : x.id \in UsedIds,
           NEW s, NEW G, Notices(s, G), \A i \in G : i \in d.items /\ ~Placed(d, i)
    PROVE  LET r == InsertMails(d, s)
           IN  /\ RowsOK(r) /\ r.mails = d.mails \cup Sent(s)
               /\ r.money = d.money /\ r.inv = d.inv /\ r.items = d.items
               /\ r.auctions = d.auctions
               /\ Fresh(Sent(s))
               /\ \A n \in Sent(s) : Answerable(n) /\ n.item \in G \cup {NoItem}
<1> DEFINE N == Sent(s)
           r == InsertMails(d, s)
<1>1. s \in Seq(Draft)
  BY DEF Notices
<1>2. /\ Fresh(N)
      /\ \A n \in N : \E k \in 1..Len(s) :
            k \in DOMAIN FreeIds /\ n.id = FreeIds[k] /\ Copy(n, s[k])
      /\ \A m, n \in N, k \in 1..Len(s) : m.id = FreeIds[k] /\ n.id = FreeIds[k] => m = n
  BY <1>1, SentDrafts
<1>3. r = [d EXCEPT !.mails = @ \cup N]
  BY DEF InsertMails
<1> HIDE DEF N, r
<1>4. ASSUME NEW n \in N
      PROVE  /\ n \in Mail /\ n.id \notin UsedIds /\ ~IsEmpty(n) /\ Answerable(n)
             /\ n.state = "unchanged" /\ n.item \in G \cup {NoItem}
             /\ \A m \in N : m.item = n.item /\ n.item # NoItem => m = n
  <2>1. PICK k \in 1..Len(s) : n.id = FreeIds[k] /\ Copy(n, s[k])
    BY <1>2
  <2>2. Notice(s[k]) /\ s[k].item \in G \cup {NoItem}
    BY DEF Notices
  <2>3. n.state = "unchanged" /\ n.item \in G \cup {NoItem} /\ ~IsEmpty(n) /\ Answerable(n)
    BY <2>1, <2>2 DEF Copy, Notice, IsEmpty, Answerable
  <2>4. ASSUME NEW m \in N, m.item = n.item, n.item # NoItem
        PROVE  m = n
    <3>1. PICK j \in 1..Len(s) : m.id = FreeIds[j] /\ Copy(m, s[j])
      BY <1>2
    <3>2. j = k
      BY <2>1, <2>4, <3>1 DEF Copy, Notices
    <3> QED
      BY <1>2, <2>1, <3>1, <3>2
  <2> QED
    BY <1>2, <2>3, <2>4 DEF Fresh
<1>5. N \subseteq Mail /\ OneEach(N)
  BY <1>2 DEF Fresh
<1>6. \A n \in N : /\ n.state = "unchanged" /\ ~IsEmpty(n) /\ Answerable(n)
                   /\ \A m \in d.mails : m.id # n.id
                   /\ n.item # NoItem =>
                         /\ \A q \in Player : n.item \notin d.inv[q]
                         /\ \A m \in d.mails : m.item # n.item
                         /\ \A m \in N : m.item = n.item => m = n
  BY <1>4 DEF Placed
<1>7. /\ RowsOK(r) /\ r.mails = d.mails \cup N
      /\ r.money = d.money /\ r.inv = d.inv /\ r.items = d.items /\ r.auctions = d.auctions
  BY <1>3, <1>5, <1>6, MailsAdded
<1> QED
  BY <1>2, <1>4, <1>7 DEF N, r

\* The table of auctions is not the business of mails.
LEMMA AuctionsSet ==
    ASSUME NEW d, RowsOK(d), NEW A
    PROVE  LET r == [d EXCEPT !.auctions = A]
           IN  /\ RowsOK(r) /\ r.auctions = A
               /\ r.money = d.money /\ r.inv = d.inv /\ r.items = d.items /\ r.mails = d.mails
<1> DEFINE r == [d EXCEPT !.auctions = A]
<1>1. /\ Shaped(r) /\ r.auctions = A
      /\ r.money = d.money /\ r.inv = d.inv /\ r.items = d.items /\ r.mails = d.mails
  BY DEF RowsOK, Shaped
<1> HIDE DEF r
<1>2. MailRows(r)
  BY <1>1, RowsFields DEF MailRows
<1>3. RowsSound(r)
  BY <1>1 DEF RowsOK, RowsSound
<1> QED
  BY <1>1, <1>2, <1>3 DEF RowsOK, r

-----------------------------------------------------------------------------
(* Bids, and auctions that are taken back. *)

\* The newest rows are r, in which p has a purse of gold, after the mails s were
\* sent.
Bidden(r, p, gold, s) ==
    /\ RowsOK(r) /\ r.items = Latest.items /\ r.mails = Latest.mails \cup Sent(s)
    /\ r.money[p] = gold /\ \A q \in Player \ {p} : r.money[q] = Latest.money[q]
    /\ \A q \in Player : r.inv[q] = Latest.inv[q]

\* Items for which there is room in the mails.
AtHand(G, d) == \A i \in G : i \in Item /\ i \in d.items /\ ~Placed(d, i)

LEMMA BidKeepsMails ==
    ASSUME MailIInv, NEW p \in online, NEW s, NEW G, Notices(s, G), AtHand(G, Latest),
           NEW gold \in 0..MaxMoney, NEW r, Bidden(r, p, gold, s), Commit(r, p),
           money' = [money EXCEPT ![p] = gold], box' = Delivered(box, s),
           UNCHANGED <<online, inv, loaded>>
    PROVE  /\ MailIInv' /\ r.items = Latest.items
           /\ \A i \in Item : Placed(r, i) => Placed(Latest, i) \/ i \in G
<1>1. Memory /\ DatabaseOK /\ Boxes /\ PursesSaved /\ p \in Player
  BY DEF MailIInv, Memory
<1>2. RowsOK(Latest) /\ \A x \in Latest.mails : x.id \in UsedIds
  BY <1>1, LatestRows
<1>3. /\ Fresh(Sent(s))
      /\ \A n \in Sent(s) : Answerable(n) /\ n.item \in G \cup {NoItem}
  BY <1>2, NoticesSent DEF AtHand
<1>4. ASSUME NEW q \in Player
      PROVE  Kept(Latest, r, q) /\ (q # p => Alike(Latest, r, q))
  BY DEF Kept, Alike, Bidden
<1>5. BoxOK(box[p], p, r) /\ \A m \in box[p] : m.id \in UsedIds
  BY <1>1, <1>4, BoxKept, IdsUsed DEF Boxes
<1>6. Posted(s, r)
  BY <1>3 DEF Posted, Bidden, AtHand
<1>7. [box EXCEPT ![p] = box[p]] = box /\ [inv EXCEPT ![p] = inv[p]] = inv
  BY <1>1 DEF Memory
<1> DEFINE b == box[p]
           items == inv[p]
<1>8. /\ box' = Delivered([box EXCEPT ![p] = b], s) /\ inv' = [inv EXCEPT ![p] = items]
      /\ items \in SUBSET Item /\ r.inv[p] = items
      /\ p \notin loaded => b = {} /\ Kept(Latest, r, p)
      /\ BoxOK(b, p, r) /\ \A m \in b : m.id \in UsedIds
  BY <1>1, <1>4, <1>5, <1>7 DEF Memory, PursesSaved, Bidden
<1>9. RowsOK(r) /\ r.money[p] = gold /\ r.items = Latest.items
  BY DEF Bidden
<1> HIDE DEF b, items
<1>10. MailIInv'
  BY <1>3, <1>4, <1>6, <1>8, <1>9, MailStep
<1>11. ASSUME NEW i \in Item, Placed(r, i)
       PROVE  Placed(Latest, i) \/ i \in G
  <2>1. i # NoItem
    BY NoItemAssumption
  <2> QED
    BY <1>3, <1>11, <2>1 DEF Placed, Bidden
<1> QED
  BY <1>9, <1>10, <1>11

\* What p pays and the mails s that are sent, with room for the items in them.
Offer(p, s, G, gold) ==
    p \in online /\ Notices(s, G) /\ AtHand(G, Latest) /\ gold \in 0..MaxMoney

\* The two orders in which the handlers do it.
AuctionsFirst(p, s, gold, A) ==
    SaveInventoryAndGold([InsertMails(Latest, s) EXCEPT !.auctions = A], p, inv[p], gold)

AuctionsLast(p, s, gold, A) ==
    [SaveInventoryAndGold(InsertMails(Latest, s), p, inv[p], gold) EXCEPT !.auctions = A]

LEMMA BidRows ==
    ASSUME MailIInv, NEW p, NEW s, NEW G, NEW gold, Offer(p, s, G, gold), NEW A
    PROVE  /\ Bidden(AuctionsFirst(p, s, gold, A), p, gold, s)
           /\ AuctionsFirst(p, s, gold, A).auctions = A
           /\ Bidden(AuctionsLast(p, s, gold, A), p, gold, s)
           /\ AuctionsLast(p, s, gold, A).auctions = A
           /\ InsertMails(Latest, s).auctions = Latest.auctions
           /\ SaveInventoryAndGold(InsertMails(Latest, s), p, inv[p], gold).auctions = Latest.auctions
<1> DEFINE d == InsertMails(Latest, s)
           c == [d EXCEPT !.auctions = A]
           r == SaveInventoryAndGold(c, p, inv[p], gold)
           f == SaveInventoryAndGold(d, p, inv[p], gold)
           e == [f EXCEPT !.auctions = A]
<1>0. p \in online /\ Notices(s, G) /\ AtHand(G, Latest) /\ gold \in 0..MaxMoney
  BY DEF Offer
<1>1. /\ DatabaseOK /\ p \in Player /\ inv[p] = Latest.inv[p]
      /\ RowsOK(Latest) /\ \A x \in Latest.mails : x.id \in UsedIds
  BY <1>0, LatestRows DEF MailIInv, Memory, PursesSaved
<1>2. /\ RowsOK(d) /\ d.mails = Latest.mails \cup Sent(s)
      /\ d.money = Latest.money /\ d.inv = Latest.inv /\ d.items = Latest.items
      /\ d.auctions = Latest.auctions
  BY <1>0, <1>1, NoticesSent DEF AtHand
<1> HIDE DEF d
<1>3. /\ RowsOK(c) /\ c.auctions = A
      /\ c.money = d.money /\ c.inv = d.inv /\ c.items = d.items /\ c.mails = d.mails
  BY <1>2, AuctionsSet
<1> HIDE DEF c
<1>4. ASSUME NEW x, RowsOK(x), x.inv = Latest.inv
      PROVE  ForOne(x, p, inv[p])
  BY <1>1, <1>4 DEF RowsOK, RowsSound, ForOne
<1>5. /\ RowsOK(r) /\ r.inv[p] = c.inv[p] \cup inv[p] /\ r.money[p] = gold
      /\ \A q \in Player \ {p} : r.inv[q] = c.inv[q] /\ r.money[q] = c.money[q]
      /\ r.mails = c.mails /\ r.items = c.items /\ r.auctions = c.auctions
  BY <1>0, <1>1, <1>2, <1>3, <1>4, InventorySaved
<1>6. /\ RowsOK(f) /\ f.inv[p] = d.inv[p] \cup inv[p] /\ f.money[p] = gold
      /\ \A q \in Player \ {p} : f.inv[q] = d.inv[q] /\ f.money[q] = d.money[q]
      /\ f.mails = d.mails /\ f.items = d.items /\ f.auctions = d.auctions
  BY <1>0, <1>1, <1>2, <1>4, InventorySaved
<1> HIDE DEF r, f
<1>7. /\ RowsOK(e) /\ e.auctions = A
      /\ e.money = f.money /\ e.inv = f.inv /\ e.items = f.items /\ e.mails = f.mails
  BY <1>6, AuctionsSet
<1> HIDE DEF e
<1>8. Bidden(r, p, gold, s)
  BY <1>1, <1>2, <1>3, <1>5 DEF Bidden
<1>9. Bidden(e, p, gold, s)
  BY <1>1, <1>2, <1>6, <1>7 DEF Bidden
<1>10. /\ Bidden(r, p, gold, s) /\ r.auctions = A /\ Bidden(e, p, gold, s) /\ e.auctions = A
       /\ d.auctions = Latest.auctions /\ f.auctions = Latest.auctions
  BY <1>2, <1>3, <1>5, <1>6, <1>7, <1>8, <1>9
<1>11. r = AuctionsFirst(p, s, gold, A) /\ e = AuctionsLast(p, s, gold, A)
       /\ d = InsertMails(Latest, s)
       /\ f = SaveInventoryAndGold(InsertMails(Latest, s), p, inv[p], gold)
  BY Zenon DEF d, c, r, f, e, AuctionsFirst, AuctionsLast
<1> QED
  BY <1>10, <1>11

\* What the other half of the invariant needs of a transaction.
LEMMA HouseStep ==
    ASSUME AuctionIInv, phase = "up", phase' = "up", NEW p, NEW r, Commit(r, p), MailIInv',
           OnSale(r.auctions, r), Housed(auctions', r),
           aitems' \subseteq Item, ended' \subseteq AuctionId, crashes' = crashes
    PROVE  AuctionIInv' /\ Latest' = r
<1>1. Latest' = r /\ Versions' = Versions \cup {r}
  BY OneMore DEF AuctionIInv, MailIInv, DatabaseOK
<1>2. AllOnSale'
  <2>1. \A d \in Versions' : OnSale(d.auctions, d)
    BY <1>1 DEF AuctionIInv, AllOnSale
  <2> QED
    BY <2>1 DEF AllOnSale, OnSale, Placed
<1>3. House'
  <2>1. Housed(auctions', Latest')
    BY <1>1
  <2> QED
    BY <2>1 DEF AuctionIInv, House, Housed, OnSale, Placed, Matching
<1> QED
  BY <1>1, <1>2, <1>3 DEF AuctionIInv

LEMMA BidFacts ==
    ASSUME AuctionIInv, NEW p \in online
    PROVE  /\ MailIInv /\ phase = "up" /\ Housed(auctions, Latest) /\ OnSale(auctions, Latest)
           /\ OnSale(Latest.auctions, Latest) /\ RowsOK(Latest)
           /\ p \in Player /\ money[p] \in 0..MaxMoney
           /\ inv[p] = Latest.inv[p] /\ inv[p] \subseteq Item
           /\ \A a \in auctions : a \in AuctionEntry /\ AtHand({a.item}, Latest)
<1>1. MailIInv /\ phase = "up" /\ Housed(auctions, Latest) /\ OnSale(auctions, Latest)
  BY DEF AuctionIInv, House, Housed
<1>2. OnSale(Latest.auctions, Latest) /\ RowsOK(Latest)
  BY <1>1, LatestRows DEF AuctionIInv, AllOnSale, MailIInv
<1>3. p \in Player /\ money[p] \in 0..MaxMoney /\ inv[p] = Latest.inv[p] /\ inv[p] \subseteq Item
  BY <1>1 DEF MailIInv, Memory, PursesSaved
<1>4. ASSUME NEW a \in auctions
      PROVE  a \in AuctionEntry /\ AtHand({a.item}, Latest)
  <2>1. a \in AuctionEntry /\ a.item \in Latest.items /\ ~Placed(Latest, a.item)
    BY <1>1 DEF OnSale
  <2>2. a.item \in Item
    BY <2>1 DEF AuctionEntry
  <2> QED
    BY <2>1, <2>2 DEF AtHand
<1> QED
  BY <1>1, <1>2, <1>3, <1>4

\* Auctions that stay, in rows that have no more items elsewhere.
LEMMA StillOnSale ==
    ASSUME NEW A, NEW B, NEW d, NEW r, OnSale(A, d), B \subseteq A, r.items = d.items, NEW G,
           \A i \in Item : Placed(r, i) => Placed(d, i) \/ i \in G,
           \A b \in B : b.item \notin G
    PROVE  OnSale(B, r)
<1>1. \A b \in B : b.item \in Item
  BY DEF OnSale, AuctionEntry
<1> QED
  BY <1>1 DEF OnSale

\* A bid on an auction.
Raised(a, p, sum) == [a EXCEPT !.bidder = p, !.bid = sum]

LEMMA RaisedEntry ==
    ASSUME NEW a \in AuctionEntry, NEW p \in Player, NEW sum \in Nat
    PROVE  /\ Raised(a, p, sum) \in AuctionEntry /\ Raised(a, p, sum).bid = sum
           /\ Raised(a, p, sum).bidder = p
           /\ Raised(a, p, sum).id = a.id /\ Raised(a, p, sum).item = a.item
           /\ Raised(a, p, sum).buyout = a.buyout
BY DEF Raised, AuctionEntry

\* The rows with that bid in the one of this auction.
LEMMA RaisedRows ==
    ASSUME NEW A, NEW d, OnSale(A, d), NEW a \in AuctionEntry, \A x \in A : Matching(a, x),
           NEW p \in Player, NEW sum \in Nat, a.buyout = 0 \/ sum < a.buyout
    PROVE  OnSale({IF x.id = a.id THEN Raised(x, p, sum) ELSE x : x \in A}, d)
<1> DEFINE up(x) == IF x.id = a.id THEN Raised(x, p, sum) ELSE x
           B == {up(x) : x \in A}
<1>1. ASSUME NEW x \in A
      PROVE  /\ up(x) \in AuctionEntry /\ up(x).id = x.id /\ up(x).item = x.item
             /\ up(x).buyout # 0 => up(x).bid < up(x).buyout
  <2>1. x \in AuctionEntry /\ (x.buyout # 0 => x.bid < x.buyout)
    BY DEF OnSale
  <2>2. x.id = a.id => x.buyout = a.buyout
    BY DEF Matching
  <2> QED
    BY <2>1, <2>2, RaisedEntry
<1> HIDE DEF up
<1>2. B \subseteq AuctionEntry
  BY <1>1
<1>3. \A x, y \in A : up(x).id = up(y).id \/ up(x).item = up(y).item => x = y
  BY <1>1 DEF OnSale
<1>4. \A y \in B : \E x \in A : y = up(x)
  OBVIOUS
<1> HIDE DEF B
<1>5. \A y \in B : /\ y.item \in d.items /\ ~Placed(d, y.item)
                   /\ y.buyout # 0 => y.bid < y.buyout
  BY <1>1, <1>4 DEF OnSale
<1>6. \A y, z \in B : y.id = z.id \/ y.item = z.item => y = z
  BY <1>3, <1>4
<1>7. OnSale(B, d)
  BY <1>2, <1>5, <1>6 DEF OnSale
<1> QED
  BY <1>7 DEF B, up

\* What the handlers do to the auctions: those in memory and those in the rows
\* are still on sale, and match.
Deal(old, new, A, G) ==
    /\ OnSale(new, old) /\ OnSale(A, old)
    /\ \A a \in new \cup A : a.item \notin G
    /\ \A a \in new, b \in A : Matching(a, b)

LEMMA DealKeeps ==
    ASSUME AuctionIInv, NEW p, NEW s, NEW G, NEW gold, Offer(p, s, G, gold),
           NEW r, Bidden(r, p, gold, s), Commit(r, p),
           Deal(Latest, auctions', r.auctions, G),
           money' = [money EXCEPT ![p] = gold], box' = Delivered(box, s),
           UNCHANGED <<online, inv, loaded, ended, phase, crashes>>, aitems' \subseteq Item
    PROVE  AuctionIInv' /\ Latest' = r
<1>1. /\ p \in online /\ Notices(s, G) /\ AtHand(G, Latest) /\ gold \in 0..MaxMoney
      /\ phase = "up" /\ MailIInv
  BY BidFacts DEF Offer
<1>2. /\ MailIInv' /\ r.items = Latest.items
      /\ \A i \in Item : Placed(r, i) => Placed(Latest, i) \/ i \in G
  BY <1>1, BidKeepsMails
<1> DEFINE old == Latest
           new == auctions'
<1>3. Deal(old, new, r.auctions, G) /\ r.items = old.items
      /\ \A i \in Item : Placed(r, i) => Placed(old, i) \/ i \in G
  BY <1>2
<1> HIDE DEF old, new
<1>4. OnSale(new, r) /\ OnSale(r.auctions, r)
  <2>1. \A A : OnSale(A, old) /\ (\A a \in A : a.item \notin G) => OnSale(A, r)
    BY <1>3, StillOnSale
  <2> QED
    BY <1>3, <2>1 DEF Deal
<1>5. Housed(new, r)
  BY <1>3, <1>4 DEF Housed, Deal
<1>6. Housed(auctions', r)
  BY <1>5 DEF new
<1>7. ended' \subseteq AuctionId
  BY DEF AuctionIInv, House
<1> QED
  BY <1>1, <1>2, <1>4, <1>6, <1>7, HouseStep

\* The transaction of p that sends the mails s and leaves it gold and these
\* auctions.
Dealt(p, s, gold, A) == \E r : Commit(r, p) /\ Bidden(r, p, gold, s) /\ r.auctions = A

RaisedBids(a, p, sum) == {IF x.id = a.id THEN Raised(x, p, sum) ELSE x : x \in Latest.auctions}

LEMMA PlaceBidKeeps ==
    ASSUME AuctionIInv, NEW p \in online, NEW a \in auctions, NEW price \in Prices,
           PlaceBid(p, a, price)
    PROVE  /\ AuctionIInv' /\ (InStep => InStep')
           /\ Dealt(p, Outbid(p, a), Paid(money[p], Due(p, a, price)), RaisedBids(a, p, price))
<1> DEFINE s == Outbid(p, a)
           gold == Paid(money[p], Due(p, a, price))
           new == Raised(a, p, price)
           A == {IF x.id = a.id THEN Raised(x, p, price) ELSE x : x \in Latest.auctions}
           d == InsertMails(Latest, s)
           r == AuctionsFirst(p, s, gold, A)
<1> DEFINE none == {}
<1>1. /\ MailIInv /\ phase = "up" /\ Housed(auctions, Latest) /\ OnSale(auctions, Latest)
      /\ OnSale(Latest.auctions, Latest) /\ p \in Player /\ money[p] \in 0..MaxMoney
      /\ a \in AuctionEntry
  BY BidFacts
<1>2. price \in Nat /\ price > a.bid /\ a.bid \in Nat /\ (a.buyout = 0 \/ price < a.buyout)
  <2>1. price \in Nat /\ a.bid \in Nat /\ a.buyout \in Nat
    BY <1>1, AuctionAssumption DEF AuctionEntry
  <2> QED
    BY <2>1 DEF PlaceBid, MayBid, BuysOut
<1>3. gold \in 0..MaxMoney
  <2>1. Due(p, a, price) \in Nat
    BY <1>2 DEF Due
  <2> QED
    BY <1>1, <2>1, Purses
<1>4. Notices(s, none) /\ AtHand(none, Latest)
  BY <1>1, AuctionMails, NoNotices DEF Outbid, AtHand
<1>5. /\ new \in AuctionEntry /\ new.id = a.id /\ new.item = a.item
      /\ new.buyout = a.buyout /\ new.bid = price /\ new.bidder = p
  BY <1>1, <1>2, RaisedEntry
<1>6. \A x : x \notin none
  OBVIOUS
<1> HIDE DEF none
<1>7. Offer(p, s, none, gold)
  <2> HIDE DEF s, gold
  <2> QED
    BY <1>3, <1>4 DEF Offer
<1>8. d.auctions = Latest.auctions /\ Bidden(r, p, gold, s) /\ r.auctions = A
  <2> HIDE DEF s, gold, A
  <2> QED
    BY <1>1, <1>7, BidRows
<1>9. /\ money' = [money EXCEPT ![p] = gold] /\ auctions' = (auctions \ {a}) \cup {new}
      /\ box' = Delivered(box, s) /\ Commit(r, p)
      /\ UNCHANGED <<online, inv, loaded, aitems, ended, phase, crashes>>
  <2>1. UpdateAuction(d, new) = [d EXCEPT !.auctions = {IF x.id = new.id
                                        THEN [x EXCEPT !.bidder = new.bidder, !.bid = new.bid]
                                        ELSE x : x \in d.auctions}]
    BY DEF UpdateAuction
  <2>2. {IF x.id = new.id THEN [x EXCEPT !.bidder = new.bidder, !.bid = new.bid] ELSE x
            : x \in d.auctions} = A
    <3> HIDE DEF new, d
    <3> QED
      BY <1>5, <1>8 DEF Raised
  <2>3. UpdateAuction(d, new) = [d EXCEPT !.auctions = A]
    <3> HIDE DEF new, d, A
    <3> QED
      BY <2>1, <2>2
  <2>4. new = [a EXCEPT !.bidder = p, !.bid = price]
    BY DEF Raised
  <2>5. /\ money' = [money EXCEPT ![p] = gold] /\ auctions' = (auctions \ {a}) \cup {new}
        /\ box' = Delivered(box, s)
        /\ Commit(SaveInventoryAndGold(UpdateAuction(d, new), p, inv[p], gold), p)
        /\ UNCHANGED <<online, inv, loaded, aitems, ended, phase, crashes>>
    BY <2>4 DEF PlaceBid
  <2>6. r = SaveInventoryAndGold([d EXCEPT !.auctions = A], p, inv[p], gold)
    BY DEF AuctionsFirst
  <2> HIDE DEF new, A, d, s, gold, r
  <2> QED
    BY <2>3, <2>5, <2>6
<1>10. Housed(auctions, Latest) /\ \A x \in Latest.auctions : Matching(a, x)
  BY <1>1 DEF Housed
<1>11. OnSale(A, Latest)
  BY <1>1, <1>2, <1>10, RaisedRows
<1>12. \A y \in A : \E x \in Latest.auctions : y.id = x.id /\ y.item = x.item /\ y.buyout = x.buyout
  <2>1. \A x \in Latest.auctions : x \in AuctionEntry
    BY <1>1 DEF OnSale
  <2> QED
    BY <1>1, <1>2, <2>1, RaisedEntry DEF A
<1> HIDE DEF s, gold, r, d, A, new
<1>13. OnSale(auctions', Latest)
  <2>1. \A x \in auctions \ {a} : x.id # a.id /\ x.item # a.item
    BY <1>1 DEF OnSale
  <2>2. /\ new.item \in Latest.items /\ ~Placed(Latest, new.item)
        /\ new.buyout # 0 => new.bid < new.buyout
    BY <1>1, <1>2, <1>5 DEF OnSale
  <2> QED
    BY <1>1, <1>5, <1>9, <2>1, <2>2 DEF OnSale
<1>14. \A x \in auctions' : \E y \in auctions : y.id = x.id /\ y.item = x.item /\ y.buyout = x.buyout
  BY <1>5, <1>9
<1>15. Deal(Latest, auctions', r.auctions, none)
  <2>1. \A x \in auctions', y \in A : Matching(x, y)
    BY <1>10, <1>12, <1>14 DEF Housed, Matching
  <2> QED
    BY <1>6, <1>8, <1>11, <1>13, <2>1 DEF Deal
<1>16. aitems' \subseteq Item
  BY <1>9 DEF AuctionIInv, House
<1>17. AuctionIInv' /\ Latest' = r
  BY <1>7, <1>8, <1>9, <1>15, <1>16, DealKeeps
<1>18. ASSUME InStep PROVE InStep'
  <2>1. auctions = Latest.auctions /\ \A x \in auctions : x.item \in aitems
    BY <1>1, <1>18 DEF InStep
  <2>2. A = (auctions \ {a}) \cup {new}
    <3>1. \A x \in auctions : x.id = a.id => x = a
      BY <1>1 DEF OnSale
    <3> QED
      BY <2>1, <3>1 DEF A, new
  <2>3. \A x \in auctions' : x.item \in aitems'
    BY <1>9, <1>14, <2>1
  <2> QED
    BY <1>1, <1>8, <1>9, <1>17, <2>2, <2>3 DEF InStep
<1>19. Dealt(p, s, gold, A)
  BY <1>8, <1>9 DEF Dealt
<1>20. A = RaisedBids(a, p, price)
  BY DEF A, RaisedBids
<1> QED
  BY <1>17, <1>18, <1>19, <1>20 DEF s, gold

\* An auction that goes, from the rows and from memory.
Others(a) == {x \in Latest.auctions : x.id # a.id}

LEMMA AuctionGoes ==
    ASSUME AuctionIInv, NEW p \in online, NEW a \in auctions
    PROVE  /\ Deal(Latest, auctions \ {a}, Others(a), {a.item})
           /\ InStep => /\ auctions \ {a} = Others(a)
                        /\ \A x \in auctions \ {a} : x.item \in aitems \ {a.item}
<1> DEFINE d == Latest
<1>1. /\ phase = "up" /\ Housed(auctions, d) /\ OnSale(auctions, d) /\ OnSale(d.auctions, d)
  BY BidFacts
<1>2. Others(a) = {x \in d.auctions : x.id # a.id}
  BY DEF Others
<1>3. InStep => auctions = d.auctions /\ \A x \in auctions : x.item \in aitems
  BY <1>1 DEF InStep
<1>4. Deal(d, auctions \ {a}, Others(a), {a.item})
  <2> HIDE DEF d
  <2>1. OnSale(auctions \ {a}, d) /\ OnSale(Others(a), d)
    BY <1>1, <1>2 DEF OnSale
  <2>2. \A x \in auctions \ {a} : x.id # a.id /\ x.item # a.item
    BY <1>1 DEF OnSale
  <2>3. \A x \in Others(a) : x.item # a.item
    BY <1>1, <1>2 DEF Housed, Matching
  <2>4. \A x \in auctions \ {a}, y \in Others(a) : Matching(x, y)
    BY <1>1, <1>2 DEF Housed
  <2> QED
    BY <2>1, <2>2, <2>3, <2>4 DEF Deal
<1>5. ASSUME InStep
      PROVE  /\ auctions \ {a} = Others(a)
             /\ \A x \in auctions \ {a} : x.item \in aitems \ {a.item}
  <2> HIDE DEF d
  <2> QED
    BY <1>1, <1>2, <1>3, <1>5 DEF OnSale
<1> QED
  BY <1>4, <1>5

BuyoutMails(p, a) ==
    Outbid(p, a) \o SuccessfulMail(Raised(a, p, a.buyout)) \o WonMail(Raised(a, p, a.buyout), aitems)

LEMMA BuyoutKeeps ==
    ASSUME AuctionIInv, NEW p \in online, NEW a \in auctions, NEW price \in Prices,
           Buyout(p, a, price)
    PROVE  /\ AuctionIInv' /\ (InStep => InStep')
           /\ Dealt(p, BuyoutMails(p, a), Paid(money[p], Due(p, a, a.buyout)), Others(a))
<1> DEFINE gold == Paid(money[p], Due(p, a, a.buyout))
           new == Raised(a, p, a.buyout)
           t == Outbid(p, a) \o SuccessfulMail(new)
           s == t \o WonMail(new, aitems)
           d == InsertMails(Latest, s)
           A == Others(a)
           r == AuctionsFirst(p, s, gold, A)
           none == {}
           G == {a.item}
<1>1. /\ MailIInv /\ phase = "up" /\ OnSale(auctions, Latest)
      /\ p \in Player /\ money[p] \in 0..MaxMoney
      /\ a \in AuctionEntry /\ AtHand(G, Latest)
  BY BidFacts
<1>2. a.buyout \in Nat /\ a.buyout # 0 /\ a.bid \in Nat /\ a.bid < a.buyout
  <2>1. a.bid \in Nat /\ a.buyout \in Nat /\ (a.buyout # 0 => a.bid < a.buyout)
    BY <1>1, AuctionAssumption DEF AuctionEntry, OnSale
  <2> QED
    BY <2>1 DEF Buyout, BuysOut
<1>3. gold \in 0..MaxMoney
  <2>1. Due(p, a, a.buyout) \in Nat
    BY <1>2 DEF Due
  <2> QED
    BY <1>1, <2>1, Purses
<1>4. new \in AuctionEntry /\ new.item = a.item /\ new.bidder = p /\ p # Nobody
  BY <1>1, <1>2, RaisedEntry, NobodyAssumption
<1>5. Notices(s, G)
  <2>1. Notices(Outbid(p, a), none)
    BY <1>1, AuctionMails, NoNotices DEF Outbid
  <2>2. Notices(SuccessfulMail(new), none) /\ Notices(WonMail(new, aitems), G)
    <3> HIDE DEF new
    <3> QED
      BY <1>4, AuctionMails
  <2>3. \A H : none \cup H = H
    OBVIOUS
  <2>4. (\A i \in none : i \notin none) /\ (\A i \in none : i \notin G)
    OBVIOUS
  <2> HIDE DEF none, G, new
  <2>5. Notices(t, none)
    BY <2>1, <2>2, <2>3, <2>4, MoreNotices
  <2> HIDE DEF t
  <2> QED
    BY <2>2, <2>3, <2>4, <2>5, MoreNotices
<1>6. /\ Deal(Latest, auctions \ {a}, A, G)
      /\ InStep => /\ auctions \ {a} = A
                   /\ \A x \in auctions \ {a} : x.item \in aitems \ G
  BY AuctionGoes
<1>7. Offer(p, s, G, gold)
  <2> HIDE DEF s, gold, G
  <2> QED
    BY <1>1, <1>3, <1>5 DEF Offer
<1>8. d.auctions = Latest.auctions /\ Bidden(r, p, gold, s) /\ r.auctions = A
  <2> HIDE DEF s, gold, A
  <2> QED
    BY <1>1, <1>7, BidRows
<1>9. /\ money' = [money EXCEPT ![p] = gold] /\ auctions' = auctions \ {a}
      /\ box' = Delivered(box, s) /\ Commit(r, p) /\ aitems' = aitems \ G
      /\ UNCHANGED <<online, inv, loaded, ended, phase, crashes>>
  <2>1. new = [a EXCEPT !.bidder = p, !.bid = a.buyout]
    BY DEF Raised
  <2>2. /\ money' = [money EXCEPT ![p] = gold] /\ auctions' = auctions \ {a}
        /\ box' = Delivered(box, s) /\ aitems' = aitems \ G
        /\ Commit(SaveInventoryAndGold(DeleteAuction(d, a.id), p, inv[p], gold), p)
        /\ UNCHANGED <<online, inv, loaded, ended, phase, crashes>>
    BY <2>1 DEF Buyout
  <2>3. DeleteAuction(d, a.id) = [d EXCEPT !.auctions = A]
    <3>1. DeleteAuction(d, a.id) = [d EXCEPT !.auctions = {x \in d.auctions : x.id # a.id}]
      BY DEF DeleteAuction
    <3>2. {x \in d.auctions : x.id # a.id} = A
      <4> HIDE DEF d
      <4> QED
        BY <1>8 DEF Others
    <3> HIDE DEF d, A
    <3> QED
      BY <3>1, <3>2
  <2>4. r = SaveInventoryAndGold([d EXCEPT !.auctions = A], p, inv[p], gold)
    BY DEF AuctionsFirst
  <2> HIDE DEF new, A, d, s, gold, r, G
  <2> QED
    BY <2>2, <2>3, <2>4
<1> HIDE DEF s, gold, r, d, A, new, G
<1>10. Deal(Latest, auctions', r.auctions, G) /\ aitems' \subseteq Item
  BY <1>6, <1>8, <1>9 DEF AuctionIInv, House
<1>11. AuctionIInv' /\ Latest' = r
  BY <1>7, <1>8, <1>9, <1>10, DealKeeps
<1>12. InStep => InStep'
  BY <1>1, <1>6, <1>8, <1>9, <1>11 DEF InStep
<1>13. Dealt(p, s, gold, A)
  BY <1>8, <1>9 DEF Dealt
<1>14. s = BuyoutMails(p, a)
  BY Zenon DEF s, t, new, BuyoutMails
<1> QED
  BY <1>11, <1>12, <1>13, <1>14 DEF gold, A

\* What it costs to take an auction back.
CutOwed(a) == IF a.bidder = Nobody THEN 0 ELSE AuctionCut(a)

LEMMA RemoveItemKeeps ==
    ASSUME AuctionIInv, NEW p \in online, NEW a \in auctions, RemoveItem(p, a)
    PROVE  /\ AuctionIInv' /\ (InStep => InStep')
           /\ Dealt(p, RefundMail(a) \o AuctionMail(p, a.item, 0), Paid(money[p], CutOwed(a)), Others(a))
<1> DEFINE cut == IF a.bidder = Nobody THEN 0 ELSE AuctionCut(a)
           gold == Paid(money[p], cut)
           s == RefundMail(a) \o AuctionMail(p, a.item, 0)
           d == InsertMails(Latest, s)
           e == SaveInventoryAndGold(d, p, inv[p], gold)
           A == Others(a)
           r == AuctionsLast(p, s, gold, A)
           none == {}
           G == {a.item}
<1>1. /\ MailIInv /\ phase = "up"
      /\ p \in Player /\ money[p] \in 0..MaxMoney
      /\ a \in AuctionEntry /\ AtHand(G, Latest)
  BY BidFacts
<1>2. gold \in 0..MaxMoney
  <2>1. cut \in Nat
    BY <1>1, CutIsLess
  <2> QED
    BY <1>1, <2>1, Purses
<1>3. Notices(s, G)
  <2>1. Notices(RefundMail(a), none)
    BY <1>1, AuctionMails
  <2>2. Notices(AuctionMail(p, a.item, 0), G)
    BY <1>1, OneNotice DEF AuctionEntry
  <2>3. none \cup G = G /\ \A i \in none : i \notin G
    OBVIOUS
  <2> HIDE DEF none, G
  <2> QED
    BY <2>1, <2>2, <2>3, MoreNotices
<1>4. /\ Deal(Latest, auctions \ {a}, A, G)
      /\ InStep => /\ auctions \ {a} = A
                   /\ \A x \in auctions \ {a} : x.item \in aitems \ G
  BY AuctionGoes
<1>5. Offer(p, s, G, gold)
  <2> HIDE DEF s, gold, G
  <2> QED
    BY <1>1, <1>2, <1>3 DEF Offer
<1>6. e.auctions = Latest.auctions /\ Bidden(r, p, gold, s) /\ r.auctions = A
  <2> HIDE DEF s, gold, A
  <2> QED
    BY <1>1, <1>5, BidRows
<1>7. /\ money' = [money EXCEPT ![p] = gold] /\ auctions' = auctions \ {a}
      /\ box' = Delivered(box, s) /\ Commit(r, p) /\ aitems' = aitems \ G
      /\ UNCHANGED <<online, inv, loaded, ended, phase, crashes>>
  <2>1. /\ money' = [money EXCEPT ![p] = gold] /\ auctions' = auctions \ {a}
        /\ box' = Delivered(box, s) /\ aitems' = aitems \ G
        /\ Commit(DeleteAuction(e, a.id), p)
        /\ UNCHANGED <<online, inv, loaded, ended, phase, crashes>>
    BY DEF RemoveItem
  <2>2. DeleteAuction(e, a.id) = [e EXCEPT !.auctions = A]
    <3>1. DeleteAuction(e, a.id) = [e EXCEPT !.auctions = {x \in e.auctions : x.id # a.id}]
      BY DEF DeleteAuction
    <3>2. {x \in e.auctions : x.id # a.id} = A
      <4> HIDE DEF e
      <4> QED
        BY <1>6 DEF Others
    <3> HIDE DEF e, A
    <3> QED
      BY <3>1, <3>2
  <2>3. r = [e EXCEPT !.auctions = A]
    BY DEF AuctionsLast
  <2> HIDE DEF A, d, e, s, gold, r, G
  <2> QED
    BY <2>1, <2>2, <2>3
<1> HIDE DEF s, gold, r, d, e, A, G
<1>8. Deal(Latest, auctions', r.auctions, G) /\ aitems' \subseteq Item
  BY <1>4, <1>6, <1>7 DEF AuctionIInv, House
<1>9. AuctionIInv' /\ Latest' = r
  BY <1>5, <1>6, <1>7, <1>8, DealKeeps
<1>10. InStep => InStep'
  BY <1>1, <1>4, <1>6, <1>7, <1>9 DEF InStep
<1>11. Dealt(p, s, gold, A)
  BY <1>6, <1>7 DEF Dealt
<1> QED
  BY <1>9, <1>10, <1>11 DEF s, gold, A, CutOwed

-----------------------------------------------------------------------------
(* New auctions. *)

LEMMA NewId ==
    ASSUME FreeAuctionIds # {}
    PROVE  Min(FreeAuctionIds) \in FreeAuctionIds
<1> DEFINE S == FreeAuctionIds
<1>1. S \in SUBSET Nat /\ S # {}
  BY AuctionAssumption DEF FreeAuctionIds, AuctionId
<1> HIDE DEF S
<1>2. \E n \in S : \A m \in S : n <= m
  BY <1>1, LeastNumber
<1>3. Min(S) \in S
  BY <1>2 DEF Min
<1> QED
  BY <1>3 DEF S

\* One more auction, of an item that is no longer elsewhere.
LEMMA OneMoreOnSale ==
    ASSUME NEW A, NEW d, NEW r, OnSale(A, d), NEW a \in AuctionEntry, r.items = d.items,
           \A i \in Item : Placed(r, i) => Placed(d, i),
           a.item \in d.items, ~Placed(r, a.item), a.buyout # 0 => a.bid < a.buyout,
           \A x \in A : x.id # a.id /\ x.item # a.item
    PROVE  OnSale(A \cup {a}, r)
<1>1. \A x \in A : x \in AuctionEntry /\ x.item \in Item
  BY DEF OnSale, AuctionEntry
<1>2. A \cup {a} \subseteq AuctionEntry
  BY <1>1
<1>3. \A x, y \in A \cup {a} : x.id = y.id \/ x.item = y.item => x = y
  BY DEF OnSale
<1>4. \A x \in A \cup {a} : /\ x.item \in r.items /\ ~Placed(r, x.item)
                            /\ x.buyout # 0 => x.bid < x.buyout
  BY <1>1 DEF OnSale
<1> QED
  BY <1>2, <1>3, <1>4 DEF OnSale

\* The rows of the seller without the item.
SoldRows(p, i, gold, a) ==
    SaveInventoryAndGold([DeleteFromInventoryDB(Latest, i) EXCEPT !.auctions = @ \cup {a}],
                         p, inv[p] \ {i}, gold)

Sells(p, i, gold) == MailIInv /\ p \in online /\ i \in inv[p] /\ gold \in 0..MaxMoney

LEMMA SoldRowsOK ==
    ASSUME NEW p, NEW i, NEW gold, Sells(p, i, gold), NEW a,
           NEW r, r = SoldRows(p, i, gold, a)
    PROVE  /\ RowsOK(r) /\ r.auctions = Latest.auctions \cup {a}
           /\ r.items = Latest.items /\ r.mails = Latest.mails /\ r.money[p] = gold
           /\ \A q \in Player \ {p} : r.money[q] = Latest.money[q]
           /\ \A q \in Player : r.inv[q] = Latest.inv[q] \ {i}
           /\ r.inv[p] = inv[p] \ {i}
           /\ ~Placed(r, i) /\ Placed(Latest, i) /\ i \in Latest.items
<1> DEFINE d == DeleteFromInventoryDB(Latest, i)
           e == [d EXCEPT !.auctions = @ \cup {a}]
           B == d.auctions \cup {a}
           items == inv[p] \ {i}
<1>1. /\ DatabaseOK /\ p \in Player /\ inv[p] = Latest.inv[p] /\ gold \in 0..MaxMoney
      /\ i \in inv[p] /\ RowsOK(Latest)
  BY LatestRows DEF Sells, MailIInv, Memory, PursesSaved
<1>2. /\ RowsOK(d) /\ \A q \in Player : d.inv[q] = Latest.inv[q] \ {i}
      /\ d.money = Latest.money /\ d.mails = Latest.mails /\ d.items = Latest.items
      /\ d.auctions = Latest.auctions
  BY <1>1, ItemUnbagged
<1>3. e = [d EXCEPT !.auctions = B]
  OBVIOUS
<1> HIDE DEF d, e, B
<1>4. /\ RowsOK(e) /\ e.auctions = B
      /\ e.money = d.money /\ e.inv = d.inv /\ e.items = d.items /\ e.mails = d.mails
  BY <1>2, <1>3, AuctionsSet
<1>5. r = SaveInventoryAndGold(e, p, items, gold)
  BY Zenon DEF SoldRows, d, e
<1>6. items = e.inv[p]
  BY <1>1, <1>2, <1>4
<1> HIDE DEF items
<1>7. ForOne(e, p, items)
  BY <1>1, <1>4, <1>6, RowsFields DEF ForOne, RowsOK, RowsSound
<1>8. /\ RowsOK(r) /\ r.inv[p] = e.inv[p] \cup items /\ r.money[p] = gold
      /\ \A q \in Player \ {p} : r.inv[q] = e.inv[q] /\ r.money[q] = e.money[q]
      /\ r.mails = e.mails /\ r.items = e.items /\ r.auctions = e.auctions
  <2>1. LET x == SaveInventoryAndGold(e, p, items, gold)
        IN  /\ RowsOK(x) /\ x.inv[p] = e.inv[p] \cup items /\ x.money[p] = gold
            /\ \A q \in Player \ {p} : x.inv[q] = e.inv[q] /\ x.money[q] = e.money[q]
            /\ x.mails = e.mails /\ x.items = e.items /\ x.auctions = e.auctions
    BY <1>1, <1>4, <1>7, InventorySaved
  <2> QED
    BY <1>5, <2>1
<1>9. r.inv[p] = inv[p] \ {i} /\ \A q \in Player : r.inv[q] = Latest.inv[q] \ {i}
  <2>1. r.inv[p] = e.inv[p]
    BY <1>6, <1>8
  <2> QED
    BY <1>1, <1>2, <1>4, <1>8, <2>1
<1>10. /\ r.mails = Latest.mails /\ r.items = Latest.items
       /\ \A q \in Player \ {p} : r.money[q] = Latest.money[q]
       /\ r.auctions = Latest.auctions \cup {a}
  BY <1>2, <1>4, <1>8 DEF B
<1>11. i \in Latest.items /\ \A m \in Latest.mails : m.item # i
  BY <1>1 DEF RowsOK, RowsSound
<1>12. ~Placed(r, i) /\ Placed(Latest, i)
  BY <1>1, <1>9, <1>10, <1>11 DEF Placed
<1> QED
  BY <1>8, <1>9, <1>10, <1>11, <1>12

LEMMA SoldKeepsMails ==
    ASSUME MailIInv, NEW p, NEW i, NEW gold, Sells(p, i, gold),
           NEW r, Commit(r, p),
           /\ RowsOK(r) /\ r.items = Latest.items /\ r.mails = Latest.mails /\ r.money[p] = gold
           /\ \A q \in Player \ {p} : r.money[q] = Latest.money[q]
           /\ \A q \in Player : r.inv[q] = Latest.inv[q] \ {i}
           /\ r.inv[p] = inv[p] \ {i},
           money' = [money EXCEPT ![p] = gold], inv' = [inv EXCEPT ![p] = @ \ {i}],
           UNCHANGED <<online, loaded, box>>
    PROVE  MailIInv'
<1>1. /\ Memory /\ DatabaseOK /\ Boxes /\ PursesSaved /\ p \in online /\ p \in Player
      /\ i \in inv[p] /\ gold \in 0..MaxMoney
  BY DEF MailIInv, Memory, Sells
<1>2. RowsSound(Latest) /\ inv[p] = Latest.inv[p] /\ inv[p] \subseteq Item
  BY <1>1, LatestRows DEF RowsOK, PursesSaved, Memory
<1>3. \A q \in Player : Kept(Latest, r, q)
  BY DEF Kept
<1>4. \A q \in Player \ {p} : Alike(Latest, r, q)
  <2>1. \A q \in Player \ {p} : i \notin Latest.inv[q]
    BY <1>1, <1>2 DEF RowsSound
  <2>2. \A q \in Player \ {p} : Latest.inv[q] \ {i} = Latest.inv[q]
    BY <2>1
  <2> QED
    BY <1>3, <2>2 DEF Alike
<1>5. BoxOK(box[p], p, r) /\ \A m \in box[p] : m.id \in UsedIds
  BY <1>1, <1>3, BoxKept, IdsUsed DEF Boxes
<1> DEFINE b == box[p]
           items == inv[p] \ {i}
           none == <<>>
<1>6. Fresh(Sent(none)) /\ Posted(none, r)
  BY NoDrafts DEF Fresh, OneEach
<1>7. box' = Delivered([box EXCEPT ![p] = b], none)
  <2>1. [box EXCEPT ![p] = b] = box /\ box = [q \in Player |-> box[q]]
    BY <1>1 DEF Memory
  <2>2. Delivered(box, none) = box
    BY <2>1, NothingDelivered
  <2> QED
    BY <2>1, <2>2
<1>8. inv' = [inv EXCEPT ![p] = items] /\ items \in SUBSET Item /\ r.inv[p] = items
  BY <1>2
<1>9. p \notin loaded => b = {} /\ Kept(Latest, r, p)
  BY <1>1, <1>3 DEF Memory
<1> HIDE DEF b, items, none
<1>10. BoxOK(b, p, r) /\ \A m \in b : m.id \in UsedIds
  BY <1>5 DEF b
<1> QED
  BY <1>1, <1>4, <1>6, <1>7, <1>8, <1>9, <1>10, MailStep

\* The transaction that offers i.
Offered(p, i, gold) ==
    /\ Sells(p, i, gold)
    /\ \E a \in AuctionEntry :
          /\ a.item = i /\ OfferOf(a) = [seller |-> p, bidder |-> Nobody, bid |-> 0]
          /\ a \notin Latest.auctions /\ Commit(SoldRows(p, i, gold, a), p)

LEMMA SellItemKeeps ==
    ASSUME AuctionIInv, NEW p \in online, NEW i \in inv[p], NEW startbid \in StartBids,
           NEW buyout \in Buyouts, SellItem(p, i, startbid, buyout)
    PROVE  AuctionIInv' /\ (InStep => InStep') /\ Offered(p, i, Paid(money[p], Deposit))
<1> DEFINE gold == Paid(money[p], Deposit)
           a == [id |-> Min(FreeAuctionIds), item |-> i, owner |-> p, startbid |-> startbid,
                 buyout |-> buyout, bidder |-> Nobody, bid |-> 0]
           r == SoldRows(p, i, gold, a)
<1>1. /\ MailIInv /\ phase = "up" /\ Housed(auctions, Latest) /\ OnSale(auctions, Latest)
      /\ OnSale(Latest.auctions, Latest) /\ p \in Player /\ money[p] \in 0..MaxMoney
      /\ inv[p] \subseteq Item
  BY BidFacts
<1>2. gold \in 0..MaxMoney
  BY <1>1, Purses, AuctionAssumption
<1>3. /\ FreeAuctionIds # {} /\ aitems' = aitems \cup {i} /\ auctions' = auctions \cup {a}
      /\ ended' = ended \ {a.id}
      /\ money' = [money EXCEPT ![p] = gold] /\ inv' = [inv EXCEPT ![p] = @ \ {i}]
      /\ Commit(r, p) /\ UNCHANGED <<online, loaded, box, phase, crashes>>
  BY DEF SellItem, SoldRows
<1>4. a.id \in FreeAuctionIds /\ a.item = i /\ a.buyout = buyout /\ a.bid = 0 /\ a.owner = p
      /\ a.bidder = Nobody
  BY <1>3, NewId
<1>5. a \in AuctionEntry /\ buyout \in Nat
  BY <1>1, <1>4, AuctionAssumption DEF AuctionEntry, FreeAuctionIds
<1> HIDE DEF a, gold
<1>6. Sells(p, i, gold)
  BY <1>1, <1>2 DEF Sells
<1>7. /\ RowsOK(r) /\ r.auctions = Latest.auctions \cup {a}
      /\ r.items = Latest.items /\ r.mails = Latest.mails /\ r.money[p] = gold
      /\ \A q \in Player \ {p} : r.money[q] = Latest.money[q]
      /\ \A q \in Player : r.inv[q] = Latest.inv[q] \ {i}
      /\ r.inv[p] = inv[p] \ {i}
      /\ ~Placed(r, i) /\ Placed(Latest, i) /\ i \in Latest.items
  BY <1>6, SoldRowsOK
<1> HIDE DEF r
<1>8. MailIInv'
  BY <1>1, <1>3, <1>6, <1>7, SoldKeepsMails
<1>9. \A j \in Item : Placed(r, j) => Placed(Latest, j)
  BY <1>7 DEF Placed
<1>10. \A x \in auctions \cup Latest.auctions : x.id # a.id /\ x.item # a.item
  <2>1. Latest \in Versions
    BY <1>1, LatestRows DEF MailIInv
  <2>2. \A x \in auctions \cup Latest.auctions : x.id # a.id
    BY <1>4, <2>1 DEF FreeAuctionIds
  <2>3. \A x \in auctions \cup Latest.auctions : x.item # i
    BY <1>1, <1>7 DEF OnSale
  <2> QED
    BY <1>4, <2>2, <2>3
<1> DEFINE d == Latest
<1>11. /\ OnSale(auctions, d) /\ OnSale(d.auctions, d) /\ r.items = d.items
       /\ \A j \in Item : Placed(r, j) => Placed(d, j)
       /\ a.item \in d.items /\ ~Placed(r, a.item) /\ (a.buyout # 0 => a.bid < a.buyout)
       /\ \A x \in auctions \cup d.auctions : x.id # a.id /\ x.item # a.item
  BY <1>1, <1>4, <1>5, <1>7, <1>9, <1>10
<1>12. OnSale(auctions', r) /\ OnSale(r.auctions, r)
  <2> HIDE DEF d
  <2>1. OnSale(auctions \cup {a}, r) /\ OnSale(d.auctions \cup {a}, r)
    BY <1>5, <1>11, OneMoreOnSale
  <2> QED
    BY <1>3, <1>7, <2>1 DEF d
<1>13. Housed(auctions', r)
  BY <1>1, <1>3, <1>7, <1>10, <1>12 DEF Housed, Matching
<1>14. aitems' \subseteq Item /\ ended' \subseteq AuctionId /\ crashes' = crashes
  BY <1>1, <1>3 DEF AuctionIInv, House
<1>15. AuctionIInv' /\ Latest' = r
  BY <1>1, <1>3, <1>8, <1>12, <1>13, <1>14, HouseStep
<1>16. InStep => InStep'
  BY <1>1, <1>3, <1>4, <1>7, <1>15 DEF InStep
<1>17. Offered(p, i, gold)
  <2>1. OfferOf(a) = [seller |-> p, bidder |-> Nobody, bid |-> 0] /\ a \notin Latest.auctions
    BY <1>4, <1>10 DEF OfferOf
  <2>2. Commit(SoldRows(p, i, gold, a), p)
    BY <1>3 DEF r
  <2> QED
    BY <1>4, <1>5, <1>6, <2>1, <2>2 DEF Offered
<1> QED
  BY <1>15, <1>16, <1>17 DEF gold

-----------------------------------------------------------------------------
(* Many transactions at once. *)

LEMMA ManyMore ==
    ASSUME Queued, NEW rows, NEW T, rows \in Seq(T), NEW by, CommitAll(rows, by)
    PROVE  /\ Queued' /\ Len(writes') = Len(writes) + Len(rows)
           /\ \A j \in 0..Len(writes) : State(j)' = State(j)
           /\ \A j \in 0..Len(writes') :
                 j \notin 0..Len(writes) => j - Len(writes) \in 1..Len(rows)
                                            /\ State(j)' = rows[j - Len(writes)]
           /\ \A k \in 1..Len(writes) : writes'[k] = writes[k]
           /\ Versions' = Versions \cup {rows[k] : k \in 1..Len(rows)}
           /\ Latest' = Last(<<Latest>> \o rows)
<1> DEFINE added == [k \in DOMAIN rows |-> [rows |-> rows[k], by |-> by]]
           S == {[rows |-> r, by |-> by] : r \in T}
<1>1. PICK U : writes \in Seq(U)
  BY DEF Queued
<1>2. writes' = writes \o added /\ db' = db
  BY DEF CommitAll
<1>3. /\ Len(rows) \in Nat /\ DOMAIN rows = 1..Len(rows) /\ \A k \in 1..Len(rows) : rows[k] \in T
  BY LenProperties, ElementOfSeq
<1>4. /\ added \in Seq(S) /\ Len(added) = Len(rows)
      /\ \A k \in 1..Len(rows) : added[k].rows = rows[k]
  <2>1. \A k \in 1..Len(rows) : [rows |-> rows[k], by |-> by] \in S
    BY <1>3
  <2> HIDE DEF S
  <2>2. added \in [1..Len(rows) -> S]
    BY <1>3, <2>1
  <2>3. \A k \in 1..Len(rows) : added[k].rows = rows[k]
    BY <1>3
  <2> HIDE DEF added
  <2>4. added \in Seq(S) /\ Len(added) = Len(rows)
    BY <1>3, <2>2
  <2> QED
    BY <2>3, <2>4
<1> HIDE DEF added, S
<1>5. writes \in Seq(U \cup S) /\ added \in Seq(U \cup S)
  BY <1>1, <1>4, SeqMonotonic
<1>6. /\ writes' \in Seq(U \cup S) /\ Len(writes) \in Nat
      /\ Len(writes') = Len(writes) + Len(rows)
      /\ \A k \in 1..Len(writes') :
            writes'[k] = IF k <= Len(writes) THEN writes[k] ELSE added[k - Len(writes)]
  <2>1. Len(writes) \in Nat
    BY ONLY <1>5, LenProperties
  <2>2. /\ writes \o added \in Seq(U \cup S)
        /\ Len(writes \o added) = Len(writes) + Len(added)
        /\ \A k \in 1..Len(writes) + Len(added) :
              (writes \o added)[k] = IF k <= Len(writes) THEN writes[k] ELSE added[k - Len(writes)]
    BY ONLY <1>5, ConcatProperties
  <2>3. Len(added) = Len(rows)
    BY <1>4
  <2> QED BY ONLY <1>2, <2>1, <2>2, <2>3
<1>7. Queued'
  BY <1>6 DEF Queued
<1>8. \A k \in 1..Len(writes) : writes'[k] = writes[k]
  BY <1>3, <1>6
<1>9. ASSUME NEW j \in 0..Len(writes)
      PROVE  State(j)' = State(j)
  <2>1. j = 0 \/ j \in 1..Len(writes)
    BY <1>6
  <2> QED
    BY <1>2, <1>8, <2>1 DEF State
<1>10. ASSUME NEW j \in 0..Len(writes'), j \notin 0..Len(writes)
       PROVE  j - Len(writes) \in 1..Len(rows) /\ State(j)' = rows[j - Len(writes)]
  <2>1. /\ j # 0 /\ j \in 1..Len(writes') /\ ~(j <= Len(writes))
        /\ j - Len(writes) \in 1..Len(rows)
    BY <1>3, <1>6, <1>10
  <2>2. writes'[j] = added[j - Len(writes)]
    BY <1>6, <2>1
  <2> QED
    BY <1>4, <2>1, <2>2 DEF State
<1>11. /\ Versions = {State(j) : j \in 0..Len(writes)} /\ Latest = State(Len(writes))
       /\ Versions' = {State(j)' : j \in 0..Len(writes')} /\ Latest' = State(Len(writes))'
  BY <1>7, QueueRows, QueueRowsNext
<1>12. Versions' = Versions \cup {rows[k] : k \in 1..Len(rows)}
  <2>1. \A j \in 0..Len(writes) : j \in 0..Len(writes')
    BY <1>3, <1>6
  <2>2. ASSUME NEW k \in 1..Len(rows)
        PROVE  \E j \in 0..Len(writes') : State(j)' = rows[k]
    <3>1. /\ k + Len(writes) \in 0..Len(writes') /\ k + Len(writes) \notin 0..Len(writes)
          /\ (k + Len(writes)) - Len(writes) = k
      BY <1>3, <1>6
    <3>2. \A j \in 0..Len(writes') : j \notin 0..Len(writes) => State(j)' = rows[j - Len(writes)]
      BY <1>10
    <3>3. \E j \in 0..Len(writes') : j \notin 0..Len(writes) /\ j - Len(writes) = k
      BY <3>1
    <3> QED
      BY <3>2, <3>3
  <2>3. \A j \in 0..Len(writes') : State(j)' \in Versions \cup {rows[k] : k \in 1..Len(rows)}
    BY <1>9, <1>10, <1>11
  <2>4. \A j \in 0..Len(writes) : State(j) \in Versions'
    BY <1>9, <1>11, <2>1
  <2> QED
    BY <1>11, <2>2, <2>3, <2>4
<1>13. Latest' = Last(<<Latest>> \o rows)
  <2> DEFINE n == Len(writes')
             s == <<Latest>> \o rows
             W == T \cup {Latest}
  <2>1. <<Latest>> \in Seq(W) /\ rows \in Seq(W) /\ Len(<<Latest>>) = 1 /\ <<Latest>>[1] = Latest
    BY SeqMonotonic
  <2> HIDE DEF W
  <2>2. /\ Len(s) = 1 + Len(rows)
        /\ \A k \in 1..Len(s) : s[k] = IF k <= 1 THEN <<Latest>>[k] ELSE rows[k - 1]
    BY <2>1, ConcatProperties
  <2> HIDE DEF s
  <2>3. Last(s) = s[1 + Len(rows)]
    BY <2>2 DEF Last
  <2>4. Latest' = IF n = 0 THEN db' ELSE writes'[n].rows
    BY <1>11 DEF State
  <2>5. CASE Len(rows) = 0
    <3>1. n = Len(writes)
      BY <1>3, <1>6, <2>5
    <3>2. Latest = IF n = 0 THEN db ELSE writes[n].rows
      BY <1>11, <3>1 DEF State
    <3>3. n = 0 \/ n \in 1..Len(writes)
      BY <1>6, <3>1
    <3> HIDE DEF n
    <3>4. Latest' = Latest
      BY <1>2, <1>8, <2>4, <3>2, <3>3
    <3>5. s[1 + Len(rows)] = Latest
      BY <2>1, <2>2, <2>5
    <3> QED
      BY <2>3, <3>4, <3>5 DEF s
  <2>6. CASE Len(rows) # 0
    <3>1. n \in 1..n /\ n # 0 /\ ~(n <= Len(writes)) /\ n - Len(writes) = Len(rows)
          /\ Len(rows) \in 1..Len(rows)
      BY <1>3, <1>6, <2>6
    <3>2. writes'[n] = added[Len(rows)]
      BY <1>6, <3>1
    <3>3. Latest' = rows[Len(rows)]
      BY <1>4, <2>4, <3>1, <3>2
    <3>4. s[1 + Len(rows)] = rows[Len(rows)]
      <4>1. 1 + Len(rows) \in 1..Len(s) /\ ~(1 + Len(rows) <= 1) /\ (1 + Len(rows)) - 1 = Len(rows)
        BY <1>3, <2>2, <2>6
      <4> QED
        BY <2>2, <4>1
    <3> QED
      BY <2>3, <3>3, <3>4 DEF s
  <2> QED
    BY <2>5, <2>6
<1> QED
  BY <1>6, <1>7, <1>8, <1>9, <1>10, <1>12, <1>13

\* Rows that differ in mails that were added, and in auctions.
Grown(d, r) ==
    r.inv = d.inv /\ r.money = d.money /\ r.items = d.items /\ d.mails \subseteq r.mails

LEMMA GrownAlike == \A d, r, q : Grown(d, r) => Alike(d, r, q)
BY DEF Grown, Alike, Kept

LEMMA CommitAllKeeps ==
    ASSUME MailIInv, NEW rows, NEW T, rows \in Seq(T), NEW by, CommitAll(rows, by),
           Grown(Latest, Latest'),
           \A r \in T : RowsOK(r) /\ Grown(r, Latest'),
           UNCHANGED <<online, loaded>>
    PROVE  DatabaseOK'
<1>1. Queued /\ AllRowsOK /\ ReadBack /\ NotListed /\ online \subseteq Player
  BY DEF MailIInv, DatabaseOK, Memory
<1>2. /\ Queued' /\ Len(writes') = Len(writes) + Len(rows)
      /\ \A j \in 0..Len(writes) : State(j)' = State(j)
      /\ \A j \in 0..Len(writes') :
            j \notin 0..Len(writes) => j - Len(writes) \in 1..Len(rows)
                                       /\ State(j)' = rows[j - Len(writes)]
      /\ \A k \in 1..Len(writes) : writes'[k] = writes[k]
      /\ Versions' = Versions \cup {rows[k] : k \in 1..Len(rows)}
  BY <1>1, ManyMore
<1>3. Len(writes) \in Nat /\ Len(rows) \in Nat /\ \A k \in 1..Len(rows) : rows[k] \in T
  BY <1>1, QueueRows, LenProperties, ElementOfSeq
<1>4. AllRowsOK'
  BY <1>1, <1>2, <1>3 DEF AllRowsOK
<1> DEFINE r == Latest'
<1>5. Grown(Latest, r) /\ \A e \in T : Grown(e, r)
  OBVIOUS
<1>6. ReadBack'
  <2> SUFFICES ASSUME NEW j \in 0..Len(writes'), NEW q \in Player,
                      \A k \in j + 1..Len(writes') : q \notin writes'[k].by
               PROVE  Alike(State(j)', r, q)
    BY DEF ReadBack, Alike, Kept
  <2> HIDE DEF r
  <2>1. CASE j \notin 0..Len(writes)
    <3>1. State(j)' \in T
      BY <1>2, <1>3, <2>1
    <3> QED
      BY <1>5, <3>1, GrownAlike
  <2>2. CASE j \in 0..Len(writes)
    <3>1. \A k \in j + 1..Len(writes) : q \notin writes[k].by
      <4>1. \A k \in j + 1..Len(writes) : k \in 1..Len(writes) /\ k \in j + 1..Len(writes')
        BY <1>2, <1>3, <2>2
      <4> QED
        BY <1>2, <4>1
    <3>2. Alike(State(j), Latest, q)
      BY <1>1, <2>2, <3>1 DEF ReadBack
    <3>3. Alike(Latest, r, q)
      BY <1>5, GrownAlike
    <3>4. State(j)' = State(j)
      BY <1>2, <2>2
    <3> QED
      BY <3>2, <3>3, <3>4, KeptOn DEF Alike
  <2> QED
    BY <2>1, <2>2
<1>7. NotListed'
  <2> SUFFICES ASSUME NEW q \in online \ loaded, NEW d \in Versions'
               PROVE  Kept(d, r, q)
    BY DEF NotListed, Kept
  <2> HIDE DEF r
  <2>1. d \in Versions \/ d \in T
    BY <1>2, <1>3
  <2>2. Kept(Latest, r, q)
    BY <1>5, GrownAlike DEF Alike
  <2>3. CASE d \in T
    BY <1>5, <2>3, GrownAlike DEF Alike
  <2>4. CASE d \in Versions
    BY <1>1, <2>2, <2>4, KeptOn DEF NotListed
  <2> QED
    BY <2>1, <2>3, <2>4
<1> QED
  BY <1>2, <1>4, <1>6, <1>7 DEF DatabaseOK

\* They leave mails to the receivers, and nothing else in memory.
LEMMA CommitAllKeepsMails ==
    ASSUME MailIInv, NEW rows, NEW T, rows \in Seq(T), NEW by, CommitAll(rows, by),
           Grown(Latest, Latest'),
           \A r \in T : RowsOK(r) /\ Grown(r, Latest'),
           NEW s, Fresh(Sent(s)), Posted(s, Latest'), box' = Delivered(box, s),
           UNCHANGED <<online, loaded, money, inv>>
    PROVE  MailIInv'
<1> DEFINE r == Latest'
           N == Sent(s)
<1>1. Memory /\ Boxes /\ PursesSaved /\ Grown(Latest, r)
  BY DEF MailIInv
<1>2. DatabaseOK'
  BY CommitAllKeeps
<1>3. /\ N \subseteq Mail /\ OneEach(N)
      /\ \A n \in N : /\ n.id \notin UsedIds /\ Answerable(n) /\ n \in r.mails
                      /\ n.item # NoItem => n.item \in r.items
  BY DEF Fresh, Posted
<1>4. ASSUME NEW q \in Player
      PROVE  /\ box'[q] = IF q \in loaded THEN box[q] \cup {n \in N : n.to = q} ELSE box[q]
             /\ box[q] \subseteq Mail
  BY <1>1 DEF Delivered, Memory
<1>5. ASSUME NEW q \in Player
      PROVE  BoxOK(box[q], q, r) /\ \A m \in box[q] : m.id \in UsedIds
  <2> HIDE DEF r
  <2>1. Kept(Latest, r, q) /\ BoxOK(box[q], q, Latest)
    BY <1>1, GrownAlike DEF Alike, Boxes
  <2> QED
    BY <2>1, BoxKept, IdsUsed
<1>6. ASSUME NEW q \in Player
      PROVE  BoxOK(box'[q], q, r)
  <2> HIDE DEF r, N
  <2>1. BoxOK(box[q] \cup {n \in N : n.to = q}, q, r)
    BY <1>3, <1>5, BoxDelivered
  <2> QED
    BY <1>4, <1>5, <2>1
<1>7. Boxes'
  BY <1>6 DEF Boxes, BoxOK
<1>8. Memory'
  <2>1. box' = [q \in Player |-> IF q \in loaded THEN box[q] \cup {n \in N : n.to = q} ELSE box[q]]
    BY DEF Delivered
  <2> HIDE DEF N
  <2>2. box' \in [Player -> SUBSET Mail]
    BY <1>3, <1>4, <2>1
  <2>3. \A q \in Player : q \notin loaded => box'[q] = {}
    BY <1>1, <1>4 DEF Memory
  <2> QED
    BY <1>1, <2>2, <2>3 DEF Memory
<1>9. PursesSaved'
  BY <1>1 DEF PursesSaved, Grown
<1> QED
  BY <1>2, <1>7, <1>8, <1>9 DEF MailIInv

-----------------------------------------------------------------------------
(* The auctions that are over, one after the other. *)

\* Rows d with the mails s and the auctions A.
SettledRows(d, s, A) ==
    [money |-> d.money, inv |-> d.inv, items |-> d.items, mails |-> d.mails \cup Sent(s),
     auctions |-> A]

\* Auctions over that can be settled from the rows d.
Settleable(d, over) ==
    /\ RowsOK(d) /\ \A m \in d.mails : m.id \in UsedIds
    /\ Housed(over, d) /\ OnSale(d.auctions, d)

\* The auctions and the items sent, once those with an id up to n are settled.
Remaining(d, over, n) == {x \in d.auctions : \A a \in over : a.id <= n => a.id # x.id}
Goods(over, known, n) == {a.item : a \in {a \in over : a.id <= n}} \cap known

\* Rows in the middle of it.
Between(e, d, s) ==
    /\ RowsOK(e) /\ e.inv = d.inv /\ e.money = d.money /\ e.items = d.items
    /\ d.mails \subseteq e.mails /\ e.mails \subseteq d.mails \cup Sent(s)
    /\ e.auctions \subseteq d.auctions /\ OnSale(e.auctions, e)

SettledOK(d, over, known, n, acc) ==
    /\ Notices(acc.mails, Goods(over, known, n))
    /\ \E T : acc.rows \in Seq(T) /\ \A e \in T : Between(e, d, acc.mails)
    /\ Last(<<d>> \o acc.rows) = SettledRows(d, acc.mails, Remaining(d, over, n))
    /\ over = {} => acc.rows = <<>>

LEMMA SentMore ==
    ASSUME NEW s \in Seq(Draft), NEW t \in Seq(Draft)
    PROVE  Sent(s) \subseteq Sent(s \o t)
<1> DEFINE u == s \o t
<1>1. /\ DOMAIN s = 1..Len(s) /\ Len(s) \in Nat /\ Len(t) \in Nat
      /\ DOMAIN u = 1..Len(s) + Len(t)
      /\ \A k \in 1..Len(s) : u[k] = s[k]
  <2>1. /\ u \in Seq(Draft) /\ Len(u) = Len(s) + Len(t) /\ Len(s) \in Nat /\ Len(t) \in Nat
        /\ \A k \in 1..Len(u) : u[k] = IF k <= Len(s) THEN s[k] ELSE t[k - Len(s)]
    BY ConcatProperties, LenProperties
  <2> HIDE DEF u
  <2>2. DOMAIN s = 1..Len(s) /\ DOMAIN u = 1..Len(u)
    BY <2>1, LenProperties
  <2> QED
    BY <2>1, <2>2
<1> HIDE DEF u
<1>2. \A k \in DOMAIN s : k \in DOMAIN u /\ u[k] = s[k]
  BY <1>1
<1>3. ASSUME NEW n \in Sent(s)
      PROVE  n \in Sent(u)
  <2>1. PICK k \in DOMAIN s \cap DOMAIN FreeIds : n = [s[k] EXCEPT !.id = FreeIds[k]]
    BY DEF Sent
  <2>2. k \in DOMAIN u \cap DOMAIN FreeIds /\ n = [u[k] EXCEPT !.id = FreeIds[k]]
    BY <1>2, <2>1
  <2> QED
    BY <2>2 DEF Sent
<1> QED
  BY <1>3 DEF u

Appended(d, T, s, e) ==
    Append(s, e) \in Seq(T \cup {e}) /\ Last(<<d>> \o Append(s, e)) = e

LEMMA LastAppended ==
    ASSUME NEW d, NEW T, NEW s \in Seq(T), NEW e
    PROVE  Appended(d, T, s, e)
<1> DEFINE W == T \cup {d, e}
           u == Append(s, e)
           v == <<d>> \o u
<1>1. s \in Seq(T \cup {e}) /\ s \in Seq(W)
  BY SeqMonotonic
<1>2. Append(s, e) \in Seq(T \cup {e})
  <2>1. e \in T \cup {e}
    OBVIOUS
  <2> QED
    BY <1>1, <2>1, AppendProperties
<1>3. u \in Seq(W) /\ Len(u) = Len(s) + 1 /\ Len(s) \in Nat /\ u[Len(s) + 1] = e
  <2>1. e \in W
    OBVIOUS
  <2> HIDE DEF W
  <2> QED
    BY <1>1, <2>1, AppendProperties, LenProperties
<1>4. <<d>> \in Seq(W) /\ Len(<<d>>) = 1
  OBVIOUS
<1> HIDE DEF W, u
<1>5. /\ Len(v) = 1 + Len(u)
      /\ \A k \in 1..Len(v) : v[k] = IF k <= 1 THEN <<d>>[k] ELSE u[k - 1]
  BY <1>3, <1>4, ConcatProperties
<1> HIDE DEF v
<1>6. Len(v) \in 1..Len(v) /\ ~(Len(v) <= 1) /\ Len(v) - 1 = Len(s) + 1
  BY <1>3, <1>5
<1>7. v[Len(v)] = e
  BY <1>3, <1>5, <1>6
<1> QED
  BY <1>2, <1>7 DEF Last, v, u, Appended

LEMMA SettledRowsOK ==
    ASSUME NEW d, RowsOK(d), \A m \in d.mails : m.id \in UsedIds,
           NEW s, NEW G, Notices(s, G), AtHand(G, d), NEW A,
           A \subseteq d.auctions, OnSale(d.auctions, d), \A x \in A : x.item \notin G
    PROVE  Between(SettledRows(d, s, A), d, s)
<1> DEFINE e == InsertMails(d, s)
           f == [e EXCEPT !.auctions = A]
           r == SettledRows(d, s, A)
<1>1. /\ RowsOK(e) /\ e.mails = d.mails \cup Sent(s)
      /\ e.money = d.money /\ e.inv = d.inv /\ e.items = d.items /\ e.auctions = d.auctions
      /\ \A n \in Sent(s) : n.item \in G \cup {NoItem}
  BY NoticesSent DEF AtHand
<1> HIDE DEF e
<1>2. /\ RowsOK(f) /\ f.auctions = A
      /\ f.money = e.money /\ f.inv = e.inv /\ f.items = e.items /\ f.mails = e.mails
  BY <1>1, AuctionsSet
<1> HIDE DEF f
<1>3. f = r
  BY <1>1, <1>2 DEF RowsOK, Shaped, SettledRows
<1>4. /\ r.money = d.money /\ r.inv = d.inv /\ r.items = d.items
      /\ r.mails = d.mails \cup Sent(s) /\ r.auctions = A /\ RowsOK(r)
  BY <1>1, <1>2, <1>3
<1> HIDE DEF r
<1>5. \A i \in Item : Placed(r, i) => Placed(d, i) \/ i \in G
  BY <1>1, <1>4, NoItemAssumption DEF Placed
<1>6. OnSale(A, r)
  BY <1>4, <1>5, StillOnSale
<1>7. Between(r, d, s)
  BY <1>4, <1>6 DEF Between
<1> QED
  BY <1>7 DEF r

\* One more auction: the mails and the rows are then those of new.
SettledWith(d, over, known, n, acc, a, new) ==
    /\ new.mails = acc.mails \o SettlementMails(a, known)
    /\ new.rows = Append(acc.rows, SettledRows(d, new.mails, Remaining(d, over, n + 1)))
    /\ Between(SettledRows(d, new.mails, Remaining(d, over, n + 1)), d, new.mails)
    /\ Remaining(d, over, n + 1) = {x \in Remaining(d, over, n) : x.id # a.id}

LEMMA SettleStep ==
    ASSUME NEW d, NEW over, Settleable(d, over), NEW known, NEW n \in Nat, NEW acc,
           SettledOK(d, over, known, n, acc), NEW a \in over, a.id = n + 1
    PROVE  /\ SettledOK(d, over, known, n + 1, SettleOne(d, known, acc, a))
           /\ SettledWith(d, over, known, n, acc, a, SettleOne(d, known, acc, a))
<1> DEFINE s == acc.mails
           t == SettlementMails(a, known)
           u == s \o t
           G == Goods(over, known, n)
           H == {a.item} \cap known
           R == Remaining(d, over, n)
           Q == Remaining(d, over, n + 1)
           last == Last(<<d>> \o acc.rows)
           e == DeleteAuction(InsertMails(last, u), a.id)
           g == Goods(over, known, n + 1)
<1>1. /\ RowsOK(d) /\ \A m \in d.mails : m.id \in UsedIds
      /\ Housed(over, d) /\ OnSale(over, d) /\ OnSale(d.auctions, d)
  BY DEF Settleable, Housed
<1>2. \A x \in over : x \in AuctionEntry /\ x.id \in Nat /\ x.item \in Item
  BY <1>1 DEF OnSale, AuctionEntry, AuctionId
<1>3. \A x \in over : x.id <= n + 1 <=> x.id <= n \/ x = a
  <2>1. \A x \in over : x.id = a.id <=> x = a
    BY <1>1 DEF OnSale
  <2>2. \A x \in over : x.id <= n + 1 <=> x.id <= n \/ x.id = n + 1
    BY <1>2
  <2> QED
    BY <2>1, <2>2
<1>4. g = G \cup H
  BY <1>3 DEF Goods
<1>5. Q = {x \in R : x.id # a.id}
  BY <1>3 DEF Remaining
<1>6. \A i \in G : i \notin H
  <2>1. \A x \in over : x.id <= n => x.item # a.item
    <3>1. \A x \in over : x.item = a.item => x = a
      BY <1>1 DEF OnSale
    <3>2. ~(a.id <= n)
      OBVIOUS
    <3> QED
      BY <3>1, <3>2
  <2> QED
    BY <2>1 DEF Goods
<1>7. /\ Notices(s, G) /\ last = SettledRows(d, s, R)
  BY DEF SettledOK
<1>8. Notices(t, H)
  <2>1. Notices(t, {a.item}) /\ (a.item \notin known => Notices(t, {}))
    BY <1>2, AuctionMails
  <2>2. CASE a.item \in known
    <3>1. H = {a.item}
      BY <2>2
    <3> QED
      BY <2>1, <3>1
  <2>3. CASE a.item \notin known
    <3>1. H = {}
      BY <2>3
    <3> QED
      BY <2>1, <2>3, <3>1
  <2> QED
    BY <2>2, <2>3
<1> HIDE DEF G, H, t, g
<1>9. Notices(u, g)
  <2>1. Notices(s \o t, G \cup H)
    BY <1>6, <1>7, <1>8, MoreNotices
  <2> QED
    BY <1>4, <2>1
<1>10. Sent(s) \subseteq Sent(u)
  <2>1. s \in Seq(Draft) /\ t \in Seq(Draft)
    BY <1>7, <1>8 DEF Notices
  <2> QED
    BY <2>1, SentMore
<1>11. SettleOne(d, known, acc, a) = [mails |-> u, rows |-> Append(acc.rows, e)]
  BY DEF SettleOne, t
<1> HIDE DEF u, R, Q, s, last
<1>12. e = SettledRows(d, u, Q)
  <2> DEFINE x == SettledRows(d, s, R)
             M == d.mails \cup Sent(u)
             W == d.mails \cup Sent(s)
  <2>1. x.mails \cup Sent(u) = M
    BY <1>10 DEF SettledRows
  <2>2. InsertMails(x, u) = [x EXCEPT !.mails = x.mails \cup Sent(u)]
    BY DEF InsertMails
  <2>3. x = [money |-> d.money, inv |-> d.inv, items |-> d.items, mails |-> W, auctions |-> R]
    BY DEF SettledRows
  <2> HIDE DEF x, M, W
  <2> DEFINE y == [money |-> d.money, inv |-> d.inv, items |-> d.items, mails |-> M, auctions |-> R]
  <2>4. InsertMails(x, u) = y
    <3>1. InsertMails(x, u) = [x EXCEPT !.mails = M]
      BY <2>1, <2>2
    <3> QED
      BY ONLY <2>3, <3>1
  <2>5. y.auctions = R /\ y = [money |-> d.money, inv |-> d.inv, items |-> d.items, mails |-> M,
                               auctions |-> y.auctions]
    OBVIOUS
  <2>6. DeleteAuction(y, a.id) = [y EXCEPT !.auctions = {z \in y.auctions : z.id # a.id}]
    BY DEF DeleteAuction
  <2> HIDE DEF y
  <2>7. {z \in y.auctions : z.id # a.id} = Q
    BY <1>5, <2>5
  <2>8. DeleteAuction(y, a.id) = [y EXCEPT !.auctions = Q]
    BY <2>6, <2>7
  <2>9. [y EXCEPT !.auctions = Q] = [money |-> d.money, inv |-> d.inv, items |-> d.items, mails |-> M,
                                     auctions |-> Q]
    BY <2>5
  <2>10. e = DeleteAuction(y, a.id)
    BY <1>7, <2>4 DEF x
  <2> QED
    BY <2>8, <2>9, <2>10 DEF SettledRows, M
<1> HIDE DEF e
<1>13. Between(e, d, u)
  <2>1. AtHand(g, d)
    BY <1>1, <1>2 DEF AtHand, g, Goods, OnSale
  <2>2. Q \subseteq d.auctions
    BY DEF Q, Remaining
  <2>3. \A x \in Q : x.item \notin g
    <3>1. \A x \in Q, z \in over : z.id <= n + 1 => z.item # x.item
      BY <1>1 DEF Q, Remaining, Housed, Matching
    <3> QED
      BY <3>1 DEF g, Goods
  <2>4. Between(SettledRows(d, u, Q), d, u)
    BY <1>1, <1>9, <2>1, <2>2, <2>3, SettledRowsOK
  <2> QED
    BY <1>12, <2>4
<1>14. PICK T : acc.rows \in Seq(T) /\ \A x \in T : Between(x, d, s)
  BY DEF SettledOK, s
<1>15. \A x \in T \cup {e} : Between(x, d, u)
  <2>1. \A x : Between(x, d, s) => Between(x, d, u)
    BY ONLY <1>10 DEF Between
  <2> QED
    BY <1>13, <1>14, <2>1
<1>16. Append(acc.rows, e) \in Seq(T \cup {e}) /\ Last(<<d>> \o Append(acc.rows, e)) = e
  <2>1. Appended(d, T, acc.rows, e)
    BY <1>14, LastAppended
  <2> QED
    BY <2>1 DEF Appended
<1> DEFINE new == [mails |-> u, rows |-> Append(acc.rows, e)]
<1>17. new.mails = u /\ new.rows = Append(acc.rows, e)
  OBVIOUS
<1> HIDE DEF new
<1>18. SettledOK(d, over, known, n + 1, new)
  BY <1>9, <1>12, <1>15, <1>16, <1>17 DEF SettledOK, g, Q
<1>19. SettledWith(d, over, known, n, acc, a, new)
  BY <1>5, <1>12, <1>13, <1>17 DEF SettledWith, Q, R, u, s, t
<1> QED
  BY <1>11, <1>18, <1>19 DEF new

SettledBody(d, over, known, f, n) ==
    IF n = 0 THEN [mails |-> <<>>, rows |-> <<>>]
    ELSE LET before == f[n - 1]
             auction == {a \in over : a.id = n}
         IN  IF auction = {} THEN before
             ELSE SettleOne(d, known, before, CHOOSE a \in auction : TRUE)

SettledFrom(d, over, known) ==
    CHOOSE f : f = [n \in 0..MaxAuctions |-> SettledBody(d, over, known, f, n)]

LEMMA SettleIs ==
    \A d, over, known : Settle(d, over, known) = SettledFrom(d, over, known)[MaxAuctions]
BY DEF Settle, SettledFrom, SettledBody

\* The function Settle defines by recursion.
LEMMA SettledExists ==
    ASSUME NEW d, NEW over, NEW known
    PROVE  LET f == SettledFrom(d, over, known)
           IN  f = [n \in 0..MaxAuctions |-> SettledBody(d, over, known, f, n)]
<1> DEFINE Body(g, n) == SettledBody(d, over, known, g, n)
           N == {k \in Nat : \E g : g = [n \in 0..k |-> Body(g, n)]}
<1>1. 0 \in N
  <2> DEFINE g == [n \in 0..0 |-> [mails |-> <<>>, rows |-> <<>>]]
  <2>1. g = [n \in 0..0 |-> Body(g, n)]
    BY DEF SettledBody
  <2> QED
    BY <2>1
<1>2. ASSUME NEW k \in Nat, k \in N
      PROVE  k + 1 \in N
  <2>1. PICK g : g = [n \in 0..k |-> Body(g, n)]
    BY <1>2
  <2> DEFINE h == [n \in 0..k + 1 |-> Body(g, n)]
  <2>2. ASSUME NEW n \in 0..k + 1
        PROVE  Body(g, n) = Body(h, n)
    <3>1. CASE n = 0
      BY <3>1 DEF SettledBody
    <3>2. CASE n # 0
      <4>1. n - 1 \in 0..k /\ n - 1 \in 0..k + 1
        BY <3>2
      <4> HIDE DEF Body
      <4>2. h[n - 1] = Body(g, n - 1)
        BY <4>1
      <4>3. g[n - 1] = Body(g, n - 1)
        BY <2>1, <4>1
      <4> HIDE DEF h
      <4> QED
        BY <4>2, <4>3 DEF SettledBody, Body
    <3> QED
      BY <3>1, <3>2
  <2> HIDE DEF Body
  <2>3. h = [n \in 0..k + 1 |-> Body(h, n)]
    BY <2>2
  <2> HIDE DEF h
  <2>4. \E e : e = [n \in 0..k + 1 |-> Body(e, n)]
    BY <2>3
  <2> QED
    BY <2>4
<1> HIDE DEF N
<1>3. MaxAuctions \in N
  BY <1>1, <1>2, NumberInduction, AuctionAssumption
<1> QED
  BY <1>3 DEF N, SettledFrom

LEMMA SettledBodies ==
    ASSUME NEW d, NEW over, NEW known, NEW n \in 0..MaxAuctions
    PROVE  SettledFrom(d, over, known)[n] = SettledBody(d, over, known, SettledFrom(d, over, known), n)
<1> DEFINE f == SettledFrom(d, over, known)
<1>1. f = [k \in 0..MaxAuctions |-> SettledBody(d, over, known, f, k)]
  BY SettledExists
<1> HIDE DEF f
<1>2. f[n] = SettledBody(d, over, known, f, n)
  BY <1>1
<1> QED
  BY <1>2 DEF f

LEMMA SettledSoFar ==
    ASSUME NEW d, NEW over, Settleable(d, over), NEW known, NEW upto \in 0..MaxAuctions
    PROVE  SettledOK(d, over, known, upto, SettledFrom(d, over, known)[upto])
<1> DEFINE f == SettledFrom(d, over, known)
           OK(n) == SettledOK(d, over, known, n, f[n])
           N == {n \in Nat : n \in 0..MaxAuctions => OK(n)}
<1>1. \A n \in 0..MaxAuctions : f[n] = SettledBody(d, over, known, f, n)
  BY SettledBodies
<1> HIDE DEF f
<1>2. \A x \in over : x.id \in Nat /\ x.id # 0
  BY DEF Settleable, Housed, OnSale, AuctionEntry, AuctionId
<1>3. 0 \in N
  <2>1. ASSUME 0 \in 0..MaxAuctions
        PROVE  OK(0)
    <3> DEFINE acc == [mails |-> <<>>, rows |-> <<>>]
    <3>1. f[0] = acc
      BY <1>1, <2>1 DEF SettledBody
    <3>2. acc.mails = <<>> /\ acc.rows = <<>>
      OBVIOUS
    <3> HIDE DEF acc
    <3>3. Notices(acc.mails, Goods(over, known, 0))
      BY <3>2, NoNotices
    <3>4. acc.rows \in Seq({})
      BY <3>2
    <3>5. Last(<<d>> \o acc.rows) = d
      <4>1. <<d>> \o <<>> = <<d>>
        OBVIOUS
      <4> QED
        BY <3>2, <4>1 DEF Last
    <3>6. d = SettledRows(d, acc.mails, Remaining(d, over, 0))
      <4>1. Remaining(d, over, 0) = d.auctions
        BY <1>2 DEF Remaining
      <4>2. d.mails \cup Sent(acc.mails) = d.mails
        BY <3>2, NoDrafts
      <4> QED
        BY <4>1, <4>2 DEF SettledRows, Settleable, RowsOK, Shaped
    <3>7. SettledOK(d, over, known, 0, acc)
      <4>1. \E T : acc.rows \in Seq(T) /\ \A e \in T : Between(e, d, acc.mails)
        BY <3>4
      <4>2. Last(<<d>> \o acc.rows) = SettledRows(d, acc.mails, Remaining(d, over, 0))
        BY <3>5, <3>6
      <4> QED
        BY <3>2, <3>3, <4>1, <4>2 DEF SettledOK
    <3> QED
      BY <3>1, <3>7
  <2> HIDE DEF OK
  <2> QED
    BY <2>1
<1>4. ASSUME NEW n \in Nat, n \in N
      PROVE  n + 1 \in N
  <2>1. ASSUME n + 1 \in 0..MaxAuctions
        PROVE  OK(n + 1)
    <3> DEFINE acc == f[n]
               auction == {a \in over : a.id = n + 1}
    <3>1. n \in 0..MaxAuctions /\ n + 1 # 0 /\ (n + 1) - 1 = n
      BY <2>1, AuctionAssumption
    <3>2. SettledOK(d, over, known, n, acc)
      BY <1>4, <3>1
    <3>3. f[n + 1] = IF auction = {} THEN acc
                     ELSE SettleOne(d, known, acc, CHOOSE a \in auction : TRUE)
      <4>1. f[n + 1] = SettledBody(d, over, known, f, n + 1)
        BY <1>1, <2>1
      <4> QED
        BY <3>1, <4>1 DEF SettledBody
    <3> HIDE DEF acc
    <3>4. CASE auction = {}
      <4>1. \A x \in over : x.id <= n + 1 <=> x.id <= n
        BY <1>2, <3>4
      <4>2. Goods(over, known, n + 1) = Goods(over, known, n)
            /\ Remaining(d, over, n + 1) = Remaining(d, over, n)
        BY <4>1 DEF Goods, Remaining
      <4>3. SettledOK(d, over, known, n + 1, acc)
        BY <3>2, <4>2 DEF SettledOK
      <4> QED
        BY <3>3, <3>4, <4>3
    <3>5. CASE auction # {}
      <4> DEFINE a == CHOOSE a \in auction : TRUE
      <4>1. a \in over /\ a.id = n + 1
        BY <3>5
      <4> HIDE DEF a, auction
      <4>2. SettledOK(d, over, known, n + 1, SettleOne(d, known, acc, a))
        BY <3>2, <4>1, SettleStep
      <4>3. f[n + 1] = SettleOne(d, known, acc, a)
        BY <3>3, <3>5 DEF a
      <4> QED
        BY <4>2, <4>3
    <3> QED
      BY <3>4, <3>5
  <2> HIDE DEF OK
  <2> QED
    BY <2>1
<1> HIDE DEF N
<1>5. upto \in N
  <2>1. upto \in Nat
    BY AuctionAssumption
  <2> HIDE DEF N
  <2> QED
    BY <1>3, <1>4, <2>1, NumberInduction
<1>6. SettledOK(d, over, known, upto, f[upto])
  BY <1>5 DEF N
<1> QED
  BY <1>6 DEF f

LEMMA SettleOK ==
    ASSUME NEW d, NEW over, Settleable(d, over), NEW known
    PROVE  SettledOK(d, over, known, MaxAuctions, Settle(d, over, known))
<1>1. MaxAuctions \in 0..MaxAuctions
  BY AuctionAssumption
<1> QED
  BY <1>1, SettledSoFar, SettleIs

LEMMA SettlementKeeps ==
    ASSUME MailIInv, NEW over, Settleable(Latest, over), NEW known,
           NEW acc, acc = Settle(Latest, over, known), NEW by, CommitAll(acc.rows, by),
           box' = Delivered(box, acc.mails), UNCHANGED <<online, loaded, money, inv>>
    PROVE  /\ MailIInv'
           /\ Latest' = SettledRows(Latest, acc.mails, Remaining(Latest, over, MaxAuctions))
           /\ \A i \in Item : Placed(Latest', i)
                                => Placed(Latest, i) \/ i \in Goods(over, known, MaxAuctions)
           /\ \A e \in Versions' : e \in Versions \/ Between(e, Latest, acc.mails)
           /\ over = {} => acc.rows = <<>>
<1> DEFINE d == Latest
           s == acc.mails
           G == Goods(over, known, MaxAuctions)
           A == Remaining(d, over, MaxAuctions)
           r == SettledRows(d, s, A)
<1>1. SettledOK(d, over, known, MaxAuctions, acc)
  BY SettleOK
<1>2. /\ Notices(s, G) /\ Last(<<d>> \o acc.rows) = r /\ (over = {} => acc.rows = <<>>)
  BY <1>1 DEF SettledOK
<1>3. PICK T : acc.rows \in Seq(T) /\ \A e \in T : Between(e, d, s)
  BY <1>1 DEF SettledOK
<1>4. /\ RowsOK(d) /\ \A x \in d.mails : x.id \in UsedIds
      /\ OnSale(over, d) /\ Queued
  BY DEF Settleable, Housed, MailIInv, DatabaseOK
<1>5. AtHand(G, d)
  BY <1>4 DEF AtHand, Goods, OnSale, AuctionEntry
<1> HIDE DEF d, s, G, A
<1>6. /\ Fresh(Sent(s))
      /\ \A n \in Sent(s) : Answerable(n) /\ n.item \in G \cup {NoItem}
  BY <1>2, <1>4, <1>5, NoticesSent DEF AtHand
<1>7. /\ r.money = d.money /\ r.inv = d.inv /\ r.items = d.items
      /\ r.mails = d.mails \cup Sent(s) /\ r.auctions = A
  BY DEF SettledRows
<1> HIDE DEF r
<1>8. Latest' = r /\ Versions' = Versions \cup {acc.rows[k] : k \in 1..Len(acc.rows)}
  <2>1. /\ Latest' = Last(<<Latest>> \o acc.rows)
        /\ Versions' = Versions \cup {acc.rows[k] : k \in 1..Len(acc.rows)}
    BY <1>3, <1>4, ManyMore
  <2> QED
    BY <1>2, <2>1 DEF d
<1>9. Grown(Latest, Latest') /\ \A e \in T : RowsOK(e) /\ Grown(e, Latest')
  <2>1. Grown(d, r) /\ \A e \in T : RowsOK(e) /\ Grown(e, r)
    BY <1>3, <1>7 DEF Between, Grown
  <2> QED
    BY <1>8, <2>1 DEF d
<1>10. Posted(s, Latest')
  <2>1. Posted(s, r)
    BY <1>5, <1>6, <1>7 DEF Posted, AtHand
  <2> QED
    BY <1>8, <2>1
<1>11. CommitAll(acc.rows, by) /\ box' = Delivered(box, s)
  BY DEF s
<1>12. MailIInv'
  BY <1>3, <1>6, <1>9, <1>10, <1>11, CommitAllKeepsMails
<1>13. \A i \in Item : Placed(r, i) => Placed(d, i) \/ i \in G
  BY <1>6, <1>7, NoItemAssumption DEF Placed
<1>14. \A e \in Versions' : e \in Versions \/ Between(e, d, s)
  <2>1. \A k \in 1..Len(acc.rows) : acc.rows[k] \in T
    BY <1>3, ElementOfSeq
  <2> QED
    BY <1>3, <1>8, <2>1
<1> QED
  BY <1>2, <1>8, <1>12, <1>13, <1>14 DEF d, s, G, A, r

LEMMA UpdateKeeps ==
    ASSUME AuctionIInv, Update
    PROVE  AuctionIInv' /\ (InStep => InStep')
<1> DEFINE acc == Settle(Latest, Over, aitems)
           d == Latest
           s == acc.mails
           A == Remaining(d, Over, MaxAuctions)
           G == Goods(Over, aitems, MaxAuctions)
           r == SettledRows(d, s, A)
<1>1. /\ phase = "up" /\ auctions' = auctions \ Over /\ box' = Delivered(box, acc.mails)
      /\ CommitAll(acc.rows, {})
      /\ UNCHANGED <<online, money, inv, loaded, ended, phase, crashes>>
  BY DEF Update
<1>2. PICK read \in SUBSET {a.item : a \in Over} : aitems' = aitems \ read
  BY DEF Update
<1>3. /\ MailIInv /\ Housed(auctions, d) /\ OnSale(auctions, d) /\ AllOnSale
      /\ d \in Versions /\ RowsOK(d) /\ \A x \in d.mails : x.id \in UsedIds
  BY <1>1, LatestRows DEF AuctionIInv, MailIInv, House, Housed
<1>4. OnSale(d.auctions, d) /\ Over \subseteq auctions
  BY <1>3 DEF AllOnSale, Over
<1>5. Settleable(Latest, Over)
  <2>1. Settleable(d, Over)
    <3> HIDE DEF d
    <3>1. Housed(Over, d)
      BY <1>3, <1>4 DEF Housed, OnSale
    <3> QED
      BY <1>3, <1>4, <3>1 DEF Settleable
  <2> QED
    BY <2>1
<1> HIDE DEF acc
<1>6. /\ MailIInv' /\ Latest' = r
      /\ \A i \in Item : Placed(Latest', i) => Placed(Latest, i) \/ i \in G
      /\ \A e \in Versions' : e \in Versions \/ Between(e, Latest, acc.mails)
  <2>1. acc = Settle(Latest, Over, aitems)
    BY DEF acc
  <2> QED
    BY <1>1, <1>3, <1>5, <2>1, SettlementKeeps
<1>7. r.auctions = A /\ r.items = d.items
  BY DEF SettledRows
<1>8. /\ \A i \in Item : Placed(r, i) => Placed(d, i) \/ i \in G
      /\ \A e \in Versions' : e \in Versions \/ Between(e, d, s)
  BY <1>6
<1> HIDE DEF d, r, s
<1>9. AllOnSale'
  <2>1. \A e \in Versions' : OnSale(e.auctions, e)
    BY <1>3, <1>8 DEF AllOnSale, Between
  <2> QED
    BY <2>1 DEF AllOnSale, OnSale, Placed
<1>10. \A x, y \in auctions : x.id = y.id \/ x.item = y.item => x = y
  BY <1>3 DEF OnSale
<1> DEFINE B == auctions \ Over
<1>11. Housed(B, r)
  <2>1. \A x \in B : x.item \notin G
    BY <1>4, <1>10 DEF Goods
  <2>2. OnSale(B, r)
    <3>1. B \subseteq auctions
      OBVIOUS
    <3> HIDE DEF B, G
    <3> QED
      BY <1>3, <1>7, <1>8, <2>1, <3>1, StillOnSale
  <2>3. \A x \in B, y \in A : Matching(x, y)
    BY <1>3 DEF Housed, Remaining
  <2> QED
    BY <1>7, <2>2, <2>3 DEF Housed
<1>12. House'
  <2>1. Housed(auctions', Latest')
    BY <1>1, <1>6, <1>11
  <2>2. aitems' \subseteq Item /\ ended' \subseteq AuctionId /\ crashes' \in 0..MaxCrashes
    BY <1>1, <1>2 DEF AuctionIInv, House
  <2> QED
    BY <1>1, <2>1, <2>2 DEF House, Housed, OnSale, Placed, Matching
<1>13. AuctionIInv'
  BY <1>6, <1>9, <1>12 DEF AuctionIInv
<1>14. ASSUME InStep PROVE InStep'
  <2>1. auctions = d.auctions /\ \A x \in auctions : x.item \in aitems
    BY <1>1, <1>14 DEF InStep, d
  <2>2. \A x \in Over : x.id <= MaxAuctions
    BY <1>3, <1>4, AuctionAssumption DEF OnSale, AuctionEntry, AuctionId
  <2>3. A = B
    BY <1>4, <1>10, <2>1, <2>2 DEF Remaining
  <2>4. \A x \in B : x.item \in aitems \ read
    BY <1>2, <1>4, <1>10, <2>1
  <2> QED
    BY <1>1, <1>2, <1>6, <1>7, <2>3, <2>4 DEF InStep
<1> QED
  BY <1>13, <1>14

-----------------------------------------------------------------------------
(* Time, crashes and starting up. *)

LEMMA EndKeeps ==
    ASSUME AuctionIInv, NEW id \in AuctionId, End(id)
    PROVE  AuctionIInv' /\ (~EndsWhileDown /\ InStep => InStep')
<1>1. /\ UNCHANGED <<online, money, inv, loaded, box, db, writes, auctions, aitems, phase, crashes>>
      /\ ended' = ended \cup {id} /\ (phase # "down" \/ EndsWhileDown)
  BY DEF End, mailVars, memoryVars, dbVars
<1>2. Latest' = Latest /\ Versions' = Versions
  BY <1>1 DEF Latest, Versions
<1>3. MailIInv'
  BY <1>1, <1>2 DEF AuctionIInv, MailIInv, DatabaseOK, Memory, Queued, AllRowsOK, ReadBack, State,
                    NotListed, Boxes, PursesSaved
<1>4. AllOnSale' /\ House'
  BY <1>1, <1>2 DEF AuctionIInv, AllOnSale, House
<1>5. ~EndsWhileDown /\ InStep => InStep'
  BY <1>1, <1>2 DEF InStep
<1> QED
  BY <1>3, <1>4, <1>5 DEF AuctionIInv

LEMMA IdleKeeps ==
    ASSUME AuctionIInv, UNCHANGED vars
    PROVE  AuctionIInv' /\ (InStep => InStep')
<1>1. UNCHANGED <<online, money, inv, loaded, box, db, writes, auctions, aitems, ended, phase, crashes>>
  BY DEF vars, auctionVars, mailVars, memoryVars, dbVars
<1>2. Latest' = Latest /\ Versions' = Versions
  BY <1>1 DEF Latest, Versions
<1>3. MailIInv'
  BY <1>1, <1>2 DEF AuctionIInv, MailIInv, DatabaseOK, Memory, Queued, AllRowsOK, ReadBack, State,
                    NotListed, Boxes, PursesSaved
<1>4. AllOnSale' /\ House'
  BY <1>1, <1>2 DEF AuctionIInv, AllOnSale, House
<1>5. InStep => InStep'
  BY <1>1, <1>2 DEF InStep
<1> QED
  BY <1>3, <1>4, <1>5 DEF AuctionIInv

\* A session moves goods between inventories and mails.
LEMMA SessionInHouse ==
    ASSUME AuctionIInv, phase = "up", SessionNext, UNCHANGED auctionVars
    PROVE  AuctionIInv' /\ (InStep => InStep')
<1>1. UNCHANGED <<auctions, aitems, ended, phase, crashes>>
  BY DEF auctionVars
<1> DEFINE d == Latest
           r == Latest'
<1>2. /\ MailIInv' /\ GoodsMoved(d, r) /\ Versions' \subseteq Versions \cup {r}
      /\ Housed(auctions, d) /\ OnSale(auctions, d) /\ AllOnSale /\ d \in Versions
  BY SessionKeeps, LatestRows DEF Moved, AuctionIInv, House, Housed, MailIInv
<1> HIDE DEF d, r
<1>3. ASSUME NEW A, OnSale(A, d)
      PROVE  OnSale(A, r)
  BY <1>2, <1>3 DEF OnSale, GoodsMoved, AuctionEntry
<1>4. OnSale(r.auctions, r) /\ Housed(auctions, r)
  <2>1. OnSale(d.auctions, d) /\ r.auctions = d.auctions
    BY <1>2 DEF AllOnSale, GoodsMoved
  <2> QED
    BY <1>2, <1>3, <2>1 DEF Housed
<1>5. AllOnSale'
  <2>1. \A e \in Versions' : OnSale(e.auctions, e)
    BY <1>2, <1>4 DEF AllOnSale
  <2> QED
    BY <2>1 DEF AllOnSale, OnSale, Placed
<1>6. House'
  <2>1. Housed(auctions', Latest')
    BY <1>1, <1>4 DEF r
  <2> QED
    BY <1>1, <2>1 DEF AuctionIInv, House, Housed, OnSale, Placed, Matching
<1>7. InStep => InStep'
  BY <1>1, <1>2 DEF InStep, GoodsMoved, d, r
<1> QED
  BY <1>2, <1>5, <1>6, <1>7 DEF AuctionIInv

LEMMA WorkerInHouse ==
    ASSUME AuctionIInv, WorkerNext, UNCHANGED auctionVars
    PROVE  AuctionIInv' /\ (InStep => InStep')
<1>1. UNCHANGED <<auctions, aitems, ended, phase, crashes>>
  BY DEF auctionVars
<1>2. MailIInv' /\ Latest' = Latest /\ Versions' \subseteq Versions /\ online' = online
  BY ExecuteKeeps DEF AuctionIInv, WorkerNext, memoryVars
<1>3. AllOnSale'
  <2>1. \A e \in Versions' : OnSale(e.auctions, e)
    BY <1>2 DEF AuctionIInv, AllOnSale
  <2> QED
    BY <2>1 DEF AllOnSale, OnSale, Placed
<1>4. House'
  <2>1. /\ phase = "up" => Housed(auctions, Latest)
        /\ phase # "up" => \A d \in Versions' : Housed(d.auctions, Latest)
    BY <1>2 DEF AuctionIInv, House
  <2> QED
    BY <1>1, <1>2, <2>1 DEF AuctionIInv, House, Housed, OnSale, Placed, Matching
<1>5. InStep => InStep'
  <2>1. writes # <<>>
    BY DEF WorkerNext, ExecuteNext
  <2> QED
    BY <1>1, <1>2, <2>1 DEF InStep, AuctionIInv, House
<1> QED
  BY <1>2, <1>3, <1>4, <1>5 DEF AuctionIInv

LEMMA CrashInHouse ==
    ASSUME AuctionIInv, AuctionCrash
    PROVE  AuctionIInv' /\ (~EndsWhileDown /\ InStep => InStep')
<1>1. /\ crashes < MaxCrashes /\ crashes' = crashes + 1
      /\ (EndsWhileDown \/ \A a \in db.auctions : a.id \notin ended)
      /\ Crash /\ auctions' = {} /\ aitems' = {} /\ phase' = "down" /\ ended' = ended
  BY DEF AuctionCrash
<1>2. /\ MailIInv' /\ Latest' = db /\ Versions' = {db} /\ db' = db /\ writes' = <<>>
      /\ online' = {}
  BY <1>1, CrashKeeps DEF AuctionIInv, Crash, LoseQueue
<1>3. OnSale(db.auctions, db)
  BY LatestRows DEF AuctionIInv, AllOnSale, MailIInv
<1>4. AllOnSale'
  <2>1. \A e \in Versions' : OnSale(e.auctions, e)
    BY <1>2, <1>3
  <2> QED
    BY <2>1 DEF AllOnSale, OnSale, Placed
<1>5. House'
  <2>1. Housed(db.auctions, db)
    BY <1>3 DEF Housed, OnSale, Matching
  <2>2. \A d \in Versions' : Housed(d.auctions, Latest')
    BY <1>2, <2>1
  <2>3. crashes' \in 0..MaxCrashes
    BY <1>1, AuctionAssumption DEF AuctionIInv, House
  <2> QED
    BY <1>1, <1>2, <2>2, <2>3 DEF AuctionIInv, House, Housed, OnSale, Placed, Matching
<1>6. ~EndsWhileDown /\ InStep => InStep'
  BY <1>1, <1>2 DEF InStep
<1> QED
  BY <1>2, <1>4, <1>5, <1>6 DEF AuctionIInv

LEMMA LoadAuctionItemsKeeps ==
    ASSUME AuctionIInv, LoadAuctionItems
    PROVE  AuctionIInv' /\ (InStep => InStep')
<1>1. /\ UNCHANGED <<online, money, inv, loaded, box, db, writes, auctions, ended, crashes>>
      /\ phase = "items" /\ phase' = "auctions"
      /\ aitems' = {a.item : a \in db.auctions} \cap db.items
  BY DEF LoadAuctionItems, mailVars, memoryVars, dbVars
<1>2. Latest' = Latest /\ Versions' = Versions
  BY <1>1 DEF Latest, Versions
<1>3. MailIInv'
  BY <1>1, <1>2 DEF AuctionIInv, MailIInv, DatabaseOK, Memory, Queued, AllRowsOK, ReadBack, State,
                    NotListed, Boxes, PursesSaved
<1>4. OnSale(db.auctions, db)
  BY LatestRows DEF AuctionIInv, AllOnSale, MailIInv
<1>5. AllOnSale' /\ House'
  <2>1. aitems' \subseteq Item
    BY <1>1, <1>4 DEF OnSale, AuctionEntry
  <2> QED
    BY <1>1, <1>2, <2>1 DEF AuctionIInv, AllOnSale, House
<1>6. InStep => InStep'
  <2>1. \A a \in db.auctions : a.item \in aitems'
    BY <1>1, <1>4 DEF OnSale
  <2> QED
    BY <1>1, <2>1 DEF InStep
<1> QED
  BY <1>3, <1>5, <1>6 DEF AuctionIInv

LEMMA DeleteExpiredKeeps ==
    ASSUME AuctionIInv, DeleteExpiredAuctionsAtStartup
    PROVE  AuctionIInv' /\ (~EndsWhileDown /\ InStep => InStep')
<1> DEFINE over == {a \in db.auctions : a.id \in ended /\ a.item \in db.items}
           none == {}
           acc == Settle(Latest, over, none)
           d == Latest
           s == acc.mails
           A == Remaining(d, over, MaxAuctions)
           r == SettledRows(d, s, A)
<1>1. /\ phase = "down" /\ phase' = "items" /\ CommitAll(acc.rows, Player)
      /\ UNCHANGED <<online, money, inv, loaded, box, auctions, aitems, ended, crashes>>
  BY DEF DeleteExpiredAuctionsAtStartup, memoryVars
<1>2. /\ MailIInv /\ AllOnSale /\ online = {} /\ auctions = {}
      /\ \A e \in Versions : Housed(e.auctions, d)
      /\ d \in Versions /\ db \in Versions /\ RowsOK(d) /\ \A x \in d.mails : x.id \in UsedIds
  BY <1>1, LatestRows DEF AuctionIInv, MailIInv, House
<1>3. Settleable(Latest, over)
  <2>1. Settleable(d, over)
    <3> HIDE DEF d
    <3>1. Housed(over, d)
      BY <1>2 DEF Housed, OnSale
    <3> QED
      BY <1>2, <3>1 DEF Settleable, AllOnSale
  <2> QED
    BY <2>1
<1>4. box' = Delivered(box, acc.mails)
  <2> HIDE DEF acc
  <2>1. loaded = {} /\ box = [q \in Player |-> box[q]]
    BY <1>2 DEF MailIInv, Memory
  <2> QED
    BY <1>1, <2>1 DEF Delivered
<1>5. \A i : i \notin Goods(over, none, MaxAuctions)
  BY DEF Goods
<1> HIDE DEF over, none
<1>6. /\ MailIInv' /\ Latest' = r
      /\ \A i \in Item : Placed(Latest', i) => Placed(Latest, i)
      /\ \A e \in Versions' : e \in Versions \/ Between(e, Latest, acc.mails)
      /\ over = {} => acc.rows = <<>>
  <2> HIDE DEF acc, r
  <2>1. acc = Settle(Latest, over, none)
    BY DEF acc
  <2>2. /\ MailIInv' /\ Latest' = SettledRows(Latest, acc.mails, Remaining(Latest, over, MaxAuctions))
        /\ \A i \in Item : Placed(Latest', i)
                             => Placed(Latest, i) \/ i \in Goods(over, none, MaxAuctions)
        /\ \A e \in Versions' : e \in Versions \/ Between(e, Latest, acc.mails)
        /\ over = {} => acc.rows = <<>>
    BY <1>1, <1>2, <1>3, <1>4, <2>1, SettlementKeeps
  <2> QED
    BY <1>5, <2>2 DEF r
<1>7. r.auctions \subseteq d.auctions /\ r.items = d.items
  BY DEF SettledRows, Remaining
<1>8. /\ \A i \in Item : Placed(r, i) => Placed(d, i)
      /\ \A e \in Versions' : e \in Versions \/ Between(e, d, s)
  BY <1>6
<1>9. CommitAll(acc.rows, Player) /\ (over = {} => acc.rows = <<>>)
  BY <1>1, <1>6
<1> HIDE DEF d, r, s, acc
<1>10. AllOnSale'
  <2>1. \A e \in Versions' : OnSale(e.auctions, e)
    BY <1>2, <1>8 DEF AllOnSale, Between
  <2> QED
    BY <2>1 DEF AllOnSale, OnSale, Placed
<1>11. \A e \in Versions' : Housed(e.auctions, r)
  <2>1. \A B : OnSale(B, d) => OnSale(B, r)
    BY <1>7, <1>8 DEF OnSale, AuctionEntry
  <2>2. Housed(d.auctions, d)
    BY <1>2
  <2>3. \A B : Housed(B, d) => Housed(B, r)
    BY <1>7, <2>1 DEF Housed
  <2>4. ASSUME NEW e, Between(e, d, s)
        PROVE  Housed(e.auctions, d)
    BY <2>2, <2>4 DEF Between, Housed, OnSale
  <2> QED
    BY <1>2, <1>8, <2>3, <2>4
<1>12. House'
  <2>1. \A e \in Versions' : Housed(e.auctions, Latest')
    BY <1>6, <1>11
  <2> QED
    BY <1>1, <1>2, <2>1 DEF AuctionIInv, House, Housed, OnSale, Placed, Matching
<1>13. ASSUME ~EndsWhileDown, InStep
       PROVE  InStep'
  <2>1. writes = <<>> /\ over = {}
    BY <1>1, <1>13 DEF InStep, over
  <2>2. acc.rows = <<>>
    BY <1>9, <2>1
  <2>3. writes' = <<>>
    <3>1. writes' = writes \o [k \in DOMAIN acc.rows |-> [rows |-> acc.rows[k], by |-> Player]]
      BY <1>9 DEF CommitAll
    <3>2. [k \in DOMAIN acc.rows |-> [rows |-> acc.rows[k], by |-> Player]] = <<>>
      BY <2>2
    <3> QED
      BY <2>1, <3>1, <3>2
  <2> QED
    BY <1>1, <2>3 DEF InStep
<1> QED
  BY <1>6, <1>10, <1>12, <1>13 DEF AuctionIInv

LEMMA LoadAuctionsKeeps ==
    ASSUME AuctionIInv, LoadAuctions
    PROVE  AuctionIInv' /\ (InStep => InStep')
<1> DEFINE rows == {a \in db.auctions : a.item \in db.items}
           unknown == {a \in rows : a.item \notin aitems}
           d == Latest
           A == d.auctions \ unknown
           r == [d EXCEPT !.auctions = A]
<1>1. /\ phase = "auctions" /\ phase' = "up" /\ auctions' = rows \ unknown
      /\ unknown = {} => UNCHANGED <<db, writes>>
      /\ unknown # {} => CommitAll(<<r>>, Player)
      /\ UNCHANGED <<online, money, inv, loaded, box, aitems, ended, crashes>>
  BY DEF LoadAuctions, memoryVars, dbVars
<1>2. /\ MailIInv /\ AllOnSale /\ online = {}
      /\ \A e \in Versions : Housed(e.auctions, d)
      /\ d \in Versions /\ db \in Versions /\ RowsOK(d)
  BY <1>1, LatestRows DEF AuctionIInv, MailIInv, House
<1> DEFINE B == rows \ unknown
<1>3. B \subseteq db.auctions /\ Housed(B, d)
  <2> HIDE DEF d, unknown
  <2> QED
    BY <1>2 DEF Housed, OnSale
<1>4. CASE unknown = {}
  <2>1. Latest' = Latest /\ Versions' = Versions /\ UNCHANGED <<db, writes>>
    BY <1>1, <1>4 DEF Latest, Versions
  <2>2. MailIInv'
    BY <1>1, <1>2, <2>1 DEF MailIInv, DatabaseOK, Memory, Queued, AllRowsOK, ReadBack, State,
                            NotListed, Boxes, PursesSaved
  <2>3. AllOnSale' /\ House'
    <3>1. Housed(auctions', Latest')
      BY <1>1, <1>3, <2>1
    <3> HIDE DEF rows, unknown
    <3> QED
      BY <1>1, <2>1, <3>1 DEF AuctionIInv, AllOnSale, House
  <2>4. ASSUME InStep PROVE InStep'
    <3>1. writes = <<>> /\ \A a \in db.auctions : a.item \in aitems
      BY <1>1, <2>4 DEF InStep
    <3>2. Latest = db /\ \A a \in db.auctions : a.item \in db.items
      BY <1>2, <3>1 DEF Latest, AllOnSale, OnSale
    <3>3. auctions' = db.auctions
      BY <1>1, <1>4, <3>2
    <3> HIDE DEF rows, unknown, d
    <3> QED
      BY <1>1, <2>1, <3>1, <3>2, <3>3 DEF InStep
  <2> QED
    BY <2>2, <2>3, <2>4 DEF AuctionIInv
<1>5. CASE unknown # {}
  <2>1. /\ RowsOK(r) /\ r.auctions = A
        /\ r.money = d.money /\ r.inv = d.inv /\ r.items = d.items /\ r.mails = d.mails
    BY <1>2, AuctionsSet
  <2>2. CommitAll(<<r>>, Player)
    BY <1>1, <1>5
  <2> HIDE DEF r, d, unknown, rows
  <2> DEFINE T == {r}
             none == <<>>
  <2>3. <<r>> \in Seq(T) /\ Len(<<r>>) = 1 /\ <<r>>[1] = r
    OBVIOUS
  <2>4. Latest' = r /\ \A e \in Versions' : e \in Versions \/ e = r
    <3>1. Queued
      BY <1>2 DEF MailIInv, DatabaseOK
    <3>2. /\ Latest' = Last(<<Latest>> \o <<r>>)
          /\ Versions' = Versions \cup {<<r>>[k] : k \in 1..Len(<<r>>)}
      BY <2>2, <2>3, <3>1, ManyMore
    <3>3. Last(<<Latest>> \o <<r>>) = r
      BY DEF Last
    <3> QED
      BY <2>3, <3>2, <3>3
  <2>5. Grown(d, r) /\ \A e \in T : RowsOK(e) /\ Grown(e, r)
    BY <2>1 DEF Grown
  <2>6. Grown(Latest, Latest') /\ \A e \in T : RowsOK(e) /\ Grown(e, Latest')
    BY <2>4, <2>5 DEF d
  <2>7. Fresh(Sent(none)) /\ Posted(none, Latest')
    BY NoDrafts DEF Fresh, OneEach
  <2>8. box' = Delivered(box, none)
    <3>1. box = [q \in Player |-> box[q]]
      BY <1>2 DEF MailIInv, Memory
    <3> QED
      BY <1>1, <3>1, NothingDelivered
  <2>9. MailIInv'
    <3> DEFINE many == <<r>>
    <3>1. many \in Seq(T) /\ CommitAll(many, Player)
      BY <2>2, <2>3
    <3> HIDE DEF many, T, none
    <3> QED
      BY <1>1, <1>2, <2>6, <2>7, <2>8, <3>1, CommitAllKeepsMails
  <2>10. \A e : OnSale(e, d) => OnSale(e, r)
    BY <2>1 DEF OnSale, Placed
  <2>11. OnSale(r.auctions, r)
    <3>1. OnSale(d.auctions, d) /\ A \subseteq d.auctions
      BY <1>2 DEF AllOnSale
    <3>2. OnSale(A, d)
      BY <3>1 DEF OnSale
    <3> QED
      BY <2>1, <2>10, <3>2
  <2>12. AllOnSale'
    <3>1. \A e \in Versions' : OnSale(e.auctions, e)
      BY <1>2, <2>4, <2>11 DEF AllOnSale
    <3> QED
      BY <3>1 DEF AllOnSale, OnSale, Placed
  <2>13. Housed(auctions', Latest')
    <3>1. Housed(B, r)
      BY <1>3, <2>1, <2>10 DEF Housed
    <3> QED
      BY <1>1, <2>4, <3>1
  <2>14. House'
    BY <1>1, <2>13 DEF AuctionIInv, House, Housed, OnSale, Placed, Matching
  <2>15. ~InStep
    BY <1>1, <1>5 DEF InStep, unknown, rows
  <2> QED
    BY <2>9, <2>12, <2>14, <2>15 DEF AuctionIInv
<1> QED
  BY <1>4, <1>5

-----------------------------------------------------------------------------
(* The invariant of auctions. *)

LEMMA InitInHouse ==
    ASSUME Init
    PROVE  AuctionIInv /\ InStep
<1>1. /\ MailInit /\ auctions = {} /\ aitems = {} /\ ended = {} /\ phase = "up" /\ crashes = 0
  BY DEF Init
<1>2. MailIInv /\ writes = <<>> /\ db.auctions = {}
  <2>1. PICK owner \in [Item -> Player] :
           db = [money |-> [p \in Player |-> StartMoney],
                 inv |-> [p \in Player |-> {i \in Item : owner[i] = p}],
                 items |-> Item, mails |-> {}, auctions |-> {}]
    BY <1>1 DEF MailInit
  <2>2. db.auctions = {}
    BY <2>1
  <2> QED
    BY <1>1, <2>2, InitMails DEF MailInit
<1>3. Latest = db /\ Versions = {db}
  BY <1>2 DEF Latest, Versions
<1>4. AllOnSale /\ House
  <2>1. OnSale(auctions, db) /\ OnSale(db.auctions, db)
    BY <1>1, <1>2 DEF OnSale
  <2>2. Housed(auctions, Latest)
    BY <1>1, <1>3, <2>1 DEF Housed
  <2>3. crashes \in 0..MaxCrashes
    BY <1>1, AuctionAssumption
  <2> QED
    BY <1>1, <1>3, <2>1, <2>2, <2>3 DEF AllOnSale, House
<1>5. InStep
  BY <1>1, <1>2, <1>3 DEF InStep
<1> QED
  BY <1>2, <1>4, <1>5 DEF AuctionIInv

LEMMA BidNextKeeps ==
    ASSUME AuctionIInv, BidNext
    PROVE  AuctionIInv' /\ (InStep => InStep')
<1>1. PICK p \in online :
         \/ \E i \in inv[p], startbid \in StartBids, buyout \in Buyouts :
               SellItem(p, i, startbid, buyout)
         \/ \E a \in auctions : RemoveItem(p, a)
         \/ \E a \in auctions, price \in Prices : PlaceBid(p, a, price) \/ Buyout(p, a, price)
  BY DEF BidNext
<1>2. CASE \E i \in inv[p], startbid \in StartBids, buyout \in Buyouts :
              SellItem(p, i, startbid, buyout)
  BY <1>2, SellItemKeeps
<1>3. CASE \E a \in auctions : RemoveItem(p, a)
  BY <1>3, RemoveItemKeeps
<1>4. CASE \E a \in auctions, price \in Prices : PlaceBid(p, a, price) \/ Buyout(p, a, price)
  BY <1>4, PlaceBidKeeps, BuyoutKeeps
<1> QED
  BY <1>1, <1>2, <1>3, <1>4

LEMMA StepsKeepHouse ==
    ASSUME AuctionIInv, [Next]_vars
    PROVE  AuctionIInv' /\ (~EndsWhileDown /\ InStep => InStep')
<1>1. CASE phase = "up" /\ SessionNext /\ UNCHANGED auctionVars
  BY <1>1, SessionInHouse
<1>2. CASE BidNext
  BY <1>2, BidNextKeeps
<1>3. CASE \E id \in AuctionId : End(id)
  BY <1>3, EndKeeps
<1>4. CASE Update
  BY <1>4, UpdateKeeps
<1>5. CASE StartupNext
  BY <1>5, DeleteExpiredKeeps, LoadAuctionItemsKeeps, LoadAuctionsKeeps DEF StartupNext
<1>6. CASE WorkerNext /\ UNCHANGED auctionVars
  BY <1>6, WorkerInHouse
<1>7. CASE AuctionCrash
  BY <1>7, CrashInHouse
<1>8. CASE UNCHANGED vars
  BY <1>8, IdleKeeps
<1> QED
  BY <1>1, <1>2, <1>3, <1>4, <1>5, <1>6, <1>7, <1>8 DEF Next

LEMMA HouseInvariant == Spec => []AuctionIInv
<1>1. Init => AuctionIInv
  BY InitInHouse
<1>2. AuctionIInv /\ [Next]_vars => AuctionIInv'
  BY StepsKeepHouse
<1> QED
  BY <1>1, <1>2, PTL DEF Spec

LEMMA AuctionTypesAreRight ==
    ASSUME AuctionIInv
    PROVE  TypeOK
<1>1. MailTypeOK
  BY TypesAreRight DEF AuctionIInv
<1>2. \A d \in Versions : d.auctions \subseteq AuctionEntry
  BY DEF AuctionIInv, AllOnSale, OnSale
<1>3. auctions \subseteq AuctionEntry
  BY DEF AuctionIInv, House, Housed, OnSale
<1> QED
  BY <1>1, <1>2, <1>3 DEF TypeOK, AuctionIInv, House

\* Whoever bids, buys, takes an auction back, lets one end or crashes the
\* server, and also when auctions end while it is down: an item is never in two
\* of the inventories, mailboxes and auctions, in memory or in any rows a crash
\* may leave behind.
THEOREM GoodsAreInOnePlace == Spec => []GoodsInOnePlace
<1>1. ASSUME AuctionIInv, NEW i \in Item
      PROVE  AtMostOne(ObjectPlaces(i)) /\ \A d \in Versions : AtMostOne(Places(d, i))
  <2>1. /\ MailIInv /\ Memory /\ Boxes /\ PursesSaved /\ DatabaseOK /\ i # NoItem
        /\ AllOnSale /\ House
    BY <1>1, NoItemAssumption DEF AuctionIInv, MailIInv
  <2>2. AtMostOne(MemoryPlaces(i)) /\ \A d \in Versions : AtMostOne(MailPlaces(d, i))
    BY <2>1, OneMailPlace
  <2>3. ASSUME NEW d \in Versions
        PROVE  AtMostOne(Places(d, i))
    <3>1. OnSale(d.auctions, d)
      BY <2>1 DEF AllOnSale
    <3>2. \A a, b \in d.auctions : a.item = i /\ b.item = i => a = b
      BY <3>1 DEF OnSale
    <3>3. \A a \in d.auctions : a.item = i => MailPlaces(d, i) = {}
      BY <3>1 DEF OnSale, Placed, MailPlaces
    <3> DEFINE sold == {[auction |-> a.id] : a \in {b \in d.auctions : b.item = i}}
    <3>4. AtMostOne(sold) /\ (sold # {} => MailPlaces(d, i) = {})
      BY <3>2, <3>3 DEF AtMostOne
    <3> HIDE DEF sold
    <3>5. AtMostOne(MailPlaces(d, i) \cup sold)
      BY <2>2, <3>4 DEF AtMostOne
    <3> QED
      BY <3>5 DEF Places, sold
  <2>4. AtMostOne(ObjectPlaces(i))
    <3>1. CASE phase = "up"
      <4>1. OnSale(auctions, Latest)
        BY <2>1, <3>1 DEF House, Housed
      <4>2. \A p \in Player : i \in inv[p] => Placed(Latest, i)
        BY <2>1 DEF Memory, PursesSaved, Placed
      <4>3. \A p \in Player : \A m \in box[p] : m.item = i => Placed(Latest, i)
        BY <2>1 DEF Boxes, BoxOK, RowOf, Placed
      <4>4. \A a \in auctions : a.item = i => MemoryPlaces(i) = {}
        BY <4>1, <4>2, <4>3 DEF OnSale, MemoryPlaces
      <4>5. \A a, b \in auctions : a.item = i /\ b.item = i => a = b
        BY <4>1 DEF OnSale
      <4> DEFINE sold == {[auction |-> a.id] : a \in {b \in auctions : b.item = i}}
      <4>6. AtMostOne(sold) /\ (sold # {} => MemoryPlaces(i) = {})
        BY <4>4, <4>5 DEF AtMostOne
      <4> HIDE DEF sold
      <4>7. AtMostOne(MemoryPlaces(i) \cup sold)
        BY <2>2, <4>6 DEF AtMostOne
      <4> QED
        BY <4>7 DEF ObjectPlaces, sold
    <3>2. CASE phase # "up"
      <4>1. auctions = {}
        BY <2>1, <3>2 DEF House
      <4>2. ObjectPlaces(i) = MemoryPlaces(i)
        BY <4>1 DEF ObjectPlaces
      <4> QED
        BY <2>2, <4>2
    <3> QED
      BY <3>1, <3>2
  <2> QED
    BY <2>3, <2>4
<1>2. AuctionIInv => GoodsInOnePlace
  BY <1>1, AuctionTypesAreRight DEF GoodsInOnePlace
<1> QED
  BY <1>2, HouseInvariant, PTL

\* If no auction ends while the server is down, the auctions bidders see are
\* those of the newest rows, with the same bids, and the item of each is at
\* hand: a bid, a buyout or a settlement never finds an auction the rows lack.
THEOREM AuctionsAreSaved == ASSUME ~EndsWhileDown PROVE Spec => []AuctionsSaved
<1>1. Init => AuctionIInv /\ InStep
  BY InitInHouse
<1>2. AuctionIInv /\ InStep /\ [Next]_vars => (AuctionIInv /\ InStep)'
  BY StepsKeepHouse
<1>3. AuctionIInv /\ InStep => AuctionsSaved
  BY DEF InStep, AuctionsSaved
<1> QED
  BY <1>1, <1>2, <1>3, PTL DEF Spec

-----------------------------------------------------------------------------
(* Money in purses and in mails. *)

MoneyIn == [m \in Mail |-> m.money]

InMail(S) == SumFunctionOnSet(MoneyIn, S)

Wallet(d) == SumFunctionOnSet(d.money, Player)

\* Mails with ids of their own: they are finite, and so is the money in them.
LEMMA MailMoney ==
    ASSUME NEW S, S \subseteq Mail, OneEach(S)
    PROVE  /\ IsFiniteSet(S) /\ InMail(S) \in Nat /\ \A m \in S : MoneyIn[m] = m.money /\ m.money \in Nat
           /\ \A R \in SUBSET S : InMail(R) <= InMail(S) /\ InMail(R) \in Nat
<1> DEFINE key == [m \in S |-> m.id]
<1>1. \A m \in S : key[m] \in 1..MaxMails /\ MoneyIn[m] = m.money /\ m.money \in Nat
  BY DEF Mail, MailId, MoneyIn
<1>2. \A m, n \in S : key[m] = key[n] => m = n
  BY DEF OneEach
<1> HIDE DEF key
<1>3. IsFiniteSet(S)
  BY <1>1, <1>2, MailsAssumption, NumberedFinite
<1>4. \A m \in S : MoneyIn[m] \in Nat
  BY <1>1
<1>5. \A R \in SUBSET S : InMail(R) <= InMail(S) /\ InMail(R) \in Nat
  BY <1>3, <1>4, SumPart DEF InMail
<1>6. InMail(S) \in Nat
  BY <1>5
<1> QED BY <1>1, <1>3, <1>5, <1>6

\* One mail more.
LEMMA OneMailMore ==
    ASSUME NEW S, S \subseteq Mail, OneEach(S), NEW m \in Mail, m \notin S
    PROVE  InMail(S \cup {m}) = InMail(S) + m.money
<1>1. IsFiniteSet(S) /\ InMail(S) \in Nat /\ \A x \in S : MoneyIn[x] = x.money /\ x.money \in Nat
  BY MailMoney
<1>2. MoneyIn[m] = m.money /\ m.money \in Nat
  BY DEF MoneyIn, Mail
<1>3. \A x \in S \cup {m} : MoneyIn[x] \in Int
  BY <1>1, <1>2
<1>4. SumFunctionOnSet(MoneyIn, S \cup {m}) = MoneyIn[m] + SumFunctionOnSet(MoneyIn, S)
  BY <1>1, <1>3, SumAdd
<1> QED BY <1>1, <1>2, <1>4 DEF InMail

\* All the money there is: that in purses and that in mails.
LEMMA TotalIs ==
    ASSUME NEW d, RowsOK(d)
    PROVE  /\ Total(d) = Wallet(d) + InMail(d.mails)
           /\ Wallet(d) \in Nat /\ InMail(d.mails) \in Nat
           /\ \A q \in Player : /\ Worth(d, q) = d.money[q] + InMail({m \in d.mails : m.to = q})
                                /\ InMail({m \in d.mails : m.to = q}) \in Nat
                                /\ d.money[q] \in Nat
<1> DEFINE part(q) == {m \in d.mails : m.to = q}
           posts == [q \in Player |-> InMail(part(q))]
           key == [m \in d.mails |-> m.to]
           worths == [q \in Player |-> Worth(d, q)]
           M == d.mails
<1>1. /\ M \subseteq Mail /\ OneEach(M) /\ d.money \in [Player -> 0..MaxMoney]
      /\ \A m \in M : m.to \in Player
  BY RowsFields DEF OneEach, Mail
<1>2. IsFiniteSet(M) /\ InMail(M) \in Nat /\ \A m \in M : MoneyIn[m] = m.money /\ m.money \in Nat
  BY <1>1, MailMoney
<1>3. \A R \in SUBSET M : InMail(R) \in Nat
  BY <1>1, MailMoney
<1>4. \A q \in Player : d.money[q] \in Nat
  BY <1>1, MoneyAssumption
<1>5. ASSUME NEW q \in Player
      PROVE  Worth(d, q) = d.money[q] + InMail(part(q))
  <2> DEFINE f == [m \in d.mails |-> m.money]
             R == part(q)
  <2>1. R \in SUBSET M /\ IsFiniteSet(R)
    BY <1>2, FS_Subset
  <2>2. \A m \in R : f[m] \in Int /\ f[m] = MoneyIn[m]
    BY <1>2
  <2> HIDE DEF f, R
  <2>3. SumFunctionOnSet(f, R) = SumFunctionOnSet(MoneyIn, R)
    BY <2>1, <2>2, SumSame
  <2> QED BY <2>3 DEF Worth, InMail, f, R
<1>6. SumFunctionOnSet(posts, Player) = InMail(M)
  <2>1. \A m \in M : key[m] \in Player /\ MoneyIn[m] \in Int
    BY <1>1, <1>2
  <2> DEFINE parts == [q \in Player |-> part(q)]
  <2>2. \A q \in Player : posts[q] = SumFunctionOnSet(MoneyIn, parts[q])
    BY DEF InMail
  <2>5. \A q \in Player : parts[q] \subseteq M /\ \A m \in M : m \in parts[q] <=> key[m] = q
    OBVIOUS
  <2> HIDE DEF posts, key, M, parts
  <2>3. IsFiniteSet(M) /\ IsFiniteSet(Player)
    BY <1>2, PlayerAssumption
  <2>4. SumFunctionOnSet(posts, Player) = SumFunctionOnSet(MoneyIn, M)
    BY <2>1, <2>2, <2>3, <2>5, SumParts
  <2> QED BY <2>4 DEF InMail
<1>7. /\ \A q \in Player : d.money[q] \in Int /\ posts[q] \in Int /\ worths[q] = d.money[q] + posts[q]
      /\ \A q \in Player : posts[q] \in Nat
  BY <1>3, <1>4, <1>5
<1>8. Total(d) = SumFunctionOnSet(worths, Player)
  BY DEF Total, SumFunction, SumFunctionOnSet
<1>9. Wallet(d) \in Nat
  BY <1>4, PlayerAssumption, SumPart DEF Wallet
<1> HIDE DEF posts, worths
<1>10. SumFunctionOnSet(worths, Player) = Wallet(d) + SumFunctionOnSet(posts, Player)
  BY <1>7, PlayerAssumption, SumPlus DEF Wallet
<1> QED BY <1>2, <1>3, <1>4, <1>5, <1>6, <1>8, <1>9, <1>10

\* A save of mails whose money was not raised, row by row.
LEMMA SavedMoney ==
    ASSUME NEW d, RowsOK(d), NEW mails, Savable(mails, d), NEW g,
           \A x \in d.mails : g[x] \in Nat /\ UpdateRow(x, mails).money <= g[x]
    PROVE  InMail(SaveMail(d, mails).mails) <= SumFunctionOnSet(g, d.mails)
<1> DEFINE r == SaveMail(d, mails)
           M == d.mails
           N == r.mails
           h == [y \in N |-> CHOOSE x \in M : y = UpdateRow(x, mails)]
<1>1. RowsOK(r)
  BY MailsSaved
<1>2. \A y \in N : \E x \in M : y = UpdateRow(x, mails)
  BY DEF SaveMail, RowsOK, Shaped
<1> HIDE DEF r
<1>3. /\ N \subseteq Mail /\ OneEach(N) /\ M \subseteq Mail /\ OneEach(M)
  BY <1>1, RowsFields DEF OneEach
<1>4. \A y \in N : h[y] \in M /\ y = UpdateRow(h[y], mails)
  BY <1>2
<1> HIDE DEF h, N, M
<1>5. \A x, y \in N : h[x] = h[y] => x = y
  BY <1>4
<1>6. IsFiniteSet(M) /\ IsFiniteSet(N) /\ \A y \in N : MoneyIn[y] = y.money /\ y.money \in Nat
  BY <1>3, MailMoney
<1>7. \A x \in M : g[x] \in Nat
  BY DEF M
<1>8. \A y \in N : MoneyIn[y] \in Nat /\ MoneyIn[y] <= g[h[y]]
  BY <1>4, <1>6 DEF M
<1>9. \A y \in N : h[y] \in M
  BY <1>4
<1>10. SumFunctionOnSet(MoneyIn, N) <= SumFunctionOnSet(g, M)
  BY <1>5, <1>6, <1>7, <1>8, <1>9, SumInto
<1> QED BY <1>10 DEF InMail, N, M, r

\* The mails in memory have the money of their rows, or less.
Modest(mails, d) == \A m \in mails, x \in d.mails : m.id = x.id => m.money <= x.money

LEMMA RowMoney ==
    ASSUME NEW d, RowsOK(d), NEW mails, Savable(mails, d), Modest(mails, d), NEW x \in d.mails
    PROVE  /\ UpdateRow(x, mails).money <= x.money /\ x.money \in Nat
           /\ \A m \in mails : m.id = x.id => UpdateRow(x, mails).money = m.money
<1>1. x.money \in Nat
  BY RowsFields DEF Mail
<1>2. \A m \in mails : m.id = x.id => UpdateRow(x, mails).money = m.money
  BY AnyRow DEF RowOf
<1>3. (\A m \in mails : m.id # x.id) => UpdateRow(x, mails) = x
  BY AnyRow
<1> QED BY <1>1, <1>2, <1>3 DEF Modest

\* A save of mails makes no money...
LEMMA SaveMakesNoMoney ==
    ASSUME NEW d, RowsOK(d), NEW mails, Savable(mails, d), Modest(mails, d)
    PROVE  InMail(SaveMail(d, mails).mails) <= InMail(d.mails)
<1>1. \A x \in d.mails : MoneyIn[x] = x.money
  BY RowsFields, MailMoney DEF OneEach
<1>2. \A x \in d.mails : MoneyIn[x] \in Nat /\ UpdateRow(x, mails).money <= MoneyIn[x]
  BY <1>1, RowMoney
<1> QED BY <1>2, SavedMoney DEF InMail

\* ... and takes out the money that was taken out of a mail.
LEMMA SaveTakesMoney ==
    ASSUME NEW d, RowsOK(d), NEW mails, Savable(mails, d), Modest(mails, d),
           NEW m \in mails, m.money = 0, NEW x \in d.mails, x.id = m.id
    PROVE  InMail(SaveMail(d, mails).mails) + x.money <= InMail(d.mails)
<1> DEFINE M == d.mails
           g == [y \in M |-> IF y = x THEN 0 ELSE y.money]
<1>1. /\ M \subseteq Mail /\ OneEach(M)
  BY RowsFields DEF OneEach
<1>2. IsFiniteSet(M) /\ InMail(M) \in Nat /\ \A y \in M : MoneyIn[y] = y.money /\ y.money \in Nat
  BY <1>1, MailMoney
<1>3. \A y \in d.mails : g[y] \in Nat /\ UpdateRow(y, mails).money <= g[y]
  <2>1. UpdateRow(x, mails).money = 0
    BY RowMoney
  <2>2. \A y \in d.mails : UpdateRow(y, mails).money <= y.money /\ y.money \in Nat
    BY RowMoney
  <2> QED BY <2>1, <2>2
<1>4. \A y \in M : MoneyIn[y] \in Int /\ g[y] \in Int
  BY <1>2
<1>5. g[x] = 0 /\ MoneyIn[x] = x.money /\ x \in M /\ \A y \in M \ {x} : MoneyIn[y] = g[y]
  BY <1>2
<1>6. InMail(SaveMail(d, mails).mails) <= SumFunctionOnSet(g, M)
  <2> HIDE DEF g
  <2> QED BY <1>3, SavedMoney
<1> HIDE DEF g, M
<1>7. SumFunctionOnSet(g, M) = SumFunctionOnSet(MoneyIn, M) + (g[x] - MoneyIn[x])
  BY <1>2, <1>4, <1>5, SumChange
<1>8. InMail(SaveMail(d, mails).mails) \in Nat
  <2>1. RowsOK(SaveMail(d, mails))
    BY MailsSaved
  <2> QED BY <2>1, TotalIs
<1> QED BY <1>2, <1>5, <1>6, <1>7, <1>8 DEF InMail, M

LEMMA WalletSame ==
    ASSUME NEW d, RowsOK(d), NEW r, \A q \in Player : r.money[q] = d.money[q]
    PROVE  Wallet(r) = Wallet(d)
<1>1. \A q \in Player : d.money[q] \in Int /\ d.money[q] = r.money[q]
  BY RowsFields, MoneyAssumption
<1> QED BY <1>1, PlayerAssumption, SumSame DEF Wallet

LEMMA WalletChange ==
    ASSUME NEW d, RowsOK(d), NEW r, RowsOK(r), NEW p \in Player,
           \A q \in Player \ {p} : r.money[q] = d.money[q]
    PROVE  Wallet(r) = Wallet(d) + (r.money[p] - d.money[p])
<1>1. \A q \in Player : d.money[q] \in Int /\ r.money[q] \in Int
  BY RowsFields, MoneyAssumption
<1>2. \A q \in Player \ {p} : d.money[q] = r.money[q]
  OBVIOUS
<1> QED BY <1>1, <1>2, PlayerAssumption, SumChange DEF Wallet

-----------------------------------------------------------------------------
(* What one transaction may do, and the invariant that says so of those that *)
(* wait.                                                                     *)

\* An item sent cash on delivery is handed over for its price.
PaidFor(d, e) ==
    \A m \in d.mails : m.cod > 0 /\ m.item \in e.inv[m.to]
        => Worth(e, m.from) >= Worth(d, m.from) + m.cod

Fair(d, e) == Total(e) <= Total(d) /\ PaidFor(d, e)

Chain == \A j \in 1..Len(writes) : Fair(State(j - 1), State(j))

Lettered(d) == \A m \in d.mails : m.from # m.to /\ m.kind = "MAIL_NORMAL"

LetterRows == \A d \in Versions : Lettered(d) /\ Latest.items \subseteq d.items

\* A mail in memory has the item of its row, unless the item is no more.
HonestBox(b, d) ==
    \A m \in b, x \in d.mails : x.id = m.id => x.item = m.item \/ x.item \notin d.items

HonestBoxes == \A p \in Player : HonestBox(box[p], Latest)

PostIInv == MailIInv /\ Chain /\ LetterRows /\ HonestBoxes

ThrownAway(i) == \E p \in Player : \E m \in box[p] : m.item = i /\ m.state = "deleted"

\* No item is lost but those in mails that were thrown away.
Stay(d, r) ==
    \A i \in d.items : Placed(d, i) => (i \in r.items /\ Placed(r, i)) \/ ThrownAway(i)

\* Nothing that is not in d gets into an inventory: nothing is delivered.
LEMMA NothingDue ==
    ASSUME NEW d, RowsOK(d), NEW e, \A q \in Player : e.inv[q] \subseteq d.inv[q]
    PROVE  PaidFor(d, e)
<1>1. RowsSound(d) /\ \A m \in d.mails : m.to \in Player
  BY RowsFields DEF RowsOK, Mail
<1>2. \A m \in d.mails : m.item \notin d.inv[m.to]
  BY <1>1 DEF RowsSound
<1> QED BY <1>1, <1>2 DEF PaidFor

LEMMA FairCommit ==
    ASSUME PostIInv, NEW p, NEW r, Commit(r, p), MailIInv', Fair(Latest, r), Lettered(r),
           r.items \subseteq Latest.items, HonestBoxes'
    PROVE  PostIInv' /\ Latest' = r
<1>1. Queued
  BY DEF PostIInv, MailIInv, DatabaseOK
<1>2. /\ Len(writes') = Len(writes) + 1 /\ Latest' = r
      /\ \A j \in 0..Len(writes) : State(j)' = State(j)
      /\ Versions' = Versions \cup {r}
      /\ Queued'
  BY <1>1, OneMore
<1>3. Len(writes) \in Nat /\ Latest = State(Len(writes))
  BY <1>1, QueueRows
<1>4. State(Len(writes))' = r
  BY <1>2, QueueRowsNext
<1>5. Chain'
  <2> SUFFICES ASSUME NEW j \in 1..Len(writes')
               PROVE  Fair(State(j - 1)', State(j)')
    BY DEF Chain, Fair, PaidFor
  <2>1. CASE j = Len(writes')
    <3>1. j - 1 = Len(writes) /\ j - 1 \in 0..Len(writes)
      BY <1>2, <1>3, <2>1
    <3>2. State(j - 1)' = Latest
      BY <1>2, <1>3, <3>1
    <3>3. State(j)' = r
      BY <1>4, <2>1
    <3> QED BY <3>2, <3>3
  <2>2. CASE j # Len(writes')
    <3>1. j \in 1..Len(writes) /\ j \in 0..Len(writes) /\ j - 1 \in 0..Len(writes)
      BY <1>2, <1>3, <2>2
    <3>2. Fair(State(j - 1), State(j))
      BY <3>1 DEF PostIInv, Chain
    <3>3. State(j - 1)' = State(j - 1) /\ State(j)' = State(j)
      BY <1>2, <3>1
    <3> QED BY <3>2, <3>3
  <2> QED BY <2>1, <2>2
<1>6. LetterRows'
  BY <1>2 DEF PostIInv, LetterRows, Lettered
<1> QED BY <1>2, <1>5, <1>6 DEF PostIInv

-----------------------------------------------------------------------------
(* What is in a mail, in memory and in its row. *)

\* A box whose rows are kept.
LEMMA HonestKept ==
    ASSUME NEW b, NEW q, NEW d, BoxOK(b, q, d), HonestBox(b, d), NEW r, RowsOK(r), Kept(d, r, q),
           r.items \subseteq d.items
    PROVE  HonestBox(b, r)
<1> SUFFICES ASSUME NEW m \in b, NEW x \in r.mails, x.id = m.id
             PROVE  x.item = m.item \/ x.item \notin r.items
  BY DEF HonestBox
<1>1. PICK z \in d.mails : RowOf(m, z)
  BY DEF BoxOK
<1>2. z.id = m.id /\ z.to = q
  BY <1>1 DEF BoxOK, RowOf
<1>3. z \in r.mails
  BY <1>2 DEF Kept
<1>4. z = x
  BY <1>2, <1>3, RowsFields
<1> QED BY <1>2, <1>4 DEF HonestBox

\* A box with new mails.
LEMMA HonestDelivered ==
    ASSUME NEW b, NEW r, RowsOK(r), HonestBox(b, r), NEW N, N \subseteq r.mails,
           NEW c, c \subseteq b \cup N
    PROVE  HonestBox(c, r)
BY RowsFields DEF HonestBox

\* What may be written back: what is missing has been taken, or is no more.
Truthful(mails, d) ==
    \A m \in mails, x \in d.mails : x.id = m.id =>
        \/ x.item = m.item \/ x.item \notin d.items
        \/ m.state = "changed" /\ m.item = NoItem

LEMMA HonestSaved ==
    ASSUME NEW d, RowsOK(d), NEW mails, Savable(mails, d), Truthful(mails, d)
    PROVE  HonestBox(Cleaned(mails), SaveMail(d, mails))
<1> DEFINE r == SaveMail(d, mails)
<1>1. r.items \subseteq d.items
  BY MailsSaved
<1>2. \A y \in r.mails : \E x \in d.mails : y = UpdateRow(x, mails)
  BY DEF SaveMail, RowsOK, Shaped
<1> HIDE DEF r
<1> SUFFICES ASSUME NEW n \in Cleaned(mails), NEW y \in r.mails, y.id = n.id
             PROVE  y.item = n.item \/ y.item \notin r.items
  BY DEF HonestBox, r
<1>3. PICK m \in mails : m.id = n.id /\ m.item = n.item
  BY CleanedMails DEF Savable
<1>4. PICK x \in d.mails : y = UpdateRow(x, mails)
  BY <1>2
<1>5. y.id = x.id /\ y.item \in {x.item, NoItem}
  BY <1>4, AnyRow
<1>6. /\ m.state = "changed" /\ m.item = NoItem => y.item = NoItem
      /\ m.item # NoItem => y.item = m.item
  BY <1>3, <1>4, <1>5, AnyRow DEF RowOf
<1>7. CASE m.item # NoItem \/ (m.state = "changed" /\ m.item = NoItem)
  BY <1>3, <1>6, <1>7
<1>8. CASE m.item = NoItem /\ ~(m.state = "changed" /\ m.item = NoItem)
  BY <1>1, <1>3, <1>5, <1>8 DEF Truthful
<1> QED BY <1>7, <1>8

\* The statements of _SaveMail read mails and items only.
LEMMA SaveAlone ==
    ASSUME NEW d, Shaped(d), NEW e, Shaped(e), d.mails = e.mails, d.items = e.items, NEW mails
    PROVE  SaveMail(d, mails).mails = SaveMail(e, mails).mails
           /\ SaveMail(d, mails).items = SaveMail(e, mails).items
BY DEF SaveMail, Shaped

\* A save keeps what is in inventories and in mails that are not thrown away.
LEMMA SaveLosesNothing ==
    ASSUME NEW d, RowsOK(d), NEW mails, Savable(mails, d), NEW i \in d.items,
           \A m \in mails : m.item = i => m.state # "deleted"
    PROVE  /\ i \in SaveMail(d, mails).items
           /\ \A x \in d.mails : x.item = i /\ (\A m \in mails : m.id = x.id => m.item = i) =>
                 \E y \in SaveMail(d, mails).mails : y.item = i
<1> DEFINE r == SaveMail(d, mails)
<1>1. i # NoItem
  BY NoItemAssumption, RowsFields
<1>2. i \in r.items
  <2>1. \A j \in d.items \ r.items : \E m \in mails : m.state = "deleted" /\ m.item = j
    BY MailsSaved
  <2> QED BY <2>1
<1>3. ASSUME NEW x \in d.mails, x.item = i, \A m \in mails : m.id = x.id => m.item = i
      PROVE  \E y \in r.mails : y.item = i
  <2> DEFINE y == UpdateRow(x, mails)
  <2>1. y.item \in {x.item, NoItem} /\ \A m \in mails : m.id = x.id => RowOf(m, y)
    BY AnyRow
  <2>2. (\A m \in mails : m.id # x.id) => y = x
    BY AnyRow
  <2>3. y.item = i
    BY <1>1, <1>3, <2>1, <2>2 DEF RowOf
  <2>4. \A m \in mails : m.state = "deleted" => m.id # x.id
    BY <1>3
  <2> HIDE DEF y
  <2>5. ~IsEmpty(y)
    BY <1>1, <2>3 DEF IsEmpty
  <2>6. y \in r.mails
    BY <2>4, <2>5 DEF y, SaveMail, RowsOK, Shaped
  <2> QED BY <2>3, <2>6
<1> QED BY <1>2, <1>3

-----------------------------------------------------------------------------
(* The transactions of a session. *)

\* What is shown of the rows r a handler commits.
Honest(r) ==
    /\ Fair(Latest, r) /\ Lettered(r) /\ r.items \subseteq Latest.items /\ Stay(Latest, r)

\* The statements for the inventory and the money leave mails and items alone.
LEMMA InventoryAlone ==
    ASSUME NEW d, Shaped(d), NEW p, NEW items, NEW gold
    PROVE  LET e == SaveInventoryAndGold(d, p, items, gold)
           IN  Shaped(e) /\ e.mails = d.mails /\ e.items = d.items
<1> DEFINE bags == [q \in Player |-> IF q = p THEN d.inv[q] \cup items ELSE d.inv[q] \ items]
           purses == [d.money EXCEPT ![p] = gold]
           e == SaveInventoryAndGold(d, p, items, gold)
<1>1. e = [d EXCEPT !.inv = bags, !.money = purses]
  BY DEF Shaped, SaveInventoryAndGold
<1> HIDE DEF bags, purses, e
<1>2. Shaped(e) /\ e.mails = d.mails /\ e.items = d.items
  BY <1>1 DEF Shaped
<1> QED BY <1>2 DEF e

LEMMA LetteredSaved ==
    ASSUME NEW d, RowsOK(d), Lettered(d), NEW mails, Savable(mails, d)
    PROVE  Lettered(SaveMail(d, mails)) /\ SaveMail(d, mails).items \subseteq d.items
<1> DEFINE r == SaveMail(d, mails)
<1>1. /\ \A y \in r.mails : \E x \in d.mails :
            /\ y.id = x.id /\ y.to = x.to /\ y.from = x.from /\ y.kind = x.kind
            /\ y.item \in {x.item, NoItem}
      /\ r.items \subseteq d.items
  BY MailsSaved
<1> HIDE DEF r
<1>2. Lettered(r)
  BY <1>1 DEF Lettered
<1> QED BY <1>1, <1>2 DEF r

\* A box is honest, modest and truthful about the newest rows.
LEMMA BoxTrue ==
    ASSUME PostIInv, NEW p \in Player
    PROVE  /\ BoxOK(box[p], p, Latest) /\ Savable(box[p], Latest) /\ Modest(box[p], Latest)
           /\ HonestBox(box[p], Latest) /\ RowsOK(Latest) /\ Lettered(Latest)
           /\ \A m \in box[p], x \in Latest.mails : x.id = m.id => RowOf(m, x)
<1>1. BoxOK(box[p], p, Latest) /\ HonestBox(box[p], Latest) /\ DatabaseOK
  BY DEF PostIInv, MailIInv, Boxes, HonestBoxes
<1>2. RowsOK(Latest) /\ Latest \in Versions
  BY <1>1, LatestRows
<1>3. \A m \in box[p], x \in Latest.mails : x.id = m.id => RowOf(m, x)
  BY <1>1, <1>2, RowsFields DEF BoxOK, RowOf
<1>4. Modest(box[p], Latest)
  <2>1. ASSUME NEW m \in box[p], NEW x \in Latest.mails, m.id = x.id
        PROVE  m.money <= x.money
    BY <1>2, <1>3, <2>1, RowsFields DEF RowOf, Mail
  <2> QED BY <2>1 DEF Modest
<1>5. Lettered(Latest)
  BY <1>2 DEF PostIInv, LetterRows
<1> QED BY <1>1, <1>2, <1>3, <1>4, <1>5, BoxIsSavable

LEMMA SavedHonest ==
    ASSUME PostIInv, NEW p \in Player, p \in online
    PROVE  LET r == Saved(p)
           IN  /\ Honest(r) /\ HonestBox(Cleaned(box[p]), r)
               /\ \A q \in Player \ {p} : HonestBox(box[q], r)
<1> DEFINE r == Saved(p)
           s == SaveMail(Latest, box[p])
           b == Cleaned(box[p])
<1>1. MailIInv
  BY DEF PostIInv
<1>2. /\ RowsOK(r)
      /\ \A q \in Player : r.inv[q] = Latest.inv[q] /\ r.money[q] = Latest.money[q]
      /\ \A q \in Player \ {p} : Kept(Latest, r, q)
  BY <1>1, SavedRows
<1>3. /\ BoxOK(box[p], p, Latest) /\ Savable(box[p], Latest) /\ Modest(box[p], Latest)
      /\ HonestBox(box[p], Latest) /\ RowsOK(Latest) /\ Lettered(Latest)
  BY BoxTrue
<1>4. r.mails = s.mails /\ r.items = s.items
  <2> DEFINE e == SaveInventoryAndGold(Latest, p, inv[p], money[p])
  <2>1. Shaped(e) /\ e.mails = Latest.mails /\ e.items = Latest.items /\ Shaped(Latest)
    BY <1>3, InventoryAlone DEF RowsOK
  <2> HIDE DEF e
  <2>2. SaveMail(e, box[p]).mails = s.mails /\ SaveMail(e, box[p]).items = s.items
    BY <2>1, SaveAlone
  <2> QED BY <2>2 DEF Saved, e
<1> HIDE DEF r
<1>5. RowsOK(s) /\ Lettered(s) /\ s.items \subseteq Latest.items
  BY <1>3, LetteredSaved, MailsSaved
<1>6. HonestBox(b, s)
  <2>1. Truthful(box[p], Latest)
    BY <1>3 DEF HonestBox, Truthful
  <2> QED BY <1>3, <2>1, HonestSaved
<1>7. Total(r) <= Total(Latest)
  <2>1. InMail(s.mails) <= InMail(Latest.mails)
    BY <1>3, SaveMakesNoMoney
  <2>2. Wallet(r) = Wallet(Latest)
    BY <1>2, <1>3, WalletSame
  <2>3. Total(r) = Wallet(r) + InMail(r.mails) /\ InMail(r.mails) \in Nat /\ Wallet(r) \in Nat
    BY <1>2, TotalIs
  <2>4. Total(Latest) = Wallet(Latest) + InMail(Latest.mails) /\ InMail(Latest.mails) \in Nat
    BY <1>3, TotalIs
  <2> HIDE DEF s
  <2> QED BY <1>4, <2>1, <2>2, <2>3, <2>4
<1>8. PaidFor(Latest, r)
  BY <1>2, <1>3, NothingDue
<1>9. Stay(Latest, r)
  <2> SUFFICES ASSUME NEW i \in Latest.items, Placed(Latest, i), ~ThrownAway(i)
               PROVE  i \in r.items /\ Placed(r, i)
    BY DEF Stay
  <2>1. \A m \in box[p] : m.item = i => m.state # "deleted"
    BY DEF ThrownAway
  <2>2. /\ i \in s.items
        /\ \A x \in Latest.mails : x.item = i /\ (\A m \in box[p] : m.id = x.id => m.item = i) =>
              \E y \in s.mails : y.item = i
    BY <1>3, <2>1, SaveLosesNothing
  <2>3. \A x \in Latest.mails : x.item = i => \A m \in box[p] : m.id = x.id => m.item = i
    BY <1>3 DEF HonestBox
  <2> HIDE DEF s
  <2> QED BY <1>2, <1>4, <2>2, <2>3 DEF Placed
<1>10. ASSUME NEW q \in Player \ {p} PROVE HonestBox(box[q], r)
  <2>1. BoxOK(box[q], q, Latest) /\ HonestBox(box[q], Latest)
    BY BoxTrue
  <2> HIDE DEF s
  <2> QED BY <1>2, <1>4, <1>5, <2>1, HonestKept
<1>11. Lettered(r) /\ r.items \subseteq Latest.items /\ HonestBox(b, r)
  <2> HIDE DEF s, b
  <2> QED BY <1>4, <1>5, <1>6 DEF Lettered, HonestBox
<1> QED BY <1>7, <1>8, <1>9, <1>10, <1>11 DEF Honest, Fair, r

\* The rows after the transaction of a handler, next to those before it.
LEMMA AfterCommit ==
    ASSUME PostIInv, NEW p \in Player, p \in online, p \in online', NEW r, Commit(r, p), MailIInv',
           Apart(p)
    PROVE  /\ Latest' = r /\ RowsOK(r) /\ RowsOK(Latest)
           /\ r.inv[p] = inv'[p] /\ r.money[p] = money'[p]
           /\ Latest.inv[p] = inv[p] /\ Latest.money[p] = money[p] /\ money[p] \in 0..MaxMoney
           /\ \A q \in Player \ {p} : /\ r.inv[q] = Latest.inv[q] /\ r.money[q] = Latest.money[q]
                                      /\ Kept(Latest, r, q)
<1>1. MailIInv
  BY DEF PostIInv
<1>2. Latest' = r
  BY <1>1, OneMore DEF MailIInv, DatabaseOK
<1>3. RowsOK(Latest)
  BY <1>1, LatestRows DEF MailIInv
<1>4. RowsOK(r)
  <2>1. Versions' = Versions \cup {r}
    BY <1>1, OneMore DEF MailIInv, DatabaseOK
  <2>2. \A d \in Versions' : RowsOK(d)
    BY DEF MailIInv, DatabaseOK, AllRowsOK
  <2> QED BY <2>1, <2>2
<1>5. /\ r.inv[p] = inv'[p] /\ r.money[p] = money'[p]
      /\ Latest.inv[p] = inv[p] /\ Latest.money[p] = money[p]
  BY <1>1, <1>2 DEF MailIInv, PursesSaved
<1>6. money[p] \in 0..MaxMoney
  BY <1>1 DEF MailIInv, Memory
<1> QED BY <1>2, <1>3, <1>4, <1>5, <1>6 DEF Apart, Alike

\* Any handler that sends and saves.
LEMMA HonestStep ==
    ASSUME PostIInv, NEW p \in Player, p \in online, p \in online', NEW r, Commit(r, p), MailIInv',
           Apart(p), Honest(r), NEW b, HonestBox(b, r), NEW drafts, Sent(drafts) \subseteq r.mails,
           box' = Delivered([box EXCEPT ![p] = b], drafts)
    PROVE  PostIInv' /\ Latest' = r
<1>1. /\ Latest' = r /\ RowsOK(r) /\ \A q \in Player \ {p} : Kept(Latest, r, q)
  BY AfterCommit
<1> DEFINE own(q) == IF q = p THEN b ELSE box[q]
           N == Sent(drafts)
<1>2. \A q \in Player : box'[q] \in {own(q), own(q) \cup {n \in N : n.to = q}}
  <2>1. \A q \in Player : [box EXCEPT ![p] = b][q] = own(q)
    BY DEF PostIInv, MailIInv, Memory
  <2> QED BY <2>1 DEF Delivered
<1>3. \A q \in Player : HonestBox(own(q), r)
  <2>1. ASSUME NEW q \in Player, q # p PROVE HonestBox(box[q], r)
    <3>1. BoxOK(box[q], q, Latest) /\ HonestBox(box[q], Latest)
      BY BoxTrue
    <3>2. Kept(Latest, r, q) /\ r.items \subseteq Latest.items
      BY <1>1, <2>1 DEF Honest
    <3> QED BY <1>1, <3>1, <3>2, HonestKept
  <2> QED BY <2>1
<1> HIDE DEF own, N
<1>4. ASSUME NEW q \in Player PROVE HonestBox(box'[q], r)
  <2>1. box'[q] \subseteq own(q) \cup N /\ N \subseteq r.mails
    BY <1>2 DEF N
  <2> QED BY <1>1, <1>3, <2>1, HonestDelivered
<1>5. HonestBoxes'
  BY <1>1, <1>4 DEF HonestBoxes, HonestBox
<1> QED BY <1>1, <1>5, FairCommit DEF Honest

LEMMA TakeMoneyHonest ==
    ASSUME PostIInv, NEW p \in Player, NEW m \in box[p], TakeMoney(p, m)
    PROVE  PostIInv' /\ Stay(Latest, Latest')
<1> DEFINE new == [m EXCEPT !.money = 0, !.state = "changed"]
           mails == Changed(p, m, new)
           gold == Received(money[p], m.money)
           d == [Latest EXCEPT !.money[p] = gold]
           r == SaveMail(d, mails)
           s == SaveMail(Latest, mails)
           b == Cleaned(mails)
<1>1. /\ money' = [money EXCEPT ![p] = gold] /\ box' = [box EXCEPT ![p] = b]
      /\ Commit(r, p) /\ UNCHANGED <<online, inv, loaded>>
  BY DEF TakeMoney
<1>2. MailIInv /\ MailIInv' /\ Apart(p) /\ Memory
  BY TakeMoneyKeeps DEF PostIInv, MailIInv
<1>3. p \in online /\ p \in online' /\ m \in Mail /\ m \in box[p]
  BY <1>1, <1>2, BoxFacts
<1>4. /\ new \in Mail /\ new.id = m.id /\ new.to = m.to /\ new.from = m.from /\ new.kind = m.kind
      /\ new.item = m.item /\ new.cod = m.cod /\ new.state = "changed" /\ new.money = 0
      /\ m.money \in Nat
  BY <1>3 DEF Mail
<1>5. mails = (box[p] \ {m}) \cup {new}
  BY DEF Changed
<1>6. /\ BoxOK(box[p], p, Latest) /\ Modest(box[p], Latest)
      /\ HonestBox(box[p], Latest) /\ RowsOK(Latest) /\ Lettered(Latest)
      /\ \A n \in box[p], x \in Latest.mails : x.id = n.id => RowOf(n, x)
  BY BoxTrue
<1> HIDE DEF new, mails
<1>7. Savable(mails, Latest)
  BY <1>4, <1>5, <1>6, ChangedSavable
<1>8. Modest(mails, Latest) /\ Truthful(mails, Latest)
  <2>1. \A x \in Latest.mails : x.money \in Nat
    BY <1>6, RowsFields DEF Mail
  <2> QED BY <1>4, <1>5, <1>6, <2>1 DEF Modest, Truthful, HonestBox
<1>9. r.mails = s.mails /\ r.items = s.items
  <2>1. Shaped(d) /\ d.mails = Latest.mails /\ d.items = Latest.items /\ Shaped(Latest)
    <3> DEFINE purses == [Latest.money EXCEPT ![p] = gold]
    <3>1. d = [Latest EXCEPT !.money = purses] /\ Shaped(Latest)
      BY <1>6 DEF RowsOK, Shaped
    <3> HIDE DEF purses, d
    <3> QED BY <3>1 DEF Shaped
  <2> HIDE DEF d
  <2> QED BY <2>1, SaveAlone
<1> HIDE DEF d, r
<1>10. /\ Latest' = r /\ RowsOK(r)
       /\ r.inv[p] = inv'[p] /\ r.money[p] = money'[p]
       /\ Latest.inv[p] = inv[p] /\ Latest.money[p] = money[p] /\ money[p] \in 0..MaxMoney
       /\ \A q \in Player \ {p} : r.inv[q] = Latest.inv[q] /\ r.money[q] = Latest.money[q]
  BY <1>1, <1>2, <1>3, AfterCommit
<1>11. \A q \in Player : r.inv[q] = Latest.inv[q]
  BY <1>1, <1>10
<1>12. Total(r) <= Total(Latest)
  <2>1. PICK x \in Latest.mails : RowOf(m, x)
    BY <1>6 DEF BoxOK
  <2>2. x.id = new.id /\ x.money = m.money /\ new \in mails
    BY <1>4, <1>5, <2>1 DEF RowOf
  <2>3. InMail(s.mails) + m.money <= InMail(Latest.mails)
    BY <1>4, <1>6, <1>7, <1>8, <2>2, SaveTakesMoney
  <2>4. Wallet(r) = Wallet(Latest) + (r.money[p] - Latest.money[p])
    BY <1>6, <1>10, WalletChange
  <2>5. r.money[p] <= Latest.money[p] + m.money /\ r.money[p] \in Nat /\ Latest.money[p] \in Nat
    <3>1. money'[p] = gold
      BY <1>1, <1>2 DEF Memory
    <3> QED BY <1>4, <1>10, <3>1, MoneyAssumption DEF Received
  <2>6. Total(r) = Wallet(r) + InMail(r.mails) /\ InMail(r.mails) \in Nat /\ Wallet(r) \in Nat
    BY <1>10, TotalIs
  <2>7. /\ Total(Latest) = Wallet(Latest) + InMail(Latest.mails) /\ InMail(Latest.mails) \in Nat
        /\ Wallet(Latest) \in Nat
    BY <1>6, TotalIs
  <2> HIDE DEF s
  <2> QED BY <1>4, <1>9, <2>3, <2>4, <2>5, <2>6, <2>7
<1>13. PaidFor(Latest, r)
  BY <1>6, <1>11, NothingDue
<1>14. Stay(Latest, r)
  <2> SUFFICES ASSUME NEW i \in Latest.items, Placed(Latest, i), ~ThrownAway(i)
               PROVE  i \in r.items /\ Placed(r, i)
    BY DEF Stay
  <2>1. \A n \in mails : n.item = i => n.state # "deleted"
    BY <1>4, <1>5 DEF ThrownAway
  <2>2. /\ i \in s.items
        /\ \A x \in Latest.mails : x.item = i /\ (\A n \in mails : n.id = x.id => n.item = i) =>
              \E y \in s.mails : y.item = i
    BY <1>6, <1>7, <2>1, SaveLosesNothing
  <2>3. \A x \in Latest.mails : x.item = i => \A n \in mails : n.id = x.id => n.item = i
    BY <1>4, <1>5, <1>6 DEF HonestBox
  <2> HIDE DEF s
  <2> QED BY <1>9, <1>11, <2>2, <2>3 DEF Placed
<1>15. Lettered(s) /\ s.items \subseteq Latest.items
  BY <1>6, <1>7, LetteredSaved
<1>16. HonestBox(b, s)
  BY <1>6, <1>7, <1>8, HonestSaved
<1>17. Honest(r) /\ HonestBox(b, r)
  <2> HIDE DEF s, b
  <2> QED BY <1>9, <1>12, <1>13, <1>14, <1>15, <1>16 DEF Honest, Fair, Lettered, HonestBox
<1>18. box' = Delivered([box EXCEPT ![p] = b], <<>>)
  <2>1. [box EXCEPT ![p] = b] = [q \in Player |-> [box EXCEPT ![p] = b][q]]
    BY <1>2 DEF Memory
  <2> HIDE DEF b
  <2> QED BY <1>1, <2>1, NothingDelivered
<1>19. Sent(<<>>) \subseteq r.mails
  BY NoDrafts
<1> HIDE DEF b
<1> QED BY <1>1, <1>2, <1>3, <1>10, <1>14, <1>17, <1>18, <1>19, HonestStep

LEMMA InsertAlone ==
    ASSUME NEW d, Shaped(d), NEW drafts
    PROVE  LET e == InsertMails(d, drafts)
           IN  /\ Shaped(e) /\ e.mails = d.mails \cup Sent(drafts)
               /\ e.items = d.items /\ e.inv = d.inv /\ e.money = d.money
BY DEF Shaped, InsertMails

LEMMA UnbagAlone ==
    ASSUME NEW d, Shaped(d), NEW i
    PROVE  LET e == DeleteFromInventoryDB(d, i)
           IN  Shaped(e) /\ e.mails = d.mails /\ e.items = d.items
<1> DEFINE bags == [p \in Player |-> d.inv[p] \ {i}]
           e == DeleteFromInventoryDB(d, i)
<1>1. e = [d EXCEPT !.inv = bags]
  BY DEF Shaped, DeleteFromInventoryDB
<1> HIDE DEF bags, e
<1>2. Shaped(e) /\ e.mails = d.mails /\ e.items = d.items
  BY <1>1 DEF Shaped
<1> QED BY <1>2 DEF e

\* The one mail that is sent, and the money in the rows with it.
LEMMA MailSent ==
    ASSUME NEW d, RowsOK(d), \A x \in d.mails : x.id \in UsedIds, NEW drafts, Drafted(drafts),
           drafts # <<>>
    PROVE  \E n \in Mail : /\ Sent(drafts) = {n} /\ n.id \notin UsedIds
                           /\ n.from = drafts[1].from /\ n.to = drafts[1].to
                           /\ n.item = drafts[1].item /\ n.money = drafts[1].money
                           /\ n.cod = drafts[1].cod /\ n.kind = drafts[1].kind
                           /\ InMail(d.mails \cup Sent(drafts)) = InMail(d.mails) + n.money
<1>1. /\ \A n, m \in Sent(drafts) : n = m
      /\ \A n \in Sent(drafts) :
            /\ n \in Mail /\ n.id \notin UsedIds /\ n.from = drafts[1].from /\ n.to = drafts[1].to
            /\ n.item = drafts[1].item /\ n.money = drafts[1].money
            /\ n.cod = drafts[1].cod /\ n.kind = drafts[1].kind
      /\ Sent(drafts) # {}
  BY SentMails DEF Drafted
<1>2. PICK n \in Sent(drafts) : TRUE
  BY <1>1
<1>3. Sent(drafts) = {n} /\ n \in Mail /\ n.id \notin UsedIds
  BY <1>1
<1>4. n \notin d.mails /\ d.mails \subseteq Mail /\ OneEach(d.mails)
  BY <1>3, RowsFields DEF OneEach
<1>5. InMail(d.mails \cup {n}) = InMail(d.mails) + n.money
  BY <1>3, <1>4, OneMailMore
<1> QED BY <1>1, <1>3, <1>5

LEMMA SendMailHonest ==
    ASSUME PostIInv, NEW p \in Player, NEW q \in Player, NEW i \in Item \cup {NoItem},
           NEW amount \in Amounts, NEW cod \in Amounts, SendMail(p, q, i, amount, cod)
    PROVE  PostIInv' /\ Stay(Latest, Latest')
<1> DEFINE draft == SendDraft(p, q, i, amount, cod)
           gold == Paid(money[p], Postage + amount)
           items == inv[p] \ {i}
           r == SaveInventoryAndGold(InsertMails(DeleteFromInventoryDB(Latest, i), draft),
                                     p, items, gold)
<1>1. /\ p \in online /\ p # q /\ money[p] >= Postage + amount
      /\ draft # <<>> /\ RoomFor(draft)
      /\ money' = [money EXCEPT ![p] = gold] /\ inv' = [inv EXCEPT ![p] = items]
      /\ box' = Delivered(box, draft) /\ Commit(r, p)
      /\ UNCHANGED <<online, loaded>>
  BY DEF SendMail, SendDraft, HasEnoughMoney
<1>2. MailIInv /\ MailIInv' /\ Apart(p) /\ Memory /\ DatabaseOK
  BY SendMailKeeps DEF PostIInv, MailIInv
<1>3. amount \in Nat /\ cod \in Nat /\ Postage \in Nat
  BY PriceAssumption
<1>4. /\ Drafted(draft) /\ draft[1].from = p /\ draft[1].to = q /\ draft[1].item = i
      /\ draft[1].money = amount /\ draft[1].kind = "MAIL_NORMAL"
  <2>1. /\ draft \in Seq(Draft) /\ Len(draft) = 1
        /\ draft[1].from = p /\ draft[1].to = q /\ draft[1].item = i
        /\ draft[1].money = amount /\ draft[1].kind = "MAIL_NORMAL"
    BY <1>1, <1>3, SendDraftIs
  <2> HIDE DEF draft
  <2> QED BY <1>1, <2>1 DEF Drafted
<1>5. /\ BoxOK(box[p], p, Latest) /\ HonestBox(box[p], Latest) /\ RowsOK(Latest) /\ Lettered(Latest)
      /\ \A x \in Latest.mails : x.id \in UsedIds
  BY <1>2, BoxTrue, LatestRows
<1> HIDE DEF draft
<1>6. PICK n \in Mail :
         /\ Sent(draft) = {n} /\ n.from = p /\ n.to = q /\ n.item = i /\ n.money = amount
         /\ n.kind = "MAIL_NORMAL"
         /\ InMail(Latest.mails \cup Sent(draft)) = InMail(Latest.mails) + n.money
  <2>1. \E n \in Mail : /\ Sent(draft) = {n} /\ n.id \notin UsedIds
                        /\ n.from = draft[1].from /\ n.to = draft[1].to
                        /\ n.item = draft[1].item /\ n.money = draft[1].money
                        /\ n.cod = draft[1].cod /\ n.kind = draft[1].kind
                        /\ InMail(Latest.mails \cup Sent(draft)) = InMail(Latest.mails) + n.money
    BY <1>1, <1>4, <1>5, MailSent
  <2> QED BY <1>4, <2>1
<1>7. r.mails = Latest.mails \cup {n} /\ r.items = Latest.items
  <2> DEFINE d == DeleteFromInventoryDB(Latest, i)
             e == InsertMails(d, draft)
  <2>1. Shaped(d) /\ d.mails = Latest.mails /\ d.items = Latest.items
    BY <1>5, UnbagAlone DEF RowsOK
  <2> HIDE DEF d
  <2>2. Shaped(e) /\ e.mails = d.mails \cup Sent(draft) /\ e.items = d.items
    BY <2>1, InsertAlone
  <2> HIDE DEF e
  <2>3. LET f == SaveInventoryAndGold(e, p, items, gold)
        IN  f.mails = e.mails /\ f.items = e.items
    BY <2>2, InventoryAlone
  <2> QED BY <1>6, <2>1, <2>2, <2>3 DEF d, e
<1> HIDE DEF r
<1>8. /\ Latest' = r /\ RowsOK(r)
      /\ r.inv[p] = inv'[p] /\ r.money[p] = money'[p]
      /\ Latest.inv[p] = inv[p] /\ Latest.money[p] = money[p] /\ money[p] \in 0..MaxMoney
      /\ \A o \in Player \ {p} : /\ r.inv[o] = Latest.inv[o] /\ r.money[o] = Latest.money[o]
                                 /\ Kept(Latest, r, o)
  <2>1. p \in online /\ p \in online' /\ Commit(r, p) /\ MailIInv' /\ Apart(p)
    BY <1>1, <1>2
  <2> QED BY <2>1, AfterCommit
<1>9. r.inv[p] = Latest.inv[p] \ {i} /\ r.money[p] = gold
  <2> HIDE DEF gold
  <2> QED BY <1>1, <1>2, <1>8 DEF Memory
<1>10. Total(r) <= Total(Latest)
  <2>1. Wallet(r) = Wallet(Latest) + (r.money[p] - Latest.money[p])
    BY <1>5, <1>8, WalletChange
  <2>2. r.money[p] + amount <= Latest.money[p] /\ r.money[p] \in Nat /\ Latest.money[p] \in Nat
    BY <1>1, <1>3, <1>8, <1>9, MoneyAssumption DEF Paid
  <2>3. Total(r) = Wallet(r) + InMail(r.mails) /\ InMail(r.mails) \in Nat /\ Wallet(r) \in Nat
    BY <1>8, TotalIs
  <2>4. /\ Total(Latest) = Wallet(Latest) + InMail(Latest.mails) /\ InMail(Latest.mails) \in Nat
        /\ Wallet(Latest) \in Nat
    BY <1>5, TotalIs
  <2>5. InMail(r.mails) = InMail(Latest.mails) + amount
    BY <1>6, <1>7
  <2> QED BY <1>3, <2>1, <2>2, <2>3, <2>4, <2>5
<1>11. PaidFor(Latest, r)
  <2>1. \A o \in Player : r.inv[o] \subseteq Latest.inv[o]
    BY <1>8, <1>9
  <2> QED BY <1>5, <2>1, NothingDue
<1>12. Stay(Latest, r)
  <2>1. ASSUME NEW j \in Latest.items, Placed(Latest, j)
        PROVE  Placed(r, j)
    <3>1. CASE j = i
      BY <1>6, <1>7, <3>1 DEF Placed
    <3>2. CASE j # i
      BY <1>7, <1>8, <1>9, <2>1, <3>2 DEF Placed
    <3> QED BY <3>1, <3>2
  <2> QED BY <1>7, <2>1 DEF Stay
<1>13. Honest(r)
  <2>1. Lettered(r)
    BY <1>1, <1>5, <1>6, <1>7 DEF Lettered
  <2> QED BY <1>7, <1>10, <1>11, <1>12, <2>1 DEF Honest, Fair
<1>14. HonestBox(box[p], r)
  <2>1. Kept(Latest, r, p) /\ r.items \subseteq Latest.items
    BY <1>7 DEF Kept
  <2> QED BY <1>5, <1>8, <2>1, HonestKept
<1>15. box' = Delivered([box EXCEPT ![p] = box[p]], draft)
  <2>1. [box EXCEPT ![p] = box[p]] = box
    BY <1>2 DEF Memory
  <2> QED BY <1>1, <2>1
<1>16. Sent(draft) \subseteq r.mails
  BY <1>6, <1>7
<1> QED BY <1>1, <1>2, <1>8, <1>12, <1>13, <1>14, <1>15, <1>16, HonestStep

LEMMA ReturnToSenderHonest ==
    ASSUME PostIInv, NEW p \in Player, NEW m \in box[p], ReturnToSender(p, m)
    PROVE  PostIInv' /\ Stay(Latest, Latest')
<1> DEFINE draft == ReturnDraft(p, m)
           b == box[p] \ {m}
           d == DeleteMail(Latest, m.id)
           r == InsertMails(d, draft)
<1>1. /\ m.kind = "MAIL_NORMAL" /\ RoomFor(draft)
      /\ box' = Delivered([box EXCEPT ![p] = b], draft) /\ Commit(r, p)
      /\ UNCHANGED <<online, money, inv, loaded>>
  BY DEF ReturnToSender, ReturnDraft
<1>2. MailIInv /\ MailIInv' /\ Apart(p) /\ DatabaseOK
  BY ReturnToSenderKeeps DEF PostIInv, MailIInv
<1>3. p \in online /\ p \in online' /\ m \in Mail /\ Answerable(m) /\ m.to = p
  BY <1>1, <1>2, BoxFacts
<1>4. /\ Drafted(draft)
      /\ draft = <<>> => m.item = NoItem /\ m.money = 0
      /\ draft # <<>> =>
            /\ draft[1].from = p /\ draft[1].to = m.from /\ draft[1].item = m.item
            /\ draft[1].money = m.money /\ draft[1].kind = "MAIL_NORMAL"
  <2>1. m.from \in Player
    BY <1>1, <1>3 DEF Answerable
  <2>2. /\ draft \in Seq(Draft) /\ Len(draft) <= 1
        /\ draft = <<>> => m.item = NoItem /\ m.money = 0
        /\ draft # <<>> =>
              /\ draft[1].from = p /\ draft[1].to = m.from /\ draft[1].item = m.item
              /\ draft[1].money = m.money /\ draft[1].kind = "MAIL_NORMAL"
    BY <1>3, <2>1, ReturnDraftIs
  <2> HIDE DEF draft
  <2> QED BY <1>1, <2>2 DEF Drafted
<1> HIDE DEF draft
<1>5. /\ BoxOK(box[p], p, Latest) /\ HonestBox(box[p], Latest) /\ RowsOK(Latest) /\ Lettered(Latest)
      /\ \A n \in box[p], x \in Latest.mails : x.id = n.id => RowOf(n, x)
      /\ \A x \in Latest.mails : x.id \in UsedIds
  BY <1>2, BoxTrue, LatestRows
<1>6. PICK x \in Latest.mails : RowOf(m, x)
  BY <1>5 DEF BoxOK
<1>7. x.id = m.id /\ x.money = m.money /\ x.from = m.from /\ x.to = m.to /\ x \in Mail /\ m.money \in Nat
  BY <1>3, <1>5, <1>6, RowsFields DEF RowOf, Mail
<1>8. /\ RowsOK(d) /\ d.mails = {y \in Latest.mails : y.id # m.id} /\ d.items = Latest.items
  BY <1>5, MailDeleted
<1>9. d.mails \cup {x} = Latest.mails /\ x \notin d.mails
  BY <1>5, <1>7, <1>8, RowsFields
<1>10. r.mails = d.mails \cup Sent(draft) /\ r.items = Latest.items
  <2>1. Shaped(d)
    BY <1>8 DEF RowsOK
  <2> HIDE DEF d
  <2> QED BY <1>8, <2>1, InsertAlone
<1> HIDE DEF d, r
<1>11. /\ Latest' = r /\ RowsOK(r)
       /\ r.inv[p] = inv'[p] /\ r.money[p] = money'[p]
       /\ Latest.inv[p] = inv[p] /\ Latest.money[p] = money[p]
       /\ \A q \in Player \ {p} : r.inv[q] = Latest.inv[q] /\ r.money[q] = Latest.money[q]
  BY <1>1, <1>2, <1>3, AfterCommit
<1>12. \A q \in Player : r.inv[q] = Latest.inv[q] /\ r.money[q] = Latest.money[q]
  BY <1>1, <1>11
<1>13. /\ InMail(Latest.mails) = InMail(d.mails) + m.money
       /\ draft = <<>> => r.mails = d.mails
       /\ draft # <<>> => \E n \in Mail :
             /\ r.mails = d.mails \cup {n} /\ InMail(r.mails) = InMail(d.mails) + m.money
             /\ n.id \notin UsedIds /\ n.from = p /\ n.to = m.from /\ n.item = m.item
             /\ n.kind = "MAIL_NORMAL"
  <2>1. d.mails \subseteq Mail /\ OneEach(d.mails)
    BY <1>8, RowsFields DEF OneEach
  <2>2. InMail(d.mails \cup {x}) = InMail(d.mails) + x.money
    BY <1>7, <1>9, <2>1, OneMailMore
  <2>3. draft = <<>> => Sent(draft) = {}
    BY NoDrafts
  <2>4. ASSUME draft # <<>>
        PROVE  \E n \in Mail :
             /\ r.mails = d.mails \cup {n} /\ InMail(r.mails) = InMail(d.mails) + m.money
             /\ n.id \notin UsedIds /\ n.from = p /\ n.to = m.from /\ n.item = m.item
             /\ n.kind = "MAIL_NORMAL"
    <3>1. \A y \in d.mails : y.id \in UsedIds
      BY <1>5, <1>8
    <3>3. Drafted(draft) /\ draft # <<>> /\ RowsOK(d)
      BY <1>4, <1>8, <2>4
    <3>2. PICK n \in Mail : /\ Sent(draft) = {n} /\ n.id \notin UsedIds
                           /\ n.from = draft[1].from /\ n.to = draft[1].to
                           /\ n.item = draft[1].item /\ n.money = draft[1].money
                           /\ n.cod = draft[1].cod /\ n.kind = draft[1].kind
                           /\ InMail(d.mails \cup Sent(draft)) = InMail(d.mails) + n.money
      BY <3>1, <3>3, MailSent
    <3> QED BY <1>4, <1>10, <2>4, <3>2
  <2> QED BY <1>7, <1>9, <1>10, <2>2, <2>3, <2>4
<1>14. Total(r) <= Total(Latest)
  <2>1. Wallet(r) = Wallet(Latest)
    BY <1>5, <1>12, WalletSame
  <2>2. Total(r) = Wallet(r) + InMail(r.mails) /\ InMail(r.mails) \in Nat /\ Wallet(r) \in Nat
    BY <1>11, TotalIs
  <2>3. /\ Total(Latest) = Wallet(Latest) + InMail(Latest.mails) /\ InMail(Latest.mails) \in Nat
        /\ Wallet(Latest) \in Nat
    BY <1>5, TotalIs
  <2>4. InMail(d.mails) \in Nat
    BY <1>8, TotalIs
  <2> QED BY <1>7, <1>13, <2>1, <2>2, <2>3, <2>4
<1>15. PaidFor(Latest, r)
  BY <1>5, <1>12, NothingDue
<1>16. Lettered(r)
  <2>1. p # m.from
    BY <1>3, <1>5, <1>7 DEF Lettered
  <2>2. Lettered(d)
    BY <1>5, <1>8 DEF Lettered
  <2> QED BY <1>13, <2>1, <2>2 DEF Lettered
<1>17. Stay(Latest, r)
  <2>1. ASSUME NEW i \in Latest.items, NEW y \in Latest.mails, y.item = i
        PROVE  \E z \in r.mails : z.item = i
    <3>1. CASE y.id # m.id
      BY <1>8, <1>10, <2>1, <3>1
    <3>2. CASE y.id = m.id
      <4>1. m.item = i
        BY <1>5, <2>1, <3>2 DEF HonestBox
      <4>2. i # NoItem
        BY <1>5, NoItemAssumption, RowsFields
      <4> QED BY <1>4, <1>13, <4>1, <4>2
    <3> QED BY <3>1, <3>2
  <2> QED BY <1>10, <1>12, <2>1 DEF Stay, Placed
<1>18. HonestBox(b, r)
  <2>1. \A n \in b : n.id \in UsedIds
    BY IdsUsed
  <2> QED BY <1>4, <1>5, <1>8, <1>10, <1>13, <2>1 DEF HonestBox
<1>19. Honest(r) /\ Sent(draft) \subseteq r.mails
  BY <1>10, <1>14, <1>15, <1>16, <1>17 DEF Honest, Fair
<1> HIDE DEF b
<1> QED BY <1>1, <1>2, <1>3, <1>11, <1>17, <1>18, <1>19, HonestStep

\* Who is sent a mail and loses nothing is richer by the money in it.
LEMMA RicherByMail ==
    ASSUME NEW d, RowsOK(d), NEW r, RowsOK(r), NEW q \in Player, Kept(d, r, q),
           r.money[q] = d.money[q], NEW n \in r.mails, n.to = q, n \notin d.mails
    PROVE  Worth(r, q) >= Worth(d, q) + n.money
<1> DEFINE A == {m \in d.mails : m.to = q}
           B == {m \in r.mails : m.to = q}
<1>1. /\ Worth(d, q) = d.money[q] + InMail(A) /\ InMail(A) \in Nat /\ d.money[q] \in Nat
      /\ Worth(r, q) = r.money[q] + InMail(B) /\ InMail(B) \in Nat
  BY TotalIs
<1>2. /\ A \subseteq Mail /\ OneEach(A) /\ B \subseteq Mail /\ OneEach(B)
      /\ n \in Mail /\ n.money \in Nat /\ n \notin A
  BY RowsFields DEF OneEach, Mail
<1>3. A \cup {n} \in SUBSET B
  BY DEF Kept
<1> HIDE DEF A, B
<1>4. InMail(A \cup {n}) = InMail(A) + n.money
  BY <1>2, OneMailMore
<1>5. InMail(A \cup {n}) <= InMail(B)
  BY <1>2, <1>3, MailMoney
<1> QED BY <1>1, <1>2, <1>4, <1>5

LEMMA TakeItemHonest ==
    ASSUME PostIInv, NEW p \in Player, NEW m \in box[p], TakeItem(p, m)
    PROVE  PostIInv' /\ Stay(Latest, Latest')
<1> DEFINE payment == CashOnDelivery(p, m)
           new == [m EXCEPT !.item = NoItem, !.cod = 0, !.state = "changed"]
           mails == Changed(p, m, new)
           gold == Paid(money[p], m.cod)
           items == inv[p] \cup {m.item}
           d == InsertMails(Latest, payment)
           r == SaveMail(SaveInventoryAndGold(d, p, items, gold), mails)
           s == SaveMail(d, mails)
           b == Cleaned(mails)
<1>1. /\ m.state # "deleted" /\ m.item # NoItem /\ RoomFor(payment) /\ money[p] >= m.cod
      /\ money' = [money EXCEPT ![p] = gold] /\ inv' = [inv EXCEPT ![p] = items]
      /\ box' = Delivered([box EXCEPT ![p] = b], payment)
      /\ Commit(r, p) /\ UNCHANGED <<online, loaded>>
  BY DEF TakeItem, HasEnoughMoney
<1>2. MailIInv /\ MailIInv' /\ Apart(p) /\ Memory /\ DatabaseOK
  BY TakeItemKeeps DEF PostIInv, MailIInv
<1>3. p \in online /\ p \in online' /\ m \in Mail /\ Answerable(m) /\ m.to = p /\ m.item \in Latest.items
  BY <1>1, <1>2, BoxFacts
<1>4. /\ new \in Mail /\ new.id = m.id /\ new.to = m.to /\ new.from = m.from /\ new.kind = m.kind
      /\ new.item = NoItem /\ new.cod = 0 /\ new.state = "changed" /\ new.money = m.money
      /\ m.cod \in Nat /\ m.money \in Nat
  BY <1>3 DEF Mail
<1>5. mails = (box[p] \ {m}) \cup {new}
  BY DEF Changed
<1>6. /\ BoxOK(box[p], p, Latest) /\ Modest(box[p], Latest)
      /\ HonestBox(box[p], Latest) /\ RowsOK(Latest) /\ Lettered(Latest)
      /\ \A n \in box[p], x \in Latest.mails : x.id = n.id => RowOf(n, x)
      /\ \A x \in Latest.mails : x.id \in UsedIds
      /\ \A n \in box[p] : n.id \in UsedIds
  BY <1>2, BoxTrue, LatestRows, IdsUsed
<1>7. /\ Drafted(payment) /\ (payment = <<>> <=> m.cod = 0)
      /\ m.cod # 0 => m.from \in Player
      /\ payment # <<>> =>
            LET l == payment[1]
            IN  /\ l.from = p /\ l.to = m.from /\ l.item = NoItem
                /\ l.money = m.cod /\ l.state = "unchanged" /\ l.kind = "MAIL_NORMAL"
  <2>1. m.cod # 0 => m.from \in Player
    BY <1>3, <1>4 DEF Answerable
  <2>2. payment = <<>> <=> m.cod = 0
    BY DEF CashOnDelivery
  <2>3. /\ Drafted(payment)
        /\ payment # <<>> =>
              LET l == payment[1]
              IN  /\ l.from = p /\ l.to = m.from /\ l.item = NoItem
                  /\ l.money = m.cod /\ l.state = "unchanged" /\ l.kind = "MAIL_NORMAL"
    BY <1>1, <1>3, <2>1, CashDrafts
  <2> HIDE DEF payment
  <2> QED BY <2>1, <2>2, <2>3
<1> HIDE DEF new, mails, payment
<1>8. /\ RowsOK(d) /\ d.mails = Latest.mails \cup Sent(payment) /\ d.items = Latest.items
      /\ d.inv = Latest.inv
  <2>1. payment # <<>> => /\ payment[1].state = "unchanged" /\ payment[1].from \in Player
                          /\ payment[1].item = NoItem /\ payment[1].money # 0
    BY <1>7
  <2> QED BY <1>6, <1>7, <2>1, LettersAdded
<1>9. /\ payment = <<>> => Sent(payment) = {}
      /\ payment # <<>> => \E n \in Mail :
             /\ Sent(payment) = {n} /\ n.id \notin UsedIds /\ n.from = p /\ n.to = m.from
             /\ n.item = NoItem /\ n.money = m.cod /\ n.kind = "MAIL_NORMAL"
             /\ InMail(d.mails) = InMail(Latest.mails) + m.cod
  <2>1. ASSUME payment # <<>>
        PROVE \E n \in Mail :
             /\ Sent(payment) = {n} /\ n.id \notin UsedIds /\ n.from = p /\ n.to = m.from
             /\ n.item = NoItem /\ n.money = m.cod /\ n.kind = "MAIL_NORMAL"
             /\ InMail(d.mails) = InMail(Latest.mails) + m.cod
    <3>1. Drafted(payment) /\ payment # <<>> /\ RowsOK(Latest) /\ \A x \in Latest.mails : x.id \in UsedIds
      BY <1>6, <1>7, <2>1
    <3>2. PICK n \in Mail : /\ Sent(payment) = {n} /\ n.id \notin UsedIds
                           /\ n.from = payment[1].from /\ n.to = payment[1].to
                           /\ n.item = payment[1].item /\ n.money = payment[1].money
                           /\ n.cod = payment[1].cod /\ n.kind = payment[1].kind
                           /\ InMail(Latest.mails \cup Sent(payment)) = InMail(Latest.mails) + n.money
      BY <3>1, MailSent
    <3> QED BY <1>7, <1>8, <2>1, <3>2
  <2> QED BY <2>1, NoDrafts
<1>10. \A n \in box[p], x \in d.mails : x.id = n.id => x \in Latest.mails
  BY <1>6, <1>8, <1>9
<1>11. BoxOK(box[p], p, d)
  <2>1. Kept(Latest, d, p)
    BY <1>8 DEF Kept
  <2> QED BY <1>6, <2>1, BoxKept
<1>12. Savable(mails, d)
  BY <1>4, <1>5, <1>11, ChangedSavable
<1>13. Modest(mails, d) /\ Truthful(mails, d)
  <2>1. \A n \in mails : \E o \in box[p] : n.id = o.id /\ n.money = o.money /\ (n = o \/ n = new)
    BY <1>4, <1>5
  <2> QED BY <1>4, <1>6, <1>8, <1>10, <2>1 DEF Modest, Truthful, HonestBox
<1>14. r.mails = s.mails /\ r.items = s.items
  <2> DEFINE e == SaveInventoryAndGold(d, p, items, gold)
  <2>1. Shaped(d)
    BY <1>8 DEF RowsOK
  <2> HIDE DEF d, items, gold
  <2>2. Shaped(e) /\ e.mails = d.mails /\ e.items = d.items
    BY <2>1, InventoryAlone
  <2> HIDE DEF e
  <2>3. SaveMail(e, mails).mails = s.mails /\ SaveMail(e, mails).items = s.items
    BY <2>1, <2>2, SaveAlone
  <2> QED BY <2>3 DEF e
<1> HIDE DEF d, r
<1>15. /\ Latest' = r /\ RowsOK(r)
       /\ r.inv[p] = inv'[p] /\ r.money[p] = money'[p]
       /\ Latest.inv[p] = inv[p] /\ Latest.money[p] = money[p] /\ money[p] \in 0..MaxMoney
       /\ \A q \in Player \ {p} : /\ r.inv[q] = Latest.inv[q] /\ r.money[q] = Latest.money[q]
                                  /\ Kept(Latest, r, q)
  <2>1. p \in online /\ p \in online' /\ Commit(r, p) /\ MailIInv' /\ Apart(p)
    BY <1>1, <1>2, <1>3
  <2> QED BY <2>1, AfterCommit
<1>16. r.inv[p] = Latest.inv[p] \cup {m.item} /\ r.money[p] = gold
  <2> HIDE DEF gold
  <2> QED BY <1>1, <1>2, <1>15 DEF Memory
<1>17. Total(r) <= Total(Latest)
  <2>1. InMail(s.mails) <= InMail(d.mails)
    BY <1>8, <1>12, <1>13, SaveMakesNoMoney
  <2>2. InMail(d.mails) = InMail(Latest.mails) + m.cod
    <3>1. InMail(Latest.mails) \in Nat
      BY <1>6, TotalIs
    <3>2. CASE payment = <<>>
      <4>1. d.mails = Latest.mails /\ m.cod = 0
        BY <1>7, <1>8, <1>9, <3>2
      <4> QED BY <3>1, <4>1
    <3>3. CASE payment # <<>>
      BY <1>9, <3>3
    <3> QED BY <3>2, <3>3
  <2>3. Wallet(r) = Wallet(Latest) + (r.money[p] - Latest.money[p])
    BY <1>6, <1>15, WalletChange
  <2>4. r.money[p] + m.cod <= Latest.money[p] /\ r.money[p] \in Nat /\ Latest.money[p] \in Nat
    BY <1>1, <1>4, <1>15, <1>16, MoneyAssumption DEF Paid
  <2>5. Total(r) = Wallet(r) + InMail(r.mails) /\ InMail(r.mails) \in Nat /\ Wallet(r) \in Nat
    BY <1>15, TotalIs
  <2>6. /\ Total(Latest) = Wallet(Latest) + InMail(Latest.mails) /\ InMail(Latest.mails) \in Nat
        /\ Wallet(Latest) \in Nat
    BY <1>6, TotalIs
  <2> HIDE DEF s, gold
  <2> QED BY <1>4, <1>14, <2>1, <2>2, <2>3, <2>4, <2>5, <2>6
<1>18. PICK x \in Latest.mails : RowOf(m, x)
  BY <1>6 DEF BoxOK
<1>19. /\ x.id = m.id /\ x.item = m.item /\ x.from = m.from /\ x.to = p /\ x.cod = m.cod
       /\ m.from # p
  BY <1>1, <1>3, <1>6, <1>18 DEF RowOf, Lettered
<1>20. PaidFor(Latest, r)
  <2> SUFFICES ASSUME NEW y \in Latest.mails, y.cod > 0, y.item \in r.inv[y.to]
               PROVE  Worth(r, y.from) >= Worth(Latest, y.from) + y.cod
    BY DEF PaidFor
  <2>1. RowsSound(Latest) /\ y.to \in Player /\ y.cod \in Nat
    BY <1>6, RowsFields DEF RowsOK, Mail
  <2>2. y.item \notin Latest.inv[y.to]
    BY <2>1 DEF RowsSound
  <2>3. y.item = m.item
    BY <1>15, <1>16, <2>1, <2>2
  <2>4. y = x
    BY <1>1, <1>19, <2>1, <2>3 DEF RowsSound
  <2>5. m.cod # 0 /\ y.from = m.from /\ y.cod = m.cod /\ m.from \in Player \ {p} /\ payment # <<>>
    BY <1>7, <1>19, <2>1, <2>4
  <2>6. PICK n \in Mail : /\ Sent(payment) = {n} /\ n.id \notin UsedIds /\ n.to = m.from
                          /\ n.money = m.cod
    BY <1>9, <2>5
  <2>7. n \in r.mails
    <3>1. n \in d.mails /\ \A o \in mails : o.id # n.id
      BY <1>4, <1>5, <1>6, <1>8, <2>6
    <3>2. n \in s.mails
      BY <1>8, <1>12, <3>1, MailsSaved
    <3> QED BY <1>14, <3>2
  <2>8. n \notin Latest.mails
    BY <1>6, <2>6
  <2> DEFINE from == m.from
  <2>9. from \in Player /\ Kept(Latest, r, from) /\ r.money[from] = Latest.money[from] /\ n.to = from
    BY <1>15, <2>5, <2>6
  <2> HIDE DEF from
  <2>10. Worth(r, from) >= Worth(Latest, from) + n.money
    BY <1>6, <1>15, <2>7, <2>8, <2>9, RicherByMail
  <2> QED BY <2>5, <2>6, <2>10 DEF from
<1>21. Stay(Latest, r)
  <2> SUFFICES ASSUME NEW i \in Latest.items, Placed(Latest, i), ~ThrownAway(i)
               PROVE  i \in r.items /\ Placed(r, i)
    BY DEF Stay
  <2>1. \A n \in mails : n.item = i => n.state # "deleted"
    BY <1>4, <1>5 DEF ThrownAway
  <2>2. /\ i \in s.items
        /\ \A y \in d.mails : y.item = i /\ (\A n \in mails : n.id = y.id => n.item = i) =>
              \E z \in s.mails : z.item = i
    BY <1>8, <1>12, <2>1, SaveLosesNothing
  <2>3. ASSUME NEW y \in Latest.mails, y.item = i
        PROVE  Placed(r, i)
    <3>1. CASE y.id = m.id
      <4>1. m.item = i
        BY <1>6, <2>3, <3>1 DEF HonestBox
      <4> QED BY <1>16, <4>1 DEF Placed
    <3>2. CASE y.id # m.id
      <4>1. y \in d.mails /\ \A n \in mails : n.id = y.id => n.item = i
        BY <1>4, <1>5, <1>6, <1>8, <2>3, <3>2 DEF HonestBox
      <4> HIDE DEF s
      <4> QED BY <1>14, <2>2, <2>3, <4>1 DEF Placed
    <3> QED BY <3>1, <3>2
  <2> HIDE DEF s
  <2> QED BY <1>14, <1>15, <1>16, <2>2, <2>3 DEF Placed
<1>22. Lettered(s) /\ s.items \subseteq Latest.items
  <2>1. Lettered(d)
    BY <1>6, <1>8, <1>9, <1>19 DEF Lettered
  <2> QED BY <1>8, <1>12, <2>1, LetteredSaved
<1>23. HonestBox(b, s)
  BY <1>8, <1>12, <1>13, HonestSaved
<1>24. Sent(payment) \subseteq r.mails
  <2>1. ASSUME NEW n \in Sent(payment) PROVE n \in s.mails
    <3>1. n \in d.mails /\ \A o \in mails : o.id # n.id
      BY <1>4, <1>5, <1>6, <1>8, <1>9
    <3> QED BY <1>8, <1>12, <3>1, MailsSaved
  <2> HIDE DEF s
  <2> QED BY <1>14, <2>1
<1>25. Honest(r) /\ HonestBox(b, r)
  <2> HIDE DEF s, b
  <2> QED BY <1>14, <1>17, <1>20, <1>21, <1>22, <1>23 DEF Honest, Fair, Lettered, HonestBox
<1> HIDE DEF b, s
<1> QED BY <1>1, <1>2, <1>3, <1>15, <1>21, <1>24, <1>25, HonestStep

LEMMA SaveHonest ==
    ASSUME PostIInv, NEW p \in Player, Save(p)
    PROVE  PostIInv' /\ Stay(Latest, Latest')
<1> DEFINE r == Saved(p)
           b == Cleaned(box[p])
<1>1. p \in online /\ Commit(r, p) /\ box' = [box EXCEPT ![p] = b]
  BY DEF Save
<1>2. MailIInv /\ MailIInv' /\ Memory /\ Queued
  BY SaveKeeps DEF PostIInv, MailIInv, DatabaseOK
<1>3. Honest(r) /\ HonestBox(b, r) /\ \A q \in Player \ {p} : HonestBox(box[q], r)
  BY <1>1, SavedHonest
<1> HIDE DEF r, b
<1>4. Latest' = r
  BY <1>1, <1>2, OneMore
<1>5. \A q \in Player : box'[q] = IF q = p THEN b ELSE box[q]
  BY <1>1, <1>2 DEF Memory
<1>6. HonestBoxes'
  BY <1>3, <1>4, <1>5 DEF HonestBoxes, HonestBox
<1> QED BY <1>1, <1>2, <1>3, <1>4, <1>6, FairCommit DEF Honest

LEMMA LogoutHonest ==
    ASSUME PostIInv, NEW p \in Player, Logout(p)
    PROVE  PostIInv' /\ Stay(Latest, Latest')
<1> DEFINE r == Saved(p)
<1>1. p \in online /\ Commit(r, p) /\ box' = [box EXCEPT ![p] = {}]
  BY DEF Logout
<1>2. MailIInv /\ MailIInv' /\ Memory /\ Queued
  BY LogoutKeeps DEF PostIInv, MailIInv, DatabaseOK
<1>3. Honest(r) /\ \A q \in Player \ {p} : HonestBox(box[q], r)
  BY <1>1, SavedHonest
<1> HIDE DEF r
<1>4. Latest' = r
  BY <1>1, <1>2, OneMore
<1>5. \A q \in Player : box'[q] = IF q = p THEN {} ELSE box[q]
  BY <1>1, <1>2 DEF Memory
<1>6. HonestBoxes'
  BY <1>3, <1>4, <1>5 DEF HonestBoxes, HonestBox
<1> QED BY <1>1, <1>2, <1>3, <1>4, <1>6, FairCommit DEF Honest

-----------------------------------------------------------------------------
(* Steps that commit nothing. *)

LEMMA QuietHonest ==
    ASSUME PostIInv, MailIInv', UNCHANGED <<db, writes>>, NEW p \in Player, NEW b,
           box' = [box EXCEPT ![p] = b], HonestBox(b, Latest)
    PROVE  PostIInv' /\ Latest' = Latest
<1>1. Latest' = Latest /\ Versions' = Versions
  BY RowsAlone
<1>2. Chain'
  BY DEF PostIInv, Chain, Fair, PaidFor, State
<1>3. LetterRows'
  BY <1>1 DEF PostIInv, LetterRows, Lettered
<1>4. \A q \in Player : box'[q] = IF q = p THEN b ELSE box[q]
  BY DEF PostIInv, MailIInv, Memory
<1>5. HonestBoxes'
  BY <1>1, <1>4 DEF PostIInv, HonestBoxes, HonestBox
<1> QED BY <1>1, <1>2, <1>3, <1>5 DEF PostIInv

LEMMA SameBoxHonest ==
    ASSUME PostIInv, MailIInv', UNCHANGED <<db, writes, box>>
    PROVE  PostIInv' /\ Latest' = Latest
<1>1. Latest' = Latest /\ Versions' = Versions
  BY RowsAlone
<1>2. Chain'
  BY DEF PostIInv, Chain, Fair, PaidFor, State
<1>3. LetterRows'
  BY <1>1 DEF PostIInv, LetterRows, Lettered
<1>4. HonestBoxes'
  BY <1>1 DEF PostIInv, HonestBoxes, HonestBox
<1> QED BY <1>1, <1>2, <1>3, <1>4 DEF PostIInv

\* The rows that are read are not older than the newest ones in what matters.
LEMMA GetMailListHonest ==
    ASSUME PostIInv, NEW p \in Player, GetMailList(p)
    PROVE  PostIInv' /\ Latest' = Latest
<1> DEFINE read(n) == [n EXCEPT !.item = IF @ \in db.items THEN @ ELSE NoItem]
           b == {m \in {read(n) : n \in {n \in db.mails : n.to = p}} : ~IsEmpty(m)}
<1>1. /\ p \in online \ loaded /\ box' = [box EXCEPT ![p] = b] /\ UNCHANGED <<db, writes>>
  BY DEF GetMailList, dbVars
<1>2. MailIInv /\ MailIInv' /\ DatabaseOK
  BY GetMailListKeeps DEF PostIInv, MailIInv
<1>3. RowsOK(db) /\ db \in Versions /\ RowsOK(Latest)
  BY <1>2, LatestRows
<1>4. Kept(db, Latest, p) /\ Latest.items \subseteq db.items
  BY <1>1, <1>2, <1>3 DEF DatabaseOK, NotListed, PostIInv, LetterRows
<1>5. ASSUME NEW n \in db.mails
      PROVE  read(n).id = n.id /\ read(n).item = IF n.item \in db.items THEN n.item ELSE NoItem
  <2>1. n \in Mail
    BY <1>3, RowsFields
  <2> QED BY <2>1 DEF Mail
<1> HIDE DEF read
<1>6. \A m \in b : \E n \in db.mails : n.to = p /\ m = read(n)
  OBVIOUS
<1> HIDE DEF b
<1>7. HonestBox(b, Latest)
  <2> SUFFICES ASSUME NEW m \in b, NEW x \in Latest.mails, x.id = m.id
               PROVE  x.item = m.item \/ x.item \notin Latest.items
    BY DEF HonestBox
  <2>1. PICK n \in db.mails : n.to = p /\ m = read(n)
    BY <1>6
  <2>2. n \in Latest.mails /\ m.id = n.id /\ m.item = IF n.item \in db.items THEN n.item ELSE NoItem
    BY <1>4, <1>5, <2>1 DEF Kept
  <2>3. n = x
    BY <1>3, <2>2, RowsFields
  <2> QED BY <1>4, <2>2, <2>3
<1> QED BY <1>1, <1>2, <1>7, QuietHonest

LEMMA MarkMailHonest ==
    ASSUME PostIInv, NEW p \in Player, NEW m \in box[p], NEW state \in {"changed", "deleted"},
           MarkMail(p, m, state)
    PROVE  PostIInv' /\ Latest' = Latest
<1> DEFINE new == [m EXCEPT !.state = state]
           b == Changed(p, m, new)
<1>1. box' = [box EXCEPT ![p] = b] /\ UNCHANGED <<db, writes>>
  BY DEF MarkMail, dbVars
<1>2. MailIInv /\ MailIInv'
  BY MarkMailKeeps DEF PostIInv
<1>3. new.id = m.id /\ new.item = m.item
  <2>1. m \in Mail
    BY <1>2 DEF MailIInv, Memory
  <2> QED BY <2>1 DEF Mail
<1>4. b = (box[p] \ {m}) \cup {new}
  BY DEF Changed
<1> HIDE DEF new, b
<1>5. HonestBox(b, Latest)
  BY <1>3, <1>4 DEF PostIInv, HonestBoxes, HonestBox
<1> QED BY <1>1, <1>2, <1>5, QuietHonest

-----------------------------------------------------------------------------
(* Steps of the database. *)

\* One transaction less.
LEMMA OneLess ==
    ASSUME Queued, ExecuteNext
    PROVE  /\ Len(writes) \in Nat /\ Len(writes) > 0 /\ Len(writes') = Len(writes) - 1
           /\ State(0) = db /\ db' = State(1)
           /\ \A j \in 0..Len(writes') : State(j)' = State(j + 1)
<1>1. PICK S : writes \in Seq(S)
  BY DEF Queued
<1>2. writes # <<>> /\ db' = Head(writes).rows /\ writes' = Tail(writes)
  BY DEF ExecuteNext
<1>3. /\ writes' \in Seq(S) /\ Len(writes) \in Nat /\ Len(writes) > 0
      /\ Len(writes') = Len(writes) - 1 /\ db' = writes[1].rows
      /\ \A k \in 1..Len(writes') : writes'[k] = writes[k + 1]
  BY <1>1, <1>2
<1>4. ASSUME NEW j \in 0..Len(writes')
      PROVE  State(j)' = State(j + 1)
  <2>1. j \in Nat /\ j + 1 # 0 /\ (j = 0 \/ j \in 1..Len(writes'))
    BY <1>3
  <2> QED BY <1>3, <2>1 DEF State
<1>5. State(0) = db /\ db' = State(1)
  BY <1>3 DEF State
<1> QED BY <1>3, <1>4, <1>5

LEMMA ExecuteHonest ==
    ASSUME PostIInv, WorkerNext
    PROVE  PostIInv' /\ Latest' = Latest /\ Fair(db, db')
<1>1. MailIInv' /\ Latest' = Latest /\ Versions' \subseteq Versions
  BY ExecuteKeeps DEF PostIInv
<1>2. ExecuteNext /\ box' = box /\ Queued
  BY DEF WorkerNext, memoryVars, PostIInv, MailIInv, DatabaseOK
<1>3. /\ Len(writes) \in Nat /\ Len(writes) > 0 /\ Len(writes') = Len(writes) - 1
      /\ State(0) = db /\ db' = State(1)
      /\ \A j \in 0..Len(writes') : State(j)' = State(j + 1)
  BY <1>2, OneLess
<1>4. Fair(db, db')
  <2>1. 1 \in 1..Len(writes) /\ 1 - 1 = 0
    BY <1>3
  <2>2. Fair(State(0), State(1))
    BY <2>1 DEF PostIInv, Chain
  <2> QED BY <1>3, <2>2
<1>5. Chain'
  <2> SUFFICES ASSUME NEW j \in 1..Len(writes')
               PROVE  Fair(State(j - 1)', State(j)')
    BY DEF Chain, Fair, PaidFor
  <2>1. /\ j - 1 \in 0..Len(writes') /\ j \in 0..Len(writes') /\ (j - 1) + 1 = j
        /\ j + 1 \in 1..Len(writes) /\ (j + 1) - 1 = j
    BY <1>3
  <2>2. Fair(State(j), State(j + 1))
    BY <2>1 DEF PostIInv, Chain
  <2>3. State(j - 1)' = State(j) /\ State(j)' = State(j + 1)
    BY <1>3, <2>1
  <2> QED BY <2>2, <2>3
<1>6. LetterRows'
  BY <1>1 DEF PostIInv, LetterRows, Lettered
<1>7. HonestBoxes'
  BY <1>1, <1>2 DEF PostIInv, HonestBoxes, HonestBox
<1> QED BY <1>1, <1>4, <1>5, <1>6, <1>7 DEF PostIInv

LEMMA CrashHonest ==
    ASSUME PostIInv, Crash
    PROVE  PostIInv'
<1>1. MailIInv' /\ Latest' = db /\ Versions' = {db}
  BY CrashKeeps DEF PostIInv
<1>2. writes' = <<>> /\ box' = [p \in Player |-> {}]
  BY DEF Crash, LoseQueue
<1>3. Len(writes') = 0
  BY <1>2, EmptySeq
<1>4. Chain'
  BY <1>3 DEF Chain
<1>5. LetterRows'
  <2>1. Lettered(db)
    BY LatestRows DEF PostIInv, LetterRows, MailIInv
  <2> QED BY <1>1, <2>1 DEF LetterRows, Lettered
<1>6. HonestBoxes'
  BY <1>2 DEF HonestBoxes, HonestBox
<1> QED BY <1>1, <1>4, <1>5, <1>6 DEF PostIInv

-----------------------------------------------------------------------------
(* The old mails, at startup. *)

\* A mail that was not returned before still has its item.
StillThere(d) ==
    \A x \in Latest.mails : x.checked = "none" /\ x.item \in Latest.items
        => x.item \in d.items /\ \E y \in d.mails : y.id = x.id /\ y.item = x.item

Tidied(d) == RowsOK(d) /\ d.inv = Latest.inv /\ Lettered(d) /\ StillThere(d)

\* One statement more.
Onward(d, e) == Tidied(e) /\ Total(e) <= Total(d) /\ e.items \subseteq d.items

\* Mails that all come from others with the same money and other ids.
LEMMA NoMoreMoney ==
    ASSUME NEW d, RowsOK(d), NEW e, RowsOK(e), e.money = d.money,
           \A y \in e.mails : \E x \in d.mails : x.id = y.id /\ x.money = y.money
    PROVE  Total(e) <= Total(d)
<1> DEFINE h == [y \in e.mails |-> CHOOSE x \in d.mails : x.id = y.id /\ x.money = y.money]
           M == d.mails
           N == e.mails
<1>1. \A y \in N : h[y] \in M /\ h[y].id = y.id /\ h[y].money = y.money
  OBVIOUS
<1>2. N \subseteq Mail /\ OneEach(N) /\ M \subseteq Mail /\ OneEach(M)
  BY RowsFields DEF OneEach
<1>3. \A q \in Player : e.money[q] = d.money[q]
  OBVIOUS
<1>4. Wallet(e) = Wallet(d)
  BY <1>3, WalletSame
<1>5. /\ Total(d) = Wallet(d) + InMail(M) /\ Wallet(d) \in Nat /\ InMail(M) \in Nat
      /\ Total(e) = Wallet(e) + InMail(N) /\ InMail(N) \in Nat
  BY TotalIs
<1> HIDE DEF h, M, N
<1>6. /\ IsFiniteSet(M) /\ IsFiniteSet(N)
      /\ \A y \in N : MoneyIn[y] = y.money /\ y.money \in Nat
      /\ \A x \in M : MoneyIn[x] = x.money /\ x.money \in Nat
  BY <1>2, MailMoney
<1>7. \A x, y \in N : h[x] = h[y] => x = y
  BY <1>1, <1>2 DEF OneEach
<1>8. /\ \A y \in N : h[y] \in M
      /\ \A y \in N : MoneyIn[y] \in Nat /\ MoneyIn[y] <= MoneyIn[h[y]]
      /\ \A x \in M : MoneyIn[x] \in Nat
  BY <1>1, <1>6
<1>9. SumFunctionOnSet(MoneyIn, N) <= SumFunctionOnSet(MoneyIn, M)
  BY <1>6, <1>7, <1>8, SumInto
<1> QED BY <1>4, <1>5, <1>9 DEF InMail

\* A mail that is deleted, with its item or after it.
LEMMA DeletedOnward ==
    ASSUME RowsOK(Latest), Lettered(Latest), NEW d, Tidied(d), NEW m \in Latest.mails,
           ~(m.item # NoItem /\ m.kind = "MAIL_NORMAL" /\ m.checked = "none"),
           NEW e, RowsOK(e), e.inv = d.inv, e.money = d.money, e.mails \subseteq d.mails,
           \A y \in d.mails : y.id # m.id => y \in e.mails,
           e.items \subseteq d.items, d.items \ {m.item} \subseteq e.items
    PROVE  Onward(d, e)
<1>1. RowsOK(d) /\ d.inv = Latest.inv /\ Lettered(d) /\ StillThere(d)
  BY DEF Tidied
<1>2. Total(e) <= Total(d)
  BY <1>1, NoMoreMoney
<1>3. Lettered(e)
  BY <1>1 DEF Lettered
<1>4. StillThere(e)
  <2> SUFFICES ASSUME NEW x \in Latest.mails, x.checked = "none", x.item \in Latest.items
               PROVE  x.item \in e.items /\ \E y \in e.mails : y.id = x.id /\ y.item = x.item
    BY DEF StillThere
  <2>1. PICK y \in d.mails : y.id = x.id /\ y.item = x.item
    BY <1>1 DEF StillThere
  <2>2. x.item \in d.items
    BY <1>1 DEF StillThere
  <2>3. x.item # NoItem /\ x.kind = "MAIL_NORMAL"
    BY NoItemAssumption, RowsFields DEF Lettered
  <2>4. x # m
    BY <2>3
  <2>5. x.id # m.id /\ x.item # m.item
    BY <2>3, <2>4 DEF RowsOK, MailRows, RowsSound
  <2>6. y \in e.mails /\ x.item \in e.items
    BY <2>1, <2>2, <2>5
  <2> QED BY <2>1, <2>6
<1> QED BY <1>1, <1>2, <1>3, <1>4 DEF Onward, Tidied

\* One old mail: one statement or two.
LEMMA OldMailHonest ==
    ASSUME RowsOK(Latest), Lettered(Latest), NEW d, Tidied(d), NEW m \in Latest.mails
    PROVE  \E e, r : \/ OldMail(d, m) = <<r>> /\ Onward(d, r)
                     \/ OldMail(d, m) = Append(<<e>>, r) /\ Onward(d, e) /\ Onward(e, r)
<1>0. /\ RowsOK(d) /\ d.inv = Latest.inv /\ Lettered(d) /\ StillThere(d) /\ Shaped(d)
      /\ m \in Mail /\ Answerable(m) /\ m.from # m.to
  BY RowsFields DEF Tidied, Lettered, RowsOK
<1>b. \A p \in Player : m.item \notin Latest.inv[p]
  BY DEF RowsOK, RowsSound
<1>1. CASE m.item # NoItem /\ m.kind = "MAIL_NORMAL" /\ m.checked = "none"
  <2> DEFINE back(x) == [x EXCEPT !.from = m.to, !.to = m.from, !.cod = 0, !.checked = "returned"]
             swap(x) == IF x.id = m.id THEN back(x) ELSE x
             rows == {swap(x) : x \in d.mails}
             r == [d EXCEPT !.mails = rows]
  <2>1. OldMail(d, m) = <<r>>
    BY <1>0, <1>1 DEF OldMail, Shaped
  <2>2. /\ r.mails = rows /\ r.inv = d.inv /\ r.money = d.money /\ r.items = d.items
    BY <1>0 DEF Shaped
  <2>3. RowsOK(r)
    <3>1. PICK T : OldMail(d, m) \in Seq(T) /\ \A q \in T : RowsOK(q)
      BY <1>0, <1>b, OldMailRows
    <3> HIDE DEF r
    <3>2. r \in T
      <4>1. 1 \in 1..Len(<<r>>) /\ <<r>>[1] = r
        OBVIOUS
      <4> QED BY <2>1, <3>1, <4>1, ElementOfSeq
    <3> QED BY <3>1, <3>2
  <2>4. ASSUME NEW x \in d.mails
        PROVE  /\ swap(x).id = x.id /\ swap(x).item = x.item /\ swap(x).money = x.money
               /\ swap(x).kind = x.kind /\ swap(x).from # swap(x).to
    <3>1. x \in Mail /\ x.from # x.to
      BY <1>0, RowsFields DEF Lettered
    <3>2. /\ back(x).id = x.id /\ back(x).item = x.item /\ back(x).money = x.money
          /\ back(x).kind = x.kind /\ back(x).from = m.to /\ back(x).to = m.from
      BY <3>1 DEF Mail
    <3> HIDE DEF back
    <3> QED BY <1>0, <3>1, <3>2
  <2>5. \A x \in d.mails : swap(x) \in rows
    OBVIOUS
  <2> HIDE DEF swap
  <2>6. \A y \in rows : \E x \in d.mails : y = swap(x)
    OBVIOUS
  <2> HIDE DEF rows, r
  <2>7. Total(r) <= Total(d)
    <3>1. \A y \in r.mails : \E x \in d.mails : x.id = y.id /\ x.money = y.money
      BY <2>2, <2>4, <2>6
    <3> QED BY <1>0, <2>2, <2>3, <3>1, NoMoreMoney
  <2>8. Lettered(r)
    BY <1>0, <2>2, <2>4, <2>6 DEF Lettered
  <2>9. StillThere(r)
    <3> SUFFICES ASSUME NEW x \in Latest.mails, x.checked = "none", x.item \in Latest.items
                 PROVE  x.item \in r.items /\ \E y \in r.mails : y.id = x.id /\ y.item = x.item
      BY DEF StillThere
    <3>1. x.item \in d.items
      BY <1>0 DEF StillThere
    <3>2. PICK z \in d.mails : z.id = x.id /\ z.item = x.item
      BY <1>0 DEF StillThere
    <3>3. swap(z) \in r.mails /\ swap(z).id = x.id /\ swap(z).item = x.item
      BY <2>2, <2>4, <2>5, <3>2
    <3> QED BY <2>2, <3>1, <3>3
  <2>10. Onward(d, r)
    BY <1>0, <2>2, <2>3, <2>7, <2>8, <2>9 DEF Onward, Tidied
  <2> QED BY <2>1, <2>10
<1>2. CASE ~(m.item # NoItem /\ m.kind = "MAIL_NORMAL" /\ m.checked = "none") /\ m.item = NoItem
  <2> DEFINE r == DeleteMail(d, m.id)
  <2>1. OldMail(d, m) = <<r>>
    <3>1. Last(<<d>> \o <<>>) = d
      BY DEF Last
    <3>2. OldMail(d, m) = Append(<<>>, DeleteMail(Last(<<d>> \o <<>>), m.id))
      BY <1>2 DEF OldMail
    <3> QED BY <3>1, <3>2
  <2>2. RowsOK(r)
    BY <1>0, MailDeleted
  <2>3. /\ r.mails = {x \in d.mails : x.id # m.id} /\ r.inv = d.inv /\ r.money = d.money
        /\ r.items = d.items
    BY <1>0 DEF Shaped, DeleteMail
  <2> HIDE DEF r
  <2>4. /\ r.mails \subseteq d.mails /\ \A y \in d.mails : y.id # m.id => y \in r.mails
        /\ r.items \subseteq d.items /\ d.items \ {m.item} \subseteq r.items
    BY <2>3
  <2>5. Onward(d, r)
    BY <1>2, <2>2, <2>3, <2>4, DeletedOnward
  <2> QED BY <2>1, <2>5
<1>3. CASE ~(m.item # NoItem /\ m.kind = "MAIL_NORMAL" /\ m.checked = "none") /\ m.item # NoItem
  <2> DEFINE e == DeleteItem(d, m.item)
             r == DeleteMail(e, m.id)
  <2>1. /\ Shaped(e) /\ e.inv = d.inv /\ e.money = d.money /\ e.mails = d.mails
        /\ e.items = d.items \ {m.item}
    BY <1>0 DEF Shaped, DeleteItem
  <2> HIDE DEF e
  <2>2. OldMail(d, m) = Append(<<e>>, r)
    <3> HIDE DEF r
    <3> DEFINE last == Last(<<d>> \o <<e>>)
    <3>1. last = e
      BY DEF Last
    <3>2. OldMail(d, m) = Append(<<e>>, DeleteMail(last, m.id))
      BY <1>3 DEF OldMail, e
    <3> HIDE DEF last
    <3>3. OldMail(d, m) = Append(<<e>>, r)
      BY <3>1, <3>2 DEF r
    <3> QED BY <3>3
  <2>3. RowsOK(e) /\ RowsOK(r)
    <3>1. MailRows(e)
      BY <1>0, <2>1, RowsFields DEF MailRows
    <3>2. RowsSound(e)
      BY <1>0, <1>b, <2>1 DEF RowsOK, RowsSound
    <3>3. RowsOK(e)
      BY <2>1, <3>1, <3>2 DEF RowsOK
    <3> QED BY <3>3, MailDeleted
  <2>4. /\ r.mails = {x \in e.mails : x.id # m.id} /\ r.inv = e.inv /\ r.money = e.money
        /\ r.items = e.items
    BY <2>1 DEF Shaped, DeleteMail
  <2> HIDE DEF r
  <2>5. /\ e.mails \subseteq d.mails /\ \A y \in d.mails : y.id # m.id => y \in e.mails
        /\ e.items \subseteq d.items /\ d.items \ {m.item} \subseteq e.items
        /\ r.mails \subseteq e.mails /\ \A y \in e.mails : y.id # m.id => y \in r.mails
        /\ r.items \subseteq e.items /\ e.items \ {m.item} \subseteq r.items
    BY <2>1, <2>4
  <2>6. Onward(d, e)
    BY <1>3, <2>1, <2>3, <2>5, DeletedOnward
  <2>7. Tidied(e)
    BY <2>6 DEF Onward
  <2>8. Onward(e, r)
    BY <1>3, <2>3, <2>4, <2>5, <2>7, DeletedOnward
  <2> QED BY <2>2, <2>6, <2>8
<1> QED BY <1>1, <1>2, <1>3

\* The rows after each of the statements so far.
Trail(s) ==
    \E T : /\ s \in Seq(T) /\ \A r \in T : Tidied(r)
           /\ Tidied(Last(<<Latest>> \o s)) /\ Last(<<Latest>> \o s).items \subseteq Latest.items
           /\ \A k \in 1..Len(s) : /\ Last(<<Latest>> \o s).items \subseteq s[k].items
                                   /\ Total(s[k]) <= Total(IF k = 1 THEN Latest ELSE s[k - 1])

LEMMA LastOf ==
    ASSUME NEW s, NEW T, s \in Seq(T), NEW d
    PROVE  Last(<<d>> \o s) = IF Len(s) = 0 THEN d ELSE s[Len(s)]
<1> DEFINE U == T \cup {d}
           t == <<d>> \o s
<1>1. s \in Seq(U) /\ <<d>> \in Seq(U) /\ Len(<<d>>) = 1 /\ <<d>>[1] = d
  BY SeqMonotonic
<1> HIDE DEF U
<1>2. /\ Len(t) = 1 + Len(s) /\ Len(s) \in Nat
      /\ \A k \in 1..Len(t) : t[k] = IF k <= 1 THEN <<d>>[k] ELSE s[k - 1]
  BY <1>1, ConcatProperties, LenProperties
<1> HIDE DEF t
<1>3. Last(t) = t[1 + Len(s)]
  BY <1>2 DEF Last
<1>4. 1 + Len(s) \in 1..Len(t) /\ (1 + Len(s)) - 1 = Len(s) /\ (1 + Len(s) <= 1 <=> Len(s) = 0)
  BY <1>2
<1>5. t[1 + Len(s)] = IF Len(s) = 0 THEN d ELSE s[Len(s)]
  <2>1. t[1 + Len(s)] = IF 1 + Len(s) <= 1 THEN <<d>>[1 + Len(s)] ELSE s[(1 + Len(s)) - 1]
    BY <1>2, <1>4
  <2> QED BY <1>1, <1>4, <2>1
<1> QED BY <1>3, <1>5 DEF t

LEMMA TrailOn ==
    ASSUME NEW s, Trail(s), NEW r, Onward(Last(<<Latest>> \o s), r)
    PROVE  Trail(s \o <<r>>) /\ Last(<<Latest>> \o (s \o <<r>>)) = r
<1> DEFINE d == Last(<<Latest>> \o s)
           t == s \o <<r>>
<1>1. PICK T : /\ s \in Seq(T) /\ \A q \in T : Tidied(q)
               /\ d.items \subseteq Latest.items
               /\ \A k \in 1..Len(s) : /\ d.items \subseteq s[k].items
                                       /\ Total(s[k]) <= Total(IF k = 1 THEN Latest ELSE s[k - 1])
  BY DEF Trail
<1>2. d = IF Len(s) = 0 THEN Latest ELSE s[Len(s)]
  BY <1>1, LastOf
<1>3. Tidied(r) /\ Total(r) <= Total(d) /\ r.items \subseteq d.items
  BY DEF Onward
<1> HIDE DEF d
<1> DEFINE U == T \cup {r}
<1>4. s \in Seq(U) /\ <<r>> \in Seq(U) /\ Len(<<r>>) = 1 /\ <<r>>[1] = r
  BY <1>1, SeqMonotonic
<1>5. \A q \in U : Tidied(q)
  BY <1>1, <1>3
<1> HIDE DEF U
<1>6. /\ t \in Seq(U) /\ Len(s) \in Nat /\ Len(t) = Len(s) + 1
      /\ \A k \in 1..Len(s) : t[k] = s[k]
      /\ t[Len(s) + 1] = r
  BY <1>4, ConcatProperties, LenProperties
<1> HIDE DEF t
<1>7. Last(<<Latest>> \o t) = r
  <2>1. Last(<<Latest>> \o t) = IF Len(t) = 0 THEN Latest ELSE t[Len(t)]
    BY <1>6, LastOf
  <2> QED BY <1>6, <2>1
<1>8. ASSUME NEW k \in 1..Len(t)
      PROVE  r.items \subseteq t[k].items /\ Total(t[k]) <= Total(IF k = 1 THEN Latest ELSE t[k - 1])
  <2>1. CASE k = Len(s) + 1
    <3>1. (IF k = 1 THEN Latest ELSE t[k - 1]) = d
      <4>1. k # 1 => k - 1 = Len(s) /\ Len(s) \in 1..Len(s) /\ Len(s) # 0
        BY <1>6, <2>1
      <4>2. k = 1 => Len(s) = 0
        BY <1>6, <2>1
      <4> QED BY <1>2, <1>6, <4>1, <4>2
    <3> QED BY <1>3, <1>6, <2>1, <3>1
  <2>2. CASE k # Len(s) + 1
    <3>1. k \in 1..Len(s) /\ (k # 1 => k - 1 \in 1..Len(s))
      BY <1>6, <2>2
    <3>2. t[k] = s[k] /\ (k # 1 => t[k - 1] = s[k - 1])
      BY <1>6, <3>1
    <3>3. d.items \subseteq s[k].items /\ Total(s[k]) <= Total(IF k = 1 THEN Latest ELSE s[k - 1])
      BY <1>1, <3>1
    <3> QED BY <1>3, <3>2, <3>3
  <2> QED BY <2>1, <2>2
<1>9. r.items \subseteq Latest.items
  BY <1>1, <1>3
<1>10. Trail(t)
  BY <1>3, <1>5, <1>6, <1>7, <1>8, <1>9 DEF Trail
<1> QED BY <1>7, <1>10 DEF t

LEMMA OldMailsHonest ==
    ASSUME RowsOK(Latest), Lettered(Latest), NEW old, old \subseteq Latest.mails
    PROVE  Trail(OldMails(old))
<1> DEFINE f == OldRows(old)
           N == {n \in Nat : n \in 0..MaxMails => Trail(f[n])}
<1>1. \A n \in 0..MaxMails : f[n] = OldBody(old, f, n)
  <2>1. f = [n \in 0..MaxMails |-> OldBody(old, f, n)]
    BY OldRowsExists
  <2> HIDE DEF f
  <2> QED BY <2>1
<1> HIDE DEF f
<1>2. 0 \in N
  <2>1. ASSUME 0 \in 0..MaxMails
        PROVE  Trail(f[0])
    <3>1. f[0] = <<>>
      BY <1>1, <2>1 DEF OldBody
    <3>2. /\ <<>> \in Seq({}) /\ \A r \in {} : Tidied(r)
          /\ Len(<<>>) = 0 /\ \A k \in 1..Len(<<>>) : FALSE
      OBVIOUS
    <3>3. Last(<<Latest>> \o <<>>) = Latest
      BY <3>2, LastOf
    <3>4. Tidied(Latest)
      BY DEF Tidied, StillThere
    <3> QED BY <3>1, <3>2, <3>3, <3>4 DEF Trail
  <2> QED BY <2>1
<1>3. ASSUME NEW n \in Nat, n \in N
      PROVE  n + 1 \in N
  <2>1. ASSUME n + 1 \in 0..MaxMails
        PROVE  Trail(f[n + 1])
    <3> DEFINE mail == {m \in old : m.id = n + 1}
               d == Last(<<Latest>> \o f[n])
    <3>1. n \in 0..MaxMails /\ n + 1 # 0 /\ (n + 1) - 1 = n
      BY <2>1, MailsAssumption
    <3>2. Trail(f[n])
      BY <1>3, <3>1
    <3>3. f[n + 1] = IF mail = {} THEN f[n] ELSE f[n] \o OldMail(d, CHOOSE m \in mail : TRUE)
      <4>1. f[n + 1] = OldBody(old, f, n + 1)
        BY <1>1, <2>1
      <4> QED BY <3>1, <4>1 DEF OldBody
    <3>4. Tidied(d)
      BY <3>2 DEF Trail
    <3>5. CASE mail = {}
      BY <3>2, <3>3, <3>5
    <3>6. CASE mail # {}
      <4> DEFINE m == CHOOSE m \in mail : TRUE
      <4>1. m \in Latest.mails
        BY <3>6
      <4>2. f[n + 1] = f[n] \o OldMail(d, m)
        BY <3>3, <3>6
      <4> HIDE DEF mail, m
      <4>3. PICK e, r : \/ OldMail(d, m) = <<r>> /\ Onward(d, r)
                        \/ OldMail(d, m) = Append(<<e>>, r) /\ Onward(d, e) /\ Onward(e, r)
        <5> HIDE DEF d
        <5> QED BY <3>4, <4>1, OldMailHonest
      <4>4. CASE OldMail(d, m) = <<r>> /\ Onward(d, r)
        <5>1. Trail(f[n] \o <<r>>)
          BY <3>2, <4>4, TrailOn
        <5> QED BY <4>2, <4>4, <5>1
      <4>5. CASE OldMail(d, m) = Append(<<e>>, r) /\ Onward(d, e) /\ Onward(e, r)
        <5>1. Trail(f[n] \o <<e>>) /\ Last(<<Latest>> \o (f[n] \o <<e>>)) = e
          BY <3>2, <4>5, TrailOn
        <5>2. Trail((f[n] \o <<e>>) \o <<r>>)
          BY <4>5, <5>1, TrailOn
        <5>3. (f[n] \o <<e>>) \o <<r>> = f[n] \o Append(<<e>>, r)
          <6>1. PICK T : f[n] \in Seq(T)
            BY <3>2 DEF Trail
          <6> DEFINE U == T \cup {e, r}
          <6>2. f[n] \in Seq(U) /\ <<e>> \in Seq(U) /\ <<r>> \in Seq(U)
            BY <6>1, SeqMonotonic
          <6> HIDE DEF U
          <6>3. (f[n] \o <<e>>) \o <<r>> = f[n] \o (<<e>> \o <<r>>)
            BY <6>2, ConcatAssociative
          <6>4. <<e>> \o <<r>> = Append(<<e>>, r)
            BY <6>2, AppendIsConcat
          <6> QED BY <6>3, <6>4
        <5> HIDE DEF d, m
        <5> QED BY <4>2, <4>5, <5>2, <5>3
      <4> QED BY <4>3, <4>4, <4>5
    <3> QED BY <3>5, <3>6
  <2> QED BY <2>1
<1> HIDE DEF N
<1>4. MaxMails \in N
  BY <1>2, <1>3, NumberInduction, MailsAssumption
<1>5. Trail(f[MaxMails])
  <2>1. MaxMails \in 0..MaxMails
    BY MailsAssumption
  <2> QED BY <1>4, <2>1 DEF N
<1>6. OldMails(old) = f[MaxMails]
  BY OldMailsRows DEF f
<1> QED BY <1>5, <1>6

\* An item keeps its place, was thrown away, or was in an old mail that had
\* been returned when the server started.
Lossless ==
    \A i \in Latest.items :
        Placed(Latest, i) =>
            \/ i \in Latest'.items /\ Placed(Latest', i)
            \/ ThrownAway(i)
            \/ online = {} /\ \E m \in db.mails : m.item = i /\ m.checked # "none"

LEMMA ReturnOrDeleteHonest ==
    ASSUME PostIInv, ~DailyRun, NEW old \in SUBSET db.mails, ReturnOrDeleteOldMails(old)
    PROVE  PostIInv' /\ Lossless /\ db' = db
<1> DEFINE some == {m \in old : m.to \notin loaded}
           rows == OldMails(some)
           last == Last(<<Latest>> \o rows)
<1>1. online = {} /\ writes = <<>> /\ CommitAll(rows, Player) /\ box' = box /\ db' = db
  BY DEF ReturnOrDeleteOldMails, CommitAll, memoryVars
<1>2. MailIInv /\ MailIInv' /\ Memory /\ DatabaseOK /\ Queued
  BY ReturnOrDeleteKeeps DEF PostIInv, MailIInv, DatabaseOK
<1>3. Latest = db /\ RowsOK(Latest) /\ Lettered(Latest) /\ Len(writes) = 0
  BY <1>1, <1>2, LatestRows, EmptySeq DEF Latest, PostIInv, LetterRows
<1>4. Trail(rows)
  <2>1. some \subseteq Latest.mails
    BY <1>3
  <2> HIDE DEF some
  <2> QED BY <1>3, <2>1, OldMailsHonest
<1> HIDE DEF rows
<1>5. PICK T :
         /\ rows \in Seq(T) /\ \A r \in T : Tidied(r)
         /\ Tidied(last) /\ last.items \subseteq Latest.items
         /\ \A k \in 1..Len(rows) :
               /\ last.items \subseteq rows[k].items
               /\ Total(rows[k]) <= Total(IF k = 1 THEN Latest ELSE rows[k - 1])
  BY <1>4 DEF Trail
<1>6. Len(rows) \in Nat /\ \A k \in 1..Len(rows) : rows[k] \in T
  BY <1>5, LenProperties, ElementOfSeq
<1>7. /\ Len(writes') = Len(rows) /\ Latest' = last
      /\ State(0)' = Latest
      /\ \A j \in 1..Len(rows) : State(j)' = rows[j]
      /\ Versions' = Versions \cup {rows[k] : k \in 1..Len(rows)}
      /\ Versions = {Latest}
  <2>1. /\ Len(writes') = Len(writes) + Len(rows)
        /\ \A j \in 0..Len(writes') :
              j \notin 0..Len(writes) => State(j)' = rows[j - Len(writes)]
        /\ Versions' = Versions \cup {rows[k] : k \in 1..Len(rows)}
        /\ Latest' = last
    BY <1>1, <1>2, <1>5, ManyMore
  <2>2. ASSUME NEW j \in 1..Len(rows)
        PROVE  State(j)' = rows[j]
    <3>1. j \in 0..Len(writes') /\ j \notin 0..Len(writes) /\ j - Len(writes) = j
      BY <1>3, <1>6, <2>1
    <3> QED BY <2>1, <3>1
  <2>3. State(0)' = Latest /\ Versions = {Latest}
    BY <1>1, <1>3 DEF State, Versions
  <2> HIDE DEF last
  <2> QED BY <1>3, <1>6, <2>1, <2>2, <2>3
<1> HIDE DEF last
<1>8. Tidied(Latest)
  BY <1>3 DEF Tidied, StillThere
<1>9. Chain'
  <2> SUFFICES ASSUME NEW j \in 1..Len(writes')
               PROVE  Fair(State(j - 1)', State(j)')
    BY DEF Chain, Fair, PaidFor
  <2> DEFINE d == IF j = 1 THEN Latest ELSE rows[j - 1]
             e == rows[j]
  <2>1. j \in 1..Len(rows) /\ (j # 1 => j - 1 \in 1..Len(rows)) /\ (j = 1 => j - 1 = 0)
    BY <1>6, <1>7
  <2>2. State(j)' = e /\ State(j - 1)' = d
    BY <1>7, <2>1
  <2>3. Total(e) <= Total(d)
    BY <1>5, <2>1
  <2>4. Tidied(d) /\ Tidied(e)
    BY <1>5, <1>6, <1>8, <2>1
  <2> HIDE DEF d, e
  <2>5. PaidFor(d, e)
    BY <2>4, NothingDue DEF Tidied
  <2> QED BY <2>2, <2>3, <2>5 DEF Fair
<1>10. LetterRows'
  <2>1. \A d \in Versions' : Lettered(d) /\ last.items \subseteq d.items
    BY <1>3, <1>5, <1>6, <1>7 DEF Tidied
  <2> QED BY <1>7, <2>1 DEF LetterRows, Lettered
<1>11. HonestBoxes'
  <2>1. \A p \in Player : box'[p] = {}
    BY <1>1, <1>2 DEF Memory
  <2> QED BY <2>1 DEF HonestBoxes, HonestBox
<1>12. Lossless
  <2> SUFFICES ASSUME NEW i \in Latest.items, Placed(Latest, i),
                      ~ \E m \in db.mails : m.item = i /\ m.checked # "none"
               PROVE  i \in last.items /\ Placed(last, i)
    BY <1>1, <1>7 DEF Lossless
  <2>1. CASE \E q \in Player : i \in Latest.inv[q]
    <3>1. PICK q \in Player : i \in last.inv[q]
      BY <1>5, <2>1 DEF Tidied
    <3> QED BY <1>5, <3>1 DEF Tidied, RowsOK, RowsSound, Placed
  <2>2. CASE \E m \in Latest.mails : m.item = i
    <3>1. PICK m \in Latest.mails : m.item = i
      BY <2>2
    <3>2. m.checked = "none"
      BY <1>3, <3>1
    <3> QED BY <1>5, <3>1, <3>2 DEF Tidied, StillThere, Placed
  <2> QED BY <2>1, <2>2 DEF Placed
<1> QED BY <1>1, <1>2, <1>9, <1>10, <1>11, <1>12 DEF PostIInv

-----------------------------------------------------------------------------
(* The invariant holds, and what the steps do. *)

LEMMA InitPost ==
    ASSUME MailInit
    PROVE  PostIInv
<1>1. MailIInv
  BY InitMails
<1>2. writes = <<>> /\ db.mails = {} /\ box = [p \in Player |-> {}]
  BY DEF MailInit, Nothing
<1>3. Len(writes) = 0 /\ Latest = db /\ Versions = {db}
  BY <1>2, EmptySeq DEF Latest, Versions
<1>4. Chain
  BY <1>3 DEF Chain
<1>5. LetterRows
  BY <1>2, <1>3 DEF LetterRows, Lettered
<1>6. HonestBoxes
  BY <1>2 DEF HonestBoxes, HonestBox
<1> QED BY <1>1, <1>4, <1>5, <1>6 DEF PostIInv

LEMMA StayIsLossless == Stay(Latest, Latest') => Lossless
BY DEF Stay, Lossless

LEMMA SameIsLossless ==
    ASSUME Latest' = Latest
    PROVE  Lossless
BY DEF Lossless

LEMMA CommitExecutesNothing ==
    ASSUME NEW r, NEW p, Commit(r, p)
    PROVE  db' = db
BY DEF Commit, CommitAll

LEMMA StepsKeepPost ==
    ASSUME ~DailyRun, PostIInv, [MailNext]_mailVars
    PROVE  /\ PostIInv' /\ (db' = db \/ Fair(db, db'))
           /\ Lossless \/ writes' = <<>>
<1>1. CASE SessionNext
  <2>1. ASSUME NEW p \in Player, Login(p)
        PROVE  PostIInv' /\ db' = db /\ Lossless
    <3>1. UNCHANGED <<db, writes, box>>
      BY <2>1 DEF Login, dbVars
    <3>2. MailIInv'
      BY <2>1, LoginKeeps DEF PostIInv
    <3> QED BY <3>1, <3>2, SameBoxHonest, SameIsLossless
  <2>2. ASSUME NEW p \in Player, Logout(p)
        PROVE  PostIInv' /\ db' = db /\ Lossless
    <3>1. db' = db
      BY <2>2, CommitExecutesNothing DEF Logout
    <3> QED BY <2>2, <3>1, LogoutHonest, StayIsLossless
  <2>3. ASSUME NEW p \in Player, GetMailList(p)
        PROVE  PostIInv' /\ db' = db /\ Lossless
    <3>1. db' = db
      BY <2>3 DEF GetMailList, dbVars
    <3> QED BY <2>3, <3>1, GetMailListHonest, SameIsLossless
  <2>4. ASSUME NEW p \in Player, NEW m \in box[p], TakeItem(p, m)
        PROVE  PostIInv' /\ db' = db /\ Lossless
    <3>1. db' = db
      BY <2>4, CommitExecutesNothing DEF TakeItem
    <3> QED BY <2>4, <3>1, TakeItemHonest, StayIsLossless
  <2>5. ASSUME NEW p \in Player, NEW m \in box[p], TakeMoney(p, m)
        PROVE  PostIInv' /\ db' = db /\ Lossless
    <3>1. db' = db
      BY <2>5, CommitExecutesNothing DEF TakeMoney
    <3> QED BY <2>5, <3>1, TakeMoneyHonest, StayIsLossless
  <2> QED BY <1>1, <2>1, <2>2, <2>3, <2>4, <2>5 DEF SessionNext
<1>2. CASE PostNext
  <2>1. ASSUME NEW p \in Player, NEW q \in Player, NEW i \in Item \cup {NoItem},
               NEW amount \in Amounts, NEW cod \in Amounts, SendMail(p, q, i, amount, cod)
        PROVE  PostIInv' /\ db' = db /\ Lossless
    <3>1. db' = db
      BY <2>1, CommitExecutesNothing DEF SendMail
    <3> QED BY <2>1, <3>1, SendMailHonest, StayIsLossless
  <2>2. ASSUME NEW p \in Player, Save(p)
        PROVE  PostIInv' /\ db' = db /\ Lossless
    <3>1. db' = db
      BY <2>2, CommitExecutesNothing DEF Save
    <3> QED BY <2>2, <3>1, SaveHonest, StayIsLossless
  <2>3. ASSUME NEW p \in Player, NEW m \in box[p], ReturnToSender(p, m)
        PROVE  PostIInv' /\ db' = db /\ Lossless
    <3>1. db' = db
      BY <2>3, CommitExecutesNothing DEF ReturnToSender
    <3> QED BY <2>3, <3>1, ReturnToSenderHonest, StayIsLossless
  <2>4. ASSUME NEW p \in Player, NEW m \in box[p], NEW state \in {"changed", "deleted"},
               MarkMail(p, m, state)
        PROVE  PostIInv' /\ db' = db /\ Lossless
    <3>1. db' = db
      BY <2>4 DEF MarkMail, dbVars
    <3> QED BY <2>4, <3>1, MarkMailHonest, SameIsLossless
  <2>5. ASSUME NEW old \in SUBSET db.mails, ReturnOrDeleteOldMails(old)
        PROVE  PostIInv' /\ db' = db /\ Lossless
    BY <2>5, ReturnOrDeleteHonest
  <2>6. ASSUME NEW p \in Player, NEW m \in box[p],
               HandleMailDelete(p, m) \/ HandleMailMarkAsRead(p, m)
        PROVE  PostIInv' /\ db' = db /\ Lossless
    BY <2>4, <2>6 DEF HandleMailDelete, HandleMailMarkAsRead
  <2> QED BY <1>2, <2>1, <2>2, <2>3, <2>5, <2>6 DEF PostNext
<1>3. CASE WorkerNext
  BY <1>3, ExecuteHonest, SameIsLossless
<1>4. CASE Crash
  BY <1>4, CrashHonest DEF Crash, LoseQueue
<1>5. CASE UNCHANGED mailVars
  <2>1. UNCHANGED <<db, writes, box>>
    BY <1>5 DEF mailVars, memoryVars, dbVars
  <2>2. MailIInv'
    BY <1>5, StepsKeepMails DEF PostIInv
  <2> QED BY <2>1, <2>2, SameBoxHonest, SameIsLossless
<1> QED BY <1>1, <1>2, <1>3, <1>4, <1>5 DEF MailNext

LEMMA PostInvariant == ASSUME ~DailyRun PROVE MailSpec => []PostIInv
<1>1. MailInit => PostIInv
  BY InitPost
<1>2. PostIInv /\ [MailNext]_mailVars => PostIInv'
  BY StepsKeepPost
<1> QED BY <1>1, <1>2, PTL DEF MailSpec

\* While mails are cleared up at startup only, the money in purses and mails
\* never grows in the rows, whatever a crash dropped before: the worker executes
\* transactions that take out of one purse or mail what they put into another.
THEOREM MailMakesNoMoney == ASSUME ~DailyRun PROVE MailSpec => NoMoneyFromMail
<1>1. PostIInv /\ [MailNext]_mailVars => Total(db') <= Total(db)
  <2> SUFFICES ASSUME PostIInv, [MailNext]_mailVars
               PROVE  Total(db') <= Total(db)
    OBVIOUS
  <2>1. db' = db \/ Fair(db, db')
    BY StepsKeepPost
  <2>2. Total(db) \in Nat
    <3>1. RowsOK(db)
      BY LatestRows DEF PostIInv, MailIInv
    <3>2. Total(db) = Wallet(db) + InMail(db.mails) /\ Wallet(db) \in Nat /\ InMail(db.mails) \in Nat
      BY <3>1, TotalIs
    <3> QED BY <3>2
  <2> QED BY <2>1, <2>2 DEF Fair
<1>2. PostIInv /\ [MailNext]_mailVars => [Total(db') <= Total(db)]_mailVars
  BY <1>1
<1> QED BY <1>2, PostInvariant, PTL DEF MailSpec, NoMoneyFromMail

\* While mails are cleared up at startup only, an item sent cash on delivery
\* gets into the inventory of its receiver only in a transaction that leaves
\* its sender richer by the price: HandleMailTakeItem sends the payment and saves
\* the item, the purse and the mails in one transaction.
THEOREM PaidOnDelivery == ASSUME ~DailyRun PROVE MailSpec => CodIsPaid
<1> DEFINE A == \A m \in db.mails :
                   (m.cod > 0 /\ m.item \in db'.inv[m.to])
                      => Worth(db', m.from) >= Worth(db, m.from) + m.cod
<1>1. PostIInv /\ [MailNext]_mailVars => A
  <2> SUFFICES ASSUME PostIInv, [MailNext]_mailVars
               PROVE  PaidFor(db, db')
    BY DEF PaidFor
  <2>1. db' = db \/ Fair(db, db')
    BY StepsKeepPost
  <2>2. PaidFor(db, db)
    BY LatestRows, NothingDue DEF PostIInv, MailIInv
  <2> QED BY <2>1, <2>2 DEF Fair
<1>2. PostIInv /\ [MailNext]_mailVars => [A]_mailVars
  BY <1>1
<1>3. (CodIsPaid) <=> [][A]_mailVars
  BY DEF CodIsPaid
<1> HIDE DEF A
<1> QED BY <1>2, <1>3, PostInvariant, PTL DEF MailSpec

\* An item has a place if a row refers to it.
LEMMA PlacesOf == \A d, i : MailPlaces(d, i) # {} <=> Placed(d, i)
<1> SUFFICES ASSUME NEW d, NEW i PROVE MailPlaces(d, i) # {} <=> Placed(d, i)
  OBVIOUS
<1>1. ASSUME Placed(d, i) PROVE MailPlaces(d, i) # {}
  <2>1. CASE \E q \in Player : i \in d.inv[q]
    <3>1. PICK q \in Player : i \in d.inv[q]
      BY <2>1
    <3>2. [bag |-> q] \in MailPlaces(d, i)
      BY <3>1 DEF MailPlaces
    <3> QED BY <3>2
  <2>2. CASE \E m \in d.mails : m.item = i
    <3>1. PICK m \in d.mails : m.item = i
      BY <2>2
    <3>2. [mail |-> m.id] \in MailPlaces(d, i)
      BY <3>1 DEF MailPlaces
    <3> QED BY <3>2
  <2> QED BY <1>1, <2>1, <2>2 DEF Placed
<1>2. ASSUME MailPlaces(d, i) # {} PROVE Placed(d, i)
  BY <1>2 DEF MailPlaces, Placed
<1> QED BY <1>1, <1>2

\* While mails are cleared up at startup only, no transaction a handler or the
\* startup commits takes an item out of the rows, or out of every place in them,
\* but in a mail that was thrown away or had been returned when it got too old.
THEOREM NothingLostInMail == ASSUME ~DailyRun PROVE MailSpec => NoItemLost
<1> DEFINE A == \A i \in Latest.items :
                   (/\ Len(writes') > Len(writes)
                    /\ MailPlaces(Latest, i) # {}
                    /\ i \notin Latest'.items \/ MailPlaces(Latest', i) = {})
                   => \/ \E p \in Player : \E m \in box[p] : m.item = i /\ m.state = "deleted"
                      \/ /\ online = {}
                         /\ \E m \in db.mails : m.item = i /\ m.checked # "none"
<1>1. PostIInv /\ [MailNext]_mailVars => A
  <2> SUFFICES ASSUME PostIInv, [MailNext]_mailVars, NEW i \in Latest.items,
                      Len(writes') > Len(writes), MailPlaces(Latest, i) # {},
                      i \notin Latest'.items \/ MailPlaces(Latest', i) = {}
               PROVE  \/ ThrownAway(i)
                      \/ online = {} /\ \E m \in db.mails : m.item = i /\ m.checked # "none"
    BY DEF ThrownAway
  <2>1. Lossless
    <3>1. writes' # <<>>
      <4>1. Len(writes) \in Nat
        BY QueueRows DEF PostIInv, MailIInv, DatabaseOK
      <4>2. writes' = <<>> => Len(writes') = 0
        BY EmptySeq
      <4> QED BY <4>1, <4>2
    <3> QED BY <3>1, StepsKeepPost
  <2>2. Placed(Latest, i) /\ (i \notin Latest'.items \/ ~Placed(Latest', i))
    BY PlacesOf
  <2> QED BY <2>1, <2>2 DEF Lossless
<1>2. PostIInv /\ [MailNext]_mailVars => [A]_mailVars
  BY <1>1
<1>3. (NoItemLost) <=> [][A]_mailVars
  BY DEF NoItemLost
<1> HIDE DEF A
<1> QED BY <1>2, <1>3, PostInvariant, PTL DEF MailSpec
==============================================================================

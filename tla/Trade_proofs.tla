---------------------------- MODULE Trade_proofs -----------------------------
(***************************************************************************)
(* Proofs about Trade, for any number of players, items and slots: trades  *)
(* always come in pairs, no item is ever in two inventories, in memory or  *)
(* in the database, no inventory overflows, what one has accepted is what  *)
(* one gets, bound items stay, and no money comes out of nothing.          *)
(***************************************************************************)
EXTENDS Trade, Integers, Functions, WellFoundedInduction, FiniteSetTheorems, TLAPS

-----------------------------------------------------------------------------
(* Induction.  The induction theorems of the library take an operator as a   *)
(* parameter; here a property is the set of what has it.                     *)

\* There is no infinite descent in the natural numbers.
LEMMA NatOrder == IsWellFoundedOn({ss \in Nat \X Nat : ss[1] < ss[2]}, Nat)
BY NatLessThanWellFounded DEF OpToRel

\* Every set of numbers that is not empty has a least element.
LEMMA LeastNumber ==
    ASSUME NEW S \in SUBSET Nat, S # {}
    PROVE  \E n \in S : \A m \in S : n <= m
<1> DEFINE R == {ss \in Nat \X Nat : ss[1] < ss[2]}
<1>1. IsWellFoundedOn(R, Nat)
  BY NatOrder
<1>2. PICK x \in S : \A y \in S : ~(<<y, x>> \in R)
  <2> HIDE DEF R
  <2> QED BY <1>1, WFMin
<1>3. ASSUME NEW m \in S, ~(x <= m)
      PROVE  <<m, x>> \in R
  <2>1. m \in Nat /\ x \in Nat
    OBVIOUS
  <2>2. m < x
    BY <1>3, <2>1
  <2> QED BY <2>1, <2>2
<1> HIDE DEF R
<1> QED BY <1>2, <1>3

\* Induction over the natural numbers.
LEMMA NumberInduction ==
    ASSUME NEW S, 0 \in S, \A n \in Nat : n \in S => n + 1 \in S
    PROVE  \A n \in Nat : n \in S
<1> SUFFICES ASSUME NEW k \in Nat, k \notin S PROVE FALSE
  OBVIOUS
<1> DEFINE B == Nat \ S
<1>1. PICK n \in B : \A m \in B : n <= m
  <2> B \in SUBSET Nat /\ B # {}
    OBVIOUS
  <2> HIDE DEF B
  <2> QED BY LeastNumber
<1>2. n # 0 /\ n \in Nat
  OBVIOUS
<1>3. n - 1 \in Nat /\ n - 1 < n /\ ~(n <= n - 1) /\ n - 1 + 1 = n
  BY <1>2
<1>4. n - 1 \in S
  BY <1>1, <1>3
<1>5. n \in S
  BY <1>3, <1>4
<1> QED BY <1>5

\* Induction over the subsets of a finite set, one element added at a time.
LEMMA FiniteInduction ==
    ASSUME NEW S, IsFiniteSet(S), NEW C, {} \in C,
           \A T \in SUBSET S : \A x \in S \ T : T \in C => T \cup {x} \in C
    PROVE  \A T \in SUBSET S : T \in C
<1> DEFINE N == {n \in Nat : \A T \in SUBSET S : Cardinality(T) = n => T \in C}
<1>f. \A T \in SUBSET S : IsFiniteSet(T) /\ Cardinality(T) \in Nat
  BY FS_Subset, FS_CardinalityType
<1>1. 0 \in N
  <2>1. ASSUME NEW T \in SUBSET S, Cardinality(T) = 0
        PROVE  T \in C
    BY <1>f, <2>1, FS_EmptySet
  <2> QED BY <2>1
<1>2. ASSUME NEW n \in Nat, n \in N
      PROVE  n + 1 \in N
  <2>1. ASSUME NEW T \in SUBSET S, Cardinality(T) = n + 1
        PROVE  T \in C
    <3>1. T # {}
      <4>1. Cardinality({}) = 0
        BY FS_EmptySet
      <4>2. Cardinality(T) # 0
        BY <2>1
      <4> QED BY <4>1, <4>2
    <3>2. PICK x \in T : TRUE
      BY <3>1
    <3> DEFINE U == T \ {x}
    <3>3. U \in SUBSET S /\ x \in S \ U /\ T = U \cup {x}
      OBVIOUS
    <3>4. Cardinality(U) = n
      <4>1. Cardinality(U) = Cardinality(T) - 1
        BY <1>f, <3>2, FS_RemoveElement
      <4> QED BY <4>1, <2>1
    <3> HIDE DEF U
    <3>5. U \in C
      BY <1>2, <3>3, <3>4
    <3> QED BY <3>3, <3>5
  <2> QED BY <2>1
<1> HIDE DEF N
<1>3. \A n \in Nat : n \in N
  BY <1>1, <1>2, NumberInduction
<1> QED BY <1>3, <1>f DEF N

-----------------------------------------------------------------------------
(* Sums.                                                                     *)

\* The equation a sum is defined by, for a function on the subsets of a set.
SumBody(f, g, s) == IF s = {} THEN 0 ELSE f[CHOOSE x \in s : TRUE] + g[s \ {CHOOSE x \in s : TRUE}]

SumIter(f, S) == CHOOSE g : g = [s \in SUBSET S |-> SumBody(f, g, s)]

\* The sum of the community modules, SumFunctionOnSet, is the value at S of that
\* function.
LEMMA SumIsIter == \A f, S : SumFunctionOnSet(f, S) = SumIter(f, S)[S]
BY DEF SumFunctionOnSet, FoldFunctionOnSet, MapThenFoldSet, SumIter, SumBody

\* There is such a function: one for the sets of at most n elements, for each n.
LEMMA SumIterExists ==
    ASSUME NEW S, IsFiniteSet(S), NEW f
    PROVE  SumIter(f, S) = [s \in SUBSET S |-> SumBody(f, SumIter(f, S), s)]
<1> DEFINE D(n) == {s \in SUBSET S : Cardinality(s) <= n}
<1> DEFINE N == {n \in Nat : \E g : g = [s \in D(n) |-> SumBody(f, g, s)]}
<1>f. \A s \in SUBSET S : IsFiniteSet(s) /\ Cardinality(s) \in Nat /\ Cardinality(s) <= Cardinality(S)
  BY FS_Subset, FS_CardinalityType
<1>c. \A s \in SUBSET S : s # {} => (CHOOSE x \in s : TRUE) \in s
  OBVIOUS
<1>1. 0 \in N
  <2> DEFINE g == [s \in D(0) |-> 0]
  <2>1. \A s \in D(0) : s = {}
    BY <1>f, FS_EmptySet
  <2>2. g = [s \in D(0) |-> SumBody(f, g, s)]
    BY <2>1 DEF SumBody
  <2> QED BY <2>2
<1>2. ASSUME NEW n \in Nat, n \in N
      PROVE  n + 1 \in N
  <2>1. PICK g : g = [s \in D(n) |-> SumBody(f, g, s)]
    BY <1>2
  <2> DEFINE h == [s \in D(n + 1) |-> SumBody(f, g, s)]
  <2>2. ASSUME NEW s \in D(n + 1)
        PROVE  SumBody(f, g, s) = SumBody(f, h, s)
    <3>1. CASE s = {}
      BY <3>1 DEF SumBody
    <3>2. CASE s # {}
      <4> DEFINE u == s \ {CHOOSE x \in s : TRUE}
      <4>1. Cardinality(u) = Cardinality(s) - 1
        BY <1>f, <1>c, <3>2, FS_RemoveElement
      <4>2. Cardinality(s) \in Nat /\ Cardinality(s) <= n + 1
        BY <1>f
      <4>3. Cardinality(u) <= n /\ Cardinality(u) <= n + 1
        BY <4>1, <4>2
      <4>4. u \in D(n) /\ u \in D(n + 1)
        BY <4>3
      <4>5. h[u] = g[u]
        <5>1. h[u] = SumBody(f, g, u)
          BY <4>4
        <5>2. g[u] = SumBody(f, g, u)
          BY <4>4, <2>1
        <5> QED BY <5>1, <5>2
      <4> HIDE DEF h
      <4> QED BY <4>5, <3>2 DEF SumBody
    <3> QED BY <3>1, <3>2
  <2>3. h = [s \in D(n + 1) |-> SumBody(f, h, s)]
    <3> HIDE DEF D
    <3> QED BY <2>2
  <2> HIDE DEF h
  <2> QED BY <2>3
<1> HIDE DEF N
<1>3. Cardinality(S) \in N
  BY <1>1, <1>2, <1>f, NumberInduction
<1>4. D(Cardinality(S)) = SUBSET S
  BY <1>f
<1>5. \E g : g = [s \in SUBSET S |-> SumBody(f, g, s)]
  <2> HIDE DEF D
  <2> QED BY <1>3, <1>4 DEF N
<1> QED BY <1>5 DEF SumIter

\* So a sum is what its definition says, with the element it chooses first.
LEMMA SumStep ==
    ASSUME NEW S, IsFiniteSet(S), NEW f
    PROVE  LET c == CHOOSE x \in S : TRUE IN
           SumFunctionOnSet(f, S) = IF S = {} THEN 0 ELSE f[c] + SumFunctionOnSet(f, S \ {c})
<1> DEFINE c(s) == CHOOSE x \in s : TRUE
<1>f. \A s \in SUBSET S : IsFiniteSet(s) /\ Cardinality(s) \in Nat
  BY FS_Subset, FS_CardinalityType
<1>i. \A T \in SUBSET S : \A s \in SUBSET T : SumIter(f, T)[s] = SumBody(f, SumIter(f, T), s)
  <2>1. ASSUME NEW T \in SUBSET S, NEW s \in SUBSET T
        PROVE  SumIter(f, T)[s] = SumBody(f, SumIter(f, T), s)
    <3>1. SumIter(f, T) = [u \in SUBSET T |-> SumBody(f, SumIter(f, T), u)]
      BY <1>f, SumIterExists
    <3> QED BY <3>1
  <2> QED BY <2>1
<1>1. CASE S = {}
  BY <1>1, <1>i, SumIsIter DEF SumBody
<1>2. CASE S # {}
  <2> DEFINE T == S \ {c(S)}
  <2> DEFINE N == {n \in Nat : \A s \in SUBSET T : Cardinality(s) = n => SumIter(f, S)[s] = SumIter(f, T)[s]}
  <2>1. 0 \in N
    <3>1. \A s \in SUBSET T : Cardinality(s) = 0 => s = {}
      BY <1>f, FS_EmptySet
    <3>2. T \in SUBSET S /\ {} \in SUBSET T /\ {} \in SUBSET S
      OBVIOUS
    <3>3. SumIter(f, S)[{}] = 0 /\ SumIter(f, T)[{}] = 0
      <4> HIDE DEF T
      <4> QED BY <1>i, <3>2 DEF SumBody
    <3> QED BY <3>1, <3>3
  <2>2. ASSUME NEW n \in Nat, n \in N
        PROVE  n + 1 \in N
    <3>1. ASSUME NEW s \in SUBSET T, Cardinality(s) = n + 1
          PROVE  SumIter(f, S)[s] = SumIter(f, T)[s]
      <4>1. s # {}
        <5>1. Cardinality({}) = 0
          BY FS_EmptySet
        <5>2. Cardinality(s) # 0
          BY <3>1
        <5> QED BY <5>1, <5>2
      <4> DEFINE u == s \ {c(s)}
      <4>2. c(s) \in s
        BY <4>1
      <4>3. IsFiniteSet(s)
        BY <1>f
      <4>4. Cardinality(u) = n
        <5>1. Cardinality(u) = Cardinality(s) - 1
          BY <4>2, <4>3, FS_RemoveElement
        <5> QED BY <5>1, <3>1
      <4>5. u \in SUBSET T
        OBVIOUS
      <4>6. SumIter(f, S)[u] = SumIter(f, T)[u]
        BY <4>4, <4>5, <2>2
      <4>7. SumIter(f, S)[s] = SumBody(f, SumIter(f, S), s) /\ SumIter(f, T)[s] = SumBody(f, SumIter(f, T), s)
        BY <1>i
      <4> QED BY <4>6, <4>7 DEF SumBody
    <3> QED BY <3>1
  <2>3. T \in SUBSET T /\ Cardinality(T) \in Nat
    BY <1>f
  <2>4. SumIter(f, S)[T] = SumIter(f, T)[T]
    <3> HIDE DEF N
    <3>1. \A n \in Nat : n \in N
      BY <2>1, <2>2, NumberInduction
    <3> QED BY <3>1, <2>3 DEF N
  <2>5. SumIter(f, S)[S] = f[c(S)] + SumIter(f, S)[T]
    BY <1>i, <1>2 DEF SumBody
  <2> QED BY <2>4, <2>5, <1>2, SumIsIter
<1> QED BY <1>1, <1>2

\* The sum over no elements.
LEMMA SumEmpty == \A f : SumFunctionOnSet(f, {}) = 0
BY SumStep, FS_EmptySet

\* A sum of integers is an integer.
LEMMA SumInt ==
    ASSUME NEW S, IsFiniteSet(S), NEW f, \A x \in S : f[x] \in Int
    PROVE  SumFunctionOnSet(f, S) \in Int
<1> DEFINE N == {n \in Nat : \A s \in SUBSET S : Cardinality(s) = n => SumFunctionOnSet(f, s) \in Int}
<1>f. \A s \in SUBSET S : IsFiniteSet(s) /\ Cardinality(s) \in Nat
  BY FS_Subset, FS_CardinalityType
<1>1. 0 \in N
  <2>1. \A s \in SUBSET S : Cardinality(s) = 0 => s = {}
    BY <1>f, FS_EmptySet
  <2> QED BY <2>1, SumEmpty
<1>2. ASSUME NEW n \in Nat, n \in N
      PROVE  n + 1 \in N
  <2>1. ASSUME NEW s \in SUBSET S, Cardinality(s) = n + 1
        PROVE  SumFunctionOnSet(f, s) \in Int
    <3>1. s # {}
      <4>1. Cardinality({}) = 0
        BY FS_EmptySet
      <4>2. Cardinality(s) # 0
        BY <2>1
      <4> QED BY <4>1, <4>2
    <3>2. PICK c \in s : SumFunctionOnSet(f, s) = f[c] + SumFunctionOnSet(f, s \ {c})
      <4>1. IsFiniteSet(s)
        BY <1>f
      <4>2. (CHOOSE x \in s : TRUE) \in s
        BY <3>1
      <4> QED BY <4>1, <4>2, <3>1, SumStep
    <3>3. Cardinality(s \ {c}) = n
      <4>1. IsFiniteSet(s)
        BY <1>f
      <4>2. Cardinality(s \ {c}) = Cardinality(s) - 1
        BY <4>1, FS_RemoveElement
      <4> QED BY <4>2, <2>1
    <3>4. SumFunctionOnSet(f, s \ {c}) \in Int /\ f[c] \in Int
      BY <3>3, <1>2
    <3> QED BY <3>2, <3>4
  <2> QED BY <2>1
<1> HIDE DEF N
<1>3. \A n \in Nat : n \in N
  BY <1>1, <1>2, NumberInduction
<1> QED BY <1>3, <1>f DEF N

\* The numbers a sum is made of can be taken out in any order.
LEMMA SumOut ==
    ASSUME NEW S, IsFiniteSet(S), NEW f, \A x \in S : f[x] \in Int
    PROVE  \A x \in S : SumFunctionOnSet(f, S) = f[x] + SumFunctionOnSet(f, S \ {x})
<1> DEFINE Sum(s) == SumFunctionOnSet(f, s)
           P(s) == \A x \in s : Sum(s) = f[x] + Sum(s \ {x})
           N == {n \in Nat : \A s \in SUBSET S : Cardinality(s) = n => P(s)}
<1>f. \A s \in SUBSET S : IsFiniteSet(s) /\ Cardinality(s) \in Nat
  BY FS_Subset, FS_CardinalityType
<1>1. 0 \in N
  <2>1. \A s \in SUBSET S : Cardinality(s) = 0 => s = {}
    BY <1>f, FS_EmptySet
  <2>2. P({})
    OBVIOUS
  <2> HIDE DEF P
  <2> QED BY <2>1, <2>2
<1>2. ASSUME NEW n \in Nat, n \in N
      PROVE  n + 1 \in N
  <2>1. ASSUME NEW s \in SUBSET S, Cardinality(s) = n + 1
        PROVE  P(s)
    <3>1. s # {}
      <4>1. Cardinality({}) = 0
        BY FS_EmptySet
      <4>2. Cardinality(s) # 0
        BY <2>1
      <4> QED BY <4>1, <4>2
    <3>2. \A x \in s : s \ {x} \in SUBSET S /\ Cardinality(s \ {x}) = n
      <4>1. IsFiniteSet(s)
        BY <1>f
      <4>2. \A x \in s : Cardinality(s \ {x}) = Cardinality(s) - 1
        BY <4>1, FS_RemoveElement
      <4> QED BY <4>2, <2>1
    <3>3. \A x \in s : P(s \ {x})
      <4> HIDE DEF P
      <4> QED BY <3>2, <1>2
    <3>4. PICK c \in s : Sum(s) = f[c] + Sum(s \ {c})
      <4>1. IsFiniteSet(s)
        BY <1>f
      <4>2. (CHOOSE x \in s : TRUE) \in s
        BY <3>1
      <4> QED BY <4>1, <4>2, <3>1, SumStep
    <3>6. ASSUME NEW x \in s
          PROVE  Sum(s) = f[x] + Sum(s \ {x})
      <4>1. CASE x = c
        BY <4>1, <3>4
      <4>2. CASE x # c
        <5>1. c \in s \ {x} /\ x \in s \ {c} /\ (s \ {x}) \ {c} = (s \ {c}) \ {x}
          BY <4>2
        <5>2. Sum(s \ {c}) = f[x] + Sum((s \ {c}) \ {x})
          BY <5>1, <3>3
        <5>3. Sum(s \ {x}) = f[c] + Sum((s \ {c}) \ {x})
          BY <5>1, <3>3
        <5>4. (s \ {c}) \ {x} \in SUBSET S
          OBVIOUS
        <5>5. Sum((s \ {c}) \ {x}) \in Int /\ f[c] \in Int /\ f[x] \in Int
          BY <5>4, <1>f, SumInt
        <5> HIDE DEF Sum
        <5> QED BY <5>2, <5>3, <5>5, <3>4
      <4> QED BY <4>1, <4>2
    <3> QED BY <3>6
  <2> HIDE DEF P
  <2> QED BY <2>1
<1> HIDE DEF N
<1>3. \A n \in Nat : n \in N
  BY <1>1, <1>2, NumberInduction
<1>4. P(S)
  <2> HIDE DEF P
  <2> QED BY <1>3, <1>f DEF N
<1> QED BY <1>4

\* One more element.
LEMMA SumAdd ==
    ASSUME NEW S, IsFiniteSet(S), NEW x, x \notin S, NEW f, \A y \in S \cup {x} : f[y] \in Int
    PROVE  SumFunctionOnSet(f, S \cup {x}) = f[x] + SumFunctionOnSet(f, S)
<1>1. IsFiniteSet(S \cup {x})
  BY FS_AddElement
<1>2. (S \cup {x}) \ {x} = S
  OBVIOUS
<1> QED BY <1>1, <1>2, SumOut

\* Smaller numbers have a smaller sum.
LEMMA SumAtMost ==
    ASSUME NEW S, IsFiniteSet(S), NEW f, NEW g,
           \A x \in S : f[x] \in Int /\ g[x] \in Int /\ f[x] <= g[x]
    PROVE  SumFunctionOnSet(f, S) <= SumFunctionOnSet(g, S)
<1> DEFINE C == {T \in SUBSET S : SumFunctionOnSet(f, T) <= SumFunctionOnSet(g, T)}
<1>1. {} \in C
  BY SumEmpty
<1>2. ASSUME NEW T \in SUBSET S, NEW x \in S \ T, T \in C
      PROVE  T \cup {x} \in C
  <2>1. IsFiniteSet(T)
    BY FS_Subset
  <2>2. /\ SumFunctionOnSet(f, T \cup {x}) = f[x] + SumFunctionOnSet(f, T)
        /\ SumFunctionOnSet(g, T \cup {x}) = g[x] + SumFunctionOnSet(g, T)
    BY <2>1, SumAdd
  <2>3. SumFunctionOnSet(f, T) \in Int /\ SumFunctionOnSet(g, T) \in Int
    BY <2>1, SumInt
  <2>4. SumFunctionOnSet(f, T) <= SumFunctionOnSet(g, T) /\ T \cup {x} \in SUBSET S
    BY <1>2
  <2> QED BY <2>2, <2>3, <2>4
<1> HIDE DEF C
<1>3. \A T \in SUBSET S : T \in C
  BY <1>1, <1>2, FiniteInduction
<1> QED BY <1>3 DEF C

\* Where two numbers change and their sum does not grow, no sum does.
LEMMA SumPair ==
    ASSUME NEW S, IsFiniteSet(S), NEW p \in S, NEW q \in S, p # q, NEW f, NEW g,
           \A x \in S : f[x] \in Int /\ g[x] \in Int,
           \A x \in S \ {p, q} : f[x] <= g[x],
           f[p] + f[q] <= g[p] + g[q]
    PROVE  SumFunctionOnSet(f, S) <= SumFunctionOnSet(g, S)
<1> DEFINE T == S \ {p}
           U == T \ {q}
<1>1. IsFiniteSet(T) /\ IsFiniteSet(U)
  BY FS_Subset
<1>2. /\ SumFunctionOnSet(f, S) = f[p] + SumFunctionOnSet(f, T)
      /\ SumFunctionOnSet(g, S) = g[p] + SumFunctionOnSet(g, T)
  BY SumOut
<1>3. /\ SumFunctionOnSet(f, T) = f[q] + SumFunctionOnSet(f, U)
      /\ SumFunctionOnSet(g, T) = g[q] + SumFunctionOnSet(g, U)
  BY <1>1, SumOut
<1>4. SumFunctionOnSet(f, U) <= SumFunctionOnSet(g, U)
  BY <1>1, SumAtMost
<1>5. SumFunctionOnSet(f, U) \in Int /\ SumFunctionOnSet(g, U) \in Int
  BY <1>1, SumInt
<1> HIDE DEF T, U
<1>6. f[p] \in Int /\ f[q] \in Int /\ g[p] \in Int /\ g[q] \in Int
  OBVIOUS
<1> QED BY <1>2, <1>3, <1>4, <1>5, <1>6


\* Items only change hands in a trade, which saves both players: what a player
\* has is always among what the database says it has.
Backed ==
    \A p \in Player : /\ inv[p] \subseteq saved[p].inv
                      /\ Cardinality(saved[p].inv) <= Capacity

\* A crash hands out the rows of the database again, so the invariant speaks
\* of them too.
IInv == TypeOK /\ TradesPaired /\ OneOwner /\ Backed

-----------------------------------------------------------------------------
(* Steps that edit the TradeData of a pair.                                  *)

SamePairs(t) ==
    \A x \in Player : /\ t[x] = NoTrade <=> trade[x] = NoTrade
                      /\ trade[x] # NoTrade => t[x].trader = trade[x].trader

Edit(t) == t \in [Player -> TradeData \cup {NoTrade}] /\ SamePairs(t)

LEMMA PairFacts ==
    ASSUME TypeOK, TradesPaired, NEW p \in Player, Trading(p)
    PROVE  /\ trade[p] \in TradeData /\ Trader(p) \in Player /\ Trader(p) # p
           /\ trade[Trader(p)] \in TradeData /\ Trading(Trader(p)) /\ Trader(Trader(p)) = p
           /\ p \in online /\ Trader(p) \in online
<1>1. trade[p] \in TradeData
  BY DEF TypeOK, Trading
<1>2. Trader(p) \in Player
  BY <1>1 DEF Trader, TradeData
<1>3. /\ p \in online /\ Trader(p) \in online /\ Trader(p) # p
      /\ Trading(Trader(p)) /\ Trader(Trader(p)) = p
  BY DEF TradesPaired
<1> QED
  BY <1>1, <1>2, <1>3 DEF TypeOK, Trading

\* A record put in the place of another with the same trader.
LEMMA EditOne ==
    ASSUME TypeOK, NEW t, Edit(t), NEW x \in Player, Trading(x),
           NEW d \in TradeData, d.trader = Trader(x)
    PROVE  Edit([t EXCEPT ![x] = d])
<1>1. [t EXCEPT ![x] = d] \in [Player -> TradeData \cup {NoTrade}]
  BY DEF Edit
<1>2. d # NoTrade
  BY NoTradeAssumption
<1> QED
  BY <1>1, <1>2 DEF Edit, SamePairs, Trading, Trader

LEMMA EditItself == TypeOK => Edit(trade)
  BY DEF Edit, SamePairs, TypeOK

\* The fields of a record may be set without changing the trader.
LEMMA EditFields ==
    ASSUME NEW d \in TradeData, NEW b \in BOOLEAN
    PROVE  /\ [d EXCEPT !.accepted = b] \in TradeData
           /\ [d EXCEPT !.accepted = b].trader = d.trader
           /\ [d EXCEPT !.spell = b] \in TradeData
           /\ [d EXCEPT !.spell = b].trader = d.trader
  BY DEF TradeData

LEMMA SetAcceptedEdits ==
    ASSUME TypeOK, NEW t, Edit(t), NEW x \in Player, Trading(x), NEW b \in BOOLEAN
    PROVE  Edit([t EXCEPT ![x].accepted = b])
<1>1. t[x] \in TradeData /\ t[x].trader = Trader(x)
  BY DEF Edit, SamePairs, Trading, Trader
<1>2. [t EXCEPT ![x].accepted = b] = [t EXCEPT ![x] = [t[x] EXCEPT !.accepted = b]]
  BY DEF Edit
<1> QED
  BY <1>1, <1>2, EditOne, EditFields

LEMMA SetSpellEdits ==
    ASSUME TypeOK, NEW t, Edit(t), NEW x \in Player, Trading(x), NEW b \in BOOLEAN
    PROVE  Edit([t EXCEPT ![x].spell = b])
<1>1. t[x] \in TradeData /\ t[x].trader = Trader(x)
  BY DEF Edit, SamePairs, Trading, Trader
<1>2. [t EXCEPT ![x].spell = b] = [t EXCEPT ![x] = [t[x] EXCEPT !.spell = b]]
  BY DEF Edit
<1> QED
  BY <1>1, <1>2, EditOne, EditFields

\* What SetItem, SetMoney and SetSpell make of the two records.
LEMMA ChangedEdits ==
    ASSUME TypeOK, TradesPaired, NEW p \in Player, Trading(p),
           NEW new \in TradeData, new.trader = Trader(p)
    PROVE  Edit(Changed(p, new))
<1> DEFINE mine == [new EXCEPT !.accepted = FALSE]
           t == [trade EXCEPT ![p] = mine]
<1>1. mine \in TradeData /\ mine.trader = Trader(p)
  BY EditFields
<1> HIDE DEF mine
<1>2. Edit(t)
  BY <1>1, EditItself, EditOne
<1>3. Edit([t EXCEPT ![Trader(p)].accepted = FALSE])
  BY <1>2, PairFacts, SetAcceptedEdits
<1>4. Changed(p, new) = [t EXCEPT ![Trader(p)].accepted = FALSE]
  BY DEF Changed, mine
<1> QED
  BY <1>3, <1>4

\* A step that only edits TradeData keeps the invariant.
LEMMA EditStep ==
    ASSUME IInv, Edit(trade'), UNCHANGED <<online, inv, money, bound, memory, saved>>
    PROVE  IInv'
<1>1. TypeOK'
  BY DEF IInv, TypeOK, Edit
<1>2. OneOwner' /\ Backed'
  BY DEF IInv, OneOwner, Backed
<1>3. TradesPaired'
  <2> SUFFICES ASSUME NEW p \in Player, Trading(p)'
               PROVE  /\ p \in online /\ trade'[p].trader \in online /\ trade'[p].trader # p
                      /\ trade'[trade'[p].trader] # NoTrade
                      /\ trade'[trade'[p].trader].trader = p
    BY DEF TradesPaired, Trading, Trader
  <2>1. Trading(p) /\ trade'[p].trader = Trader(p)
    BY DEF Edit, SamePairs, Trading, Trader
  <2>2. /\ p \in online /\ Trader(p) \in online /\ Trader(p) # p /\ Trader(p) \in Player
        /\ Trading(Trader(p)) /\ Trader(Trader(p)) = p
    BY <2>1, PairFacts DEF IInv
  <2> QED
    BY <2>1, <2>2 DEF Edit, SamePairs, Trading, Trader
<1> QED
  BY <1>1, <1>2, <1>3 DEF IInv

-----------------------------------------------------------------------------
(* The steps of a trade.                                                     *)

LEMMA GoldAndItemsFields ==
    ASSUME NEW d \in TradeData
    PROVE  /\ \A g \in 0..MaxMoney : /\ [d EXCEPT !.gold = g] \in TradeData
                                     /\ [d EXCEPT !.gold = g].trader = d.trader
           /\ \A s \in Slot, i \in Item \cup {NoItem} :
                 /\ [d EXCEPT !.items[s] = i, !.spell = FALSE] \in TradeData
                 /\ [d EXCEPT !.items[s] = i, !.spell = FALSE].trader = d.trader
<1>1. ASSUME NEW s \in Slot, NEW i \in Item \cup {NoItem}
      PROVE  /\ [d EXCEPT !.items[s] = i, !.spell = FALSE] \in TradeData
             /\ [d EXCEPT !.items[s] = i, !.spell = FALSE].trader = d.trader
  <2>1. [d.items EXCEPT ![s] = i] \in Slots
    BY DEF TradeData, Slots
  <2>2. [d EXCEPT !.items[s] = i, !.spell = FALSE]
            = [d EXCEPT !.items = [d.items EXCEPT ![s] = i], !.spell = FALSE]
    BY DEF TradeData
  <2> QED
    BY <2>1, <2>2 DEF TradeData
<1>2. ASSUME NEW g \in 0..MaxMoney
      PROVE  [d EXCEPT !.gold = g] \in TradeData /\ [d EXCEPT !.gold = g].trader = d.trader
  BY DEF TradeData
<1> QED
  BY <1>1, <1>2

LEMMA SetItemKeepsInv ==
    ASSUME IInv, NEW p \in Player, Trading(p), NEW s \in Slot,
           NEW i \in Item \cup {NoItem}, SetItem(p, s, i)
    PROVE  IInv'
<1> DEFINE t == Changed(p, [trade[p] EXCEPT !.items[s] = i, !.spell = FALSE])
<1>1. Edit(t)
  <2>1. trade[p] \in TradeData /\ trade[p].trader = Trader(p)
    BY PairFacts DEF IInv, Trader
  <2> QED
    BY <2>1, GoldAndItemsFields, ChangedEdits DEF IInv
<1>2. trade' = IF s = NonTraded THEN [t EXCEPT ![Trader(p)].spell = FALSE] ELSE t
  BY DEF SetItem
<1> HIDE DEF t
<1>3. Edit(trade')
  BY <1>1, <1>2, PairFacts, SetSpellEdits DEF IInv
<1> QED
  BY <1>3, EditStep DEF SetItem

LEMMA SetTradeGoldKeepsInv ==
    ASSUME IInv, NEW p \in Player, NEW amount \in 0..MaxMoney, SetTradeGold(p, amount)
    PROVE  IInv'
<1>1. Trading(p) /\ trade' = Changed(p, [trade[p] EXCEPT !.gold = amount])
  BY DEF SetTradeGold
<1>2. trade[p] \in TradeData /\ trade[p].trader = Trader(p)
  BY <1>1, PairFacts DEF IInv, Trader
<1>3. Edit(trade')
  BY <1>1, <1>2, GoldAndItemsFields, ChangedEdits DEF IInv
<1> QED
  BY <1>3, EditStep DEF SetTradeGold

\* Setting or failing a spell of x, who trades.
LEMMA SpellEdits ==
    ASSUME IInv, NEW x \in Player, Trading(x), NEW b \in BOOLEAN
    PROVE  Edit(Changed(x, [trade[x] EXCEPT !.spell = b]))
<1>1. trade[x] \in TradeData /\ trade[x].trader = Trader(x)
  BY PairFacts DEF IInv, Trader
<1> QED
  BY <1>1, EditFields, ChangedEdits DEF IInv

LEMMA SetSpellKeepsInv ==
    ASSUME IInv, NEW p \in Player, SetSpell(p)
    PROVE  IInv'
<1>1. Edit(trade')
  BY SpellEdits DEF SetSpell
<1> QED
  BY <1>1, EditStep DEF SetSpell

LEMMA AcceptanceKeepsInv ==
    ASSUME IInv, NEW p \in Player,
           \/ UnacceptTrade(p) \/ AcceptWithoutMoney(p) \/ AcceptRefused(p)
           \/ AcceptFirst(p) \/ NoRoom(p)
    PROVE  IInv'
<1>1. Trading(p) /\ UNCHANGED <<online, inv, money, bound, memory, saved>>
  BY DEF UnacceptTrade, AcceptWithoutMoney, AcceptRefused, AcceptFirst, NoRoom, ChecksPass
<1>2. \/ \E b \in BOOLEAN : trade' = [trade EXCEPT ![p].accepted = b]
      \/ \E b \in BOOLEAN : trade' = [trade EXCEPT ![p].accepted = b,
                                                   ![Trader(p)].accepted = FALSE]
  BY DEF UnacceptTrade, AcceptWithoutMoney, AcceptRefused, AcceptFirst, NoRoom
<1>3. ASSUME NEW b \in BOOLEAN
      PROVE  Edit([trade EXCEPT ![p].accepted = b])
  BY <1>1, EditItself, SetAcceptedEdits DEF IInv
<1>4. ASSUME NEW b \in BOOLEAN
      PROVE  Edit([trade EXCEPT ![p].accepted = b, ![Trader(p)].accepted = FALSE])
  <2> DEFINE t == [trade EXCEPT ![p].accepted = b]
  <2>1. Edit(t)
    BY <1>3
  <2>2. [trade EXCEPT ![p].accepted = b, ![Trader(p)].accepted = FALSE]
            = [t EXCEPT ![Trader(p)].accepted = FALSE]
    OBVIOUS
  <2> HIDE DEF t
  <2>3. Edit([t EXCEPT ![Trader(p)].accepted = FALSE])
    BY <1>1, <2>1, PairFacts, SetAcceptedEdits DEF IInv
  <2> QED
    BY <2>2, <2>3
<1>5. Edit(trade')
  BY <1>2, <1>3, <1>4
<1> QED
  BY <1>1, <1>5, EditStep

LEMMA SpellFailsKeepsInv ==
    ASSUME IInv, NEW p \in Player, SpellFails(p)
    PROVE  IInv'
<1>1. Trading(p) /\ UNCHANGED <<online, inv, money, bound, memory, saved>>
  BY DEF SpellFails, ChecksPass
<1>2. PICK x \in {p, Trader(p)} : trade' = Changed(x, [trade[x] EXCEPT !.spell = FALSE])
  BY DEF SpellFails
<1>3. x \in Player /\ Trading(x)
  BY <1>1, PairFacts DEF IInv
<1>4. Edit(trade')
  BY <1>2, <1>3, SpellEdits
<1> QED
  BY <1>1, <1>4, EditStep

\* Two players who trade with nobody become a pair.
LEMMA InitiateKeepsInv ==
    ASSUME IInv, NEW p \in Player, NEW q \in Player, InitiateTrade(p, q)
    PROVE  IInv'
<1>1. p \in online /\ q \in online /\ p # q /\ ~Trading(p) /\ ~Trading(q)
  BY DEF InitiateTrade, MayMeet
<1>2. UNCHANGED <<online, inv, money, bound, saved>> /\ memory' = {}
  BY DEF InitiateTrade
<1>3. PICK mine \in memory \cup {EmptySlots}, his \in memory \cup {EmptySlots} :
         trade' = [trade EXCEPT ![p] = NewTradeData(q, mine), ![q] = NewTradeData(p, his)]
  BY DEF InitiateTrade
<1>4. mine \in Slots /\ his \in Slots
  BY DEF IInv, TypeOK, EmptySlots, Slots
<1>5. /\ NewTradeData(q, mine) \in TradeData /\ NewTradeData(q, mine).trader = q
      /\ NewTradeData(p, his) \in TradeData /\ NewTradeData(p, his).trader = p
  BY <1>4, MoneyAssumption DEF NewTradeData, TradeData
<1> DEFINE a == NewTradeData(q, mine)
           b == NewTradeData(p, his)
<1>6. a # NoTrade /\ b # NoTrade
  BY <1>5, NoTradeAssumption
<1>7. /\ trade'[p] = a /\ trade'[q] = b
      /\ \A x \in Player \ {p, q} : trade'[x] = trade[x]
      /\ trade' \in [Player -> TradeData \cup {NoTrade}]
  BY <1>1, <1>3, <1>5 DEF IInv, TypeOK
<1>8. TypeOK' /\ OneOwner' /\ Backed'
  BY <1>2, <1>7 DEF IInv, TypeOK, OneOwner, Backed
<1>9. TradesPaired'
  <2> SUFFICES ASSUME NEW x \in Player, Trading(x)'
               PROVE  /\ x \in online /\ trade'[x].trader \in online /\ trade'[x].trader # x
                      /\ trade'[trade'[x].trader] # NoTrade
                      /\ trade'[trade'[x].trader].trader = x
    BY <1>2 DEF TradesPaired, Trading, Trader
  <2>1. CASE x \in {p, q}
    BY <2>1, <1>1, <1>5, <1>6, <1>7
  <2>2. CASE x \notin {p, q}
    <3>1. Trading(x) /\ trade'[x].trader = Trader(x)
      BY <2>2, <1>7 DEF Trading, Trader
    <3>2. /\ x \in online /\ Trader(x) \in online /\ Trader(x) # x /\ Trader(x) \in Player
          /\ Trading(Trader(x)) /\ Trader(Trader(x)) = x
      BY <3>1, PairFacts DEF IInv
    <3>3. Trader(x) \notin {p, q}
      BY <3>2, <1>1
    <3>4. trade'[Trader(x)] = trade[Trader(x)]
      BY <3>2, <3>3, <1>7
    <3> QED
      BY <3>1, <3>2, <3>4 DEF Trading, Trader
  <2> QED
    BY <2>1, <2>2
<1> QED
  BY <1>8, <1>9 DEF IInv

\* Closing a trade takes out a whole pair, so its players may leave the world.
LEMMA CloseKeepsPairs ==
    ASSUME IInv, NEW p \in Player, Trading(p),
           trade' = CloseTrade(trade, p), online \ {p} \subseteq online'
    PROVE  TradesPaired' /\ trade' \in [Player -> TradeData \cup {NoTrade}]
<1> DEFINE q == Trader(p)
<1>1. q \in Player /\ Trading(q) /\ Trader(q) = p /\ q # p
  BY PairFacts DEF IInv
<1>2. /\ trade'[p] = NoTrade /\ trade'[q] = NoTrade
      /\ \A x \in Player \ {p, q} : trade'[x] = trade[x]
      /\ trade' \in [Player -> TradeData \cup {NoTrade}]
  BY <1>1 DEF CloseTrade, IInv, TypeOK, Trader
<1> HIDE DEF q
<1>3. ASSUME NEW x \in Player, Trading(x)'
      PROVE  /\ x \in online' /\ trade'[x].trader \in online' /\ trade'[x].trader # x
             /\ trade'[trade'[x].trader] # NoTrade
             /\ trade'[trade'[x].trader].trader = x
  <2>1. x \notin {p, q}
    BY <1>2, <1>3 DEF Trading
  <2>2. Trading(x) /\ trade'[x].trader = Trader(x)
    BY <2>1, <1>2, <1>3 DEF Trading, Trader
  <2>3. /\ x \in online /\ Trader(x) \in online /\ Trader(x) # x /\ Trader(x) \in Player
        /\ Trading(Trader(x)) /\ Trader(Trader(x)) = x
    BY <2>2, PairFacts DEF IInv
  <2>4. Trader(x) \notin {p, q}
    BY <2>1, <2>3, <1>1 DEF q
  <2>5. trade'[Trader(x)] = trade[Trader(x)]
    BY <2>3, <2>4, <1>2
  <2> QED
    BY <2>1, <2>2, <2>3, <2>4, <2>5 DEF Trading, Trader
<1>4. TradesPaired'
  BY <1>3 DEF TradesPaired, Trading, Trader
<1> QED
  BY <1>2, <1>4

LEMMA FreedSlots ==
    ASSUME IInv, NEW p \in Player, Trading(p)
    PROVE  Freed(p) \subseteq Slots
<1>1. trade[p] \in TradeData /\ trade[Trader(p)] \in TradeData
  BY PairFacts DEF IInv
<1> QED
  BY <1>1 DEF Freed, TradeData

LEMMA CancelKeepsInv ==
    ASSUME IInv, NEW p \in Player, CancelTrade(p)
    PROVE  IInv'
<1>1. /\ Trading(p) /\ trade' = CloseTrade(trade, p) /\ memory' = Freed(p)
      /\ UNCHANGED <<online, inv, money, bound, saved>>
  BY DEF CancelTrade
<1>2. TradesPaired' /\ trade' \in [Player -> TradeData \cup {NoTrade}]
  BY <1>1, CloseKeepsPairs
<1>3. TypeOK'
  BY <1>1, <1>2, FreedSlots DEF IInv, TypeOK
<1>4. OneOwner' /\ Backed'
  BY <1>1 DEF IInv, OneOwner, Backed
<1> QED
  BY <1>2, <1>3, <1>4 DEF IInv

-----------------------------------------------------------------------------
(* Items change hands.                                                       *)

\* A trade offers what its owner has.
LEMMA OfferIsOwned ==
    ASSUME IInv, NEW p \in Player, Trading(p)
    PROVE  Offer(p) \subseteq inv[p]
  BY DEF Offer, GetItem

\* Payments stay within the limits, whatever was put into the window.
LEMMA BalanceInRange ==
    ASSUME IInv, NEW p \in Player, Trading(p)
    PROVE  Balance(p) \in 0..MaxMoney
<1>1. /\ money[p] \in 0..MaxMoney
      /\ trade[p].gold \in 0..MaxMoney /\ trade[Trader(p)].gold \in 0..MaxMoney
  BY PairFacts DEF IInv, TypeOK, TradeData
<1>2. Paid(money[p], trade[p].gold) \in 0..MaxMoney
  BY <1>1, MoneyAssumption DEF Paid
<1> QED
  BY <1>1, <1>2, MoneyAssumption DEF Balance, Received

LEMMA CompleteKeepsInv ==
    ASSUME IInv, NEW p \in Player, CompleteTrade(p)
    PROVE  IInv'
<1> DEFINE q == Trader(p)
<1>1. /\ Trading(p) /\ trade' = CloseTrade(trade, p) /\ memory' = Freed(p)
      /\ UNCHANGED <<online, bound>> /\ Fits(p) /\ Fits(q)
  BY DEF CompleteTrade, ChecksPass
<1>2. /\ inv' = [x \in Player |-> IF x \in {p, q} THEN Exchanged(x) ELSE inv[x]]
      /\ money' = [x \in Player |-> IF x \in {p, q} THEN Balance(x) ELSE money[x]]
      /\ saved' = [x \in Player |-> IF x \in {p, q} THEN [inv |-> inv'[x], money |-> money'[x]]
                                                   ELSE saved[x]]
  BY DEF CompleteTrade, SaveBoth
<1>3. q \in Player /\ Trading(q) /\ Trader(q) = p /\ q # p
  BY <1>1, PairFacts DEF IInv
<1>4. TradesPaired' /\ trade' \in [Player -> TradeData \cup {NoTrade}]
  BY <1>1, CloseKeepsPairs
<1>5. /\ Exchanged(p) = (inv[p] \ Offer(p)) \cup Offer(q)
      /\ Exchanged(q) = (inv[q] \ Offer(q)) \cup Offer(p)
  BY <1>3 DEF Exchanged
<1>6. Offer(p) \subseteq inv[p] /\ Offer(q) \subseteq inv[q]
  BY <1>1, <1>3, OfferIsOwned
<1>7. Balance(p) \in 0..MaxMoney /\ Balance(q) \in 0..MaxMoney
  BY <1>1, <1>3, BalanceInRange
<1>8. Cardinality(Exchanged(p)) <= Capacity /\ Cardinality(Exchanged(q)) <= Capacity
  BY <1>1, <1>3, <1>5 DEF Fits
<1> HIDE DEF q
<1>9. inv \in [Player -> SUBSET Item]
  BY DEF IInv, TypeOK
<1>10. inv' \in [Player -> SUBSET Item]
  BY <1>2, <1>5, <1>6, <1>9, <1>3
<1>11. money' \in [Player -> 0..MaxMoney]
  BY <1>2, <1>7 DEF IInv, TypeOK
<1>12. \A x \in Player : /\ x \in {p, q} => saved'[x].inv = Exchanged(x) /\ inv'[x] = Exchanged(x)
                         /\ x \notin {p, q} => saved'[x] = saved[x] /\ inv'[x] = inv[x]
  BY <1>2
<1>13. TypeOK'
  <2>1. saved' \in [Player -> [inv : SUBSET Item, money : 0..MaxMoney]]
    BY <1>2, <1>10, <1>11 DEF IInv, TypeOK
  <2> QED
    BY <2>1, <1>1, <1>4, <1>10, <1>11, FreedSlots DEF IInv, TypeOK
<1>14. OneOwner'
  <2> SUFFICES ASSUME NEW x \in Player, NEW y \in Player, x # y
               PROVE  /\ inv'[x] \cap inv'[y] = {}
                      /\ saved'[x].inv \cap saved'[y].inv = {}
    BY DEF OneOwner
  <2>1. /\ inv[x] \subseteq saved[x].inv /\ inv[y] \subseteq saved[y].inv
        /\ inv[p] \subseteq saved[p].inv /\ inv[q] \subseteq saved[q].inv
    BY <1>3 DEF IInv, Backed
  <2>2. /\ saved[x].inv \cap saved[y].inv = {}
        /\ x # p => saved[x].inv \cap saved[p].inv = {}
        /\ x # q => saved[x].inv \cap saved[q].inv = {}
        /\ y # p => saved[y].inv \cap saved[p].inv = {}
        /\ y # q => saved[y].inv \cap saved[q].inv = {}
        /\ inv[p] \cap inv[q] = {}
    BY <1>3 DEF IInv, OneOwner
  <2>3. CASE x \in {p, q} /\ y \in {p, q}
    <3>1. Exchanged(p) \cap Exchanged(q) = {}
      BY <1>5, <1>6, <2>2
    <3> QED
      BY <2>3, <3>1, <1>12
  <2>4. CASE x \in {p, q} /\ y \notin {p, q}
    <3>1. Exchanged(x) \subseteq saved[p].inv \cup saved[q].inv
      BY <2>4, <1>5, <1>6, <2>1
    <3>2. Exchanged(x) \cap saved[y].inv = {}
      BY <2>4, <3>1, <2>2
    <3> QED
      BY <2>4, <3>2, <2>1, <1>12
  <2>5. CASE x \notin {p, q} /\ y \in {p, q}
    <3>1. Exchanged(y) \subseteq saved[p].inv \cup saved[q].inv
      BY <2>5, <1>5, <1>6, <2>1
    <3>2. Exchanged(y) \cap saved[x].inv = {}
      BY <2>5, <3>1, <2>2
    <3> QED
      BY <2>5, <3>2, <2>1, <1>12
  <2>6. CASE x \notin {p, q} /\ y \notin {p, q}
    BY <2>6, <2>1, <2>2, <1>12
  <2> QED
    BY <2>3, <2>4, <2>5, <2>6
<1>15. Backed'
  BY <1>8, <1>12 DEF IInv, Backed
<1> QED
  BY <1>4, <1>13, <1>14, <1>15 DEF IInv

-----------------------------------------------------------------------------
(* What else happens to the players.                                         *)

\* Rows and inventories are finite, so fewer items take no more room.
LEMMA SmallerFits ==
    ASSUME IInv, NEW p \in Player
    PROVE  /\ Cardinality(inv[p]) <= Capacity
           /\ IsFiniteSet(inv[p]) /\ Cardinality(inv[p]) \in Nat
<1>1. saved[p].inv \in SUBSET Item /\ inv[p] \subseteq saved[p].inv
      /\ Cardinality(saved[p].inv) <= Capacity
  BY DEF IInv, TypeOK, Backed
<1>2. IsFiniteSet(saved[p].inv)
  BY <1>1, ItemAssumption, FS_Subset
<1>3. IsFiniteSet(inv[p]) /\ Cardinality(inv[p]) <= Cardinality(saved[p].inv)
  BY <1>1, <1>2, FS_Subset
<1>4. Cardinality(inv[p]) \in Nat /\ Cardinality(saved[p].inv) \in Nat
  BY <1>2, <1>3, FS_CardinalityType
<1> QED
  BY <1>1, <1>3, <1>4, CapacityAssumption

\* Money, soulbinding and lost items disturb neither trades nor rows.
LEMMA LossKeepsInv ==
    ASSUME IInv, NEW p \in Player,
           \/ \E amount \in 1..MaxMoney : Spend(p, amount)
           \/ \E i \in Item : DestroyItem(p, i) \/ Bind(p, i)
    PROVE  IInv'
<1>1. UNCHANGED <<online, trade, memory, saved>>
  BY DEF Spend, DestroyItem, Bind
<1>2. inv' \in [Player -> SUBSET Item] /\ \A x \in Player : inv'[x] \subseteq inv[x]
  BY DEF IInv, TypeOK, Spend, DestroyItem, Bind
<1>3. money' \in [Player -> 0..MaxMoney] /\ bound' \subseteq Item
  BY MoneyAssumption DEF IInv, TypeOK, Spend, DestroyItem, Bind
<1>4. TypeOK'
  BY <1>1, <1>2, <1>3 DEF IInv, TypeOK
<1>5. OneOwner'
  BY <1>1, <1>2 DEF IInv, OneOwner
<1>6. TradesPaired' /\ Backed'
  BY <1>1, <1>2 DEF IInv, TradesPaired, Trading, Trader, Backed
<1> QED
  BY <1>4, <1>5, <1>6 DEF IInv

\* Saving a player writes an inventory its row already backs.
LEMMA SaveKeepsRows ==
    ASSUME IInv, NEW p \in Player, SavePlayer(p), inv' = inv
    PROVE  /\ saved' \in [Player -> [inv : SUBSET Item, money : 0..MaxMoney]]
           /\ OneOwner' /\ Backed'
<1>1. /\ saved'[p].inv = inv[p]
      /\ \A x \in Player \ {p} : saved'[x] = saved[x]
      /\ saved' \in [Player -> [inv : SUBSET Item, money : 0..MaxMoney]]
  BY DEF SavePlayer, IInv, TypeOK
<1>2. \A x \in Player : inv[x] \subseteq saved'[x].inv /\ saved'[x].inv \subseteq saved[x].inv
  BY <1>1 DEF IInv, Backed
<1>3. OneOwner'
  BY <1>2 DEF IInv, OneOwner
<1>4. Backed'
  <2> SUFFICES ASSUME NEW x \in Player
               PROVE  Cardinality(saved'[x].inv) <= Capacity
    BY <1>2 DEF Backed
  <2>1. CASE x = p
    BY <2>1, <1>1, SmallerFits
  <2>2. CASE x # p
    BY <2>2, <1>1 DEF IInv, Backed
  <2> QED
    BY <2>1, <2>2
<1> QED
  BY <1>1, <1>3, <1>4

LEMMA SaveToDBKeepsInv ==
    ASSUME IInv, NEW p \in Player, SaveToDB(p)
    PROVE  IInv'
<1>1. UNCHANGED <<online, inv, money, bound, trade, memory>> /\ SavePlayer(p)
  BY DEF SaveToDB
<1>2. /\ saved' \in [Player -> [inv : SUBSET Item, money : 0..MaxMoney]]
      /\ OneOwner' /\ Backed'
  BY <1>1, SaveKeepsRows
<1>3. TypeOK' /\ TradesPaired'
  BY <1>1, <1>2 DEF IInv, TypeOK, TradesPaired, Trading, Trader
<1> QED
  BY <1>2, <1>3 DEF IInv

\* A player who leaves takes the whole trade along.
LEMMA LogoutKeepsInv ==
    ASSUME IInv, NEW p \in Player, Logout(p)
    PROVE  IInv'
<1>1. UNCHANGED <<inv, money, bound>> /\ SavePlayer(p) /\ online' = online \ {p}
  BY DEF Logout
<1>2. /\ saved' \in [Player -> [inv : SUBSET Item, money : 0..MaxMoney]]
      /\ OneOwner' /\ Backed'
  BY <1>1, SaveKeepsRows
<1>3. TypeOK' /\ TradesPaired'
  <2>1. CASE Trading(p)
    <3>1. trade' = CloseTrade(trade, p) /\ memory' = Freed(p)
      BY <2>1 DEF Logout
    <3>2. TradesPaired' /\ trade' \in [Player -> TradeData \cup {NoTrade}]
      BY <2>1, <3>1, <1>1, CloseKeepsPairs
    <3> QED
      BY <2>1, <3>1, <3>2, <1>1, <1>2, FreedSlots DEF IInv, TypeOK
  <2>2. CASE ~Trading(p)
    <3>1. UNCHANGED <<trade, memory>>
      BY <2>2 DEF Logout
    <3>2. \A x \in Player : Trading(x) => Trader(x) # p
      BY <2>2, PairFacts DEF IInv
    <3>3. TradesPaired'
      BY <2>2, <3>1, <3>2, <1>1 DEF IInv, TradesPaired, Trading, Trader
    <3> QED
      BY <3>1, <3>3, <1>1, <1>2 DEF IInv, TypeOK
  <2> QED
    BY <2>1, <2>2
<1> QED
  BY <1>2, <1>3 DEF IInv

\* The rows of a player who comes back are nobody else's.
LEMMA LoginKeepsInv ==
    ASSUME IInv, NEW p \in Player, Login(p)
    PROVE  IInv'
<1>1. /\ p \notin online /\ online' = online \cup {p}
      /\ inv' = [inv EXCEPT ![p] = saved[p].inv]
      /\ money' = [money EXCEPT ![p] = saved[p].money]
      /\ UNCHANGED <<bound, trade, memory, saved>>
  BY DEF Login
<1>2. TypeOK'
  BY <1>1 DEF IInv, TypeOK
<1>3. /\ inv'[p] = saved[p].inv
      /\ \A x \in Player \ {p} : inv'[x] = inv[x]
  BY <1>1 DEF IInv, TypeOK
<1>4. \A x \in Player : inv'[x] \subseteq saved[x].inv
  BY <1>3 DEF IInv, Backed
<1>5. OneOwner'
  BY <1>1, <1>4 DEF IInv, OneOwner
<1>6. Backed'
  BY <1>1, <1>4 DEF IInv, Backed
<1>7. TradesPaired'
  BY <1>1 DEF IInv, TradesPaired, Trading, Trader
<1> QED
  BY <1>2, <1>5, <1>6, <1>7 DEF IInv

\* A crash leaves the rows of the database, and no trade.
LEMMA CrashKeepsInv ==
    ASSUME IInv, Crash
    PROVE  IInv'
<1>1. /\ online' = {} /\ trade' = [p \in Player |-> NoTrade] /\ memory' = {}
      /\ inv' = [p \in Player |-> saved[p].inv]
      /\ money' = [p \in Player |-> saved[p].money]
      /\ UNCHANGED <<bound, saved>>
  BY DEF Crash
<1>2. TypeOK'
  BY <1>1 DEF IInv, TypeOK
<1>3. OneOwner' /\ Backed'
  BY <1>1 DEF IInv, OneOwner, Backed
<1>4. TradesPaired'
  BY <1>1 DEF TradesPaired, Trading
<1> QED
  BY <1>2, <1>3, <1>4 DEF IInv

-----------------------------------------------------------------------------
(* The theorems.                                                             *)

LEMMA InitInv == Init => IInv
<1> SUFFICES ASSUME Init
             PROVE  IInv
  OBVIOUS
<1>1. /\ inv \in [Player -> SUBSET Item]
      /\ \A p, q \in Player : /\ Cardinality(inv[p]) <= Capacity
                              /\ p # q => inv[p] \cap inv[q] = {}
  BY DEF Init, Inventories
<1>2. TypeOK
  BY <1>1, MoneyAssumption DEF Init, TypeOK
<1>3. \A p \in Player : saved[p].inv = inv[p]
  BY DEF Init
<1>4. OneOwner /\ Backed
  BY <1>1, <1>3 DEF OneOwner, Backed
<1>5. TradesPaired
  BY DEF Init, TradesPaired, Trading
<1> QED
  BY <1>2, <1>4, <1>5 DEF IInv

LEMMA NextInv == IInv /\ [Next]_vars => IInv'
<1> SUFFICES ASSUME IInv, [Next]_vars
             PROVE  IInv'
  OBVIOUS
<1>1. CASE Crash
  BY <1>1, CrashKeepsInv
<1>2. ASSUME NEW p \in Player, TradeNext(p)
      PROVE  IInv'
  <2>1. CASE \E q \in Player : InitiateTrade(p, q)
    BY <2>1, InitiateKeepsInv
  <2>2. CASE \E amount \in 0..MaxMoney : SetTradeGold(p, amount)
    BY <2>2, SetTradeGoldKeepsInv
  <2>3. CASE \E s \in Slot : ClearTradeItem(p, s) \/ \E i \in Item : SetTradeItem(p, s, i)
    BY <2>3, SetItemKeepsInv DEF ClearTradeItem, SetTradeItem
  <2>4. CASE SetSpell(p)
    BY <2>4, SetSpellKeepsInv
  <2>5. CASE AcceptTrade(p) \/ UnacceptTrade(p)
    BY <2>5, AcceptanceKeepsInv, SpellFailsKeepsInv, CompleteKeepsInv DEF AcceptTrade
  <2>6. CASE CancelTrade(p)
    BY <2>6, CancelKeepsInv
  <2> QED
    BY <1>2, <2>1, <2>2, <2>3, <2>4, <2>5, <2>6 DEF TradeNext
<1>3. ASSUME NEW p \in Player, PlayerNext(p)
      PROVE  IInv'
  <2>1. CASE SaveToDB(p) \/ Logout(p) \/ Login(p)
    BY <2>1, SaveToDBKeepsInv, LogoutKeepsInv, LoginKeepsInv
  <2>2. CASE ~(SaveToDB(p) \/ Logout(p) \/ Login(p))
    BY <1>3, <2>2, LossKeepsInv DEF PlayerNext
  <2> QED
    BY <2>1, <2>2
<1>4. CASE UNCHANGED vars
  BY <1>4 DEF vars, IInv, TypeOK, TradesPaired, Trading, Trader, OneOwner, Backed
<1> QED
  BY <1>1, <1>2, <1>3, <1>4 DEF Next

\* The inductive invariant holds of every behaviour.
THEOREM Invariant == Spec => []IInv
<1> QED
  BY InitInv, NextInv, PTL DEF Spec

\* Money stays in its range and every record a TradeData, whatever is put into
\* the windows.
THEOREM TypeCorrect == Spec => []TypeOK
<1>1. IInv => TypeOK
  BY DEF IInv
<1> QED
  BY <1>1, Invariant, PTL

\* GetTrader()->_trade is never NULL and leads back: the handlers may follow it
\* as they do (TradeHandler.cpp:290-541).
THEOREM TradesComeInPairs == Spec => []TradesPaired
<1>1. IInv => TradesPaired
  BY DEF IInv
<1> QED
  BY <1>1, Invariant, PTL

\* No interleaving of trades, saves, logouts and crashes duplicates an item
\* (moveItems and the one transaction of TradeHandler.cpp:528-532).
THEOREM ItemsHaveOneOwner == Spec => []OneOwner
<1>1. IInv => OneOwner
  BY DEF IInv
<1> QED
  BY <1>1, Invariant, PTL

\* CanStoreItems, asked for both players before anything moves, keeps every
\* inventory within its capacity.
THEOREM InventoriesFit == Spec => []RoomForItems
<1>1. IInv => RoomForItems
  BY SmallerFits DEF RoomForItems
<1> QED
  BY <1>1, Invariant, PTL

-----------------------------------------------------------------------------
(* What a step does to terms and bound items.                                *)

TermsKept(x) ==
    Trading(x) /\ Trading(x)' /\ trade[x].accepted /\ trade'[x].accepted =>
        Terms(x)' = Terms(x) /\ Terms(Trader(x))' = Terms(Trader(x))

\* A step that touches one pair, and leaves neither of it accepted.
LEMMA OnePairKeepsTerms ==
    ASSUME IInv, NEW p \in Player, Trading(p),
           \A x \in {p, Trader(p)} : trade'[x] = NoTrade \/ ~trade'[x].accepted,
           \A x \in Player \ {p, Trader(p)} : trade'[x] = trade[x]
    PROVE  \A x \in Player : TermsKept(x)
<1> SUFFICES ASSUME NEW x \in Player, x \notin {p, Trader(p)}, Trading(x)
             PROVE  Terms(x)' = Terms(x) /\ Terms(Trader(x))' = Terms(Trader(x))
  BY DEF TermsKept, Trading
<1>1. Trader(x) \in Player /\ Trader(Trader(x)) = x
  BY PairFacts DEF IInv
<1>2. Trader(Trader(p)) = p
  BY PairFacts DEF IInv
<1>3. Trader(x) \notin {p, Trader(p)}
  BY <1>1, <1>2
<1>4. trade'[x] = trade[x] /\ trade'[Trader(x)] = trade[Trader(x)]
  BY <1>1, <1>3
<1> QED
  BY <1>4 DEF Terms, Trader

\* Changed terms take back both acceptances.
LEMMA ChangedKeepsTerms ==
    ASSUME IInv, NEW p \in Player, Trading(p), NEW new \in TradeData,
           trade' = Changed(p, new)
    PROVE  \A x \in Player : TermsKept(x)
<1>1. Trader(p) \in Player /\ Trader(p) # p /\ trade[Trader(p)] \in TradeData
  BY PairFacts DEF IInv
<1>2. trade \in [Player -> TradeData \cup {NoTrade}]
  BY DEF IInv, TypeOK
<1>3. trade'[p].accepted = FALSE /\ trade'[Trader(p)].accepted = FALSE
  BY <1>1, <1>2 DEF Changed, TradeData
<1>4. \A x \in Player \ {p, Trader(p)} : trade'[x] = trade[x]
  BY <1>1, <1>2 DEF Changed
<1> QED
  BY <1>3, <1>4, OnePairKeepsTerms

LEMMA SetItemKeepsTerms ==
    ASSUME IInv, NEW p \in Player, Trading(p), NEW s \in Slot,
           NEW i \in Item \cup {NoItem}, SetItem(p, s, i)
    PROVE  \A x \in Player : TermsKept(x)
<1> DEFINE new == [trade[p] EXCEPT !.items[s] = i, !.spell = FALSE]
           t == Changed(p, new)
<1>1. /\ trade[p] \in TradeData /\ Trader(p) \in Player /\ Trader(p) # p
      /\ trade[Trader(p)] \in TradeData /\ trade \in [Player -> TradeData \cup {NoTrade}]
  BY PairFacts DEF IInv, TypeOK
<1>2. new \in TradeData
  BY <1>1, GoldAndItemsFields, Zenon
<1> HIDE DEF new
<1>3. /\ t[p].accepted = FALSE /\ t[Trader(p)] \in TradeData /\ t[Trader(p)].accepted = FALSE
      /\ \A x \in Player \ {p, Trader(p)} : t[x] = trade[x]
      /\ DOMAIN t = Player
  BY <1>1, <1>2 DEF Changed, TradeData
<1>4. trade' = IF s = NonTraded THEN [t EXCEPT ![Trader(p)].spell = FALSE] ELSE t
  BY DEF SetItem, new
<1> HIDE DEF t
<1>5. /\ trade'[p].accepted = FALSE /\ trade'[Trader(p)].accepted = FALSE
      /\ \A x \in Player \ {p, Trader(p)} : trade'[x] = trade[x]
  BY <1>1, <1>3, <1>4 DEF TradeData
<1> QED
  BY <1>5, OnePairKeepsTerms

\* Closing a trade leaves no terms to keep.
LEMMA CloseKeepsTerms ==
    ASSUME IInv, NEW p \in Player, Trading(p), trade' = CloseTrade(trade, p)
    PROVE  \A x \in Player : TermsKept(x)
<1>1. Trader(p) \in Player /\ Trader(p) # p
  BY PairFacts DEF IInv
<1>2. /\ trade'[p] = NoTrade /\ trade'[Trader(p)] = NoTrade
      /\ \A x \in Player \ {p, Trader(p)} : trade'[x] = trade[x]
  BY <1>1 DEF CloseTrade, IInv, TypeOK, Trader
<1> QED
  BY <1>2, OnePairKeepsTerms

\* A new trade is accepted by nobody.
LEMMA InitiateKeepsTerms ==
    ASSUME IInv, NEW p \in Player, NEW q \in Player, InitiateTrade(p, q)
    PROVE  \A x \in Player : TermsKept(x)
<1>1. ~Trading(p) /\ ~Trading(q)
  BY DEF InitiateTrade, MayMeet
<1>2. \A x \in Player \ {p, q} : trade'[x] = trade[x]
  BY DEF InitiateTrade, IInv, TypeOK
<1> SUFFICES ASSUME NEW x \in Player, Trading(x)
             PROVE  Terms(x)' = Terms(x) /\ Terms(Trader(x))' = Terms(Trader(x))
  BY DEF TermsKept
<1>3. Trader(x) \in Player /\ Trading(Trader(x))
  BY PairFacts DEF IInv
<1>4. trade'[x] = trade[x] /\ trade'[Trader(x)] = trade[Trader(x)]
  BY <1>1, <1>2, <1>3
<1> QED
  BY <1>4 DEF Terms, Trader

\* Acceptances come and go without the terms.
LEMMA AcceptanceIsNoTerm ==
    ASSUME IInv, NEW p \in Player, Trading(p), NEW b \in BOOLEAN,
           \/ trade' = [trade EXCEPT ![p].accepted = b]
           \/ trade' = [trade EXCEPT ![p].accepted = b, ![Trader(p)].accepted = FALSE]
    PROVE  \A x \in Player : TermsKept(x)
<1>1. /\ trade[p] \in TradeData /\ Trader(p) \in Player /\ Trader(p) # p
      /\ trade[Trader(p)] \in TradeData /\ trade \in [Player -> TradeData \cup {NoTrade}]
  BY PairFacts DEF IInv, TypeOK
<1>2. \A x \in Player : trade[x] # NoTrade =>
          /\ trade'[x].trader = trade[x].trader /\ trade'[x].gold = trade[x].gold
          /\ trade'[x].items = trade[x].items /\ trade'[x].spell = trade[x].spell
  BY <1>1 DEF TradeData
<1> SUFFICES ASSUME NEW x \in Player, Trading(x)
             PROVE  Terms(x)' = Terms(x) /\ Terms(Trader(x))' = Terms(Trader(x))
  BY DEF TermsKept
<1>3. Trader(x) \in Player /\ Trading(Trader(x))
  BY PairFacts DEF IInv
<1>4. Trader(x)' = Trader(x)
  BY <1>2 DEF Trading, Trader
<1> QED
  BY <1>2, <1>3, <1>4 DEF Terms, Trading, Trader

\* An acceptance that outlives a step stands for the same terms, on both sides:
\* TradeData::SetItem, SetMoney and SetSpell take back both, in any order of
\* packets of the two players.
THEOREM AcceptancesKeepTerms == Spec => AcceptanceKeepsTerms
<1> DEFINE Kept == \A x \in Player : TermsKept(x)
<1>1. ASSUME IInv, [Next]_vars PROVE Kept
  <2>1. CASE UNCHANGED vars
    BY <2>1 DEF vars, TermsKept, Terms, Trader
  <2>2. CASE Crash
    BY <2>2 DEF Crash, TermsKept, Trading
  <2>3. ASSUME NEW p \in Player, TradeNext(p) PROVE Kept
    <3>1. CASE \E q \in Player : InitiateTrade(p, q)
      BY <1>1, <3>1, InitiateKeepsTerms
    <3>2. ASSUME NEW amount \in 0..MaxMoney, SetTradeGold(p, amount) PROVE Kept
      <4>1. Trading(p) /\ trade' = Changed(p, [trade[p] EXCEPT !.gold = amount])
        BY <3>2 DEF SetTradeGold
      <4>2. trade[p] \in TradeData
        BY <1>1, <4>1, PairFacts DEF IInv
      <4>3. [trade[p] EXCEPT !.gold = amount] \in TradeData
        BY <4>2 DEF TradeData
      <4> QED
        BY <1>1, <4>1, <4>3, ChangedKeepsTerms
    <3>3. CASE \E s \in Slot : ClearTradeItem(p, s) \/ \E i \in Item : SetTradeItem(p, s, i)
      BY <1>1, <3>3, SetItemKeepsTerms DEF ClearTradeItem, SetTradeItem
    <3>4. ASSUME NEW x \in Player, Trading(x), NEW b \in BOOLEAN,
                 trade' = Changed(x, [trade[x] EXCEPT !.spell = b])
          PROVE  Kept
      <4>1. [trade[x] EXCEPT !.spell = b] \in TradeData
        BY <1>1, <3>4, PairFacts, EditFields DEF IInv
      <4> QED
        BY <1>1, <3>4, <4>1, ChangedKeepsTerms
    <3>5. CASE SetSpell(p)
      BY <3>4, <3>5 DEF SetSpell
    <3>6. CASE SpellFails(p)
      <4>1. \E x \in {p, Trader(p)} : trade' = Changed(x, [trade[x] EXCEPT !.spell = FALSE])
        BY <3>6 DEF SpellFails
      <4>2. Trading(p) /\ Trader(p) \in Player /\ Trading(Trader(p))
        BY <1>1, <3>6, PairFacts DEF SpellFails, ChecksPass, IInv
      <4> QED
        BY <3>4, <4>1, <4>2
    <3>7. CASE \/ UnacceptTrade(p) \/ AcceptWithoutMoney(p) \/ AcceptRefused(p)
               \/ AcceptFirst(p) \/ NoRoom(p)
      <4>1. /\ Trading(p)
            /\ \E b \in BOOLEAN :
                  \/ trade' = [trade EXCEPT ![p].accepted = b]
                  \/ trade' = [trade EXCEPT ![p].accepted = b, ![Trader(p)].accepted = FALSE]
        BY <3>7 DEF UnacceptTrade, AcceptWithoutMoney, AcceptRefused, AcceptFirst, NoRoom,
                    ChecksPass
      <4> QED
        BY <1>1, <4>1, AcceptanceIsNoTerm
    <3>8. CASE CompleteTrade(p) \/ CancelTrade(p)
      <4>1. Trading(p) /\ trade' = CloseTrade(trade, p)
        BY <3>8 DEF CompleteTrade, CancelTrade, ChecksPass
      <4> QED
        BY <1>1, <4>1, CloseKeepsTerms
    <3> QED
      BY <2>3, <3>1, <3>2, <3>3, <3>5, <3>6, <3>7, <3>8 DEF TradeNext, AcceptTrade
  <2>4. ASSUME NEW p \in Player, PlayerNext(p) PROVE Kept
    <3>1. CASE trade' = trade
      BY <3>1 DEF TermsKept, Terms, Trader
    <3>2. CASE Logout(p) /\ Trading(p)
      BY <1>1, <3>2, CloseKeepsTerms DEF Logout
    <3> QED
      BY <2>4, <3>1, <3>2 DEF PlayerNext, Spend, DestroyItem, Bind, SaveToDB, Logout, Login
  <2> QED
    BY <1>1, <2>1, <2>2, <2>3, <2>4 DEF Next
<1> DEFINE A == \A p \in Player :
                   Trading(p) /\ Trading(p)' /\ trade[p].accepted /\ trade'[p].accepted =>
                       Terms(p)' = Terms(p) /\ Terms(Trader(p))' = Terms(Trader(p))
<1>2. Kept => A
  BY DEF TermsKept
<1> HIDE DEF Kept, A
<1>3. IInv /\ [Next]_vars => [A]_vars
  BY <1>1, <1>2
<1> USE DEF A
<1> QED
  BY <1>3, Invariant, PTL DEF Spec, AcceptanceKeepsTerms

\* Unless a trade completes, inventories get items only from their rows.
LEMMA OthersGiveNothing ==
    ASSUME IInv, Next, ~(\E p \in Player : CompleteTrade(p))
    PROVE  \A x \in Player : inv'[x] \subseteq saved[x].inv
<1>1. inv \in [Player -> SUBSET Item] /\ \A x \in Player : inv[x] \subseteq saved[x].inv
  BY DEF IInv, TypeOK, Backed
<1>2. CASE Crash
  BY <1>2 DEF Crash
<1>3. ASSUME NEW p \in Player, TradeNext(p) PROVE inv' = inv
  BY <1>3 DEF TradeNext, InitiateTrade, SetTradeGold, ClearTradeItem, SetTradeItem, SetItem,
              SetSpell, AcceptTrade, AcceptWithoutMoney, AcceptRefused, AcceptFirst,
              SpellFails, NoRoom, UnacceptTrade, CancelTrade
<1>4. ASSUME NEW p \in Player, PlayerNext(p)
      PROVE  \/ inv' = inv
             \/ \E i \in Item : inv' = [inv EXCEPT ![p] = @ \ {i}]
             \/ inv' = [inv EXCEPT ![p] = saved[p].inv]
  BY <1>4 DEF PlayerNext, Spend, DestroyItem, Bind, SaveToDB, Logout, Login
<1> QED
  BY <1>1, <1>2, <1>3, <1>4 DEF Next

\* An item that became soulbound in the window never reaches the other player:
\* both sides' items are checked again when the trade completes
\* (HandleAcceptTradeOpcode), and no login or crash moves one.
THEOREM BoundItemsAreKept == Spec => BoundItemsStay
<1> DEFINE A == \A p, q \in Player : p # q => inv[p] \cap bound \cap inv'[q] = {}
<1>1. ASSUME IInv, Next, NEW p \in Player, NEW q \in Player, p # q
      PROVE  inv[p] \cap bound \cap inv'[q] = {}
  <2>1. /\ inv[p] \cap inv[q] = {} /\ saved[p].inv \cap saved[q].inv = {}
        /\ inv[p] \subseteq saved[p].inv
    BY <1>1 DEF IInv, OneOwner, Backed
  <2>2. CASE ~(\E x \in Player : CompleteTrade(x))
    BY <1>1, <2>1, <2>2, OthersGiveNothing
  <2>3. ASSUME NEW x \in Player, CompleteTrade(x)
        PROVE  inv[p] \cap bound \cap inv'[q] = {}
    <3>1. Trading(x) /\ ItemsPass(x)
      BY <2>3 DEF CompleteTrade, ChecksPass
    <3>2. Trader(x) \in Player /\ Trader(Trader(x)) = x
      BY <1>1, <3>1, PairFacts DEF IInv
    <3>3. Offer(x) \cap bound = {} /\ Offer(Trader(x)) \cap bound = {}
      BY <3>1 DEF ItemsPass, CanBeTraded
    <3>4. inv'[q] \subseteq inv[q] \cup Offer(x) \cup Offer(Trader(x))
      BY <2>3, <3>2 DEF CompleteTrade, Exchanged
    <3> QED
      BY <2>1, <3>3, <3>4
  <2> QED
    BY <2>2, <2>3
<1>2. IInv /\ [Next]_vars => [A]_vars
  BY <1>1
<1> QED
  BY <1>2, Invariant, PTL DEF Spec, BoundItemsStay

-----------------------------------------------------------------------------
(* Money.                                                                    *)

\* Money is spent without a save, but what is received in a trade is saved at
\* once, so that nobody has more than its row says.
NoneUnsaved == \A p \in Player : money[p] <= saved[p].money

MoneyTyped ==
    /\ money \in [Player -> Nat] /\ saved \in [Player -> [inv : SUBSET Item, money : Nat]]

LEMMA MoneyIsTyped == TypeOK => MoneyTyped
<1> SUFFICES ASSUME TypeOK PROVE MoneyTyped
  OBVIOUS
<1>1. 0..MaxMoney \subseteq Nat
  BY MoneyAssumption
<1> QED
  BY <1>1 DEF TypeOK, MoneyTyped

\* Who completes a trade has the money he puts into it, so the two together have
\* no more than before.
LEMMA TradeKeepsMoney ==
    ASSUME IInv, NEW p \in Player, CompleteTrade(p)
    PROVE  LET q == Trader(p)
           IN  /\ q \in Player /\ p # q
               /\ money'[p] \in Nat /\ money'[q] \in Nat
               /\ money'[p] + money'[q] <= money[p] + money[q]
               /\ saved'[p].money = money'[p] /\ saved'[q].money = money'[q]
               /\ \A x \in Player \ {p, q} : money'[x] = money[x] /\ saved'[x] = saved[x]
<1> DEFINE q == Trader(p)
<1>1. /\ Trading(p) /\ q \in Player /\ p # q /\ Trader(q) = p
      /\ trade[p].gold \in 0..MaxMoney /\ trade[q].gold \in 0..MaxMoney
  BY PairFacts DEF CompleteTrade, ChecksPass, IInv, TradeData
<1>2. money[p] \in 0..MaxMoney /\ money[q] \in 0..MaxMoney
  BY <1>1 DEF IInv, TypeOK
<1>3. money[p] >= trade[p].gold /\ money[q] >= trade[q].gold
  BY DEF CompleteTrade, ChecksPass, HasEnoughMoney
<1>4. /\ money'[p] = Balance(p) /\ money'[q] = Balance(q)
      /\ \A x \in Player \ {p, q} : money'[x] = money[x]
  BY <1>1 DEF CompleteTrade
<1>5. ASSUME NEW m \in 0..MaxMoney, NEW g \in 0..MaxMoney, NEW h \in 0..MaxMoney, m >= g
      PROVE  Received(Paid(m, g), h) \in Nat /\ Received(Paid(m, g), h) <= m - g + h
  BY <1>5, MoneyAssumption DEF Received, Paid
<1>6. /\ Balance(p) \in Nat /\ Balance(p) <= money[p] - trade[p].gold + trade[q].gold
      /\ Balance(q) \in Nat /\ Balance(q) <= money[q] - trade[q].gold + trade[p].gold
  <2> HIDE DEF q
  <2> QED
    BY <1>1, <1>2, <1>3, <1>5 DEF Balance, q
<1>7. Balance(p) + Balance(q) <= money[p] + money[q]
  BY <1>1, <1>2, <1>6, MoneyAssumption
<1>8. /\ saved'[p].money = money'[p] /\ saved'[q].money = money'[q]
      /\ \A x \in Player \ {p, q} : saved'[x] = saved[x]
  BY <1>1 DEF CompleteTrade, SaveBoth
<1> QED
  BY <1>1, <1>4, <1>6, <1>7, <1>8

\* In every other step everybody's money shrinks or is what the row says.
LEMMA OthersKeepMoney ==
    ASSUME IInv, NoneUnsaved, [Next]_vars, ~(\E p \in Player : CompleteTrade(p))
    PROVE  \A x \in Player : /\ money'[x] <= saved[x].money
                             /\ saved'[x].money <= saved[x].money
                             /\ money'[x] <= saved'[x].money
<1>1. MoneyTyped
  BY MoneyIsTyped DEF IInv
<1>2. /\ \A x \in Player : money[x] \in Nat /\ saved[x].money \in Nat /\ money[x] <= saved[x].money
      /\ DOMAIN money = Player /\ DOMAIN saved = Player
  BY <1>1 DEF MoneyTyped, NoneUnsaved
<1>3. CASE money' = money /\ saved' = saved
  BY <1>2, <1>3
<1>4. CASE Crash
  BY <1>2, <1>4 DEF Crash
<1>5. ASSUME NEW p \in Player, TradeNext(p) PROVE money' = money /\ saved' = saved
  BY <1>5 DEF TradeNext, InitiateTrade, SetTradeGold, ClearTradeItem, SetTradeItem, SetItem,
              SetSpell, AcceptTrade, AcceptWithoutMoney, AcceptRefused, AcceptFirst,
              SpellFails, NoRoom, UnacceptTrade, CancelTrade
<1>6. ASSUME NEW p \in Player, NEW amount \in 1..MaxMoney, Spend(p, amount)
      PROVE  \A x \in Player : money'[x] <= money[x] /\ money'[x] \in Nat /\ saved' = saved
  BY <1>2, <1>6 DEF Spend
<1>7. ASSUME NEW p \in Player, SaveToDB(p) \/ Logout(p)
      PROVE  /\ money' = money
             /\ \A x \in Player : saved'[x].money = saved[x].money \/ saved'[x].money = money[x]
  BY <1>2, <1>7 DEF SaveToDB, Logout, SavePlayer
<1>8. ASSUME NEW p \in Player, Login(p)
      PROVE  saved' = saved /\ \A x \in Player : money'[x] = money[x] \/ money'[x] = saved[x].money
  BY <1>2, <1>8 DEF Login
<1>9. ASSUME NEW p \in Player, NEW i \in Item, DestroyItem(p, i) \/ Bind(p, i)
      PROVE  money' = money /\ saved' = saved
  BY <1>9 DEF DestroyItem, Bind
<1> DEFINE Goal == \A x \in Player : /\ money'[x] <= saved[x].money
                                     /\ saved'[x].money <= saved[x].money
                                     /\ money'[x] <= saved'[x].money
<1>10. ASSUME NEW p \in Player, PlayerNext(p) PROVE Goal
  <2>1. CASE \E amount \in 1..MaxMoney : Spend(p, amount)
    BY <1>2, <1>6, <2>1
  <2>2. CASE SaveToDB(p) \/ Logout(p)
    BY <1>2, <1>7, <2>2
  <2>3. CASE Login(p)
    BY <1>2, <1>8, <2>3
  <2>4. CASE \E i \in Item : DestroyItem(p, i) \/ Bind(p, i)
    BY <1>3, <1>9, <2>4
  <2> QED
    BY <1>10, <2>1, <2>2, <2>3, <2>4 DEF PlayerNext
<1> QED
  BY <1>3, <1>4, <1>5, <1>10 DEF Next, vars

LEMMA StepKeepsMoney ==
    ASSUME IInv, NoneUnsaved, [Next]_vars
    PROVE  /\ Total(money') <= Total(SavedMoney) /\ Total(SavedMoney') <= Total(SavedMoney)
           /\ NoneUnsaved'
<1>1. MoneyTyped /\ MoneyTyped'
  <2>1. TypeOK /\ TypeOK'
    BY NextInv DEF IInv
  <2>2. 0..MaxMoney \subseteq Nat
    BY MoneyAssumption
  <2> QED
    BY <2>1, <2>2 DEF TypeOK, MoneyTyped
<1>2. \A x \in Player : /\ money[x] \in Nat /\ saved[x].money \in Nat /\ SavedMoney[x] = saved[x].money
                        /\ money'[x] \in Nat /\ saved'[x].money \in Nat
                        /\ SavedMoney'[x] = saved'[x].money /\ money[x] <= saved[x].money
  BY <1>1 DEF MoneyTyped, SavedMoney, NoneUnsaved
<1>3. \A f : Total(f) = SumFunctionOnSet(f, Player)
  BY DEF Total, MapThenSumSet, SumFunctionOnSet, FoldFunctionOnSet, MapThenFoldSet
<1>4. CASE ~(\E p \in Player : CompleteTrade(p))
  <2>1. \A x \in Player : /\ money'[x] <= saved[x].money
                          /\ saved'[x].money <= saved[x].money
                          /\ money'[x] <= saved'[x].money
    BY <1>4, OthersKeepMoney
  <2>2. NoneUnsaved'
    BY <2>1 DEF NoneUnsaved
  <2>3. \A x \in Player : money'[x] <= SavedMoney[x] /\ SavedMoney'[x] <= SavedMoney[x]
    BY <1>2, <2>1
  <2>4. \A x \in Player : money'[x] \in Int /\ SavedMoney'[x] \in Int /\ SavedMoney[x] \in Int
    BY <1>2
  <2>5. /\ SumFunctionOnSet(money', Player) <= SumFunctionOnSet(SavedMoney, Player)
        /\ SumFunctionOnSet(SavedMoney', Player) <= SumFunctionOnSet(SavedMoney, Player)
    BY <2>3, <2>4, PlayerAssumption, SumAtMost
  <2> QED
    BY <1>3, <2>2, <2>5
<1>5. ASSUME NEW p \in Player, CompleteTrade(p)
      PROVE  /\ Total(money') <= Total(SavedMoney) /\ Total(SavedMoney') <= Total(SavedMoney)
             /\ NoneUnsaved'
  <2>1. PICK q \in Player : 
               /\ p # q
               /\ money'[p] + money'[q] <= money[p] + money[q]
               /\ saved'[p].money = money'[p] /\ saved'[q].money = money'[q]
               /\ \A x \in Player \ {p, q} : money'[x] = money[x] /\ saved'[x] = saved[x]
    BY <1>5, TradeKeepsMoney
  <2>2. NoneUnsaved'
    <3> SUFFICES ASSUME NEW x \in Player PROVE money'[x] <= saved'[x].money
      BY DEF NoneUnsaved
    <3> QED
      BY <1>2, <2>1
  <2>3. \A x \in Player \ {p, q} : money'[x] <= SavedMoney[x] /\ SavedMoney'[x] <= SavedMoney[x]
    BY <1>2, <2>1
  <2>4. \A x \in Player : money'[x] \in Int /\ SavedMoney'[x] \in Int /\ SavedMoney[x] \in Int
    BY <1>2
  <2>5. /\ money'[p] + money'[q] <= SavedMoney[p] + SavedMoney[q]
        /\ SavedMoney'[p] + SavedMoney'[q] <= SavedMoney[p] + SavedMoney[q]
    BY <1>2, <2>1
  <2>6. /\ SumFunctionOnSet(money', Player) <= SumFunctionOnSet(SavedMoney, Player)
        /\ SumFunctionOnSet(SavedMoney', Player) <= SumFunctionOnSet(SavedMoney, Player)
    BY <2>1, <2>3, <2>4, <2>5, PlayerAssumption, SumPair
  <2> QED
    BY <1>3, <2>2, <2>6
<1> QED
  BY <1>4, <1>5

\* Trading creates no money (HandleAcceptTradeOpcode): what all players have in
\* memory after a step, and what the rows of the database say then, is never
\* more than what the rows said before, whatever was spent after it was put into
\* the window and whenever the server crashes.
THEOREM TradingMakesNoMoney == Spec => NoMoneyFromNothing
<1>1. Init => NoneUnsaved
  <2> SUFFICES ASSUME Init, NEW p \in Player PROVE money[p] <= saved[p].money
    BY DEF NoneUnsaved
  <2>1. money[p] = Purse /\ saved[p].money = Purse
    BY DEF Init
  <2> QED
    BY <2>1, MoneyAssumption
<1>2. IInv /\ NoneUnsaved /\ [Next]_vars => NoneUnsaved'
  BY StepKeepsMoney
<1> DEFINE A == Total(money') <= Total(SavedMoney) /\ Total(SavedMoney') <= Total(SavedMoney)
<1>3. IInv /\ NoneUnsaved /\ [Next]_vars => [A]_vars
  BY StepKeepsMoney
<1> HIDE DEF A
<1>4. Spec => []NoneUnsaved
  BY <1>1, <1>2, Invariant, PTL DEF Spec
<1> USE DEF A
<1> QED
  BY <1>3, <1>4, Invariant, PTL DEF Spec, NoMoneyFromNothing
=============================================================================

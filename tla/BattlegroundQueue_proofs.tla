---------------------- MODULE BattlegroundQueue_proofs -----------------------
(***************************************************************************)
(* Proofs about BattlegroundQueue, for any number of players, parties and  *)
(* battlegrounds and any size of a team.                                   *)
(*                                                                         *)
(* The invariant IInv is Good of the variables, and Good is stated of any  *)
(* queue, slots, events and battlegrounds: BattlegroundQueueUpdate goes    *)
(* through states between which no variable changes, and each of them is   *)
(* Good (Sound).  What is left abstract of the matchmaking is that a pool  *)
(* holds waiting groups of the queue (PoolsFrom); which of them, the proof *)
(* need not know.                                                          *)
(***************************************************************************)
EXTENDS BattlegroundQueue, SequenceTheorems, WellFoundedInduction, FiniteSetTheorems, TLAPS

-----------------------------------------------------------------------------
(* Induction.  The induction theorems of the library take an operator as a   *)
(* parameter; here a property is the set of what has it.                     *)

\* There is no infinite descent in the natural numbers.
LEMMA NatOrder == IsWellFoundedOn({ss \in Nat \X Nat : ss[1] < ss[2]}, Nat)
BY NatLessThanWellFounded DEF OpToRel

\* Every set of numbers that is not empty has a least element.
LEMMA LeastNumber ==
    ASSUME NEW S \in SUBSET Nat, S # {}
    PROVE  \E n \in S : \A m \in S : n <= m
<1> DEFINE R == {ss \in Nat \X Nat : ss[1] < ss[2]}
<1>1. IsWellFoundedOn(R, Nat)
  BY NatOrder
<1>2. PICK x \in S : \A y \in S : ~(<<y, x>> \in R)
  <2> HIDE DEF R
  <2> QED BY <1>1, WFMin
<1>3. ASSUME NEW m \in S, ~(x <= m)
      PROVE  <<m, x>> \in R
  <2>1. m \in Nat /\ x \in Nat
    OBVIOUS
  <2>2. m < x
    BY <1>3, <2>1
  <2> QED BY <2>1, <2>2
<1> HIDE DEF R
<1> QED BY <1>2, <1>3

\* Induction over the natural numbers.
LEMMA NumberInduction ==
    ASSUME NEW S, 0 \in S, \A n \in Nat : n \in S => n + 1 \in S
    PROVE  \A n \in Nat : n \in S
<1> SUFFICES ASSUME NEW k \in Nat, k \notin S PROVE FALSE
  OBVIOUS
<1> DEFINE B == Nat \ S
<1>1. PICK n \in B : \A m \in B : n <= m
  <2> B \in SUBSET Nat /\ B # {}
    OBVIOUS
  <2> HIDE DEF B
  <2> QED BY LeastNumber
<1>2. n # 0 /\ n \in Nat
  OBVIOUS
<1>3. n - 1 \in Nat /\ n - 1 < n /\ ~(n <= n - 1) /\ n - 1 + 1 = n
  BY <1>2
<1>4. n - 1 \in S
  BY <1>1, <1>3
<1>5. n \in S
  BY <1>3, <1>4
<1> QED BY <1>5

-----------------------------------------------------------------------------
(* Folds.                                                                    *)

\* Numbers with a bound have a largest one.
LEMMA LargestNumber ==
    ASSUME NEW S \in SUBSET Nat, S # {}, NEW n \in Nat, \A m \in S : m <= n
    PROVE  Max(S) \in S /\ \A m \in S : m <= Max(S)
<1> DEFINE D == {n - m : m \in S}
<1>1. D \in SUBSET Nat /\ D # {}
  <2>1. ASSUME NEW m \in S
        PROVE  n - m \in Nat
    <3>1. m \in Nat /\ m <= n
      OBVIOUS
    <3> QED BY <3>1
  <2> QED BY <2>1
<1>2. PICK d \in D : \A e \in D : d <= e
  <2> HIDE DEF D
  <2> QED BY <1>1, LeastNumber
<1>3. PICK x \in S : d = n - x
  OBVIOUS
<1>4. \A m \in S : x >= m
  <2>1. ASSUME NEW m \in S
        PROVE  x >= m
    <3>1. d <= n - m /\ m \in Nat /\ x \in Nat
      BY <1>2
    <3> QED BY <1>3, <3>1
  <2> QED BY <2>1
<1>5. Max(S) \in S /\ \A m \in S : Max(S) >= m
  BY <1>4 DEF Max
<1>6. ASSUME NEW m \in S
      PROVE  m <= Max(S)
  <2>1. Max(S) \in Nat /\ m \in Nat /\ Max(S) >= m
    BY <1>5
  <2> QED BY <2>1
<1> QED BY <1>5, <1>6

\* The last number of an interval, and the others.
LEMMA LastNumber ==
    ASSUME NEW k \in Nat
    PROVE  Max(1..k + 1) = k + 1 /\ (1..k + 1) \ {k + 1} = 1..k
<1>1. (1..k + 1) \in SUBSET Nat /\ k + 1 \in 1..k + 1 /\ \A m \in 1..k + 1 : m <= k + 1
  OBVIOUS
<1>2. Max(1..k + 1) \in 1..k + 1 /\ k + 1 <= Max(1..k + 1)
  BY <1>1, LargestNumber
<1> QED BY <1>2

\* The equation of the function on sets of positions by which a fold is defined.
FoldBody(base, step, f, s) ==
    IF s = {} THEN base ELSE step[<<Max(s), f[s \ {Max(s)}]>>]

LEMMA FoldExists ==
    ASSUME NEW n \in Nat, NEW base, NEW step
    PROVE  \E f : f = [s \in SUBSET (1..n) |-> FoldBody(base, step, f, s)]
<1> DEFINE P == 1..n
           D(k) == {s \in SUBSET P : Cardinality(s) <= k}
           N == {k \in Nat : \E g : g = [s \in D(k) |-> FoldBody(base, step, g, s)]}
<1>f. \A s \in SUBSET P : IsFiniteSet(s) /\ Cardinality(s) \in Nat /\ Cardinality(s) <= Cardinality(P)
  <2>1. IsFiniteSet(P)
    BY FS_Interval
  <2> HIDE DEF P
  <2> QED BY <2>1, FS_Subset, FS_CardinalityType
<1>c. \A s \in SUBSET P : s # {} => Max(s) \in s
  <2>1. ASSUME NEW s \in SUBSET P, s # {}
        PROVE  Max(s) \in s
    <3>1. s \in SUBSET Nat /\ \A m \in s : m <= n
      OBVIOUS
    <3> QED BY <3>1, <2>1, LargestNumber
  <2> QED BY <2>1
<1> HIDE DEF P
<1>1. 0 \in N
  <2> DEFINE g == [s \in D(0) |-> base]
  <2>1. \A s \in D(0) : s = {}
    BY <1>f, FS_EmptySet
  <2>2. g = [s \in D(0) |-> FoldBody(base, step, g, s)]
    BY <2>1 DEF FoldBody
  <2> QED BY <2>2
<1>2. ASSUME NEW k \in Nat, k \in N
      PROVE  k + 1 \in N
  <2>1. PICK g : g = [s \in D(k) |-> FoldBody(base, step, g, s)]
    BY <1>2
  <2> DEFINE h == [s \in D(k + 1) |-> FoldBody(base, step, g, s)]
  <2>2. ASSUME NEW s \in D(k + 1)
        PROVE  FoldBody(base, step, g, s) = FoldBody(base, step, h, s)
    <3>1. CASE s = {}
      BY <3>1 DEF FoldBody
    <3>2. CASE s # {}
      <4> DEFINE u == s \ {Max(s)}
      <4>1. Cardinality(u) = Cardinality(s) - 1
        BY <1>f, <1>c, <3>2, FS_RemoveElement
      <4>2. Cardinality(s) \in Nat /\ Cardinality(s) <= k + 1
        BY <1>f
      <4>3. Cardinality(u) <= k /\ Cardinality(u) <= k + 1
        BY <4>1, <4>2
      <4>4. u \in D(k) /\ u \in D(k + 1)
        BY <4>3
      <4>5. h[u] = g[u]
        <5>1. h[u] = FoldBody(base, step, g, u)
          BY <4>4
        <5>2. g[u] = FoldBody(base, step, g, u)
          BY <4>4, <2>1
        <5> QED BY <5>1, <5>2
      <4> HIDE DEF h
      <4> QED BY <4>5, <3>2 DEF FoldBody
    <3> QED BY <3>1, <3>2
  <2>3. h = [s \in D(k + 1) |-> FoldBody(base, step, h, s)]
    <3> HIDE DEF D
    <3> QED BY <2>2
  <2> HIDE DEF h
  <2> QED BY <2>3
<1> HIDE DEF N
<1>3. Cardinality(P) \in N
  BY <1>1, <1>2, <1>f, NumberInduction
<1>4. D(Cardinality(P)) = SUBSET P
  BY <1>f
<1> HIDE DEF D
<1> QED BY <1>3, <1>4 DEF N, P

\* If every step stays in a set, so does the fold.
LEMMA FoldStays ==
    ASSUME NEW n \in Nat, NEW S, NEW f, f[{}] \in S,
           \A s \in SUBSET (1..n) :
               s # {} /\ Max(s) \in 1..n /\ f[s \ {Max(s)}] \in S => f[s] \in S
    PROVE  \A s \in SUBSET (1..n) : f[s] \in S /\ (s # {} => Max(s) \in 1..n)
<1> DEFINE N == {k \in Nat : \A s \in SUBSET (1..n) : Cardinality(s) = k => f[s] \in S}
<1>f. \A s \in SUBSET (1..n) : IsFiniteSet(s) /\ Cardinality(s) \in Nat
  <2>1. IsFiniteSet(1..n)
    BY FS_Interval
  <2> QED BY <2>1, FS_Subset, FS_CardinalityType
<1>1. 0 \in N
  <2>1. \A s \in SUBSET (1..n) : Cardinality(s) = 0 => s = {}
    BY <1>f, FS_EmptySet
  <2> QED BY <2>1
<1>m. ASSUME NEW s \in SUBSET (1..n), s # {}
      PROVE  Max(s) \in s /\ Max(s) \in 1..n
  <2>1. s \in SUBSET Nat /\ \A m \in s : m <= n
    OBVIOUS
  <2> QED BY <2>1, <1>m, LargestNumber
<1>2. ASSUME NEW k \in Nat, k \in N
      PROVE  k + 1 \in N
  <2>1. ASSUME NEW s \in SUBSET (1..n), Cardinality(s) = k + 1
        PROVE  f[s] \in S
    <3>1. s # {}
      <4>1. Cardinality({}) = 0
        BY FS_EmptySet
      <4>2. Cardinality(s) # 0
        BY <2>1
      <4> QED BY <4>1, <4>2
    <3>2. Cardinality(s \ {Max(s)}) = k
      <4>1. Cardinality(s \ {Max(s)}) = Cardinality(s) - 1
        BY <1>f, <1>m, <3>1, FS_RemoveElement
      <4> QED BY <4>1, <2>1
    <3>3. f[s \ {Max(s)}] \in S
      BY <1>2, <3>2
    <3> QED BY <1>m, <3>1, <3>3
  <2>2. k + 1 \in Nat
    OBVIOUS
  <2> QED BY <2>1, <2>2
<1> HIDE DEF N
<1>3. \A k \in Nat : k \in N
  BY <1>1, <1>2, NumberInduction
<1> QED BY <1>3, <1>f, <1>m DEF N

-----------------------------------------------------------------------------
(* Recursive functions.                                                      *)

\* The equation of a function on 0..n each value of which is made of the one
\* before.
StepBody(base, step, f, k) == IF k = 0 THEN base ELSE step[<<k, f[k - 1]>>]

LEMMA StepsExist ==
    ASSUME NEW n \in Nat, NEW base, NEW step
    PROVE  \E f : f = [k \in 0..n |-> StepBody(base, step, f, k)]
<1> DEFINE N == {m \in Nat : \E f : f = [k \in 0..m |-> StepBody(base, step, f, k)]}
<1>1. 0 \in N
  <2> DEFINE f == [k \in 0..0 |-> base]
  <2>1. f = [k \in 0..0 |-> StepBody(base, step, f, k)]
    BY DEF StepBody
  <2> QED BY <2>1
<1>2. ASSUME NEW m \in Nat, m \in N
      PROVE  m + 1 \in N
  <2>1. PICK f : f = [k \in 0..m |-> StepBody(base, step, f, k)]
    BY <1>2
  <2> DEFINE g == [k \in 0..m + 1 |-> StepBody(base, step, f, k)]
  <2>2. ASSUME NEW k \in 0..m + 1
        PROVE  StepBody(base, step, f, k) = StepBody(base, step, g, k)
    <3>1. CASE k = 0
      BY <3>1 DEF StepBody
    <3>2. CASE k # 0
      <4>1. k - 1 \in 0..m /\ k - 1 \in 0..m + 1
        BY <3>2
      <4>2. f[k - 1] = StepBody(base, step, f, k - 1)
        BY <4>1, <2>1
      <4>3. g[k - 1] = StepBody(base, step, f, k - 1)
        BY <4>1
      <4> HIDE DEF g
      <4> QED BY <4>2, <4>3 DEF StepBody
    <3> QED BY <3>1, <3>2
  <2>3. g = [k \in 0..m + 1 |-> StepBody(base, step, g, k)]
    BY <2>2
  <2> HIDE DEF g
  <2> QED BY <2>3
<1> HIDE DEF N
<1>3. n \in N
  BY <1>1, <1>2, NumberInduction
<1> QED BY <1>3 DEF N


-----------------------------------------------------------------------------
(* Sequences and their elements.                                             *)

LEMMA RangeOf ==
    ASSUME NEW X, NEW s \in Seq(X)
    PROVE  /\ Range(s) = {s[i] : i \in 1..Len(s)} /\ Range(s) \subseteq X
           /\ s \in Seq(Range(s))
           /\ \A T : Range(s) \subseteq T => s \in Seq(T)
<1>1. Range(s) = {s[i] : i \in 1..Len(s)} /\ Range(s) \subseteq X
  BY DEF Range
<1>2. ASSUME NEW T, Range(s) \subseteq T
      PROVE  s \in Seq(T)
  <2>1. \A i \in 1..Len(s) : s[i] \in T
    BY <1>1, <1>2
  <2> QED BY <2>1, SeqDef
<1> QED BY <1>1, <1>2

LEMMA SeqLarger ==
    ASSUME NEW X, NEW Y, X \subseteq Y, NEW s \in Seq(X)
    PROVE  s \in Seq(Y)
<1>1. Range(s) \subseteq Y
  BY RangeOf
<1> QED BY <1>1, RangeOf

LEMMA RangeAppend ==
    ASSUME NEW X, NEW s \in Seq(X), NEW x \in X
    PROVE  Append(s, x) \in Seq(X) /\ Range(Append(s, x)) = Range(s) \cup {x}
<1> DEFINE u == Append(s, x)
<1>1. /\ u \in Seq(X) /\ Len(u) = Len(s) + 1 /\ Len(s) \in Nat
      /\ \A i \in 1..Len(s) : u[i] = s[i]
      /\ u[Len(s) + 1] = x
  OBVIOUS
<1> HIDE DEF u
<1>2. Range(s) = {s[i] : i \in 1..Len(s)} /\ Range(u) = {u[i] : i \in 1..Len(u)}
  BY <1>1, RangeOf
<1>3. \A i \in 1..Len(u) : i \in 1..Len(s) \/ i = Len(s) + 1
  BY <1>1
<1>4. \A i \in 1..Len(s) : i \in 1..Len(u)
  BY <1>1
<1>5. Len(s) + 1 \in 1..Len(u)
  BY <1>1
<1>6. Range(u) = Range(s) \cup {x}
  BY <1>1, <1>2, <1>3, <1>4, <1>5
<1> QED BY <1>1, <1>6 DEF u

LEMMA RangeConcat ==
    ASSUME NEW X, NEW s \in Seq(X), NEW v \in Seq(X)
    PROVE  s \o v \in Seq(X) /\ Range(s \o v) = Range(s) \cup Range(v)
<1> DEFINE u == s \o v
<1>1. /\ u \in Seq(X) /\ Len(u) = Len(s) + Len(v) /\ Len(s) \in Nat /\ Len(v) \in Nat
      /\ \A i \in 1..Len(s) : u[i] = s[i]
      /\ \A i \in 1..Len(v) : u[Len(s) + i] = v[i]
  OBVIOUS
<1>a. \A i \in 1..Len(u) : i \in 1..Len(s) \/ (i - Len(s) \in 1..Len(v) /\ Len(s) + (i - Len(s)) = i)
  BY <1>1
<1>b. /\ \A i \in 1..Len(s) : i \in 1..Len(u)
      /\ \A i \in 1..Len(v) : Len(s) + i \in 1..Len(u)
  BY <1>1
<1> HIDE DEF u
<1>2. /\ Range(s) = {s[i] : i \in 1..Len(s)} /\ Range(v) = {v[i] : i \in 1..Len(v)}
      /\ Range(u) = {u[i] : i \in 1..Len(u)}
  BY <1>1, RangeOf
<1>3. \A i \in 1..Len(u) : u[i] \in Range(s) \cup Range(v)
  <2>1. ASSUME NEW i \in 1..Len(u)
        PROVE  u[i] \in Range(s) \cup Range(v)
    <3>1. CASE i \in 1..Len(s)
      BY <3>1, <1>1, <1>2
    <3>2. CASE i \notin 1..Len(s)
      <4>1. i - Len(s) \in 1..Len(v) /\ Len(s) + (i - Len(s)) = i
        BY <3>2, <1>a
      <4>2. u[i] = v[i - Len(s)]
        BY <4>1, <1>1
      <4> QED BY <4>1, <4>2, <1>2
    <3> QED BY <3>1, <3>2
  <2> QED BY <2>1
<1>4. Range(u) = Range(s) \cup Range(v)
  BY <1>1, <1>2, <1>3, <1>b
<1> QED BY <1>1, <1>4 DEF u

LEMMA RangeTail ==
    ASSUME NEW X, NEW s \in Seq(X), s # <<>>
    PROVE  /\ Tail(s) \in Seq(X) /\ Head(s) \in X /\ Len(Tail(s)) = Len(s) - 1
           /\ Range(s) = {Head(s)} \cup Range(Tail(s))
           /\ IsInjective(s) => IsInjective(Tail(s)) /\ Head(s) \notin Range(Tail(s))
<1>1. Tail(s) \in Seq(X) /\ Head(s) \in X /\ Len(Tail(s)) = Len(s) - 1 /\ Len(s) \in Nat \ {0}
  OBVIOUS
<1>2. \A i \in 1..Len(Tail(s)) : Tail(s)[i] = s[i + 1] /\ i + 1 \in 1..Len(s)
  OBVIOUS
<1>3. Head(s) = s[1] /\ 1 \in 1..Len(s)
  BY <1>1
<1>r. /\ Range(s) = {s[i] : i \in 1..Len(s)}
      /\ Range(Tail(s)) = {Tail(s)[i] : i \in 1..Len(Tail(s))}
  BY <1>1, RangeOf
<1>4. Range(s) \subseteq {Head(s)} \cup Range(Tail(s))
  <2>1. ASSUME NEW i \in 1..Len(s), i # 1
        PROVE  s[i] \in Range(Tail(s))
    <3>1. i - 1 \in 1..Len(Tail(s)) /\ (i - 1) + 1 = i
      BY <1>1, <2>1
    <3>2. Tail(s)[i - 1] = s[i]
      BY <1>2, <3>1
    <3> QED BY <3>1, <3>2, <1>r
  <2> QED BY <2>1, <1>3, <1>r
<1>5. {Head(s)} \cup Range(Tail(s)) \subseteq Range(s)
  BY <1>2, <1>3, <1>r
<1>6. ASSUME IsInjective(s)
      PROVE  IsInjective(Tail(s)) /\ Head(s) \notin Range(Tail(s))
  <2>1. DOMAIN s = 1..Len(s) /\ DOMAIN Tail(s) = 1..Len(Tail(s))
    BY <1>1
  <2>2. \A i, j \in 1..Len(s) : s[i] = s[j] => i = j
    BY <1>6, <2>1 DEF IsInjective
  <2>3. IsInjective(Tail(s))
    BY <1>2, <2>1, <2>2 DEF IsInjective
  <2>4. \A i \in 1..Len(Tail(s)) : Tail(s)[i] # Head(s)
    BY <1>2, <1>3, <2>2
  <2> QED BY <2>3, <2>4, <1>r
<1> QED BY <1>1, <1>4, <1>5, <1>6

LEMMA InjectiveAppend ==
    ASSUME NEW X, NEW s \in Seq(X), NEW x \in X, IsInjective(s), x \notin Range(s)
    PROVE  IsInjective(Append(s, x))
<1>1. Append(s, x) \in Seq(X) /\ Len(Append(s, x)) = Len(s) + 1
  OBVIOUS
<1>2. \A i \in 1..Len(s) : Append(s, x)[i] = s[i] /\ s[i] # x
  <2>1. Range(s) = {s[i] : i \in 1..Len(s)}
    BY RangeOf
  <2> QED BY <2>1
<1>3. Append(s, x)[Len(s) + 1] = x
  OBVIOUS
<1>4. \A i, j \in 1..Len(s) : s[i] = s[j] => i = j
  BY DEF IsInjective
<1>5. \A i \in DOMAIN Append(s, x) : i \in 1..Len(s) \/ i = Len(s) + 1
  BY <1>1
<1> QED BY <1>2, <1>3, <1>4, <1>5 DEF IsInjective

LEMMA InjectiveFirst ==
    ASSUME NEW X, NEW s \in Seq(X), NEW x \in X, IsInjective(s), x \notin Range(s)
    PROVE  /\ <<x>> \o s \in Seq(X) /\ Range(<<x>> \o s) = {x} \cup Range(s)
           /\ IsInjective(<<x>> \o s)
<1> DEFINE u == <<x>> \o s
<1>1. u \in Seq(X) /\ Len(u) = Len(s) + 1
  OBVIOUS
<1>2. <<x>> \in Seq(X) /\ Range(<<x>>) = {x}
  <2>1. <<x>> \in Seq(X) /\ Len(<<x>>) = 1 /\ <<x>>[1] = x
    OBVIOUS
  <2>2. Range(<<x>>) = {<<x>>[i] : i \in 1..1}
    BY <2>1, RangeOf
  <2> QED BY <2>1, <2>2
<1>3. Range(u) = {x} \cup Range(s)
  <2>1. Range(<<x>> \o s) = Range(<<x>>) \cup Range(s)
    BY <1>2, RangeConcat
  <2> QED BY <1>2, <2>1
<1>4. \A i \in 1..Len(u) : (i = 1 /\ u[i] = x) \/ (i - 1 \in 1..Len(s) /\ u[i] = s[i - 1])
  OBVIOUS
<1>5. \A i \in 1..Len(s) : s[i] # x
  <2>1. Range(s) = {s[i] : i \in 1..Len(s)}
    BY RangeOf
  <2> QED BY <2>1
<1>6. \A i, j \in 1..Len(s) : s[i] = s[j] => i = j
  BY DEF IsInjective
<1>7. DOMAIN u = 1..Len(u) /\ Len(u) \in Nat /\ Len(s) \in Nat
  BY <1>1
<1> HIDE DEF u
<1>8. ASSUME NEW i \in 1..Len(u), NEW j \in 1..Len(u), u[i] = u[j]
      PROVE  i = j
  <2>1. CASE i = 1
    BY <2>1, <1>4, <1>5, <1>8
  <2>2. CASE i # 1 /\ j = 1
    BY <2>2, <1>4, <1>5, <1>8
  <2>3. CASE i # 1 /\ j # 1
    <3>1. i - 1 \in 1..Len(s) /\ u[i] = s[i - 1] /\ j - 1 \in 1..Len(s) /\ u[j] = s[j - 1]
      BY <2>3, <1>4
    <3>2. i - 1 = j - 1
      BY <3>1, <1>6, <1>8
    <3> QED BY <3>2
  <2> QED BY <2>1, <2>2, <2>3
<1> QED BY <1>1, <1>3, <1>7, <1>8 DEF IsInjective, u

-----------------------------------------------------------------------------
(* The elements of a sequence that are in a set.                             *)

KeptBody(f, s, S, n) == IF n = 0 THEN <<>> ELSE IF s[n] \in S THEN Append(f[n - 1], s[n]) ELSE f[n - 1]

KeptOf(s, S) == CHOOSE f : f = [n \in 0..Len(s) |-> KeptBody(f, s, S, n)]

LEMMA ThoseIsKept == \A s, S : Those(s, S) = KeptOf(s, S)[Len(s)]
BY DEF Those, KeptOf, KeptBody

LEMMA KeptExists ==
    ASSUME NEW X, NEW s \in Seq(X), NEW S
    PROVE  KeptOf(s, S) = [n \in 0..Len(s) |-> KeptBody(KeptOf(s, S), s, S, n)]
<1> DEFINE n == Len(s)
           step == [kx \in (1..n) \X Seq(X) |->
                       IF s[kx[1]] \in S THEN Append(kx[2], s[kx[1]]) ELSE kx[2]]
<1>1. n \in Nat /\ \A k \in 1..n : s[k] \in X
  OBVIOUS
<1>2. PICK f : f = [k \in 0..n |-> StepBody(<<>>, step, f, k)]
  BY <1>1, StepsExist
<1> DEFINE N == {k \in Nat : k <= n => f[k] \in Seq(X)}
<1>s. ASSUME NEW k \in 1..n, NEW x \in Seq(X)
      PROVE  /\ step[<<k, x>>] = IF s[k] \in S THEN Append(x, s[k]) ELSE x
             /\ step[<<k, x>>] \in Seq(X)
  <2>1. <<k, x>> \in (1..n) \X Seq(X)
    OBVIOUS
  <2>2. step[<<k, x>>] = IF s[k] \in S THEN Append(x, s[k]) ELSE x
    BY <2>1
  <2>3. Append(x, s[k]) \in Seq(X)
    BY <1>1
  <2> HIDE DEF step
  <2> QED BY <2>2, <2>3
<1>e. <<>> \in Seq(X)
  OBVIOUS
<1> HIDE DEF step, n
<1>b. \A k \in 0..n : f[k] = StepBody(<<>>, step, f, k)
  BY <1>2
<1>3. 0 \in N
  <2>1. 0 \in 0..n
    BY <1>1
  <2>2. f[0] = StepBody(<<>>, step, f, 0)
    BY <2>1, <1>b
  <2>3. f[0] = <<>>
    BY <2>2 DEF StepBody
  <2> QED BY <2>3, <1>e
<1>4. ASSUME NEW k \in Nat, k \in N
      PROVE  k + 1 \in N
  <2>1. ASSUME k + 1 <= n
        PROVE  f[k + 1] \in Seq(X)
    <3>1. k + 1 \in 1..n /\ k + 1 \in 0..n /\ k <= n /\ (k + 1) - 1 = k /\ k + 1 # 0
      BY <1>1, <2>1
    <3>2. f[k] \in Seq(X)
      BY <1>4, <3>1
    <3>3. f[k + 1] = step[<<k + 1, f[k]>>]
      BY <3>1, <1>b DEF StepBody
    <3> QED BY <3>1, <3>2, <3>3, <1>s
  <2> QED BY <2>1
<1> HIDE DEF N
<1>5. \A k \in Nat : k \in N
  BY <1>3, <1>4, NumberInduction
<1>6. ASSUME NEW k \in 0..n
      PROVE  StepBody(<<>>, step, f, k) = KeptBody(f, s, S, k)
  <2>1. CASE k = 0
    BY <2>1 DEF StepBody, KeptBody
  <2>2. CASE k # 0
    <3>1. k \in 1..n /\ k - 1 \in Nat /\ k - 1 <= n
      BY <2>2, <1>1
    <3>2. f[k - 1] \in Seq(X)
      BY <3>1, <1>5 DEF N
    <3> QED BY <2>2, <3>1, <3>2, <1>s DEF StepBody, KeptBody
  <2> QED BY <2>1, <2>2
<1>7. f = [k \in 0..n |-> KeptBody(f, s, S, k)]
  BY <1>2, <1>6
<1> QED BY <1>7 DEF KeptOf, n
LEMMA ThoseFacts ==
    ASSUME NEW X, NEW s \in Seq(X), NEW S
    PROVE  /\ Those(s, S) \in Seq(X \cap S) /\ Range(Those(s, S)) = Range(s) \cap S
           /\ IsInjective(s) => IsInjective(Those(s, S))
<1> DEFINE n == Len(s)
           f == KeptOf(s, S)
           upTo(k) == {s[i] : i \in 1..k}
           N == {k \in Nat : k <= n =>
                    /\ f[k] \in Seq(X \cap S) /\ Range(f[k]) = upTo(k) \cap S
                    /\ IsInjective(s) => IsInjective(f[k])}
<1>1. n \in Nat /\ \A k \in 1..n : s[k] \in X
  OBVIOUS
<1>2. \A k \in 0..n : f[k] = KeptBody(f, s, S, k)
  <2>1. f = [k \in 0..n |-> KeptBody(f, s, S, k)]
    BY KeptExists
  <2> QED BY <2>1
<1>i. IsInjective(s) => \A i, j \in 1..n : s[i] = s[j] => i = j
  BY DEF IsInjective
<1> HIDE DEF f, n
<1>3. 0 \in N
  <2>1. 0 \in 0..n /\ 1..0 = {}
    BY <1>1
  <2>2. f[0] = <<>>
    BY <2>1, <1>2 DEF KeptBody
  <2>3. <<>> \in Seq(X \cap S) /\ Range(<<>>) = {} /\ IsInjective(<<>>)
    BY DEF Range, IsInjective
  <2>4. upTo(0) = {}
    BY <2>1
  <2> QED BY <2>2, <2>3, <2>4
<1>4. ASSUME NEW k \in Nat, k \in N
      PROVE  k + 1 \in N
  <2> SUFFICES ASSUME k + 1 <= n
               PROVE  /\ f[k + 1] \in Seq(X \cap S) /\ Range(f[k + 1]) = upTo(k + 1) \cap S
                      /\ IsInjective(s) => IsInjective(f[k + 1])
    OBVIOUS
  <2>1. k + 1 \in 1..n /\ k + 1 \in 0..n /\ (k + 1) - 1 = k /\ k + 1 # 0 /\ k <= n
    BY <1>1
  <2>2. /\ f[k] \in Seq(X \cap S) /\ Range(f[k]) = upTo(k) \cap S
        /\ IsInjective(s) => IsInjective(f[k])
    BY <1>4, <2>1
  <2>3. f[k + 1] = IF s[k + 1] \in S THEN Append(f[k], s[k + 1]) ELSE f[k]
    BY <2>1, <1>2 DEF KeptBody
  <2>4. upTo(k + 1) = upTo(k) \cup {s[k + 1]}
    <3>1. 1..k + 1 = (1..k) \cup {k + 1}
      OBVIOUS
    <3> QED BY <3>1
  <2>5. CASE s[k + 1] \notin S
    <3> HIDE DEF upTo
    <3> QED BY <2>2, <2>3, <2>4, <2>5
  <2>6. CASE s[k + 1] \in S
    <3>1. s[k + 1] \in X \cap S
      BY <1>1, <2>1, <2>6
    <3>2. /\ Append(f[k], s[k + 1]) \in Seq(X \cap S)
          /\ Range(Append(f[k], s[k + 1])) = Range(f[k]) \cup {s[k + 1]}
      BY <3>1, <2>2, RangeAppend
    <3>3. ASSUME IsInjective(s)
          PROVE  IsInjective(Append(f[k], s[k + 1]))
      <4>1. s[k + 1] \notin upTo(k)
        <5>1. \A i \in 1..k : i \in 1..n /\ i # k + 1
          BY <2>1, <1>1
        <5> QED BY <5>1, <3>3, <1>i, <2>1
      <4> HIDE DEF upTo
      <4>2. s[k + 1] \notin Range(f[k])
        BY <4>1, <2>2
      <4> QED BY <4>2, <3>1, <3>3, <2>2, InjectiveAppend
    <3> HIDE DEF upTo
    <3> QED BY <2>2, <2>3, <2>4, <2>6, <3>2, <3>3
  <2> QED BY <2>5, <2>6
<1> HIDE DEF N
<1>5. \A k \in Nat : k \in N
  BY <1>3, <1>4, NumberInduction
<1>6. /\ f[n] \in Seq(X \cap S) /\ Range(f[n]) = upTo(n) \cap S
      /\ IsInjective(s) => IsInjective(f[n])
  <2>1. n \in N /\ n <= n
    BY <1>1, <1>5
  <2> HIDE DEF upTo
  <2> QED BY <2>1 DEF N
<1>7. upTo(n) = Range(s)
  BY RangeOf DEF n
<1> QED BY <1>6, <1>7, ThoseIsKept DEF f, n

-----------------------------------------------------------------------------
(* How many players a pool has.                                              *)

GroupRec == [players : (SUBSET Player) \ {{}}, inst : 0..MaxInstances, stamp : Nat]

LEMMA SizeOf == ASSUME NEW g \in GroupRec PROVE Size(g) \in Nat /\ Size(g) <= Cardinality(Player)
<1>1. g.players \subseteq Player
  BY DEF GroupRec
<1> QED BY <1>1, PlayersAssumption, FS_Subset, FS_CardinalityType DEF Size

CountBody(f, pool, s) == IF s = {} THEN 0 ELSE f[s \ {Max(s)}] + Size(pool[Max(s)])
CountFold(pool) == CHOOSE f : f = [s \in SUBSET DOMAIN pool |-> CountBody(f, pool, s)]

LEMMA CountIsFold == \A pool : PlayerCount(pool) = CountFold(pool)[DOMAIN pool]
BY DEF PlayerCount, FoldLeft, MapThenFoldSet, CountFold, CountBody

\* What the groups of a pool add up to, one after the other.
Counts(u, pool) ==
    /\ u \in [0..Len(pool) -> Nat] /\ u[0] = 0
    /\ \A k \in 1..Len(pool) : u[k] = u[k - 1] + Size(pool[k])

LEMMA CountExists ==
    ASSUME NEW pool \in Seq(GroupRec)
    PROVE  \E u : Counts(u, pool) /\ u[Len(pool)] = PlayerCount(pool)
<1> DEFINE n == Len(pool)
           step == [kx \in (1..n) \X Nat |-> kx[2] + Size(pool[kx[1]])]
           c == CountFold(pool)
<1>1. n \in Nat /\ DOMAIN pool = 1..n /\ \A k \in 1..n : pool[k] \in GroupRec
  OBVIOUS
<1>2. \A k \in 1..n : Size(pool[k]) \in Nat
  BY <1>1, SizeOf
<1>3. \A k \in 1..n, x \in Nat : step[<<k, x>>] = x + Size(pool[k]) /\ x + Size(pool[k]) \in Nat
  BY <1>2
<1> HIDE DEF step
<1>4. PICK f : f = [s \in SUBSET (1..n) |-> FoldBody(0, step, f, s)]
  BY <1>1, FoldExists
<1>5. \A s \in SUBSET (1..n) : f[s] \in Nat /\ (s # {} => Max(s) \in 1..n)
  <2>1. f[{}] \in Nat
    BY <1>4 DEF FoldBody
  <2>2. ASSUME NEW s \in SUBSET (1..n), s # {}, Max(s) \in 1..n, f[s \ {Max(s)}] \in Nat
        PROVE  f[s] \in Nat
    <3>1. f[s] = step[<<Max(s), f[s \ {Max(s)}]>>]
      BY <1>4, <2>2 DEF FoldBody
    <3> QED BY <3>1, <1>3, <2>2
  <2> HIDE DEF n
  <2> QED BY <1>1, <2>1, <2>2, FoldStays
<1>6. f = [s \in SUBSET (1..n) |-> CountBody(f, pool, s)]
  <2>1. ASSUME NEW s \in SUBSET (1..n)
        PROVE  FoldBody(0, step, f, s) = CountBody(f, pool, s)
    <3>1. f[s \ {Max(s)}] \in Nat
      BY <1>5
    <3> QED BY <1>3, <1>5, <3>1 DEF FoldBody, CountBody
  <2> QED BY <1>4, <2>1
<1>7. c = [s \in SUBSET (1..n) |-> CountBody(c, pool, s)]
  <2>1. f = [s \in SUBSET DOMAIN pool |-> CountBody(f, pool, s)]
    BY <1>1, <1>6
  <2>2. c = [s \in SUBSET DOMAIN pool |-> CountBody(c, pool, s)]
    BY <2>1 DEF CountFold
  <2> HIDE DEF c
  <2> QED BY <1>1, <2>2
<1>8. PlayerCount(pool) = c[1..n]
  BY <1>1, CountIsFold
<1> HIDE DEF c, n
<1>9. \A s \in SUBSET (1..n) : c[s] \in Nat
  <2>1. c[{}] \in Nat
    BY <1>7 DEF CountBody
  <2>2. ASSUME NEW s \in SUBSET (1..n), s # {}, Max(s) \in 1..n, c[s \ {Max(s)}] \in Nat
        PROVE  c[s] \in Nat
    <3>1. c[s] = c[s \ {Max(s)}] + Size(pool[Max(s)])
      BY <1>7, <2>2 DEF CountBody
    <3> QED BY <3>1, <1>2, <2>2
  <2> QED BY <1>1, <2>1, <2>2, FoldStays
<1> DEFINE u == [k \in 0..n |-> c[1..k]]
<1>10. u \in [0..n -> Nat]
  <2>1. \A k \in 0..n : 1..k \in SUBSET (1..n)
    BY <1>1
  <2> QED BY <2>1, <1>9
<1>11. u[0] = 0
  <2>1. 1..0 = {} /\ 0 \in 0..n
    BY <1>1
  <2>2. c[{}] = 0
    BY <1>7 DEF CountBody
  <2> QED BY <2>1, <2>2
<1>12. ASSUME NEW k \in 1..n
       PROVE  u[k] = u[k - 1] + Size(pool[k])
  <2>1. k - 1 \in Nat /\ k - 1 \in 0..n /\ k \in 0..n /\ (k - 1) + 1 = k
    BY <1>1
  <2>2. Max(1..k) = k /\ (1..k) \ {k} = 1..k - 1
    BY <2>1, LastNumber
  <2>3. 1..k \in SUBSET (1..n) /\ 1..k # {}
    BY <1>1
  <2>4. c[1..k] = c[(1..k) \ {Max(1..k)}] + Size(pool[Max(1..k)])
    BY <2>3, <1>7 DEF CountBody
  <2> QED BY <2>1, <2>2, <2>4
<1>13. u[n] = c[1..n]
  BY <1>1
<1> HIDE DEF u
<1>14. Counts(u, pool)
  BY <1>10, <1>11, <1>12 DEF Counts, n
<1> QED BY <1>8, <1>13, <1>14 DEF n

LEMMA CountIs ==
    ASSUME NEW pool \in Seq(GroupRec), NEW v, Counts(v, pool)
    PROVE  PlayerCount(pool) = v[Len(pool)] /\ PlayerCount(pool) \in Nat
<1> DEFINE n == Len(pool)
<1>1. n \in Nat
  OBVIOUS
<1>2. PICK u : Counts(u, pool) /\ u[n] = PlayerCount(pool)
  BY CountExists
<1> HIDE DEF n
<1> DEFINE N == {k \in Nat : k <= n => u[k] = v[k]}
<1>3. 0 \in N
  BY <1>2 DEF Counts
<1>4. ASSUME NEW k \in Nat, k \in N
      PROVE  k + 1 \in N
  <2> SUFFICES ASSUME k + 1 <= n PROVE u[k + 1] = v[k + 1]
    OBVIOUS
  <2>1. k + 1 \in 1..n /\ k <= n /\ (k + 1) - 1 = k
    BY <1>1
  <2>2. u[k + 1] = u[(k + 1) - 1] + Size(pool[k + 1]) /\ v[k + 1] = v[(k + 1) - 1] + Size(pool[k + 1])
    BY <2>1, <1>2 DEF Counts, n
  <2> QED BY <2>1, <2>2, <1>4
<1> HIDE DEF N
<1>5. n \in N
  BY <1>1, <1>3, <1>4, NumberInduction
<1>6. u[n] = v[n]
  BY <1>1, <1>5 DEF N
<1>7. u[n] \in Nat
  BY <1>1, <1>2 DEF Counts, n
<1> QED BY <1>2, <1>6, <1>7 DEF n

LEMMA CountNone == PlayerCount(<<>>) = 0
<1> DEFINE u == [k \in 0..0 |-> 0]
           e == <<>>
<1>1. e \in Seq(GroupRec) /\ Len(e) = 0
  OBVIOUS
<1>2. u \in [0..0 -> Nat] /\ u[0] = 0 /\ 1..0 = {}
  OBVIOUS
<1> HIDE DEF u, e
<1>3. Counts(u, e)
  BY <1>1, <1>2 DEF Counts
<1> QED BY <1>1, <1>2, <1>3, CountIs DEF e

LEMMA CountNat ==
    ASSUME NEW pool \in Seq(GroupRec)
    PROVE  PlayerCount(pool) \in Nat
BY CountExists, CountIs

LEMMA CountAppended ==
    ASSUME NEW pool \in Seq(GroupRec), NEW g \in GroupRec
    PROVE  PlayerCount(Append(pool, g)) = PlayerCount(pool) + Size(g)
<1> DEFINE n == Len(pool)
           longer == Append(pool, g)
<1>1. n \in Nat /\ longer \in Seq(GroupRec) /\ Len(longer) = n + 1 /\ longer[n + 1] = g
      /\ \A k \in 1..n : longer[k] = pool[k]
  OBVIOUS
<1> HIDE DEF longer
<1>2. PICK u : Counts(u, longer) /\ u[Len(longer)] = PlayerCount(longer)
  BY <1>1, CountExists
<1> DEFINE v == [k \in 0..n |-> u[k]]
<1>3. u \in [0..n + 1 -> Nat] /\ u[0] = 0 /\ \A k \in 1..n + 1 : u[k] = u[k - 1] + Size(longer[k])
  BY <1>1, <1>2 DEF Counts
<1>4. v \in [0..n -> Nat] /\ v[0] = 0
  BY <1>1, <1>3
<1>5. \A k \in 1..n : v[k] = v[k - 1] + Size(pool[k])
  <2>1. ASSUME NEW k \in 1..n
        PROVE  v[k] = v[k - 1] + Size(pool[k])
    <3>1. k \in 0..n /\ k - 1 \in 0..n /\ k \in 1..n + 1
      BY <1>1
    <3>2. v[k] = u[k] /\ v[k - 1] = u[k - 1]
      BY <3>1
    <3> QED BY <3>1, <3>2, <1>1, <1>3
  <2> QED BY <2>1
<1>6. v[n] = u[n]
  BY <1>1
<1> HIDE DEF v
<1>7. PlayerCount(pool) = v[n]
  BY <1>4, <1>5, CountIs DEF Counts, n
<1>8. n + 1 \in 1..n + 1 /\ (n + 1) - 1 = n
  BY <1>1
<1>9. u[n + 1] = u[n] + Size(g)
  BY <1>1, <1>3, <1>8
<1> QED BY <1>1, <1>2, <1>6, <1>7, <1>9 DEF longer

\* A pool without one of its groups.
LEMMA CountRemoved ==
    ASSUME NEW pool \in Seq(GroupRec), NEW i \in 1..Len(pool), NEW r \in Seq(GroupRec),
           Len(r) = Len(pool) - 1,
           \A k \in 1..Len(r) : r[k] = IF k < i THEN pool[k] ELSE pool[k + 1]
    PROVE  PlayerCount(r) <= PlayerCount(pool)
<1> DEFINE n == Len(r)
<1>1. n \in Nat /\ Len(pool) = n + 1 /\ i \in 1..n + 1
  OBVIOUS
<1>2. PICK u : Counts(u, pool) /\ u[Len(pool)] = PlayerCount(pool)
  BY CountExists
<1>3. PICK v : Counts(v, r) /\ v[n] = PlayerCount(r)
  BY CountExists
<1>4. u \in [0..n + 1 -> Nat] /\ u[0] = 0 /\ \A k \in 1..n + 1 : u[k] = u[k - 1] + Size(pool[k])
  BY <1>1, <1>2 DEF Counts
<1>5. v \in [0..n -> Nat] /\ v[0] = 0
      /\ \A k \in 1..n : v[k] = v[k - 1] + Size(IF k < i THEN pool[k] ELSE pool[k + 1])
  BY <1>3 DEF Counts
<1>6. \A k \in 1..n + 1 : Size(pool[k]) \in Nat
  <2>1. \A k \in 1..n + 1 : pool[k] \in GroupRec
    BY <1>1
  <2> HIDE DEF n
  <2> QED BY <2>1, SizeOf
<1> HIDE DEF n
<1> DEFINE N == {k \in Nat : k <= n => v[k] <= u[k + 1] /\ (k < i => v[k] = u[k])}
<1>7. 0 \in N
  <2>1. 1 \in 1..n + 1 /\ 0 \in 0..n + 1 /\ 1 - 1 = 0
    BY <1>1
  <2>2. u[1] = u[0] + Size(pool[1])
    BY <2>1, <1>4
  <2>3. v[0] <= u[0 + 1] /\ v[0] = u[0]
    BY <2>1, <2>2, <1>4, <1>5, <1>6
  <2> QED BY <2>3
<1>8. ASSUME NEW k \in Nat, k \in N
      PROVE  k + 1 \in N
  <2> SUFFICES ASSUME k + 1 <= n
               PROVE  v[k + 1] <= u[(k + 1) + 1] /\ (k + 1 < i => v[k + 1] = u[k + 1])
    OBVIOUS
  <2>1. /\ k + 1 \in 1..n /\ k + 1 \in 1..n + 1 /\ k \in 0..n /\ (k + 1) - 1 = k
        /\ (k + 1) + 1 \in 1..n + 1 /\ ((k + 1) + 1) - 1 = k + 1 /\ k + 1 \in 0..n + 1 /\ k \in 0..n + 1
    BY <1>1
  <2>2. v[k] <= u[k + 1] /\ (k < i => v[k] = u[k])
    BY <1>8, <2>1
  <2>3. /\ v[k + 1] = v[k] + Size(IF k + 1 < i THEN pool[k + 1] ELSE pool[(k + 1) + 1])
        /\ u[k + 1] = u[k] + Size(pool[k + 1])
        /\ u[(k + 1) + 1] = u[k + 1] + Size(pool[(k + 1) + 1])
    BY <2>1, <1>4, <1>5
  <2>4. v[k] \in Nat /\ u[k] \in Nat /\ u[k + 1] \in Nat /\ Size(pool[k + 1]) \in Nat
        /\ Size(pool[(k + 1) + 1]) \in Nat
    BY <2>1, <1>4, <1>5, <1>6
  <2>5. CASE k + 1 < i
    <3>1. k < i
      BY <1>1, <2>5
    <3> QED BY <2>2, <2>3, <2>4, <2>5, <3>1
  <2>6. CASE ~(k + 1 < i)
    BY <2>2, <2>3, <2>4, <2>6
  <2> QED BY <2>5, <2>6
<1> HIDE DEF N
<1>9. n \in N
  BY <1>1, <1>7, <1>8, NumberInduction
<1>10. v[n] <= u[n + 1]
  BY <1>1, <1>9 DEF N
<1> QED BY <1>1, <1>2, <1>3, <1>10

\* The players of a pool are as many at most.
LEMMA CountCovers ==
    ASSUME NEW pool \in Seq(GroupRec)
    PROVE  /\ IsFiniteSet(UNION {g.players : g \in Range(pool)})
           /\ Cardinality(UNION {g.players : g \in Range(pool)}) <= PlayerCount(pool)
<1> DEFINE n == Len(pool)
           U(k) == UNION {pool[i].players : i \in 1..k}
<1>1. n \in Nat /\ \A k \in 1..n : pool[k] \in GroupRec
  OBVIOUS
<1>2. PICK u : Counts(u, pool) /\ u[n] = PlayerCount(pool)
  BY CountExists
<1>3. Range(pool) = {pool[i] : i \in 1..n}
  BY RangeOf
<1>4. u \in [0..n -> Nat] /\ u[0] = 0 /\ \A k \in 1..n : u[k] = u[k - 1] + Size(pool[k])
  BY <1>2 DEF Counts
<1> HIDE DEF n
<1>5. \A k \in 1..n : IsFiniteSet(pool[k].players) /\ Cardinality(pool[k].players) \in Nat
                      /\ Cardinality(pool[k].players) = Size(pool[k])
  <2>1. \A k \in 1..n : pool[k].players \subseteq Player
    BY <1>1 DEF GroupRec
  <2> QED BY <2>1, PlayersAssumption, FS_Subset, FS_CardinalityType DEF Size
<1> DEFINE N == {k \in Nat : k <= n => IsFiniteSet(U(k)) /\ Cardinality(U(k)) <= u[k]}
<1>6. 0 \in N
  <2>1. U(0) = {}
    OBVIOUS
  <2>2. IsFiniteSet({}) /\ Cardinality({}) = 0
    BY FS_EmptySet
  <2> HIDE DEF U
  <2>3. IsFiniteSet(U(0)) /\ Cardinality(U(0)) <= u[0]
    <3> DEFINE v == u[0]
               W == U(0)
    <3>1. v = 0 /\ W = {}
      BY <2>1, <1>4
    <3> HIDE DEF v, W
    <3>2. IsFiniteSet(W) /\ Cardinality(W) <= v
      BY ONLY <3>1, <2>2
    <3> QED BY <3>2 DEF v, W
  <2> QED BY <2>3
<1>7. ASSUME NEW k \in Nat, k \in N
      PROVE  k + 1 \in N
  <2> SUFFICES ASSUME k + 1 <= n
               PROVE  IsFiniteSet(U(k + 1)) /\ Cardinality(U(k + 1)) <= u[k + 1]
    OBVIOUS
  <2>1. k + 1 \in 1..n /\ k \in 0..n /\ (k + 1) - 1 = k /\ k <= n
    BY <1>1
  <2>2. IsFiniteSet(U(k)) /\ Cardinality(U(k)) <= u[k]
    BY <1>7, <2>1
  <2>3. U(k + 1) = U(k) \cup pool[k + 1].players
    <3>1. 1..k + 1 = (1..k) \cup {k + 1}
      OBVIOUS
    <3> QED BY <3>1
  <2> HIDE DEF U
  <2> DEFINE A == U(k)
             B == pool[k + 1].players
  <2>4. IsFiniteSet(B) /\ Cardinality(B) \in Nat /\ Cardinality(B) = Size(pool[k + 1])
    BY <1>5, <2>1
  <2>5. IsFiniteSet(A) /\ Cardinality(A) \in Nat
    BY <2>2, FS_CardinalityType
  <2> HIDE DEF A, B
  <2>6. IsFiniteSet(A \cup B) /\ IsFiniteSet(A \cap B)
        /\ Cardinality(A \cup B) = Cardinality(A) + Cardinality(B) - Cardinality(A \cap B)
    BY <2>4, <2>5, FS_Union, FS_Intersection
  <2>7. Cardinality(A \cap B) \in Nat
    BY <2>6, FS_CardinalityType
  <2>8. u[k + 1] = u[k] + Size(pool[k + 1]) /\ u[k] \in Nat
    BY <2>1, <1>4
  <2>9. Cardinality(A \cup B) <= u[k + 1]
    <3>1. Cardinality(A) <= u[k]
      BY <2>2 DEF A
    <3> QED BY <3>1, <2>4, <2>5, <2>6, <2>7, <2>8
  <2> QED BY <2>3, <2>6, <2>9 DEF A, B
<1>8. UNION {g.players : g \in Range(pool)} = U(n)
  BY <1>3
<1> HIDE DEF N, U
<1>9. n \in N
  BY <1>1, <1>6, <1>7, NumberInduction
<1>10. IsFiniteSet(U(n)) /\ Cardinality(U(n)) <= u[n]
  BY <1>1, <1>9 DEF N
<1> QED BY <1>2, <1>8, <1>10

-----------------------------------------------------------------------------
(* Selections contain waiting groups of the queue only.                      *)

AddStep(s, g, desired) ==
    IF s.rest = <<>> /\ ~Full(s.pool, g, desired)
    THEN [s EXCEPT !.pool = AddGroup(@, g, desired)]
    ELSE [s EXCEPT !.rest = Append(@, g)]

AddFold(pool, groups, desired) ==
    CHOOSE f : f = [s \in SUBSET DOMAIN groups |->
                       IF s = {} THEN [pool |-> pool, rest |-> <<>>]
                       ELSE AddStep(f[s \ {Max(s)}], groups[Max(s)], desired)]

LEMMA AddGroupsIsFold ==
    \A pool, groups, desired : AddGroups(pool, groups, desired) = AddFold(pool, groups, desired)[DOMAIN groups]
BY DEF AddGroups, FoldLeft, MapThenFoldSet, AddFold, AddStep

\* What a selection is made of, if Q are the groups in the queue and there is
\* room for m players.
Ready(Q) == {g \in Q : Waits(g)}
Fitting(Q, m) == {pool \in Seq(Ready(Q)) : PlayerCount(pool) <= m}
Selections(Q, m) == [pool : Fitting(Q, m), rest : Seq(Q)]

LEMMA ReadyGroups ==
    ASSUME NEW Q, Q \subseteq GroupRec, NEW pool \in Seq(Ready(Q))
    PROVE  pool \in Seq(GroupRec) /\ PlayerCount(pool) \in Nat
<1>1. Ready(Q) \subseteq GroupRec
  BY DEF Ready
<1>2. pool \in Seq(GroupRec)
  BY <1>1, SeqLarger
<1> QED BY <1>2, CountNat

LEMMA GroupAdded ==
    ASSUME NEW Q, Q \subseteq GroupRec, NEW m \in Nat, NEW pool \in Fitting(Q, m), NEW g \in Q,
           NEW desired \in Nat, desired <= m
    PROVE  AddGroup(pool, g, desired) \in Fitting(Q, m)
<1>1. CASE Fits(pool, g, desired)
  <2>1. g \in Ready(Q) /\ g \in GroupRec /\ pool \in Seq(Ready(Q))
    BY <1>1 DEF Fits, Ready, Fitting
  <2>2. pool \in Seq(GroupRec) /\ PlayerCount(pool) \in Nat /\ Size(g) \in Nat
    BY <2>1, ReadyGroups, SizeOf
  <2>3. PlayerCount(Append(pool, g)) = PlayerCount(pool) + Size(g)
    BY <2>1, <2>2, CountAppended
  <2>4. PlayerCount(pool) + Size(g) <= m
    BY <1>1, <2>2 DEF Fits
  <2>5. Append(pool, g) \in Seq(Ready(Q))
    BY <2>1
  <2>6. AddGroup(pool, g, desired) = Append(pool, g)
    BY <1>1 DEF AddGroup
  <2> QED BY <2>3, <2>4, <2>5, <2>6 DEF Fitting
<1>2. CASE ~Fits(pool, g, desired)
  BY <1>2 DEF AddGroup
<1> QED BY <1>1, <1>2

LEMMA NobodyFits == ASSUME NEW Q, NEW m \in Nat PROVE <<>> \in Fitting(Q, m)
<1> DEFINE e == <<>>
<1>1. e \in Seq(Ready(Q))
  OBVIOUS
<1>2. PlayerCount(e) <= m
  BY CountNone
<1> HIDE DEF e
<1>3. e \in Fitting(Q, m)
  BY <1>1, <1>2 DEF Fitting
<1> QED BY <1>3 DEF e

LEMMA AddGroupsSelects ==
    ASSUME NEW Q, Q \subseteq GroupRec, NEW m \in Nat, NEW pool \in Fitting(Q, m), NEW groups \in Seq(Q),
           NEW desired \in Nat, desired <= m
    PROVE  AddGroups(pool, groups, desired) \in Selections(Q, m)
<1> DEFINE n == Len(groups)
           S == Selections(Q, m)
           base == [pool |-> pool, rest |-> <<>>]
           step == [kx \in (1..n) \X S |-> AddStep(kx[2], groups[kx[1]], desired)]
           body(f, s) == IF s = {} THEN base ELSE AddStep(f[s \ {Max(s)}], groups[Max(s)], desired)
<1>1. n \in Nat /\ DOMAIN groups = 1..n /\ \A k \in 1..n : groups[k] \in Q
  OBVIOUS
<1>2. base \in S
  BY DEF Selections
<1>3. ASSUME NEW x \in S, NEW g \in Q
      PROVE  AddStep(x, g, desired) \in S
  <2>1. x.pool \in Fitting(Q, m) /\ x.rest \in Seq(Q) /\ x = [pool |-> x.pool, rest |-> x.rest]
    BY DEF Selections
  <2>2. AddGroup(x.pool, g, desired) \in Fitting(Q, m)
    BY <2>1, GroupAdded
  <2>3. Append(x.rest, g) \in Seq(Q)
    BY <2>1
  <2> QED BY <2>1, <2>2, <2>3 DEF AddStep, Selections
<1>4. \A k \in 1..n, x \in S : step[<<k, x>>] = AddStep(x, groups[k], desired)
  OBVIOUS
<1>5. \A g : IF g = [s \in SUBSET (1..n) |-> body(g, s)]
             THEN AddFold(pool, groups, desired)
                      = [s \in SUBSET (1..n) |-> body(AddFold(pool, groups, desired), s)]
             ELSE TRUE
  BY <1>1 DEF AddFold
<1> HIDE DEF n, S, base, step
<1>n. n \in Nat
  BY <1>1
<1>6. PICK f : f = [s \in SUBSET (1..n) |-> FoldBody(base, step, f, s)]
  BY <1>n, FoldExists
<1>7. \A s \in SUBSET (1..n) : f[s] \in S /\ (s # {} => Max(s) \in 1..n)
  <2>1. f[{}] \in S
    BY <1>2, <1>6 DEF FoldBody
  <2>2. ASSUME NEW s \in SUBSET (1..n), s # {}, Max(s) \in 1..n, f[s \ {Max(s)}] \in S
        PROVE  f[s] \in S
    <3>1. f[s] = step[<<Max(s), f[s \ {Max(s)}]>>]
      BY <1>6, <2>2 DEF FoldBody
    <3> QED BY <3>1, <1>1, <1>3, <1>4, <2>2
  <2> HIDE DEF body
  <2> QED BY <1>n, <2>1, <2>2, FoldStays
<1>8. f = [s \in SUBSET (1..n) |-> body(f, s)]
  <2>1. ASSUME NEW s \in SUBSET (1..n)
        PROVE  FoldBody(base, step, f, s) = body(f, s)
    <3>1. f[s \ {Max(s)}] \in S
      BY <1>7
    <3> QED BY <1>4, <1>7, <3>1 DEF FoldBody
  <2> QED BY <1>6, <2>1
<1> DEFINE c == AddFold(pool, groups, desired)
<1>9. c = [s \in SUBSET (1..n) |-> body(c, s)]
  BY <1>5, <1>8
<1> HIDE DEF c
<1>10. c[{}] \in S
  BY <1>2, <1>9
<1>11. ASSUME NEW s \in SUBSET (1..n), s # {}, Max(s) \in 1..n, c[s \ {Max(s)}] \in S
       PROVE  c[s] \in S
  <2>1. c[s] = AddStep(c[s \ {Max(s)}], groups[Max(s)], desired)
    BY <1>9, <1>11
  <2> QED BY <2>1, <1>1, <1>3, <1>11
<1>12. c[1..n] \in S
  <2> HIDE DEF body
  <2> QED BY <1>n, <1>10, <1>11, FoldStays
<1> QED BY <1>1, <1>12, AddGroupsIsFold DEF c, S

FirstStep(s, g) ==
    IF PlayerCount(s.pool) >= MinPlayersPerTeam
    THEN [s EXCEPT !.rest = Append(@, g)]
    ELSE [s EXCEPT !.pool = AddGroup(@, g, MaxPlayersPerTeam)]

FirstFold(groups) ==
    CHOOSE f : f = [s \in SUBSET DOMAIN groups |->
                       IF s = {} THEN [pool |-> <<>>, rest |-> <<>>]
                       ELSE FirstStep(f[s \ {Max(s)}], groups[Max(s)])]

LEMMA FirstGroupsIsFold == \A groups : FirstGroups(groups) = FirstFold(groups)[DOMAIN groups]
BY DEF FirstGroups, FoldLeft, MapThenFoldSet, FirstFold, FirstStep

LEMMA FirstGroupsSelects ==
    ASSUME NEW Q, Q \subseteq GroupRec, NEW groups \in Seq(Q)
    PROVE  FirstGroups(groups) \in Selections(Q, MaxPlayersPerTeam)
<1> DEFINE n == Len(groups)
           m == MaxPlayersPerTeam
           S == Selections(Q, m)
           base == [pool |-> <<>>, rest |-> <<>>]
           step == [kx \in (1..n) \X S |-> FirstStep(kx[2], groups[kx[1]])]
           body(f, s) == IF s = {} THEN base ELSE FirstStep(f[s \ {Max(s)}], groups[Max(s)])
<1>1. n \in Nat /\ DOMAIN groups = 1..n /\ \A k \in 1..n : groups[k] \in Q
  OBVIOUS
<1>m. m \in Nat /\ m <= m /\ m = MaxPlayersPerTeam
  BY TeamSizeAssumption
<1> HIDE DEF m
<1>2. base \in S
  <2>1. <<>> \in Seq(Q)
    OBVIOUS
  <2> QED BY <1>m, <2>1, NobodyFits DEF Selections
<1>3. ASSUME NEW x \in S, NEW g \in Q
      PROVE  FirstStep(x, g) \in S
  <2>1. x.pool \in Fitting(Q, m) /\ x.rest \in Seq(Q) /\ x = [pool |-> x.pool, rest |-> x.rest]
    BY DEF Selections
  <2>2. AddGroup(x.pool, g, MaxPlayersPerTeam) \in Fitting(Q, m)
    BY <1>m, <2>1, GroupAdded
  <2>3. Append(x.rest, g) \in Seq(Q)
    BY <2>1
  <2> QED BY <2>1, <2>2, <2>3 DEF FirstStep, Selections
<1>4. \A k \in 1..n, x \in S : step[<<k, x>>] = FirstStep(x, groups[k])
  OBVIOUS
<1>5. \A g : IF g = [s \in SUBSET (1..n) |-> body(g, s)]
             THEN FirstFold(groups) = [s \in SUBSET (1..n) |-> body(FirstFold(groups), s)]
             ELSE TRUE
  BY <1>1 DEF FirstFold
<1> HIDE DEF n, S, base, step
<1>n. n \in Nat
  BY <1>1
<1>6. PICK f : f = [s \in SUBSET (1..n) |-> FoldBody(base, step, f, s)]
  BY <1>n, FoldExists
<1>7. \A s \in SUBSET (1..n) : f[s] \in S /\ (s # {} => Max(s) \in 1..n)
  <2>1. f[{}] \in S
    BY <1>2, <1>6 DEF FoldBody
  <2>2. ASSUME NEW s \in SUBSET (1..n), s # {}, Max(s) \in 1..n, f[s \ {Max(s)}] \in S
        PROVE  f[s] \in S
    <3>1. f[s] = step[<<Max(s), f[s \ {Max(s)}]>>]
      BY <1>6, <2>2 DEF FoldBody
    <3> QED BY <3>1, <1>1, <1>3, <1>4, <2>2
  <2> HIDE DEF body
  <2> QED BY <1>n, <2>1, <2>2, FoldStays
<1>8. f = [s \in SUBSET (1..n) |-> body(f, s)]
  <2>1. ASSUME NEW s \in SUBSET (1..n)
        PROVE  FoldBody(base, step, f, s) = body(f, s)
    <3>1. f[s \ {Max(s)}] \in S
      BY <1>7
    <3> QED BY <1>4, <1>7, <3>1 DEF FoldBody
  <2> QED BY <1>6, <2>1
<1> DEFINE c == FirstFold(groups)
<1>9. c = [s \in SUBSET (1..n) |-> body(c, s)]
  BY <1>5, <1>8
<1> HIDE DEF c
<1>10. c[{}] \in S
  BY <1>2, <1>9
<1>11. ASSUME NEW s \in SUBSET (1..n), s # {}, Max(s) \in 1..n, c[s \ {Max(s)}] \in S
       PROVE  c[s] \in S
  <2>1. c[s] = FirstStep(c[s \ {Max(s)}], groups[Max(s)])
    BY <1>9, <1>11
  <2> QED BY <2>1, <1>1, <1>3, <1>11
<1>12. c[1..n] \in S
  <2> HIDE DEF body
  <2> QED BY <1>n, <1>10, <1>11, FoldStays
<1> QED BY <1>1, <1>12, <1>m, FirstGroupsIsFold DEF c, S

\* KickGroup takes one group out.
LEMMA KickedGroup ==
    ASSUME NEW W, W \subseteq GroupRec, NEW pool \in Seq(W), NEW size
    PROVE  /\ KickGroup(pool, size).pool \in Seq(W)
           /\ PlayerCount(KickGroup(pool, size).pool) <= PlayerCount(pool)
<1>w. pool \in Seq(GroupRec)
  BY SeqLarger
<1>n. PlayerCount(pool) \in Nat
  BY <1>w, CountNat
<1>1. CASE pool = <<>>
  <2>1. KickGroup(pool, size).pool = pool
    BY <1>1 DEF KickGroup
  <2> QED BY <2>1, <1>n
<1>2. CASE pool # <<>>
  <2> DEFINE alike == {i \in DOMAIN pool : Distance(Size(pool[i]), size) <= 1}
             largest == {i \in DOMAIN pool : \A j \in DOMAIN pool : Size(pool[j]) <= Size(pool[i])}
             which == IF alike # {} THEN alike ELSE largest
             k == GroupToKick(pool, size)
             n == Len(pool)
  <2>1. n \in Nat /\ n > 0 /\ DOMAIN pool = 1..n /\ \A i \in 1..n : pool[i] \in W /\ pool[i] \in GroupRec
    BY <1>2
  <2>2. largest # {}
    <3> DEFINE sizes == {Size(pool[i]) : i \in 1..n}
    <3>1. sizes \in SUBSET Nat /\ \A m \in sizes : m <= Cardinality(Player)
      BY <2>1, SizeOf
    <3>2. sizes # {} /\ Cardinality(Player) \in Nat
      BY <2>1, PlayersAssumption, FS_CardinalityType
    <3>3. Max(sizes) \in sizes /\ \A m \in sizes : m <= Max(sizes)
      <4> HIDE DEF sizes
      <4> QED BY <3>1, <3>2, LargestNumber
    <3>4. PICK i \in 1..n : Max(sizes) = Size(pool[i])
      BY <3>3
    <3>5. \A j \in 1..n : Size(pool[j]) <= Size(pool[i])
      BY <3>3, <3>4
    <3> QED BY <2>1, <3>5
  <2>3. k = Max(which)
    BY DEF GroupToKick
  <2>4. which # {} /\ which \in SUBSET Nat /\ which \subseteq 1..n /\ \A i \in which : i <= n
    BY <2>1, <2>2
  <2>5. k \in 1..n
    <3> HIDE DEF which, n
    <3>1. Max(which) \in which
      BY <2>1, <2>4, LargestNumber
    <3> QED BY <3>1, <2>3, <2>4
  <2>6. KickGroup(pool, size).pool = RemoveAt(pool, k)
    BY <1>2 DEF KickGroup
  <2> HIDE DEF k, which
  <2> DEFINE a == SubSeq(pool, 1, k - 1)
             b == SubSeq(pool, k + 1, n)
             r == a \o b
  <2>7. /\ a \in Seq(W) /\ Len(a) = k - 1 /\ \A i \in 1..k - 1 : a[i] = pool[i]
        /\ b \in Seq(W) /\ Len(b) = n - k /\ \A i \in 1..n - k : b[i] = pool[k + i]
    <3>1. k - 1 \in Nat /\ n - k \in Nat /\ k \in Nat /\ k <= n /\ k + 1 \in Int /\ n \in Int
      BY <2>1, <2>5
    <3> HIDE DEF n, k
    <3>2. (\A i \in 1..k - 1 : pool[i] \in W) /\ \A i \in k + 1..n : pool[i] \in W
      BY <2>1, <3>1
    <3>3. a \in Seq(W) /\ Len(a) = k - 1 /\ \A i \in 1..k - 1 : a[i] = pool[i]
      <4>1. /\ a \in Seq(W) /\ Len(a) = IF 1 <= k - 1 THEN (k - 1) - 1 + 1 ELSE 0
            /\ \A i \in 1..(k - 1) - 1 + 1 : a[i] = pool[1 + i - 1]
        BY <3>1, <3>2, SubSeqProperties
      <4>2. (k - 1) - 1 + 1 = k - 1 /\ \A i \in 1..k - 1 : 1 + i - 1 = i
        BY <3>1
      <4> HIDE DEF a
      <4> QED BY <4>1, <4>2, <3>1
    <3>4. b \in Seq(W) /\ Len(b) = n - k /\ \A i \in 1..n - k : b[i] = pool[k + i]
      <4>1. /\ b \in Seq(W) /\ Len(b) = IF k + 1 <= n THEN n - (k + 1) + 1 ELSE 0
            /\ \A i \in 1..n - (k + 1) + 1 : b[i] = pool[k + 1 + i - 1]
        BY <3>1, <3>2, SubSeqProperties
      <4>2. n - (k + 1) + 1 = n - k /\ \A i \in 1..n - k : k + 1 + i - 1 = k + i
        BY <3>1
      <4> HIDE DEF b
      <4> QED BY <4>1, <4>2, <3>1
    <3> QED BY <3>3, <3>4
  <2> HIDE DEF n, a, b
  <2>l. Len(a) + Len(b) = n - 1
    BY <2>1, <2>5, <2>7
  <2>8. r \in Seq(W) /\ Len(r) = n - 1
    <3> HIDE DEF k
    <3> QED BY <2>7, <2>l, ConcatProperties
  <2>9. \A i \in 1..n - 1 : r[i] = IF i < k THEN pool[i] ELSE pool[i + 1]
    <3> SUFFICES ASSUME NEW i \in 1..n - 1 PROVE r[i] = IF i < k THEN pool[i] ELSE pool[i + 1]
      OBVIOUS
    <3>1. CASE i < k
      <4>1. i \in 1..k - 1
        BY <3>1, <2>1, <2>5
      <4> QED BY <3>1, <4>1, <2>1, <2>5, <2>7
    <3>2. CASE ~(i < k)
      <4>1. i - (k - 1) \in 1..n - k /\ k + (i - (k - 1)) = i + 1 /\ i > k - 1 /\ i <= (k - 1) + (n - k)
        BY <3>2, <2>1, <2>5
      <4>2. r[i] = b[i - (k - 1)]
        BY <4>1, <2>1, <2>5, <2>7
      <4> QED BY <3>2, <4>1, <4>2, <2>7
    <3> QED BY <3>1, <3>2
  <2> HIDE DEF r
  <2>10. r \in Seq(GroupRec)
    BY <2>8, SeqLarger
  <2>11. PlayerCount(r) <= PlayerCount(pool)
    BY <1>w, <2>5, <2>8, <2>9, <2>10, CountRemoved DEF n
  <2>12. KickGroup(pool, size).pool = r
    BY <2>6 DEF RemoveAt, r, a, b, n
  <2> QED BY <2>8, <2>11, <2>12
<1> QED BY <1>1, <1>2

-----------------------------------------------------------------------------
(* The pools of both teams.                                                  *)

LEMMA TwoTeams ==
    /\ "alliance" \in Teams /\ "horde" \in Teams /\ "alliance" # "horde"
    /\ \A t \in Teams : Other(t) \in Teams /\ Other(t) # t /\ Teams = {t, Other(t)}
<1>1. "alliance" \in Teams /\ "horde" \in Teams /\ "alliance" # "horde"
  BY DEF Teams
<1>2. ASSUME NEW t \in Teams
      PROVE  Other(t) \in Teams /\ Other(t) # t /\ Teams = {t, Other(t)}
  <2>1. \E o \in Teams : o # t
    BY <1>1
  <2>2. Other(t) \in Teams /\ Other(t) # t
    BY <2>1 DEF Other
  <2> QED BY <2>2 DEF Teams
<1> QED BY <1>1, <1>2

\* The selections of both teams, if Q[t] are the groups of a team and there is
\* room for m[t] players.
BothSelect(s, Q, m) == /\ s = [t \in Teams |-> s[t]]
                       /\ \A t \in Teams : s[t] \in Selections(Q[t], m[t])
AllSelections(Q) == [pool : Seq(Ready(Q)), rest : Seq(Q)]
Sides(Q, m) == {s \in [Teams -> AllSelections(UNION {Q[t] : t \in Teams})] : BothSelect(s, Q, m)}

LEMMA SidesFacts ==
    ASSUME NEW Q, NEW m, NEW s
    PROVE  s \in Sides(Q, m) <=> BothSelect(s, Q, m)
<1>1. ASSUME BothSelect(s, Q, m)
      PROVE  s \in [Teams -> AllSelections(UNION {Q[t] : t \in Teams})]
  <2> DEFINE All == UNION {Q[t] : t \in Teams}
  <2>1. ASSUME NEW t \in Teams
        PROVE  s[t] \in AllSelections(All)
    <3>1. Q[t] \subseteq All /\ Ready(Q[t]) \subseteq Ready(All)
      BY DEF Ready
    <3>2. s[t] \in Selections(Q[t], m[t])
      BY <1>1 DEF BothSelect
    <3>3. /\ s[t].pool \in Seq(Ready(Q[t])) /\ s[t].rest \in Seq(Q[t])
      BY <3>2 DEF Selections, Fitting
    <3> DEFINE x == [pool |-> s[t].pool, rest |-> s[t].rest]
    <3>x. s[t] = x
      BY <3>2 DEF Selections
    <3> HIDE DEF All
    <3>4. s[t].pool \in Seq(Ready(All)) /\ s[t].rest \in Seq(All)
      BY <3>1, <3>3, SeqLarger
    <3>5. x \in AllSelections(All)
      BY <3>4 DEF AllSelections
    <3> HIDE DEF x
    <3> QED BY <3>x, <3>5
  <2> HIDE DEF All
  <2> DEFINE v == [t \in Teams |-> s[t]]
  <2>2. s = v
    BY <1>1 DEF BothSelect
  <2>3. v \in [Teams -> AllSelections(All)]
    BY <2>1
  <2> HIDE DEF v
  <2>4. s \in [Teams -> AllSelections(All)]
    BY <2>2, <2>3
  <2> QED BY <2>4 DEF All
<1> QED BY <1>1 DEF Sides

\* What becomes of a side of the selections.
RoundSides(s, t, refilled, others) == [s EXCEPT ![t] = refilled, ![Other(t)].pool = others]

LEMMA NotNegative ==
    ASSUME NEW x \in Int
    PROVE  Max({0, x}) \in Nat /\ (Max({0, x}) = 0 \/ Max({0, x}) = x) /\ x <= Max({0, x})
<1> DEFINE k == IF x < 0 THEN 0 ELSE x
<1>1. k \in {0, x} /\ \A y \in {0, x} : k >= y
  OBVIOUS
<1>2. Max({0, x}) \in {0, x} /\ \A y \in {0, x} : Max({0, x}) >= y
  <2> HIDE DEF k
  <2> QED BY <1>1 DEF Max
<1> QED BY <1>2

LEMMA RoundSelects ==
    ASSUME NEW Q, \A t \in Teams : Q[t] \subseteq GroupRec, NEW free \in [Teams -> Nat],
           NEW s, BothSelect(s, Q, free)
    PROVE  BothSelect(Round(s, free).s, Q, free) /\ Round(s, free).breaks \in BOOLEAN
<1> DEFINE t == IF Left(s, free, "alliance") < Left(s, free, "horde") THEN "alliance" ELSE "horde"
           o == Other(t)
           gap == Left(s, free, o) - Left(s, free, t)
           room == Max({0, free[t] - Left(s, free, o)})
           kicked == KickGroup(s[t].pool, gap)
           refilled == IF kicked.again THEN AddGroups(kicked.pool, s[t].rest, room)
                       ELSE [pool |-> kicked.pool, rest |-> s[t].rest]
           breaks == Breaks(s, free, t, refilled.pool)
           others == IF refilled.pool = <<>> /\ ~breaks THEN KickGroup(s[o].pool, gap).pool
                     ELSE s[o].pool
<1>1. t \in Teams /\ o \in Teams /\ o # t
  <2>1. t \in Teams
    BY TwoTeams
  <2> HIDE DEF t
  <2> QED BY <2>1, TwoTeams
<1>2. Round(s, free).s = RoundSides(s, t, refilled, others) /\ Round(s, free).breaks = breaks
  BY DEF Round, RoundSides
<1>3. breaks \in BOOLEAN
  BY DEF Breaks
<1> HIDE DEF t, breaks
<1>g. \A u \in Teams : Ready(Q[u]) \subseteq GroupRec
  BY DEF Ready
<1>s. \A u \in Teams : s[u].pool \in Fitting(Q[u], free[u]) /\ s[u].rest \in Seq(Q[u])
  BY DEF BothSelect, Selections
<1>c. \A u \in Teams : PlayerCount(s[u].pool) \in Nat /\ PlayerCount(s[u].pool) <= free[u]
                         /\ s[u].pool \in Seq(Ready(Q[u])) /\ free[u] \in Nat
  BY <1>s, ReadyGroups DEF Fitting
<1>k. ASSUME NEW u \in Teams, NEW size
      PROVE  KickGroup(s[u].pool, size).pool \in Fitting(Q[u], free[u])
  <2> DEFINE w == KickGroup(s[u].pool, size).pool
  <2>1. w \in Seq(Ready(Q[u])) /\ PlayerCount(w) <= PlayerCount(s[u].pool)
    BY <1>c, <1>g, KickedGroup
  <2> HIDE DEF w
  <2>2. PlayerCount(w) \in Nat
    BY <2>1, ReadyGroups
  <2>3. PlayerCount(w) <= free[u]
    BY <2>1, <2>2, <1>c
  <2>4. w \in Fitting(Q[u], free[u])
    BY <2>1, <2>3 DEF Fitting
  <2> QED BY <2>4 DEF w
<1>4. kicked.pool \in Fitting(Q[t], free[t])
  <2> HIDE DEF o, gap
  <2> QED BY <1>1, <1>k
<1>r. room \in Nat /\ room <= free[t]
  <2> DEFINE x == free[t] - Left(s, free, o)
             c == PlayerCount(s[o].pool)
  <2> HIDE DEF o
  <2>1. c \in Nat /\ c <= free[o] /\ free[o] \in Nat /\ free[t] \in Nat
    BY <1>1, <1>c
  <2>2. x = free[t] - (free[o] - c)
    BY DEF Left
  <2> HIDE DEF x, c
  <2>3. x \in Int /\ x <= free[t]
    BY <2>1, <2>2
  <2>4. Max({0, x}) \in Nat /\ (Max({0, x}) = 0 \/ Max({0, x}) = x)
    BY <2>3, NotNegative
  <2>5. Max({0, x}) \in Nat /\ Max({0, x}) <= free[t]
    BY <2>1, <2>3, <2>4
  <2> QED BY <2>5 DEF x
<1>5. refilled \in Selections(Q[t], free[t])
  <2> HIDE DEF kicked, room
  <2>1. AddGroups(kicked.pool, s[t].rest, room) \in Selections(Q[t], free[t])
    BY <1>1, <1>4, <1>s, <1>c, <1>r, AddGroupsSelects
  <2>2. [pool |-> kicked.pool, rest |-> s[t].rest] \in Selections(Q[t], free[t])
    BY <1>1, <1>4, <1>s DEF Selections
  <2> QED BY <2>1, <2>2
<1>6. others \in Fitting(Q[o], free[o])
  <2> HIDE DEF o, gap, refilled
  <2>1. KickGroup(s[o].pool, gap).pool \in Fitting(Q[o], free[o])
    BY <1>1, <1>k
  <2> QED BY <2>1, <1>1, <1>s
<1> HIDE DEF refilled, others
<1>7. BothSelect(RoundSides(s, t, refilled, others), Q, free)
  <2> DEFINE r == RoundSides(s, t, refilled, others)
             next == [pool |-> others, rest |-> s[o].rest]
  <2>1. s = [u \in Teams |-> s[u]]
    BY DEF BothSelect
  <2>2. [s[o] EXCEPT !.pool = others] = next
    <3>1. s[o] \in Selections(Q[o], free[o])
      BY <1>1 DEF BothSelect
    <3> QED BY <3>1 DEF Selections
  <2>3. r = [u \in Teams |-> IF u = o THEN next ELSE IF u = t THEN refilled ELSE s[u]]
    BY <1>1, <2>1, <2>2 DEF RoundSides
  <2>4. next \in Selections(Q[o], free[o])
    BY <1>1, <1>6, <1>s DEF Selections
  <2> HIDE DEF r, next, o
  <2>5. \A u \in Teams : r[u] \in Selections(Q[u], free[u])
    BY <2>3, <2>4, <1>5 DEF BothSelect
  <2>6. r = [u \in Teams |-> r[u]]
    BY <2>3
  <2>7. BothSelect(r, Q, free)
    BY <2>5, <2>6 DEF BothSelect
  <2> QED BY <2>7 DEF r
<1> QED BY <1>2, <1>3, <1>7

BalanceStep(b, free) == IF b.breaks \/ ~Unbalanced(b.s, free) THEN b ELSE Round(b.s, free)

BalanceRounds(s0) ==
    (Len(s0["alliance"].pool) + 2 * Len(s0["alliance"].rest)) + (Len(s0["horde"].pool) + 2 * Len(s0["horde"].rest))

BalanceFold(s0, free) ==
    CHOOSE f : f = [s \in SUBSET DOMAIN [n \in 1..BalanceRounds(s0) |-> n] |->
                       IF s = {} THEN [breaks |-> FALSE, s |-> s0] ELSE BalanceStep(f[s \ {Max(s)}], free)]

LEMMA BalanceIsFold ==
    \A s0, free : Balance(s0, free) = BalanceFold(s0, free)[DOMAIN [n \in 1..BalanceRounds(s0) |-> n]]
BY DEF Balance, FoldLeft, MapThenFoldSet, BalanceFold, BalanceStep, BalanceRounds

LEMMA BalanceSelects ==
    ASSUME NEW Q, \A t \in Teams : Q[t] \subseteq GroupRec, NEW free \in [Teams -> Nat],
           NEW s0, BothSelect(s0, Q, free)
    PROVE  BothSelect(Balance(s0, free).s, Q, free)
<1> DEFINE n == BalanceRounds(s0)
           S == [breaks : BOOLEAN, s : Sides(Q, free)]
           base == [breaks |-> FALSE, s |-> s0]
           step == [kx \in (1..n) \X S |-> BalanceStep(kx[2], free)]
           body(f, s) == IF s = {} THEN base ELSE BalanceStep(f[s \ {Max(s)}], free)
<1>1. n \in Nat
  <2>1. \A t \in Teams : Len(s0[t].pool) \in Nat /\ Len(s0[t].rest) \in Nat
    <3>1. ASSUME NEW t \in Teams
          PROVE  Len(s0[t].pool) \in Nat /\ Len(s0[t].rest) \in Nat
      <4>1. s0[t].pool \in Seq(Ready(Q[t])) /\ s0[t].rest \in Seq(Q[t])
        BY DEF BothSelect, Selections, Fitting
      <4> QED BY <4>1
    <3> QED BY <3>1
  <2>2. /\ Len(s0["alliance"].pool) \in Nat /\ Len(s0["alliance"].rest) \in Nat
        /\ Len(s0["horde"].pool) \in Nat /\ Len(s0["horde"].rest) \in Nat
    BY <2>1, TwoTeams
  <2>3. \A i, j, k, m \in Nat : (i + 2 * j) + (k + 2 * m) \in Nat
    OBVIOUS
  <2>4. (Len(s0["alliance"].pool) + 2 * Len(s0["alliance"].rest))
          + (Len(s0["horde"].pool) + 2 * Len(s0["horde"].rest)) \in Nat
    BY <2>2, <2>3, Zenon
  <2> QED BY <2>4, Zenon DEF BalanceRounds
<1>2. base \in S
  BY SidesFacts
<1>3. ASSUME NEW x \in S
      PROVE  BalanceStep(x, free) \in S
  <2>1. CASE x.breaks \/ ~Unbalanced(x.s, free)
    BY <2>1 DEF BalanceStep
  <2>2. CASE ~(x.breaks \/ ~Unbalanced(x.s, free))
    <3>1. BothSelect(x.s, Q, free)
      BY SidesFacts
    <3>2. BothSelect(Round(x.s, free).s, Q, free) /\ Round(x.s, free).breaks \in BOOLEAN
      BY <3>1, RoundSelects
    <3>3. \E a, c : Round(x.s, free) = [breaks |-> a, s |-> c]
      BY DEF Round
    <3>4. PICK a, c : Round(x.s, free) = [breaks |-> a, s |-> c]
      BY <3>3
    <3>5. a \in BOOLEAN /\ c \in Sides(Q, free)
      BY <3>2, <3>4, SidesFacts
    <3>6. Round(x.s, free) \in S
      BY <3>4, <3>5
    <3> QED BY <2>2, <3>6 DEF BalanceStep
  <2> QED BY <2>1, <2>2
<1>4. \A k \in 1..n, x \in S : step[<<k, x>>] = BalanceStep(x, free)
  OBVIOUS
<1>5. \A g : IF g = [s \in SUBSET (1..n) |-> body(g, s)]
             THEN BalanceFold(s0, free) = [s \in SUBSET (1..n) |-> body(BalanceFold(s0, free), s)]
             ELSE TRUE
  <2>1. DOMAIN [m \in 1..n |-> m] = 1..n
    OBVIOUS
  <2> HIDE DEF n
  <2> QED BY <2>1 DEF BalanceFold, n
<1> HIDE DEF n, S, base, step
<1>n. n \in Nat
  BY <1>1
<1>6. PICK f : f = [s \in SUBSET (1..n) |-> FoldBody(base, step, f, s)]
  BY <1>n, FoldExists
<1>7. \A s \in SUBSET (1..n) : f[s] \in S /\ (s # {} => Max(s) \in 1..n)
  <2>1. f[{}] \in S
    BY <1>2, <1>6 DEF FoldBody
  <2>2. ASSUME NEW s \in SUBSET (1..n), s # {}, Max(s) \in 1..n, f[s \ {Max(s)}] \in S
        PROVE  f[s] \in S
    <3>1. f[s] = step[<<Max(s), f[s \ {Max(s)}]>>]
      BY <1>6, <2>2 DEF FoldBody
    <3> QED BY <3>1, <1>3, <1>4, <2>2
  <2> HIDE DEF body
  <2> QED BY <1>n, <2>1, <2>2, FoldStays
<1>8. f = [s \in SUBSET (1..n) |-> body(f, s)]
  <2>1. ASSUME NEW s \in SUBSET (1..n)
        PROVE  FoldBody(base, step, f, s) = body(f, s)
    <3>1. f[s \ {Max(s)}] \in S
      BY <1>7
    <3> QED BY <1>4, <1>7, <3>1 DEF FoldBody
  <2> QED BY <1>6, <2>1
<1> DEFINE c == BalanceFold(s0, free)
<1>9. c = [s \in SUBSET (1..n) |-> body(c, s)]
  BY <1>5, <1>8
<1> HIDE DEF c
<1>10. c[{}] \in S
  BY <1>2, <1>9
<1>11. ASSUME NEW s \in SUBSET (1..n), s # {}, Max(s) \in 1..n, c[s \ {Max(s)}] \in S
       PROVE  c[s] \in S
  <2>1. c[s] = BalanceStep(c[s \ {Max(s)}], free)
    BY <1>9, <1>11
  <2> QED BY <2>1, <1>3, <1>11
<1>12. c[1..n] \in S
  <2> HIDE DEF body
  <2> QED BY <1>n, <1>10, <1>11, FoldStays
<1>13. Balance(s0, free) = c[1..n]
  <2>1. DOMAIN [m \in 1..n |-> m] = 1..n
    OBVIOUS
  <2> QED BY <2>1, BalanceIsFold DEF c, n
<1>14. Balance(s0, free).s \in Sides(Q, free)
  BY <1>12, <1>13 DEF S
<1> QED BY <1>14, SidesFacts

\* Queues, and the groups of a team in one.
Queues == [Kinds -> [Teams -> Seq(GroupRec)]]
In(q, t) == Range(q["premade"][t]) \cup Range(q["normal"][t])
GroupsIn(q) == [t \in Teams |-> In(q, t)]

\* The pools are filled from the queue.
PoolsFrom(pools, q) == \A t \in Teams : pools[t] \in Seq(Ready(In(q, t)))

\* There is room for m[t] players of a team.
PoolsFit(pools, m) == \A t \in Teams : PlayerCount(pools[t]) <= m[t]
FullTeams == [t \in Teams |-> MaxPlayersPerTeam]

LEMMA QueueFacts ==
    ASSUME NEW q \in Queues
    PROVE  \A t \in Teams :
               /\ q["premade"][t] \in Seq(GroupRec) /\ q["normal"][t] \in Seq(GroupRec)
               /\ q["premade"][t] \in Seq(In(q, t)) /\ q["normal"][t] \in Seq(In(q, t))
               /\ In(q, t) \subseteq GroupRec /\ GroupsIn(q)[t] = In(q, t)
<1>1. ASSUME NEW t \in Teams
      PROVE  /\ q["premade"][t] \in Seq(GroupRec) /\ q["normal"][t] \in Seq(GroupRec)
             /\ q["premade"][t] \in Seq(In(q, t)) /\ q["normal"][t] \in Seq(In(q, t))
             /\ In(q, t) \subseteq GroupRec
  <2>1. q["premade"][t] \in Seq(GroupRec) /\ q["normal"][t] \in Seq(GroupRec)
    BY DEF Queues, Kinds
  <2> QED BY <2>1, RangeOf DEF In
<1> QED BY <1>1 DEF GroupsIn

LEMMA WaitingGroups ==
    ASSUME NEW q \in Queues, NEW t \in Teams, NEW k \in Kinds
    PROVE  /\ Waiting(q[k])[t] \in Seq(In(q, t))
           /\ \A g \in Range(Waiting(q[k])[t]) : g \in In(q, t) /\ Waits(g)
<1>1. q[k][t] \in Seq(In(q, t))
  BY QueueFacts DEF Kinds
<1> DEFINE W == {g \in Range(q[k][t]) : Waits(g)}
<1>2. Waiting(q[k])[t] = Those(q[k][t], W)
  BY DEF Waiting
<1>3. /\ Those(q[k][t], W) \in Seq(In(q, t) \cap W)
      /\ Range(Those(q[k][t], W)) = Range(q[k][t]) \cap W
  <2> HIDE DEF W
  <2> QED BY <1>1, ThoseFacts
<1>4. Those(q[k][t], W) \in Seq(In(q, t))
  <2> HIDE DEF W
  <2>1. In(q, t) \cap W \subseteq In(q, t)
    OBVIOUS
  <2> QED BY <1>3, <2>1, SeqLarger
<1>5. Range(q[k][t]) \subseteq In(q, t)
  BY <1>1, RangeOf
<1> QED BY <1>2, <1>3, <1>4, <1>5

LEMMA PoolsOfBoth ==
    ASSUME NEW q \in Queues, NEW m, NEW s, BothSelect(s, GroupsIn(q), m)
    PROVE  PoolsFrom(Pools(s), q) /\ PoolsFit(Pools(s), m)
<1>1. ASSUME NEW t \in Teams
      PROVE  Pools(s)[t] \in Seq(Ready(In(q, t))) /\ PlayerCount(Pools(s)[t]) <= m[t]
  <2>1. s[t] \in Selections(In(q, t), m[t])
    BY QueueFacts DEF BothSelect
  <2> QED BY <2>1 DEF Pools, Selections, Fitting
<1> QED BY <1>1 DEF PoolsFrom, PoolsFit

LEMMA FillPools ==
    ASSUME NEW q \in Queues, NEW free \in [Teams -> Nat]
    PROVE  /\ PoolsFrom(FillPlayersToBG(q["normal"], free), q)
           /\ PoolsFit(FillPlayersToBG(q["normal"], free), free)
<1> DEFINE Q == GroupsIn(q)
           s == FirstCome(q["normal"], free)
<1>1. BothSelect(s, Q, free)
  <2>1. ASSUME NEW t \in Teams
        PROVE  s[t] \in Selections(Q[t], free[t])
    <3>1. q["normal"][t] \in Seq(In(q, t)) /\ Q[t] = In(q, t) /\ In(q, t) \subseteq GroupRec
      BY QueueFacts
    <3>2. free[t] \in Nat /\ free[t] <= free[t]
      OBVIOUS
    <3>3. <<>> \in Fitting(In(q, t), free[t])
      BY <3>2, NobodyFits
    <3>4. AddGroups(<<>>, q["normal"][t], free[t]) \in Selections(In(q, t), free[t])
      BY <3>1, <3>2, <3>3, AddGroupsSelects
    <3> QED BY <3>1, <3>4 DEF FirstCome
  <2>2. s = [t \in Teams |-> s[t]]
    BY DEF FirstCome
  <2> HIDE DEF s, Q
  <2> QED BY <2>1, <2>2 DEF BothSelect
<1>2. \A t \in Teams : Q[t] \subseteq GroupRec
  BY QueueFacts
<1> HIDE DEF s
<1>3. BothSelect(Balance(s, free).s, Q, free)
  <2> HIDE DEF Q
  <2> QED BY <1>1, <1>2, BalanceSelects
<1>4. FillPlayersToBG(q["normal"], free) = Pools(IF InvitationType = 0 THEN s ELSE Balance(s, free).s)
  BY DEF FillPlayersToBG, s
<1> DEFINE r == IF InvitationType = 0 THEN s ELSE Balance(s, free).s
<1>5. BothSelect(r, Q, free)
  BY <1>1, <1>3
<1> HIDE DEF r
<1>6. PoolsFrom(Pools(r), q) /\ PoolsFit(Pools(r), free)
  BY <1>5, PoolsOfBoth
<1> QED BY <1>4, <1>6 DEF r

LEMMA PremadePoolsFrom ==
    ASSUME NEW q \in Queues, PremadeFound(q["premade"])
    PROVE  /\ PoolsFrom(PremadePools(q["premade"], q["normal"]), q)
           /\ PoolsFit(PremadePools(q["premade"], q["normal"]), FullTeams)
<1> DEFINE w(t) == Waiting(q["premade"])[t]
           M == MaxPlayersPerTeam
           groups == [t \in Teams |-> AddGroup(<<>>, w(t)[1], M)]
           counts == {PlayerCount(groups[t]) : t \in Teams}
           maxPlayers == Min(counts)
           pools == PremadePools(q["premade"], q["normal"])
<1>m. M \in Nat /\ M <= M
  BY TeamSizeAssumption
<1>p. pools = [t \in Teams |-> AddGroups(groups[t], Waiting(q["normal"])[t], maxPlayers).pool]
  BY DEF PremadePools
<1>f. \A t \in Teams : FullTeams[t] = M
  BY DEF FullTeams
<1> HIDE DEF M, pools
<1>1. ASSUME NEW t \in Teams
      PROVE  groups[t] \in Fitting(In(q, t), M) /\ In(q, t) \subseteq GroupRec
  <2>1. w(t) \in Seq(In(q, t)) /\ In(q, t) \subseteq GroupRec
    BY WaitingGroups, QueueFacts DEF Kinds
  <2>2. w(t) # <<>>
    BY DEF PremadeFound
  <2> HIDE DEF w
  <2>3. w(t)[1] \in In(q, t)
    BY <2>1, <2>2
  <2>4. <<>> \in Fitting(In(q, t), M)
    BY <1>m, NobodyFits
  <2>5. AddGroup(<<>>, w(t)[1], M) \in Fitting(In(q, t), M)
    BY <1>m, <2>1, <2>3, <2>4, GroupAdded
  <2> QED BY <2>1, <2>5
<1> HIDE DEF groups
<1>2. \A t \in Teams : PlayerCount(groups[t]) \in Nat /\ PlayerCount(groups[t]) <= M
  BY <1>1, ReadyGroups DEF Fitting
<1>3. maxPlayers \in Nat /\ maxPlayers <= M
  <2>1. counts \in SUBSET Nat /\ counts # {} /\ \A c \in counts : c <= M
    BY <1>2 DEF Teams
  <2> HIDE DEF counts
  <2>2. \E x \in counts : \A c \in counts : x <= c
    BY <2>1, LeastNumber
  <2>3. Min(counts) \in counts
    BY <2>2 DEF Min
  <2> QED BY <2>1, <2>3
<1> HIDE DEF maxPlayers
<1>4. ASSUME NEW t \in Teams
      PROVE  pools[t] \in Seq(Ready(In(q, t))) /\ PlayerCount(pools[t]) <= M
  <2>1. Waiting(q["normal"])[t] \in Seq(In(q, t))
    BY WaitingGroups DEF Kinds
  <2>2. AddGroups(groups[t], Waiting(q["normal"])[t], maxPlayers) \in Selections(In(q, t), M)
    BY <1>m, <1>1, <1>3, <2>1, AddGroupsSelects
  <2> QED BY <2>2, <1>p DEF Selections, Fitting
<1>5. PoolsFrom(pools, q) /\ PoolsFit(pools, FullTeams)
  BY <1>4, <1>f DEF PoolsFrom, PoolsFit
<1> QED BY <1>5 DEF pools

LEMMA NormalPoolsFrom ==
    ASSUME NEW q \in Queues
    PROVE  PoolsFrom(NormalPools(q["normal"]), q) /\ PoolsFit(NormalPools(q["normal"]), FullTeams)
<1> DEFINE Q == GroupsIn(q)
           M == FullTeams
           s == [t \in Teams |-> FirstGroups(Waiting(q["normal"])[t])]
           r == Evened(s)
<1>m. \A t \in Teams : M[t] = MaxPlayersPerTeam /\ M[t] \in Nat
  BY TeamSizeAssumption DEF FullTeams
<1> HIDE DEF M
<1>q. \A t \in Teams : Q[t] = In(q, t) /\ Q[t] \subseteq GroupRec
  BY QueueFacts
<1>1. BothSelect(s, Q, M)
  <2>1. ASSUME NEW t \in Teams
        PROVE  s[t] \in Selections(Q[t], M[t])
    <3>1. Waiting(q["normal"])[t] \in Seq(In(q, t)) /\ In(q, t) \subseteq GroupRec
      BY QueueFacts, WaitingGroups DEF Kinds
    <3>2. FirstGroups(Waiting(q["normal"])[t]) \in Selections(In(q, t), MaxPlayersPerTeam)
      BY <3>1, FirstGroupsSelects
    <3> QED BY <3>2, <1>m, <1>q
  <2>2. s = [t \in Teams |-> s[t]]
    OBVIOUS
  <2> HIDE DEF s, Q
  <2> QED BY <2>1, <2>2 DEF BothSelect
<1> HIDE DEF s
<1>2. BothSelect(r, Q, M)
  <2>1. CASE InvitationType = 0 \/ ~Enough(s)
    BY <1>1, <2>1 DEF Evened
  <2>2. CASE ~(InvitationType = 0 \/ ~Enough(s))
    <3> DEFINE t == IF PlayerCount(s["horde"].pool) < PlayerCount(s["alliance"].pool)
                    THEN "horde" ELSE "alliance"
               n == PlayerCount(s[Other(t)].pool)
               new == AddGroups(s[t].pool, s[t].rest, n)
    <3>1. t \in Teams
      BY TwoTeams
    <3>2. r = [s EXCEPT ![t] = new]
      BY <2>2 DEF Evened
    <3> HIDE DEF t, r, Q
    <3>3. \A u \in Teams : s[u].pool \in Fitting(Q[u], M[u]) /\ s[u].rest \in Seq(Q[u])
      BY <1>1 DEF BothSelect, Selections
    <3>4. n \in Nat /\ n <= M[t]
      <4>1. Other(t) \in Teams
        BY <3>1, TwoTeams
      <4>2. s[Other(t)].pool \in Seq(Ready(Q[Other(t)])) /\ n <= M[Other(t)]
        BY <3>3, <4>1 DEF Fitting
      <4>3. n \in Nat
        BY <4>1, <4>2, <1>q, ReadyGroups
      <4> QED BY <3>1, <4>1, <4>2, <4>3, <1>m
    <3> HIDE DEF n
    <3>5. new \in Selections(Q[t], M[t])
      BY <3>1, <3>3, <3>4, <1>m, <1>q, AddGroupsSelects
    <3> HIDE DEF new
    <3>6. s = [u \in Teams |-> s[u]] /\ \A u \in Teams : s[u] \in Selections(Q[u], M[u])
      BY <1>1 DEF BothSelect
    <3>7. r = [u \in Teams |-> IF u = t THEN new ELSE s[u]]
      BY <3>1, <3>2, <3>6
    <3>8. r = [u \in Teams |-> r[u]] /\ \A u \in Teams : r[u] \in Selections(Q[u], M[u])
      BY <3>5, <3>6, <3>7
    <3> QED BY <3>8 DEF BothSelect
  <2> QED BY <2>1, <2>2
<1>3. NormalPools(q["normal"]) = Pools(r)
  BY DEF NormalPools, NormalSelection, s
<1> HIDE DEF r
<1> QED BY <1>2, <1>3, PoolsOfBoth DEF M

\* Whatever the queue and the free places: who is selected waits, is in the queue
\* of his team, and there is room for him: there are no more players in a pool
\* than free places, and than a team may have in a new match
\* (SelectionPool::AddGroup and KickGroup, whatever the loops of FillPlayersToBG,
\* CheckPremadeMatch and CheckNormalMatch do).
THEOREM SelectedHaveRoom ==
    ASSUME NEW q \in Queues, NEW free \in [Teams -> Nat]
    PROVE  LET filled == FillPlayersToBG(q["normal"], free)
               premade == PremadePools(q["premade"], q["normal"])
               normal == NormalPools(q["normal"])
           IN  /\ PoolsFrom(filled, q) /\ PoolsFit(filled, free)
               /\ PremadeFound(q["premade"]) => PoolsFrom(premade, q) /\ PoolsFit(premade, FullTeams)
               /\ PoolsFrom(normal, q) /\ PoolsFit(normal, FullTeams)
BY FillPools, PremadePoolsFrom, NormalPoolsFrom

-----------------------------------------------------------------------------
(* The inductive invariant.  It is stated of any queue, slots and            *)
(* battlegrounds, so that it can be used inside the queue update too.        *)

BgRecs == [status : {"none", "join", "progress", "leave"}, invited : [Teams -> 0..Wrap-1],
           players : SUBSET Player, offline : Seq(Player)]
Slots == [Player -> NoSlot..MaxInstances]
Removals == {rm \in [Player -> Seq(Events)] : \A p \in Player : Len(rm[p]) <= MaxRemovals}

\* The battlegrounds with free slots are running, and listed once.
FreeRunning(fr, bgs) ==
    /\ fr \in Seq(Instances) /\ IsInjective(fr)
    /\ \A b \in Range(fr) : bgs[b].status \in {"join", "progress"}

\* Nobody is in two groups, and everybody waits with his team.
OneGroup(q) ==
    \A t \in Teams : \A g \in In(q, t) : \A p \in g.players :
        TeamOf[p] = t /\ \A h \in In(q, t) : p \in h.players => h = g

\* Who waits in a group.
Waiter(p, g, sl, rm, id, pl) ==
    /\ sl[p] \in {0, g.inst} /\ id[p] = 0 /\ pl[p] \in {"world", "travels"}
    /\ g.inst = 0 => Len(rm[p]) < MaxRemovals
    /\ sl[p] > 0 => [inst |-> g.inst, stamp |-> g.stamp] \in Range(rm[p])
Waiters(q, sl, rm, id, pl) ==
    \A t \in Teams : \A g \in In(q, t) : \A p \in g.players : Waiter(p, g, sl, rm, id, pl)

\* What the place of a player says of his slot and his battleground.
Whereabouts(sl, id, pl, bgs) ==
    \A p \in Player :
        /\ pl[p] \in {"ports", "inside"} => sl[p] = id[p] /\ id[p] \in Instances
        /\ pl[p] = "inside" => p \in bgs[id[p]].players
        /\ pl[p] \in {"offline", "offlineInside"} => sl[p] = NoSlot
        /\ pl[p] = "world" => id[p] = 0
        /\ pl[p] = "travels" => id[p] \in {0, sl[p]}

\* Members know where they are.
MembersIn(id, pl, bgs) ==
    \A b \in Instances :
        /\ bgs[b].status = "none" => bgs[b] = NoBg
        /\ \A p \in bgs[b].players : id[p] = b /\ pl[p] \in {"inside", "offlineInside"}

\* _OfflineQueue.
Listed(pl, bgs) ==
    \A b \in Instances : bgs[b].status \in {"join", "progress"} =>
        /\ IsInjective(bgs[b].offline)
        /\ Range(bgs[b].offline) = {p \in bgs[b].players : pl[p] \in {"offline", "offlineInside"}}

\* Who takes a place of a battleground.
InQ(q, p) == \E g \in In(q, TeamOf[p]) : p \in g.players
Taker(p, b, q, sl, id, pl, bgs) ==
    \/ InQ(q, p) /\ sl[p] = b
    \/ pl[p] = "ports" /\ id[p] = b
    \/ p \in bgs[b].players
TakersOf(q, sl, id, pl, bgs) == [b \in Instances |-> {p \in Player : Taker(p, b, q, sl, id, pl, bgs)}]

OfTeam(S, t) == {p \in S : TeamOf[p] = t}
Exact(T, bgs, mis) ==
    \A b \in Instances : bgs[b].status # "none" /\ b \notin mis =>
        \A t \in Teams : bgs[b].invited[t] = Cardinality(OfTeam(T[b], t))
SlotsTaken(T, sl, bgs, mis) ==
    \A p \in Player : sl[p] > 0 /\ sl[p] \notin mis =>
        bgs[sl[p]].status # "none" /\ p \in T[sl[p]]

\* No team is invited beyond its size.
Fit(bgs, mis) ==
    \A b \in Instances : bgs[b].status # "none" /\ b \notin mis =>
        \A t \in Teams : bgs[b].invited[t] <= MaxPlayersPerTeam

Good(q, sl, rm, id, pl, bgs, fr, mis) ==
    /\ q \in Queues /\ sl \in Slots /\ rm \in Removals
    /\ id \in [Player -> 0..MaxInstances] /\ pl \in [Player -> Places]
    /\ bgs \in [Instances -> BgRecs] /\ FreeRunning(fr, bgs) /\ mis \subseteq Instances
    /\ OneGroup(q)
    /\ Waiters(q, sl, rm, id, pl)
    /\ Whereabouts(sl, id, pl, bgs)
    /\ MembersIn(id, pl, bgs)
    /\ Listed(pl, bgs)
    /\ Exact(TakersOf(q, sl, id, pl, bgs), bgs, mis)
    /\ SlotsTaken(TakersOf(q, sl, id, pl, bgs), sl, bgs, mis)

IInv ==
    /\ Good(queue, slot, removals, bgId, place, bg, freeSlots, miscounted)
    /\ scheduled \in BOOLEAN

\* The invariant with the sizes of the teams.
FInv == IInv /\ Fit(bg, miscounted)

\* What the invariant says of the queue in the words of the model.
LEMMA QueueWords ==
    ASSUME queue \in Queues
    PROVE  /\ \A t \in Teams : GroupsOf(t) = In(queue, t)
           /\ \A p \in Player : InQueue(p) <=> InQ(queue, p)
           /\ \A p \in Player : InQ(queue, p) => GroupOf(p) \in In(queue, TeamOf[p]) /\ p \in GroupOf(p).players
           /\ \A p \in Player : TeamOf[p] \in Teams
<1>t. \A p \in Player : TeamOf[p] \in Teams
  BY PlayersAssumption
<1>1. ASSUME NEW t \in Teams
      PROVE  GroupsOf(t) = In(queue, t)
  <2>1. queue["premade"][t] \in Seq(GroupRec) /\ queue["normal"][t] \in Seq(GroupRec)
    BY QueueFacts
  <2> QED BY <2>1, RangeConcat DEF GroupsOf, In
<1>2. ASSUME NEW p \in Player
      PROVE  InQueue(p) <=> InQ(queue, p)
  BY <1>t, <1>1 DEF InQueue, InQ
<1>3. ASSUME NEW p \in Player, InQ(queue, p)
      PROVE  GroupOf(p) \in In(queue, TeamOf[p]) /\ p \in GroupOf(p).players
  <2>1. \E g \in GroupsOf(TeamOf[p]) : p \in g.players
    BY <1>2, <1>3 DEF InQueue
  <2>2. GroupOf(p) \in GroupsOf(TeamOf[p]) /\ p \in GroupOf(p).players
    BY <2>1 DEF GroupOf
  <2> QED BY <2>2, <1>1, <1>t
<1> QED BY <1>t, <1>1, <1>2, <1>3

\* The parts of the invariant.
LEMMA Parts ==
    ASSUME IInv
    PROVE  /\ queue \in Queues /\ slot \in Slots /\ removals \in Removals
           /\ bgId \in [Player -> 0..MaxInstances] /\ place \in [Player -> Places]
           /\ bg \in [Instances -> BgRecs] /\ FreeRunning(freeSlots, bg) /\ miscounted \subseteq Instances
           /\ scheduled \in BOOLEAN
           /\ OneGroup(queue) /\ Waiters(queue, slot, removals, bgId, place)
           /\ Whereabouts(slot, bgId, place, bg) /\ MembersIn(bgId, place, bg) /\ Listed(place, bg)
           /\ Exact(TakersOf(queue, slot, bgId, place, bg), bg, miscounted)
           /\ SlotsTaken(TakersOf(queue, slot, bgId, place, bg), slot, bg, miscounted)
BY DEF IInv, Good

\* The taking players of the model are those of the invariant.
LEMMA TakingWords ==
    ASSUME queue \in Queues, slot \in Slots
    PROVE  \A b \in Instances :
               /\ \A p \in Player : Takes(p, b) <=> p \in TakersOf(queue, slot, bgId, place, bg)[b]
               /\ \A t \in Teams : Taking(b, t) = OfTeam(TakersOf(queue, slot, bgId, place, bg)[b], t)
<1>1. ASSUME NEW b \in Instances, NEW p \in Player
      PROVE  Takes(p, b) <=> Taker(p, b, queue, slot, bgId, place, bg)
  <2>1. b > 0
    BY BoundsAssumption DEF Instances
  <2>2. InQueue(p) <=> InQ(queue, p)
    BY QueueWords
  <2>3. slot[p] = b => slot[p] > 0
    BY <2>1
  <2> QED BY <2>2, <2>3 DEF Takes, Taker, Asked
<1>2. \A b \in Instances, p \in Player : Takes(p, b) <=> p \in TakersOf(queue, slot, bgId, place, bg)[b]
  BY <1>1 DEF TakersOf
<1>3. \A b \in Instances : TakersOf(queue, slot, bgId, place, bg)[b] \subseteq Player
  BY DEF TakersOf
<1> QED BY <1>2, <1>3 DEF Taking, OfTeam

LEMMA GoodIsExact == IInv => InvitedExact
<1> SUFFICES ASSUME IInv PROVE InvitedExact
  OBVIOUS
<1> DEFINE T == TakersOf(queue, slot, bgId, place, bg)
<1>1. Exact(T, bg, miscounted)
  BY Parts
<1>2. \A b \in Instances, t \in Teams : Taking(b, t) = OfTeam(T[b], t)
  BY Parts, TakingWords
<1> HIDE DEF T
<1> QED BY <1>1, <1>2 DEF Exact, InvitedExact, Counted, Exists

LEMMA FitIsTeams == FInv => TeamsFit
<1> SUFFICES ASSUME FInv PROVE TeamsFit
  OBVIOUS
<1>1. InvitedExact
  BY GoodIsExact DEF FInv
<1> QED BY <1>1 DEF FInv, Fit, InvitedExact, TeamsFit, Counted, Exists

LEMMA GoodIsTyped == IInv => TypeOK
<1> SUFFICES ASSUME IInv PROVE TypeOK
  OBVIOUS
<1>1. \A k \in Kinds, t \in Teams : \A g \in Range(queue[k][t]) :
          g.players \in (SUBSET Player) \ {{}} /\ [inst |-> g.inst, stamp |-> g.stamp] \in Events
  <2>1. ASSUME NEW k \in Kinds, NEW t \in Teams, NEW g \in Range(queue[k][t])
        PROVE  g.players \in (SUBSET Player) \ {{}} /\ [inst |-> g.inst, stamp |-> g.stamp] \in Events
    <3>1. g \in GroupRec
      <4>1. In(queue, t) \subseteq GroupRec /\ g \in In(queue, t)
        BY Parts, QueueFacts DEF In, Kinds
      <4> QED BY <4>1
    <3> QED BY <3>1 DEF GroupRec, Events
  <2> QED BY <2>1
<1>2. \A p \in Player : removals[p] \in Seq(Events) /\ Len(removals[p]) <= MaxRemovals
  BY Parts DEF Removals
<1>3. ASSUME NEW b \in Instances
      PROVE  /\ bg[b].status \in {"none", "join", "progress", "leave"}
             /\ bg[b].invited \in [Teams -> 0..Wrap-1]
             /\ bg[b].players \subseteq Player /\ Range(bg[b].offline) \subseteq Player
  <2>1. bg[b] \in BgRecs
    BY Parts
  <2>2. bg[b].offline \in Seq(Player)
    BY <2>1 DEF BgRecs
  <2> QED BY <2>1, <2>2, RangeOf DEF BgRecs
<1>4. IsInjective(freeSlots) /\ \A b \in Range(freeSlots) : Running(b)
  <2>1. Range(freeSlots) \subseteq Instances
    BY Parts, RangeOf DEF FreeRunning
  <2> QED BY <2>1, Parts DEF FreeRunning, Running
<1> QED BY <1>1, <1>2, <1>3, <1>4, Parts DEF TypeOK, Slots

LEMMA GoodAgrees == IInv => SlotsAgree
<1> SUFFICES ASSUME IInv PROVE SlotsAgree
  OBVIOUS
<1>1. TypeOK
  BY GoodIsTyped
<1> SUFFICES ASSUME NEW p \in Player
             PROVE  /\ InQueue(p) => slot[p] \in {0, GroupOf(p).inst} /\ bgId[p] = 0 /\ ~Offline(p)
                    /\ slot[p] > 0 /\ slot[p] \notin miscounted => Exists(slot[p]) /\ Takes(p, slot[p])
                    /\ place[p] \in {"ports", "inside"} => slot[p] = bgId[p] /\ ~InQueue(p)
                    /\ place[p] = "inside" => p \in bg[bgId[p]].players
  BY <1>1 DEF SlotsAgree
<1>2. InQueue(p) => slot[p] \in {0, GroupOf(p).inst} /\ bgId[p] = 0 /\ place[p] \in {"world", "travels"}
  BY Parts, QueueWords DEF Waiters, Waiter
<1>3. ASSUME slot[p] > 0, slot[p] \notin miscounted
      PROVE  Exists(slot[p]) /\ Takes(p, slot[p])
  <2>1. slot[p] \in Instances
    <3>1. slot[p] \in NoSlot..MaxInstances
      BY Parts DEF Slots
    <3> QED BY <3>1, <1>3, BoundsAssumption DEF Instances, NoSlot
  <2>2. bg[slot[p]].status # "none" /\ p \in TakersOf(queue, slot, bgId, place, bg)[slot[p]]
    BY <1>3, Parts DEF SlotsTaken
  <2> QED BY <2>1, <2>2, Parts, TakingWords DEF Exists
<1>4. /\ place[p] \in {"ports", "inside"} => slot[p] = bgId[p]
      /\ place[p] = "inside" => p \in bg[bgId[p]].players
  BY Parts DEF Whereabouts
<1> QED BY <1>2, <1>3, <1>4 DEF Offline

LEMMA GoodIsListed == IInv => OfflineListed
BY Parts DEF Listed, OfflineListed, Running, Offline

LEMMA GoodIsTimed == IInv => AskedIsTimed
BY Parts, QueueWords DEF AskedIsTimed, Asked, Invitation, Waiters, Waiter

-----------------------------------------------------------------------------
(* Counting.                                                                 *)

LEMMA TeamCounts ==
    ASSUME NEW S, S \subseteq Player
    PROVE  \A t : /\ IsFiniteSet(OfTeam(S, t)) /\ Cardinality(OfTeam(S, t)) \in Nat
                  /\ Cardinality(OfTeam(S, t)) < Wrap /\ Cardinality(OfTeam(S, t)) <= Cardinality(Player)
<1>1. ASSUME NEW t
      PROVE  /\ IsFiniteSet(OfTeam(S, t)) /\ Cardinality(OfTeam(S, t)) \in Nat
             /\ Cardinality(OfTeam(S, t)) <= Cardinality(Player)
  <2>1. OfTeam(S, t) \subseteq Player
    BY DEF OfTeam
  <2> QED BY <2>1, PlayersAssumption, FS_Subset, FS_CardinalityType
<1>2. Cardinality(Player) \in Nat /\ Cardinality(Player) < Wrap
  BY PlayersAssumption, BoundsAssumption, FS_CardinalityType
<1>3. \A n \in Nat : n <= Cardinality(Player) => n < Wrap
  BY <1>2, BoundsAssumption
<1> QED BY <1>1, <1>3

LEMMA OneLess ==
    ASSUME NEW S, S \subseteq Player, NEW p \in S
    PROVE  /\ Cardinality(OfTeam(S, TeamOf[p])) \in Nat \ {0}
           /\ Cardinality(OfTeam(S \ {p}, TeamOf[p])) = Cardinality(OfTeam(S, TeamOf[p])) - 1
           /\ \A t : t # TeamOf[p] => OfTeam(S \ {p}, t) = OfTeam(S, t)
<1> DEFINE F == OfTeam(S, TeamOf[p])
<1>1. IsFiniteSet(F) /\ p \in F /\ OfTeam(S \ {p}, TeamOf[p]) = F \ {p}
  BY TeamCounts DEF OfTeam
<1>2. \A t : t # TeamOf[p] => OfTeam(S \ {p}, t) = OfTeam(S, t)
  BY DEF OfTeam
<1> HIDE DEF F
<1>3. Cardinality(F \ {p}) = Cardinality(F) - 1 /\ Cardinality(F) \in Nat
  BY <1>1, FS_RemoveElement, FS_CardinalityType
<1>4. Cardinality(F) # 0
  BY <1>1, FS_EmptySet
<1> QED BY <1>1, <1>2, <1>3, <1>4 DEF F

LEMMA TwoCounts ==
    ASSUME NEW S, S \subseteq Player, NEW F, F \subseteq Player, S \cap F = {}
    PROVE  \A t : Cardinality(OfTeam(S \cup F, t)) = Cardinality(OfTeam(S, t)) + Cardinality(OfTeam(F, t))
<1>1. ASSUME NEW t
      PROVE  Cardinality(OfTeam(S \cup F, t)) = Cardinality(OfTeam(S, t)) + Cardinality(OfTeam(F, t))
  <2> DEFINE A == OfTeam(S, t)
             B == OfTeam(F, t)
  <2>1. OfTeam(S \cup F, t) = A \cup B /\ A \cap B = {}
    BY DEF OfTeam
  <2>2. IsFiniteSet(A) /\ IsFiniteSet(B) /\ Cardinality(A) \in Nat /\ Cardinality(B) \in Nat
    BY TeamCounts
  <2> HIDE DEF A, B
  <2>3. Cardinality(A \cup B) = Cardinality(A) + Cardinality(B) - Cardinality(A \cap B)
    BY <2>2, FS_Union
  <2>4. Cardinality(A \cap B) = 0
    BY <2>1, FS_EmptySet
  <2>5. Cardinality(A \cup B) = Cardinality(A) + Cardinality(B)
    BY <2>2, <2>3, <2>4
  <2> QED BY <2>1, <2>5 DEF A, B
<1> QED BY <1>1

\* An uint32 that is in its range.
LEMMA InRange ==
    /\ Wrap \in Nat \ {0}
    /\ \A n \in Nat : n < Wrap => n % Wrap = n
    /\ \A n \in Nat : (n + Wrap - 1) % Wrap \in 0..Wrap-1 /\ n % Wrap \in 0..Wrap-1
    /\ \A n \in Nat \ {0} : n < Wrap => (n + Wrap - 1) % Wrap = n - 1
<1>1. Wrap \in Nat /\ Wrap > 2 * MaxPlayersPerTeam /\ MaxPlayersPerTeam \in Nat
  BY BoundsAssumption, TeamSizeAssumption
<1>2. Wrap \in Nat \ {0}
  BY <1>1
<1>3. \A n \in Nat : n < Wrap => n % Wrap = n
  BY <1>2
<1>4. \A n \in Nat : (n + Wrap - 1) % Wrap \in 0..Wrap-1 /\ n % Wrap \in 0..Wrap-1
  BY <1>2
<1>5. ASSUME NEW n \in Nat \ {0}, n < Wrap
      PROVE  (n + Wrap - 1) % Wrap = n - 1
  <2>1. n - 1 \in 0..Wrap-1 /\ n + Wrap - 1 = (n - 1) + Wrap
    BY <1>2, <1>5
  <2>2. \A k \in 0..Wrap-1 : (k + Wrap) % Wrap = k
    BY <1>2
  <2> QED BY <2>1, <2>2
<1> QED BY <1>2, <1>3, <1>4, <1>5

LEMMA DecreasedFacts ==
    ASSUME NEW x \in BgRecs, NEW t \in Teams
    PROVE  LET y == Decreased(x, t) IN
           /\ y \in BgRecs
           /\ y.status = x.status /\ y.players = x.players /\ y.offline = x.offline
           /\ \A u \in Teams : u # t => y.invited[u] = x.invited[u]
           /\ x.invited[t] # 0 => y.invited[t] = x.invited[t] - 1
<1> DEFINE n == x.invited[t]
           c == (n + Wrap - 1) % Wrap
           v == [x.invited EXCEPT ![t] = c]
<1>1. n \in 0..Wrap-1 /\ x.invited \in [Teams -> 0..Wrap-1]
  <2>1. x.invited \in [Teams -> 0..Wrap-1]
    BY DEF BgRecs
  <2> QED BY <2>1
<1>2. c \in 0..Wrap-1 /\ (n # 0 => c = n - 1)
  <2>1. n \in Nat /\ n < Wrap
    <3> HIDE DEF n
    <3> QED BY <1>1, InRange
  <2> HIDE DEF n
  <2> QED BY <2>1, InRange
<1>3. Decreased(x, t) = [x EXCEPT !.invited = v]
  BY DEF Decreased, BgRecs
<1> HIDE DEF c, n
<1>4. v \in [Teams -> 0..Wrap-1] /\ v[t] = c /\ \A u \in Teams : u # t => v[u] = x.invited[u]
  BY <1>1, <1>2
<1> HIDE DEF v
<1>5. Decreased(x, t) = [status |-> x.status, invited |-> v, players |-> x.players, offline |-> x.offline]
  BY <1>3 DEF BgRecs
<1>6. x.status \in {"none", "join", "progress", "leave"} /\ x.players \in SUBSET Player /\ x.offline \in Seq(Player)
  BY DEF BgRecs
<1>7. Decreased(x, t) \in BgRecs
  BY <1>4, <1>5, <1>6 DEF BgRecs
<1> QED BY <1>2, <1>4, <1>5, <1>7 DEF n

-----------------------------------------------------------------------------
(* The queue.                                                                *)

\* A group without a player.
Pruned(g, p) == [g EXCEPT !.players = @ \ {p}]

LEMMA PrunedFacts ==
    ASSUME NEW g \in GroupRec, NEW p
    PROVE  /\ Pruned(g, p) \in [players : SUBSET Player, inst : 0..MaxInstances, stamp : Nat]
           /\ Pruned(g, p).players = g.players \ {p}
           /\ Pruned(g, p).inst = g.inst /\ Pruned(g, p).stamp = g.stamp
           /\ p \notin g.players => Pruned(g, p) = g
BY DEF Pruned, GroupRec

LEMMA WithoutGroups ==
    ASSUME queue \in Queues, NEW p
    PROVE  /\ QueueWithout(p) \in Queues
           /\ \A t \in Teams : In(QueueWithout(p), t) =
                  {h \in {Pruned(g, p) : g \in In(queue, t)} : h.players # {}}
<1> DEFINE X == [players : SUBSET Player, inst : 0..MaxInstances, stamp : Nat]
           groups(k, t) == [i \in DOMAIN queue[k][t] |-> Pruned(queue[k][t][i], p)]
           S(k, t) == {g \in Range(groups(k, t)) : g.players # {}}
<1>1. QueueWithout(p) = [k \in Kinds |-> [t \in Teams |-> Those(groups(k, t), S(k, t))]]
  BY DEF QueueWithout, Pruned
<1>2. ASSUME NEW k \in Kinds, NEW t \in Teams
      PROVE  /\ Those(groups(k, t), S(k, t)) \in Seq(GroupRec)
             /\ Range(Those(groups(k, t), S(k, t))) =
                    {h \in {Pruned(g, p) : g \in Range(queue[k][t])} : h.players # {}}
  <2> DEFINE s == queue[k][t]
             v == groups(k, t)
             K == S(k, t)
  <2>1. s \in Seq(GroupRec)
    BY DEF Queues
  <2>2. Len(s) \in Nat /\ DOMAIN s = 1..Len(s) /\ \A i \in 1..Len(s) : s[i] \in GroupRec
    BY <2>1
  <2>v. v = [i \in 1..Len(s) |-> Pruned(s[i], p)]
    BY <2>2
  <2> HIDE DEF v, s
  <2>3. v \in Seq(X) /\ Len(v) = Len(s)
    <3>1. \A i \in 1..Len(s) : Pruned(s[i], p) \in X
      BY <2>2, PrunedFacts
    <3> HIDE DEF X
    <3> QED BY <3>1, <2>2, <2>v
  <2>4. Range(v) = {Pruned(g, p) : g \in Range(s)}
    <3>1. Range(v) = {v[i] : i \in 1..Len(s)} /\ Range(s) = {s[i] : i \in 1..Len(s)}
      BY <2>1, <2>3, RangeOf
    <3> QED BY <3>1, <2>v
  <2>k. K = {g \in Range(v) : g.players # {}}
    BY DEF v
  <2> HIDE DEF K
  <2>5. Those(v, K) \in Seq(X \cap K) /\ Range(Those(v, K)) = Range(v) \cap K
    <3> HIDE DEF X
    <3> QED BY <2>3, ThoseFacts
  <2>6. X \cap K \subseteq GroupRec
    BY <2>k DEF GroupRec
  <2>7. Those(v, K) \in Seq(GroupRec)
    <3> HIDE DEF X
    <3> QED BY <2>5, <2>6, SeqLarger
  <2>8. Range(Those(v, K)) = {h \in {Pruned(g, p) : g \in Range(s)} : h.players # {}}
    BY <2>4, <2>5, <2>k
  <2> QED BY <2>7, <2>8 DEF v, s, K
<1> HIDE DEF groups, S
<1>3. QueueWithout(p) \in Queues
  BY <1>1, <1>2 DEF Queues
<1>4. ASSUME NEW t \in Teams
      PROVE  In(QueueWithout(p), t) = {h \in {Pruned(g, p) : g \in In(queue, t)} : h.players # {}}
  <2>1. /\ QueueWithout(p)["premade"][t] = Those(groups("premade", t), S("premade", t))
        /\ QueueWithout(p)["normal"][t] = Those(groups("normal", t), S("normal", t))
    BY <1>1 DEF Kinds
  <2>2. /\ Range(Those(groups("premade", t), S("premade", t))) =
              {h \in {Pruned(g, p) : g \in Range(queue["premade"][t])} : h.players # {}}
        /\ Range(Those(groups("normal", t), S("normal", t))) =
              {h \in {Pruned(g, p) : g \in Range(queue["normal"][t])} : h.players # {}}
    BY <1>2 DEF Kinds
  <2> QED BY <2>1, <2>2 DEF In
<1> QED BY <1>3, <1>4

\* The groups of another queue come of those of this one, without new players.
ComesOf(q2, q) ==
    \A t \in Teams : \A h \in In(q2, t) : \A x \in h.players :
        \E g \in In(q, t) : x \in g.players /\ h.inst = g.inst /\ h.stamp = g.stamp

LEMMA QueueWithoutFacts ==
    ASSUME queue \in Queues, OneGroup(queue), NEW p \in Player
    PROVE  /\ QueueWithout(p) \in Queues /\ OneGroup(QueueWithout(p))
           /\ ComesOf(QueueWithout(p), queue)
           /\ \A t \in Teams : \A h \in In(QueueWithout(p), t) : p \notin h.players
           /\ ~InQ(QueueWithout(p), p)
           /\ \A x \in Player \ {p} : InQ(QueueWithout(p), x) <=> InQ(queue, x)
<1> DEFINE q2 == QueueWithout(p)
<1>1. /\ q2 \in Queues
      /\ \A t \in Teams : In(q2, t) = {h \in {Pruned(g, p) : g \in In(queue, t)} : h.players # {}}
  BY WithoutGroups
<1> HIDE DEF q2
<1>2. \A t \in Teams : \A g \in In(queue, t) :
          /\ g \in GroupRec /\ Pruned(g, p).players = g.players \ {p}
          /\ Pruned(g, p).inst = g.inst /\ Pruned(g, p).stamp = g.stamp
  BY QueueFacts, PrunedFacts
<1>3. ASSUME NEW t \in Teams, NEW h \in In(q2, t)
      PROVE  \E g \in In(queue, t) : /\ h = Pruned(g, p) /\ h.players = g.players \ {p}
                                     /\ h.inst = g.inst /\ h.stamp = g.stamp
  BY <1>1, <1>2
<1>4. ASSUME NEW t \in Teams, NEW g \in In(queue, t), NEW x \in g.players, x # p
      PROVE  Pruned(g, p) \in In(q2, t) /\ x \in Pruned(g, p).players
  BY <1>1, <1>2, <1>4
<1>5. OneGroup(q2)
  <2> SUFFICES ASSUME NEW t \in Teams, NEW h \in In(q2, t), NEW x \in h.players
               PROVE  TeamOf[x] = t /\ \A h2 \in In(q2, t) : x \in h2.players => h2 = h
    BY DEF OneGroup
  <2>1. PICK g \in In(queue, t) : h = Pruned(g, p) /\ h.players = g.players \ {p}
    BY <1>3
  <2>2. TeamOf[x] = t
    BY <2>1 DEF OneGroup
  <2>3. ASSUME NEW h2 \in In(q2, t), x \in h2.players
        PROVE  h2 = h
    <3>1. PICK g2 \in In(queue, t) : h2 = Pruned(g2, p) /\ h2.players = g2.players \ {p}
      BY <1>3
    <3>2. g2 = g
      BY <2>1, <2>3, <3>1 DEF OneGroup
    <3> QED BY <2>1, <3>1, <3>2
  <2> QED BY <2>2, <2>3
<1>6. \A t \in Teams : \A h \in In(q2, t) : p \notin h.players
  BY <1>3
<1>7. ComesOf(q2, queue)
  BY <1>3 DEF ComesOf
<1>8. \A x \in Player : TeamOf[x] \in Teams
  BY PlayersAssumption
<1>9. ~InQ(q2, p)
  BY <1>6, <1>8 DEF InQ
<1>10. ASSUME NEW x \in Player \ {p}
       PROVE  InQ(q2, x) <=> InQ(queue, x)
  <2>1. InQ(q2, x) => InQ(queue, x)
    BY <1>3, <1>8 DEF InQ
  <2>2. InQ(queue, x) => InQ(q2, x)
    BY <1>4, <1>8 DEF InQ
  <2> QED BY <2>1, <2>2
<1> QED BY <1>1, <1>5, <1>6, <1>7, <1>9, <1>10 DEF q2

\* A new group.
LEMMA QueuedFacts ==
    ASSUME queue \in Queues, OneGroup(queue), NEW k \in Kinds, NEW t \in Teams,
           NEW S \in (SUBSET Player) \ {{}},
           \A x \in S : TeamOf[x] = t /\ ~InQ(queue, x)
    PROVE  /\ Queued(k, t, S) \in Queues /\ OneGroup(Queued(k, t, S))
           /\ \A u \in Teams : In(Queued(k, t, S), u) = In(queue, u) \cup (IF u = t THEN {Group(S)} ELSE {})
           /\ \A x \in Player : InQ(Queued(k, t, S), x) <=> x \in S \/ InQ(queue, x)
<1> DEFINE q2 == Queued(k, t, S)
           g0 == Group(S)
<1>1. g0 \in GroupRec /\ g0.players = S
  BY BoundsAssumption DEF Group, GroupRec
<1>2. \A j \in Kinds, u \in Teams : queue[j][u] \in Seq(GroupRec)
  BY DEF Queues
<1>q. queue \in [Kinds -> [Teams -> Seq(GroupRec)]]
  BY DEF Queues
<1> HIDE DEF g0
<1>3. Append(queue[k][t], g0) \in Seq(GroupRec) /\ Range(Append(queue[k][t], g0)) = Range(queue[k][t]) \cup {g0}
  BY <1>1, <1>2, RangeAppend
<1> DEFINE a == Append(queue[k][t], g0)
<1>4. q2 = [queue EXCEPT ![k][t] = a]
  BY DEF Queued, g0
<1>5. \A j \in Kinds, u \in Teams : q2[j][u] = IF j = k /\ u = t THEN a ELSE queue[j][u]
  BY <1>4, <1>q
<1>6. q2 \in Queues
  <2> HIDE DEF a
  <2>1. a \in Seq(GroupRec)
    BY <1>3 DEF a
  <2> QED BY <1>4, <1>q, <2>1 DEF Queues
<1> HIDE DEF q2
<1>7. \A u \in Teams : In(q2, u) = In(queue, u) \cup (IF u = t THEN {g0} ELSE {})
  <2>1. \A j \in Kinds, u \in Teams : Range(q2[j][u]) = Range(queue[j][u]) \cup (IF j = k /\ u = t THEN {g0} ELSE {})
    <3> HIDE DEF a
    <3>1. Range(a) = Range(queue[k][t]) \cup {g0}
      BY <1>3 DEF a
    <3> QED BY <1>5, <3>1
  <2>2. "premade" \in Kinds /\ "normal" \in Kinds /\ (k = "premade" \/ k = "normal")
    BY DEF Kinds
  <2> QED BY <2>1, <2>2 DEF In
<1>8. \A x \in Player : TeamOf[x] \in Teams
  BY PlayersAssumption
<1>9. OneGroup(q2)
  <2> SUFFICES ASSUME NEW u \in Teams, NEW h \in In(q2, u), NEW x \in h.players
               PROVE  TeamOf[x] = u /\ \A h2 \in In(q2, u) : x \in h2.players => h2 = h
    BY DEF OneGroup
  <2>0. \A u1 \in Teams : \A g \in In(queue, u1) : \A y \in g.players : y \in Player
    BY QueueFacts DEF GroupRec
  <2>1. CASE h \in In(queue, u)
    <3>1. TeamOf[x] = u /\ \A h2 \in In(queue, u) : x \in h2.players => h2 = h
      BY <2>1 DEF OneGroup
    <3>2. x \notin S
      BY <2>0, <2>1, <3>1 DEF InQ
    <3> QED BY <1>1, <1>7, <3>1, <3>2
  <2>2. CASE h \notin In(queue, u)
    <3>1. u = t /\ h = g0 /\ x \in S
      BY <1>1, <1>7, <2>2
    <3>2. TeamOf[x] = u /\ \A h2 \in In(queue, u) : x \notin h2.players
      BY <3>1 DEF InQ
    <3> QED BY <1>1, <1>7, <3>1, <3>2
  <2> QED BY <2>1, <2>2
<1>10. \A x \in Player : InQ(q2, x) <=> x \in S \/ InQ(queue, x)
  BY <1>1, <1>7, <1>8 DEF InQ
<1> QED BY <1>6, <1>7, <1>9, <1>10 DEF q2, g0

-----------------------------------------------------------------------------
(* Places that are taken and given up.                                       *)

LEMMA SameTakers ==
    ASSUME NEW q, NEW sl, NEW id, NEW pl, NEW bgs, NEW q2, NEW sl2, NEW id2, NEW pl2, NEW bgs2,
           \A b \in Instances, p \in Player :
               Taker(p, b, q2, sl2, id2, pl2, bgs2) <=> Taker(p, b, q, sl, id, pl, bgs)
    PROVE  TakersOf(q2, sl2, id2, pl2, bgs2) = TakersOf(q, sl, id, pl, bgs)
BY DEF TakersOf

\* A place is given up and the counter lowered for it.
LEMMA PlaceGivenUp ==
    ASSUME NEW T, NEW T2, NEW bgs, NEW bgs2, NEW mis, NEW mis2, NEW i \in Instances, NEW p \in Player,
           Exact(T, bgs, mis), \A b \in Instances : T[b] \subseteq Player,
           \A b \in Instances : bgs[b] \in BgRecs,
           bgs[i].status # "none", bgs2[i].invited = Decreased(bgs[i], TeamOf[p]).invited,
           \A b \in Instances \ {i} : bgs2[b].invited = bgs[b].invited /\ bgs2[b].status = bgs[b].status,
           p \in T[i], T2[i] = T[i] \ {p},
           \A b \in Instances \ {i} : T2[b] = T[b],
           mis \subseteq mis2
    PROVE  Exact(T2, bgs2, mis2)
<1> SUFFICES ASSUME NEW b \in Instances, bgs2[b].status # "none", b \notin mis2, NEW t \in Teams
             PROVE  bgs2[b].invited[t] = Cardinality(OfTeam(T2[b], t))
  BY DEF Exact
<1>t. TeamOf[p] \in Teams
  BY PlayersAssumption
<1>1. CASE b # i
  BY <1>1 DEF Exact
<1>2. CASE b = i
  <2>1. \A u \in Teams : bgs[i].invited[u] = Cardinality(OfTeam(T[i], u))
    BY <1>2 DEF Exact
  <2>2. /\ Cardinality(OfTeam(T[i], TeamOf[p])) \in Nat \ {0}
        /\ Cardinality(OfTeam(T[i] \ {p}, TeamOf[p])) = Cardinality(OfTeam(T[i], TeamOf[p])) - 1
        /\ \A u : u # TeamOf[p] => OfTeam(T[i] \ {p}, u) = OfTeam(T[i], u)
    BY OneLess
  <2>3. /\ \A u \in Teams : u # TeamOf[p] => bgs2[i].invited[u] = bgs[i].invited[u]
        /\ bgs[i].invited[TeamOf[p]] # 0 => bgs2[i].invited[TeamOf[p]] = bgs[i].invited[TeamOf[p]] - 1
    BY <1>t, DecreasedFacts
  <2>4. CASE t # TeamOf[p]
    <3>1. bgs2[i].invited[t] = bgs[i].invited[t]
      BY <2>3, <2>4
    <3>2. OfTeam(T2[i], t) = OfTeam(T[i], t)
      BY <2>2, <2>4
    <3> QED BY <2>1, <3>1, <3>2, <1>2
  <2>5. CASE t = TeamOf[p]
    <3>1. bgs[i].invited[t] # 0
      BY <2>1, <2>2, <2>5
    <3>2. bgs2[i].invited[t] = bgs[i].invited[t] - 1
      BY <2>3, <2>5, <3>1
    <3> QED BY <2>1, <2>2, <2>5, <3>2, <1>2
  <2> QED BY <2>4, <2>5
<1> QED BY <1>1, <1>2

\* Whose slot is cleared needs no place.
SlotsCleared(S, sl, sl2) == (\A x \in S : sl2[x] <= 0) /\ \A x \in Player \ S : sl2[x] = sl[x]
TakersKept(S, T, T2) == \A b \in Instances : \A x \in Player \ S : x \in T[b] => x \in T2[b]
StillExist(bgs, bgs2) == \A b \in Instances : bgs[b].status # "none" => bgs2[b].status # "none"

LEMMA SlotGivenUp ==
    ASSUME NEW T, NEW T2, NEW sl, NEW sl2, NEW bgs, NEW bgs2, NEW mis, NEW mis2, NEW S,
           SlotsTaken(T, sl, bgs, mis), sl2 \in Slots, mis \subseteq mis2,
           SlotsCleared(S, sl, sl2), TakersKept(S, T, T2), StillExist(bgs, bgs2)
    PROVE  SlotsTaken(T2, sl2, bgs2, mis2)
<1>0. /\ \A y \in S : sl2[y] <= 0
      /\ \A y \in Player \ S : sl2[y] = sl[y]
      /\ \A b \in Instances : \A y \in Player \ S : y \in T[b] => y \in T2[b]
      /\ \A b \in Instances : bgs[b].status # "none" => bgs2[b].status # "none"
  BY DEF SlotsCleared, TakersKept, StillExist
<1> SUFFICES ASSUME NEW x \in Player, sl2[x] > 0, sl2[x] \notin mis2
             PROVE  bgs2[sl2[x]].status # "none" /\ x \in T2[sl2[x]]
  BY DEF SlotsTaken
<1>1. sl2[x] \in Instances
  <2>1. sl2[x] \in NoSlot..MaxInstances
    BY DEF Slots
  <2> QED BY <2>1, BoundsAssumption DEF Instances, NoSlot
<1>2. x \notin S
  <2>1. ASSUME x \in S PROVE FALSE
    <3>1. sl2[x] <= 0 /\ sl2[x] > 0
      BY <2>1, <1>0
    <3>2. sl2[x] \in Nat
      BY <1>1 DEF Instances
    <3> HIDE DEF Slots
    <3>3. \A n \in Nat : ~(n <= 0 /\ n > 0)
      OBVIOUS
    <3> QED BY <3>1, <3>2, <3>3, Zenon
  <2> QED BY <2>1
<1> QED BY <1>0, <1>1, <1>2 DEF SlotsTaken

\* Where the waiting are, and where not.
LEMMA WaiterFacts ==
    ASSUME IInv
    PROVE  /\ \A p \in Player : InQ(queue, p) =>
                  /\ slot[p] \in {0, GroupOf(p).inst} /\ slot[p] # NoSlot
                  /\ bgId[p] = 0 /\ place[p] \in {"world", "travels"}
                  /\ GroupOf(p).inst \in 0..MaxInstances
           /\ \A p \in Player : slot[p] = NoSlot => ~InQ(queue, p)
           /\ \A b \in Instances : \A p \in bg[b].players : ~InQ(queue, p)
<1>1. ASSUME NEW p \in Player, InQ(queue, p)
      PROVE  /\ slot[p] \in {0, GroupOf(p).inst} /\ slot[p] # NoSlot
             /\ bgId[p] = 0 /\ place[p] \in {"world", "travels"}
             /\ GroupOf(p).inst \in 0..MaxInstances
  <2>1. GroupOf(p) \in In(queue, TeamOf[p]) /\ p \in GroupOf(p).players /\ TeamOf[p] \in Teams
    BY <1>1, Parts, QueueWords
  <2>2. Waiter(p, GroupOf(p), slot, removals, bgId, place)
    BY <2>1, Parts DEF Waiters
  <2>3. GroupOf(p) \in GroupRec
    BY <2>1, Parts, QueueFacts
  <2>4. GroupOf(p).inst \in 0..MaxInstances
    BY <2>3 DEF GroupRec
  <2>5. slot[p] # NoSlot
    BY <2>2, <2>4, BoundsAssumption DEF Waiter, NoSlot
  <2> QED BY <2>2, <2>4, <2>5 DEF Waiter
<1>2. \A b \in Instances : \A p \in bg[b].players : p \in Player /\ place[p] \in {"inside", "offlineInside"}
  BY Parts DEF MembersIn, BgRecs
<1> QED BY <1>1, <1>2

\* A number of a battleground.
LEMMA InstanceNumbers ==
    /\ \A b \in Instances : b \in Nat /\ b > 0 /\ b # 0 /\ b # NoSlot /\ b <= MaxInstances
    /\ \A n \in 0..MaxInstances : n \in Instances \/ n = 0
    /\ \A n \in NoSlot..MaxInstances : n \in Instances \/ n \in {0, NoSlot}
    /\ NoSlot \in NoSlot..MaxInstances /\ 0 \in NoSlot..MaxInstances /\ 0 \in 0..MaxInstances
    /\ \A n \in 0..MaxInstances : n \in NoSlot..MaxInstances
BY BoundsAssumption DEF Instances, NoSlot

-----------------------------------------------------------------------------
(* The steps.                                                                *)

LEMMA QueuingStep ==
    ASSUME IInv, NEW k \in Kinds, NEW t \in Teams, NEW S \in (SUBSET Player) \ {{}},
           \A x \in S : slot[x] = NoSlot /\ TeamOf[x] = t /\ Len(removals[x]) < MaxRemovals /\ ~Offline(x),
           queue' = Queued(k, t, S), slot' = [x \in Player |-> IF x \in S THEN 0 ELSE slot[x]],
           scheduled' \in BOOLEAN, UNCHANGED <<removals, playerVars, bgVars>>
    PROVE  IInv'
<1>u. removals' = removals /\ bgId' = bgId /\ place' = place /\ bg' = bg /\ freeSlots' = freeSlots
      /\ miscounted' = miscounted
  BY DEF playerVars, bgVars
<1>0. \A x \in S : ~InQ(queue, x)
  BY WaiterFacts
<1>1. \A x \in S : bgId[x] = 0 /\ place[x] \in {"world", "travels"}
  <2>1. ASSUME NEW x \in S
        PROVE  bgId[x] = 0 /\ place[x] \in {"world", "travels"}
    <3>1. slot[x] = NoSlot /\ bgId[x] \in 0..MaxInstances /\ place[x] \in Places /\ ~Offline(x)
      BY Parts
    <3>2. /\ place[x] \in {"ports", "inside"} => slot[x] = bgId[x] /\ bgId[x] \in Instances
          /\ place[x] = "world" => bgId[x] = 0
          /\ place[x] = "travels" => bgId[x] \in {0, slot[x]}
      BY Parts DEF Whereabouts
    <3>3. \A n \in 0..MaxInstances : n # NoSlot
      BY BoundsAssumption DEF NoSlot
    <3> QED BY <3>1, <3>2, <3>3 DEF Places, Offline
  <2> QED BY <2>1
<1>2. /\ queue' \in Queues /\ OneGroup(queue')
      /\ \A u \in Teams : In(queue', u) = In(queue, u) \cup (IF u = t THEN {Group(S)} ELSE {})
      /\ \A x \in Player : InQ(queue', x) <=> x \in S \/ InQ(queue, x)
  BY <1>0, Parts, QueuedFacts
<1>3. slot' \in Slots /\ \A x \in Player : slot'[x] = IF x \in S THEN 0 ELSE slot[x]
  BY Parts, InstanceNumbers DEF Slots
<1>4. TakersOf(queue', slot', bgId', place', bg') = TakersOf(queue, slot, bgId, place, bg)
  <2>1. \A b \in Instances : b # 0
    BY InstanceNumbers
  <2>2. ASSUME NEW b \in Instances, NEW p \in Player
        PROVE  Taker(p, b, queue', slot', bgId', place', bg') <=> Taker(p, b, queue, slot, bgId, place, bg)
    <3>1. InQ(queue', p) /\ slot'[p] = b <=> InQ(queue, p) /\ slot[p] = b
      BY <1>0, <1>2, <1>3, <2>1
    <3> QED BY <3>1, <1>u DEF Taker
  <2> QED BY <2>2, SameTakers
<1>5. Waiters(queue', slot', removals', bgId', place')
  <2> SUFFICES ASSUME NEW u \in Teams, NEW g \in In(queue', u), NEW x \in g.players
               PROVE  Waiter(x, g, slot', removals', bgId', place')
    BY DEF Waiters
  <2>1. CASE g \in In(queue, u)
    <3>1. x \in Player /\ TeamOf[x] = u
      BY <2>1, Parts, QueueFacts DEF OneGroup, GroupRec
    <3>2. x \notin S
      BY <2>1, <3>1, <1>0 DEF InQ
    <3>3. Waiter(x, g, slot, removals, bgId, place)
      BY <2>1, Parts DEF Waiters
    <3> QED BY <3>1, <3>2, <3>3, <1>3, <1>u DEF Waiter
  <2>2. CASE g \notin In(queue, u)
    <3>1. g = Group(S)
      BY <1>2, <2>2
    <3>2. x \in S /\ g.inst = 0
      BY <3>1 DEF Group
    <3>3. slot'[x] = 0 /\ bgId[x] = 0 /\ place[x] \in {"world", "travels"} /\ Len(removals[x]) < MaxRemovals
      BY <1>1, <1>3, <3>2
    <3> QED BY <3>2, <3>3, <1>u DEF Waiter
  <2> QED BY <2>1, <2>2
<1>6. Whereabouts(slot', bgId', place', bg')
  BY <1>1, <1>3, <1>u, Parts DEF Whereabouts
<1>7. SlotsTaken(TakersOf(queue', slot', bgId', place', bg'), slot', bg', miscounted')
  <2>1. SlotsTaken(TakersOf(queue, slot, bgId, place, bg), slot, bg, miscounted)
    BY Parts
  <2>2. \A x \in Player : slot'[x] > 0 => slot'[x] = slot[x]
    BY <1>3
  <2> QED BY <2>1, <2>2, <1>4, <1>u DEF SlotsTaken
<1> QED BY <1>2, <1>3, <1>4, <1>5, <1>6, <1>7, <1>u, Parts DEF IInv, Good

\* HandleBattlemasterJoinOpcode.
LEMMA JoinStep == ASSUME IInv, NEW p \in Player, Join(p) PROVE IInv'
<1>1. /\ slot[p] = NoSlot /\ Len(removals[p]) < MaxRemovals /\ ~Offline(p) /\ TeamOf[p] \in Teams
      /\ queue' = Queued("normal", TeamOf[p], {p}) /\ slot' = [slot EXCEPT ![p] = 0]
      /\ scheduled' \in BOOLEAN /\ UNCHANGED <<removals, playerVars, bgVars>>
  BY PlayersAssumption DEF Join, Offline
<1>2. slot' = [x \in Player |-> IF x \in {p} THEN 0 ELSE slot[x]]
  BY <1>1, Parts DEF Slots
<1> DEFINE S == {p}
<1>3. S \in (SUBSET Player) \ {{}} /\ "normal" \in Kinds
  BY DEF Kinds
<1>4. \A x \in S : slot[x] = NoSlot /\ TeamOf[x] = TeamOf[p] /\ Len(removals[x]) < MaxRemovals /\ ~Offline(x)
  BY <1>1
<1>5. queue' = Queued("normal", TeamOf[p], S) /\ slot' = [x \in Player |-> IF x \in S THEN 0 ELSE slot[x]]
  BY <1>1, <1>2
<1> HIDE DEF S
<1> QED BY <1>1, <1>3, <1>4, <1>5, QueuingStep

LEMMA JoinAsGroupStep ==
    ASSUME IInv, NEW p \in Player, NEW party \in Parties, JoinAsGroup(p, party) PROVE IInv'
<1> DEFINE online == {q \in party : ~Offline(q)}
           k == IF Cardinality(party) >= MinPlayersPerTeam THEN "premade" ELSE "normal"
<1>1. /\ p \in party /\ place[p] = "world"
      /\ \A q \in online : slot[q] = NoSlot /\ TeamOf[q] = TeamOf[p] /\ Len(removals[q]) < MaxRemovals
      /\ queue' = Queued(k, TeamOf[p], online) /\ slot' = [q \in Player |-> IF q \in online THEN 0 ELSE slot[q]]
      /\ scheduled' \in BOOLEAN /\ UNCHANGED <<removals, playerVars, bgVars>>
  BY DEF JoinAsGroup
<1>2. online \in (SUBSET Player) \ {{}} /\ k \in Kinds /\ TeamOf[p] \in Teams
  <2>1. p \in online
    BY <1>1 DEF Offline
  <2> QED BY <2>1, PlayersAssumption DEF Kinds
<1>3. \A x \in online : ~Offline(x)
  OBVIOUS
<1> HIDE DEF online, k
<1> QED BY <1>1, <1>2, <1>3, QueuingStep

\* Who gives up his place in the queue, and with it his invitation.
LEMMA GivingUp ==
    ASSUME IInv, NEW p \in Player, InQueue(p), place[p] = "world",
           queue' = QueueWithout(p), slot' = [slot EXCEPT ![p] = NoSlot], GivesUpPlace(p),
           freeSlots' = freeSlots, bgId' = bgId,
           NEW o \in {"world", "offline"}, place' = [place EXCEPT ![p] = o],
           removals' \in Removals, \A x \in Player \ {p} : removals'[x] = removals[x],
           scheduled' \in BOOLEAN
    PROVE  IInv'
<1> DEFINE i == GroupOf(p).inst
           T == TakersOf(queue, slot, bgId, place, bg)
           T2 == TakersOf(queue', slot', bgId', place', bg')
<1>1. /\ InQ(queue, p) /\ slot[p] \in {0, i} /\ i \in 0..MaxInstances /\ bgId[p] = 0
  BY Parts, QueueWords, WaiterFacts
<1>2. /\ queue' \in Queues /\ OneGroup(queue') /\ ComesOf(queue', queue)
      /\ \A t \in Teams : \A h \in In(queue', t) : p \notin h.players
      /\ ~InQ(queue', p)
      /\ \A x \in Player \ {p} : InQ(queue', x) <=> InQ(queue, x)
  BY Parts, QueueWithoutFacts
<1>3. /\ slot' \in Slots /\ slot'[p] = NoSlot /\ \A x \in Player \ {p} : slot'[x] = slot[x]
      /\ place' \in [Player -> Places] /\ place'[p] = o /\ \A x \in Player \ {p} : place'[x] = place[x]
  BY Parts, InstanceNumbers DEF Slots, Places
<1>4. Exists(i) <=> i \in Instances /\ bg[i].status # "none"
  BY DEF Exists
<1>5. /\ bg' = IF Exists(i) THEN [bg EXCEPT ![i] = Decreased(bg[i], TeamOf[p])] ELSE bg
      /\ miscounted' = IF Exists(i) /\ slot[p] # i THEN miscounted \cup {i} ELSE miscounted
  BY DEF GivesUpPlace
<1> HIDE DEF i
<1>6. /\ bg' \in [Instances -> BgRecs] /\ miscounted' \subseteq Instances /\ miscounted \subseteq miscounted'
      /\ \A b \in Instances : /\ bg'[b].status = bg[b].status /\ bg'[b].players = bg[b].players
                              /\ bg'[b].offline = bg[b].offline
                              /\ b # i \/ ~Exists(i) => bg'[b] = bg[b]
      /\ Exists(i) => bg'[i].invited = Decreased(bg[i], TeamOf[p]).invited
  <2>1. CASE Exists(i)
    <3> DEFINE y == Decreased(bg[i], TeamOf[p])
    <3>1. i \in Instances /\ bg[i] \in BgRecs /\ TeamOf[p] \in Teams
      BY <2>1, <1>4, Parts, QueueWords
    <3>2. y \in BgRecs /\ y.status = bg[i].status /\ y.players = bg[i].players /\ y.offline = bg[i].offline
      BY <3>1, DecreasedFacts
    <3>3. bg' = [bg EXCEPT ![i] = y]
      BY <1>5, <2>1
    <3> HIDE DEF y
    <3>4. bg' \in [Instances -> BgRecs] /\ bg'[i] = y /\ \A b \in Instances : b # i => bg'[b] = bg[b]
      BY <3>1, <3>2, <3>3, Parts
    <3>5. miscounted' \subseteq Instances /\ miscounted \subseteq miscounted'
      BY <1>5, <3>1, Parts
    <3> QED BY <2>1, <3>2, <3>4, <3>5 DEF y
  <2>2. CASE ~Exists(i)
    BY <2>2, <1>5, Parts
  <2> QED BY <2>1, <2>2
<1>7. /\ \A b \in Instances : ~Taker(p, b, queue', slot', bgId', place', bg')
      /\ \A b \in Instances : Taker(p, b, queue, slot, bgId, place, bg) <=> slot[p] = b
      /\ \A b \in Instances, x \in Player \ {p} :
             Taker(x, b, queue', slot', bgId', place', bg') <=> Taker(x, b, queue, slot, bgId, place, bg)
  <2>0. \A b \in Instances : p \notin bg[b].players
    BY <1>1, WaiterFacts
  <2>1. ASSUME NEW b \in Instances
        PROVE  /\ Taker(p, b, queue, slot, bgId, place, bg) <=> slot[p] = b
               /\ ~Taker(p, b, queue', slot', bgId', place', bg')
    BY <2>0, <1>1, <1>2, <1>3, <1>6 DEF Taker
  <2>2. ASSUME NEW b \in Instances, NEW x \in Player \ {p}
        PROVE  Taker(x, b, queue', slot', bgId', place', bg') <=> Taker(x, b, queue, slot, bgId, place, bg)
    BY <1>2, <1>3, <1>6 DEF Taker
  <2> QED BY <2>1, <2>2
<1>t. /\ \A b \in Instances : T[b] \subseteq Player
      /\ \A b \in Instances : T2[b] = T[b] \ {p}
      /\ \A b \in Instances : slot[p] = b => p \in T[b]
      /\ \A b \in Instances : slot[p] # b => T2[b] = T[b]
  <2>1. \A b \in Instances : /\ T[b] = {x \in Player : Taker(x, b, queue, slot, bgId, place, bg)}
                             /\ T2[b] = {x \in Player : Taker(x, b, queue', slot', bgId', place', bg')}
    BY DEF TakersOf
  <2> HIDE DEF T, T2
  <2>2. ASSUME NEW b \in Instances
        PROVE  /\ T[b] \subseteq Player /\ T2[b] = T[b] \ {p}
               /\ slot[p] = b => p \in T[b]
               /\ slot[p] # b => T2[b] = T[b]
    <3> DEFINE C(x) == Taker(x, b, queue, slot, bgId, place, bg)
               D(x) == Taker(x, b, queue', slot', bgId', place', bg')
    <3>1. ~D(p) /\ (C(p) <=> slot[p] = b) /\ \A x \in Player \ {p} : D(x) <=> C(x)
      BY <1>7
    <3>2. T[b] = {x \in Player : C(x)} /\ T2[b] = {x \in Player : D(x)}
      BY <2>1
    <3> HIDE DEF C, D
    <3> QED BY <3>1, <3>2
  <2> QED BY <2>2
<1>8. Exact(T, bg, miscounted) /\ SlotsTaken(T, slot, bg, miscounted)
  BY Parts
<1>9. Exact(T2, bg', miscounted')
  <2> HIDE DEF T, T2
  <2>1. CASE Exists(i) /\ slot[p] = i
    <3>1. p \in T[i] /\ T2[i] = T[i] \ {p} /\ i \in Instances /\ bg[i].status # "none"
      BY <2>1, <1>4, <1>t
    <3>2. \A b \in Instances \ {i} : T2[b] = T[b]
      BY <2>1, <1>t
    <3>3. \A b \in Instances \ {i} : bg'[b].invited = bg[b].invited /\ bg'[b].status = bg[b].status
      BY <1>6
    <3>4. bg'[i].invited = Decreased(bg[i], TeamOf[p]).invited
      BY <1>6, <2>1
    <3>5. \A b \in Instances : bg[b] \in BgRecs
      BY Parts
    <3>6. \A b \in Instances : T[b] \subseteq Player
      BY <1>t
    <3> QED BY <3>1, <3>2, <3>3, <3>4, <3>5, <3>6, <1>6, <1>8, PlaceGivenUp
  <2>2. CASE Exists(i) /\ slot[p] # i
    <3>1. \A b \in Instances : T2[b] = T[b]
      <4>1. \A b \in Instances : slot[p] # b
        BY <2>2, <1>1, InstanceNumbers
      <4> QED BY <4>1, <1>t
    <3>2. i \in miscounted'
      BY <1>5, <2>2
    <3>3. \A b \in Instances \ miscounted' : bg'[b].invited = bg[b].invited /\ bg'[b].status = bg[b].status
      BY <3>2, <1>6
    <3> QED BY <3>1, <3>3, <1>6, <1>8 DEF Exact
  <2>3. CASE ~Exists(i)
    <3>1. \A b \in Instances : bg[b].status # "none" => T2[b] = T[b]
      <4>1. \A b \in Instances : bg[b].status # "none" => slot[p] # b
        BY <2>3, <1>1, <1>4, InstanceNumbers
      <4> QED BY <4>1, <1>t
    <3> QED BY <3>1, <2>3, <1>5, <1>8 DEF Exact
  <2> QED BY <2>1, <2>2, <2>3
<1>10. SlotsTaken(T2, slot', bg', miscounted')
  <2> DEFINE S == {p}
  <2>1. SlotsCleared(S, slot, slot')
    BY <1>3 DEF NoSlot, SlotsCleared
  <2> HIDE DEF T, T2
  <2>2. TakersKept(S, T, T2)
    BY <1>t DEF TakersKept
  <2>3. StillExist(bg, bg')
    BY <1>6 DEF StillExist
  <2>4. SlotsTaken(T, slot, bg, miscounted) /\ slot' \in Slots /\ miscounted \subseteq miscounted'
    BY <1>3, <1>6, <1>8
  <2> HIDE DEF S
  <2> QED BY <2>1, <2>2, <2>3, <2>4, SlotGivenUp
<1> HIDE DEF T, T2
<1>11. Waiters(queue', slot', removals', bgId', place')
  <2> SUFFICES ASSUME NEW t \in Teams, NEW h \in In(queue', t), NEW x \in h.players
               PROVE  Waiter(x, h, slot', removals', bgId', place')
    BY DEF Waiters
  <2>1. PICK g \in In(queue, t) : x \in g.players /\ h.inst = g.inst /\ h.stamp = g.stamp
    BY <1>2 DEF ComesOf
  <2>2. x \in Player /\ x # p
    BY <2>1, <1>2, Parts, QueueFacts DEF GroupRec
  <2>3. Waiter(x, g, slot, removals, bgId, place)
    BY <2>1, Parts DEF Waiters
  <2>4. removals'[x] = removals[x] /\ slot'[x] = slot[x] /\ place'[x] = place[x] /\ bgId'[x] = bgId[x]
    BY <2>2, <1>3
  <2> QED BY <2>1, <2>3, <2>4 DEF Waiter
<1>12. Whereabouts(slot', bgId', place', bg')
  <2>1. /\ slot'[p] = NoSlot /\ place'[p] \in {"world", "offline"} /\ bgId'[p] = 0
    BY <1>1, <1>3
  <2> QED BY <2>1, <1>3, <1>6, Parts DEF Whereabouts
<1>13. \A b \in Instances : p \notin bg[b].players
  BY <1>1, WaiterFacts
<1>14. MembersIn(bgId', place', bg')
  <2>1. \A b \in Instances : bg[b].status = "none" => bg'[b] = bg[b]
    BY <1>4, <1>6
  <2>2. \A b \in Instances : \A x \in bg[b].players : x \in Player /\ x # p
    BY <1>13, Parts DEF BgRecs
  <2>3. \A b \in Instances : \A x \in bg'[b].players : x \in bg[b].players /\ place'[x] = place[x] /\ bgId'[x] = bgId[x]
    BY <2>2, <1>3, <1>6
  <2>4. MembersIn(bgId, place, bg)
    BY Parts
  <2>5. \A b \in Instances : bg'[b].status = "none" => bg'[b] = NoBg
    BY <2>1, <2>4, <1>6 DEF MembersIn
  <2> QED BY <2>3, <2>4, <2>5 DEF MembersIn
<1>15. Listed(place', bg')
  <2>2. \A b \in Instances : \A x \in bg[b].players : place'[x] = place[x]
    BY <1>3, <1>13, Parts DEF BgRecs
  <2> QED BY <2>2, <1>6, Parts DEF Listed
<1>16. FreeRunning(freeSlots', bg')
  <2>1. Range(freeSlots) \subseteq Instances
    BY Parts, RangeOf DEF FreeRunning
  <2> QED BY <2>1, <1>6, Parts DEF FreeRunning
<1> QED BY <1>2, <1>3, <1>6, <1>9, <1>10, <1>11, <1>12, <1>14, <1>15, <1>16, Parts DEF IInv, Good, T2

\* HandleBattleFieldPortOpcode: he declines, or waits no longer.
LEMMA LeaveQueueStep == ASSUME IInv, NEW p \in Player, LeaveQueue(p) PROVE IInv'
<1>1. /\ InQueue(p) /\ InWorld(p) /\ queue' = QueueWithout(p) /\ slot' = [slot EXCEPT ![p] = NoSlot]
      /\ GivesUpPlace(p) /\ freeSlots' = freeSlots /\ bgId' = bgId /\ place' = place
      /\ removals' = removals /\ scheduled' \in BOOLEAN
  BY DEF LeaveQueue, playerVars
<1>2. place[p] = "world"
  BY <1>1, WaiterFacts, Parts, QueueWords DEF InWorld
<1> DEFINE o == "world"
<1>3. o \in {"world", "offline"} /\ place' = [place EXCEPT ![p] = o]
  BY <1>1, <1>2, Parts
<1>4. removals' \in Removals /\ \A x \in Player \ {p} : removals'[x] = removals[x]
  BY <1>1, Parts
<1> HIDE DEF o
<1> QED BY <1>1, <1>2, <1>3, <1>4, GivingUp

\* BGQueueRemoveEvent::Execute.
LEMMA InviteExpiresStep == ASSUME IInv, NEW p \in Player, InviteExpires(p) PROVE IInv'
<1> DEFINE e == Head(removals[p])
           gone == slot[p] # NoSlot /\ IsPlayerInvited(p, e)
<1>1. /\ InWorld(p) /\ removals[p] # <<>> /\ removals' = [removals EXCEPT ![p] = Tail(@)]
      /\ freeSlots' = freeSlots /\ bgId' = bgId /\ place' = place
      /\ gone => /\ InQueue(p) /\ queue' = QueueWithout(p) /\ slot' = [slot EXCEPT ![p] = NoSlot]
                 /\ GivesUpPlace(p) /\ scheduled' = (scheduled \/ Running(e.inst))
      /\ ~gone => /\ queue' = queue /\ slot' = slot /\ bg' = bg /\ miscounted' = miscounted
                  /\ scheduled' = scheduled
  BY DEF InviteExpires, playerVars, IsPlayerInvited
<1>2. /\ removals[p] \in Seq(Events) /\ Len(removals[p]) <= MaxRemovals
      /\ Tail(removals[p]) \in Seq(Events) /\ Len(Tail(removals[p])) = Len(removals[p]) - 1
      /\ Range(removals[p]) = {e} \cup Range(Tail(removals[p]))
  <2>1. removals[p] \in Seq(Events) /\ Len(removals[p]) <= MaxRemovals
    BY Parts DEF Removals
  <2> QED BY <1>1, <2>1, RangeTail
<1>3. /\ removals' \in Removals /\ \A x \in Player \ {p} : removals'[x] = removals[x]
      /\ removals'[p] = Tail(removals[p])
  <2>1. removals \in [Player -> Seq(Events)] /\ \A x \in Player : Len(removals[x]) <= MaxRemovals
    BY Parts DEF Removals
  <2>2. Len(Tail(removals[p])) <= MaxRemovals
    BY <1>2, BoundsAssumption
  <2>3. removals' \in [Player -> Seq(Events)] /\ removals'[p] = Tail(removals[p])
        /\ \A x \in Player \ {p} : removals'[x] = removals[x]
    BY <1>1, <1>2, <2>1
  <2> QED BY <2>1, <2>2, <2>3 DEF Removals
<1> HIDE DEF gone
<1>4. CASE gone
  <2>1. place[p] = "world" /\ scheduled' \in BOOLEAN
    BY <1>1, <1>4, WaiterFacts, Parts, QueueWords DEF InWorld
  <2> DEFINE o == "world"
  <2>2. o \in {"world", "offline"} /\ place' = [place EXCEPT ![p] = o]
    BY <1>1, <2>1, Parts
  <2> HIDE DEF o
  <2> QED BY <1>1, <1>3, <1>4, <2>1, <2>2, GivingUp
<1>5. CASE ~gone
  <2>1. queue' = queue /\ slot' = slot /\ bg' = bg /\ miscounted' = miscounted /\ scheduled' = scheduled
    BY <1>1, <1>5
  <2>2. Waiters(queue', slot', removals', bgId', place')
    <3> SUFFICES ASSUME NEW t \in Teams, NEW g \in In(queue, t), NEW x \in g.players
                 PROVE  Waiter(x, g, slot, removals', bgId, place)
      BY <1>1, <2>1 DEF Waiters
    <3>1. Waiter(x, g, slot, removals, bgId, place)
      BY Parts DEF Waiters
    <3>2. CASE x # p
      <4>1. x \in Player /\ removals'[x] = removals[x]
        BY <3>2, <1>3, Parts, QueueFacts DEF GroupRec
      <4> QED BY <3>1, <4>1 DEF Waiter
    <3>3. CASE x = p
      <4>1. TeamOf[p] = t /\ g = GroupOf(p) /\ InQueue(p)
        <5>1. TeamOf[p] = t /\ \A h \in In(queue, t) : p \in h.players => h = g
          BY <3>3, Parts DEF OneGroup
        <5>2. InQ(queue, p)
          BY <3>3, <5>1 DEF InQ
        <5> QED BY <5>1, <5>2, Parts, QueueWords
      <4>2. [inst |-> g.inst, stamp |-> g.stamp] # e
        <5>1. slot[p] # NoSlot
          BY <4>1, WaiterFacts, QueueWords, Parts
        <5> QED BY <4>1, <5>1, <1>5 DEF gone, IsPlayerInvited, Invitation
      <4>3. slot[p] > 0 => [inst |-> g.inst, stamp |-> g.stamp] \in Range(removals'[p])
        BY <3>1, <3>3, <4>2, <1>2, <1>3 DEF Waiter
      <4>4. g.inst = 0 => Len(removals'[p]) < MaxRemovals
        <5>1. g.inst = 0 => Len(removals[p]) < MaxRemovals
          BY <3>1, <3>3 DEF Waiter
        <5>2. Len(removals[p]) \in Nat /\ Len(removals'[p]) = Len(removals[p]) - 1
          BY <1>2, <1>3
        <5> QED BY <5>1, <5>2, BoundsAssumption
      <4> QED BY <3>1, <3>3, <4>3, <4>4 DEF Waiter
    <3> QED BY <3>2, <3>3
  <2> QED BY <1>1, <1>3, <2>1, <2>2, Parts DEF IInv, Good
<1> QED BY <1>4, <1>5

\* The same handlers as LeaveQueue: he accepts.
LEMMA PortStep == ASSUME IInv, NEW p \in Player, Port(p) PROVE IInv'
<1> DEFINE i == GroupOf(p).inst
           T == TakersOf(queue, slot, bgId, place, bg)
<1>1. /\ InWorld(p) /\ InQueue(p) /\ slot[p] > 0 /\ Exists(i) /\ queue' = QueueWithout(p)
      /\ bgId' = [bgId EXCEPT ![p] = i] /\ place' = [place EXCEPT ![p] = "ports"]
      /\ slot' = slot /\ removals' = removals /\ bg' = bg /\ freeSlots' = freeSlots
      /\ miscounted' = miscounted /\ scheduled' = scheduled
  BY DEF Port, bgVars
<1>2. InQ(queue, p) /\ slot[p] = i /\ i \in Instances /\ place[p] \in {"world", "travels"} /\ bgId[p] = 0
  BY <1>1, WaiterFacts, QueueWords, Parts DEF Exists
<1> HIDE DEF i
<1>3. /\ queue' \in Queues /\ OneGroup(queue') /\ ComesOf(queue', queue)
      /\ \A t \in Teams : \A h \in In(queue', t) : p \notin h.players
      /\ ~InQ(queue', p)
      /\ \A x \in Player \ {p} : InQ(queue', x) <=> InQ(queue, x)
  BY <1>1, Parts, QueueWithoutFacts
<1>4. /\ bgId' \in [Player -> 0..MaxInstances] /\ bgId'[p] = i /\ \A x \in Player \ {p} : bgId'[x] = bgId[x]
      /\ place' \in [Player -> Places] /\ place'[p] = "ports" /\ \A x \in Player \ {p} : place'[x] = place[x]
  <2>1. i \in 0..MaxInstances
    BY <1>2, InstanceNumbers
  <2> QED BY <1>1, <2>1, Parts DEF Places
<1>5. TakersOf(queue', slot', bgId', place', bg') = T
  <2>1. ASSUME NEW b \in Instances, NEW x \in Player
        PROVE  Taker(x, b, queue', slot', bgId', place', bg') <=> Taker(x, b, queue, slot, bgId, place, bg)
    <3>1. CASE x = p
      BY <3>1, <1>1, <1>2, <1>3, <1>4 DEF Taker
    <3>2. CASE x # p
      BY <3>2, <1>1, <1>3, <1>4 DEF Taker
    <3> QED BY <3>1, <3>2
  <2> QED BY <2>1, SameTakers
<1>6. Waiters(queue', slot', removals', bgId', place')
  <2> SUFFICES ASSUME NEW t \in Teams, NEW h \in In(queue', t), NEW x \in h.players
               PROVE  Waiter(x, h, slot', removals', bgId', place')
    BY DEF Waiters
  <2>1. PICK g \in In(queue, t) : x \in g.players /\ h.inst = g.inst /\ h.stamp = g.stamp
    BY <1>3 DEF ComesOf
  <2>2. x \in Player /\ x # p
    BY <2>1, <1>3, Parts, QueueFacts DEF GroupRec
  <2>3. Waiter(x, g, slot, removals, bgId, place)
    BY <2>1, Parts DEF Waiters
  <2> QED BY <2>1, <2>2, <2>3, <1>1, <1>4 DEF Waiter
<1>7. Whereabouts(slot', bgId', place', bg')
  BY <1>1, <1>2, <1>4, Parts DEF Whereabouts
<1>8. \A b \in Instances : p \notin bg[b].players
  BY <1>2, WaiterFacts
<1>9. \A b \in Instances : \A x \in bg[b].players : x \in Player /\ bgId'[x] = bgId[x] /\ place'[x] = place[x]
  BY <1>4, <1>8, Parts DEF BgRecs
<1>10. MembersIn(bgId', place', bg')
  BY <1>1, <1>9, Parts DEF MembersIn
<1>11. Listed(place', bg')
  BY <1>1, <1>9, Parts DEF Listed
<1> QED BY <1>1, <1>3, <1>4, <1>5, <1>6, <1>7, <1>10, <1>11, Parts DEF IInv, Good

-----------------------------------------------------------------------------
(* The players and the battlegrounds.                                        *)

\* Who waits is left alone.
LEMMA WaitersKept ==
    ASSUME IInv, queue' = queue,
           \A x \in Player : InQ(queue, x) =>
               /\ slot'[x] = slot[x] /\ removals'[x] = removals[x]
               /\ bgId'[x] = 0 /\ place'[x] \in {"world", "travels"}
    PROVE  Waiters(queue', slot', removals', bgId', place')
<1> SUFFICES ASSUME NEW t \in Teams, NEW g \in In(queue, t), NEW x \in g.players
             PROVE  Waiter(x, g, slot', removals', bgId', place')
  BY DEF Waiters
<1>1. Waiter(x, g, slot, removals, bgId, place) /\ x \in Player /\ TeamOf[x] = t
  BY Parts, QueueFacts DEF Waiters, OneGroup, GroupRec
<1>2. InQ(queue, x)
  BY <1>1 DEF InQ
<1> QED BY <1>1, <1>2 DEF Waiter

\* What the place of a player tells.
LEMMA PlaceFacts ==
    ASSUME IInv, NEW p \in Player
    PROVE  /\ place[p] \in {"ports", "inside"} => slot[p] = bgId[p] /\ bgId[p] \in Instances
           /\ place[p] = "inside" => p \in bg[bgId[p]].players
           /\ Offline(p) => slot[p] = NoSlot
           /\ place[p] = "world" => bgId[p] = 0
           /\ InQ(queue, p) => place[p] \in {"world", "travels"} /\ bgId[p] = 0
           /\ \A b \in Instances : p \in bg[b].players => bgId[p] = b /\ place[p] \in {"inside", "offlineInside"}
BY Parts, WaiterFacts DEF Whereabouts, MembersIn, Offline

\* TeleportTo.
LEMMA ZoneStep == ASSUME IInv, NEW p \in Player, Zone(p) PROVE IInv'
<1>1. /\ place[p] = "world" /\ place' = [place EXCEPT ![p] = "travels"]
      /\ queue' = queue /\ slot' = slot /\ removals' = removals /\ bgId' = bgId
      /\ bg' = bg /\ freeSlots' = freeSlots /\ miscounted' = miscounted /\ scheduled' = scheduled
  BY DEF Zone, queueVars, bgVars
<1>2. bgId[p] = 0 /\ \A b \in Instances : p \notin bg[b].players
  BY <1>1, PlaceFacts
<1>3. place' \in [Player -> Places] /\ place'[p] = "travels" /\ \A x \in Player \ {p} : place'[x] = place[x]
  BY <1>1, Parts DEF Places
<1>4. TakersOf(queue', slot', bgId', place', bg') = TakersOf(queue, slot, bgId, place, bg)
  <2>1. ASSUME NEW b \in Instances, NEW x \in Player
        PROVE  Taker(x, b, queue', slot', bgId', place', bg') <=> Taker(x, b, queue, slot, bgId, place, bg)
    BY <1>1, <1>3 DEF Taker
  <2> QED BY <2>1, SameTakers
<1>5. Waiters(queue', slot', removals', bgId', place')
  <2>1. \A x \in Player : InQ(queue, x) => bgId[x] = 0 /\ place'[x] \in {"world", "travels"}
    BY <1>3, PlaceFacts
  <2> QED BY <1>1, <2>1, WaitersKept
<1>6. Whereabouts(slot', bgId', place', bg')
  BY <1>1, <1>2, <1>3, Parts DEF Whereabouts
<1>7. \A b \in Instances : \A x \in bg[b].players : x \in Player /\ place'[x] = place[x]
  BY <1>2, <1>3, Parts DEF BgRecs
<1>8. MembersIn(bgId', place', bg') /\ Listed(place', bg')
  BY <1>1, <1>7, Parts DEF MembersIn, Listed
<1> QED BY <1>1, <1>3, <1>4, <1>5, <1>6, <1>8, Parts DEF IInv, Good

\* HandleMoveWorldportAckOpcode elsewhere.
LEMMA ArriveOutsideStep == ASSUME IInv, NEW p \in Player, ArriveOutside(p) PROVE IInv'
<1>1. /\ place[p] = "travels" /\ place' = [place EXCEPT ![p] = "world"] /\ bgId' = [bgId EXCEPT ![p] = 0]
      /\ queue' = queue /\ slot' = slot /\ removals' = removals
      /\ bg' = bg /\ freeSlots' = freeSlots /\ miscounted' = miscounted /\ scheduled' = scheduled
  BY DEF ArriveOutside, queueVars, bgVars
<1>2. \A b \in Instances : p \notin bg[b].players
  BY <1>1, PlaceFacts
<1>3. /\ place' \in [Player -> Places] /\ place'[p] = "world" /\ \A x \in Player \ {p} : place'[x] = place[x]
      /\ bgId' \in [Player -> 0..MaxInstances] /\ bgId'[p] = 0 /\ \A x \in Player \ {p} : bgId'[x] = bgId[x]
  BY <1>1, Parts, InstanceNumbers DEF Places
<1>4. TakersOf(queue', slot', bgId', place', bg') = TakersOf(queue, slot, bgId, place, bg)
  <2>1. ASSUME NEW b \in Instances, NEW x \in Player
        PROVE  Taker(x, b, queue', slot', bgId', place', bg') <=> Taker(x, b, queue, slot, bgId, place, bg)
    BY <1>1, <1>3 DEF Taker
  <2> QED BY <2>1, SameTakers
<1>5. Waiters(queue', slot', removals', bgId', place')
  <2>1. \A x \in Player : InQ(queue, x) => bgId'[x] = 0 /\ place'[x] \in {"world", "travels"}
    BY <1>3, PlaceFacts
  <2> QED BY <1>1, <2>1, WaitersKept
<1>6. Whereabouts(slot', bgId', place', bg')
  BY <1>1, <1>3, Parts DEF Whereabouts
<1>7. \A b \in Instances : \A x \in bg[b].players : x \in Player /\ place'[x] = place[x] /\ bgId'[x] = bgId[x]
  BY <1>2, <1>3, Parts DEF BgRecs
<1>8. MembersIn(bgId', place', bg') /\ Listed(place', bg')
  BY <1>1, <1>7, Parts DEF MembersIn, Listed
<1> QED BY <1>1, <1>3, <1>4, <1>5, <1>6, <1>8, Parts DEF IInv, Good

\* HandleMoveWorldportAckOpcode at a battleground, which is there.
LEMMA ArriveInsideStep ==
    ASSUME IInv, NEW p \in Player, Arrive(p), Exists(bgId[p]) PROVE IInv'
<1> DEFINE b == bgId[p]
<1>1. /\ place[p] = "ports" /\ place' = [place EXCEPT ![p] = "inside"]
      /\ bg' = IF slot[p] = b THEN [bg EXCEPT ![b].players = @ \cup {p}] ELSE bg
      /\ queue' = queue /\ slot' = slot /\ removals' = removals /\ bgId' = bgId
      /\ freeSlots' = freeSlots /\ miscounted' = miscounted /\ scheduled' = scheduled
  BY DEF Arrive, queueVars
<1>2. slot[p] = b /\ b \in Instances /\ bg[b].status # "none"
  BY <1>1, PlaceFacts DEF Exists
<1>3. place' \in [Player -> Places] /\ place'[p] = "inside" /\ \A x \in Player \ {p} : place'[x] = place[x]
  BY <1>1, Parts DEF Places
<1> DEFINE y == [bg[b] EXCEPT !.players = @ \cup {p}]
<1>4. y \in BgRecs /\ y.status = bg[b].status /\ y.invited = bg[b].invited /\ y.offline = bg[b].offline
      /\ y.players = bg[b].players \cup {p}
  <2>1. bg[b] \in BgRecs
    BY <1>2, Parts
  <2> QED BY <2>1 DEF BgRecs
<1>5. bg' = [bg EXCEPT ![b] = y]
  BY <1>1, <1>2
<1> HIDE DEF y
<1>6. bg' \in [Instances -> BgRecs] /\ bg'[b] = y /\ \A c \in Instances \ {b} : bg'[c] = bg[c]
  BY <1>2, <1>4, <1>5, Parts
<1>7. \A c \in Instances : p \notin bg[c].players
  BY <1>1, PlaceFacts
<1>b. bgId[p] = b
  OBVIOUS
<1> HIDE DEF b
<1>8. TakersOf(queue', slot', bgId', place', bg') = TakersOf(queue, slot, bgId, place, bg)
  <2>1. ASSUME NEW c \in Instances, NEW x \in Player
        PROVE  Taker(x, c, queue', slot', bgId', place', bg') <=> Taker(x, c, queue, slot, bgId, place, bg)
    <3>1. ~InQ(queue, p)
      BY <1>1, PlaceFacts
    <3>2. CASE x = p
      <4>1. Taker(x, c, queue', slot', bgId', place', bg') <=> c = b
        BY <1>1, <1>3, <1>4, <1>6, <1>7, <1>b, <3>1, <3>2 DEF Taker
      <4>2. Taker(x, c, queue, slot, bgId, place, bg) <=> c = b
        BY <1>1, <1>7, <1>b, <3>1, <3>2 DEF Taker
      <4> QED BY <4>1, <4>2
    <3>3. CASE x # p
      <4>1. x \in bg'[c].players <=> x \in bg[c].players
        BY <1>4, <1>6, <3>3
      <4> QED BY <1>1, <1>3, <3>3, <4>1 DEF Taker
    <3> QED BY <3>2, <3>3
  <2> QED BY <2>1, SameTakers
<1>9. Waiters(queue', slot', removals', bgId', place')
  <2>1. \A x \in Player : InQ(queue, x) => x # p /\ bgId[x] = 0 /\ place[x] \in {"world", "travels"}
    BY <1>1, PlaceFacts
  <2> QED BY <1>1, <1>3, <2>1, WaitersKept
<1>s. \A c \in Instances : /\ bg'[c].status = bg[c].status /\ bg'[c].invited = bg[c].invited
                           /\ bg'[c].offline = bg[c].offline
                           /\ bg'[c].players = bg[c].players \cup (IF c = b THEN {p} ELSE {})
  BY <1>4, <1>6
<1>10. Whereabouts(slot', bgId', place', bg')
  <2> SUFFICES ASSUME NEW x \in Player
               PROVE  /\ place'[x] \in {"ports", "inside"} => slot[x] = bgId[x] /\ bgId[x] \in Instances
                      /\ place'[x] = "inside" => x \in bg'[bgId[x]].players
                      /\ place'[x] \in {"offline", "offlineInside"} => slot[x] = NoSlot
                      /\ place'[x] = "world" => bgId[x] = 0
                      /\ place'[x] = "travels" => bgId[x] \in {0, slot[x]}
    BY <1>1 DEF Whereabouts
  <2>1. CASE x = p
    BY <2>1, <1>2, <1>3, <1>s, <1>b
  <2>2. CASE x # p
    BY <2>2, <1>3, <1>s, Parts DEF Whereabouts
  <2> QED BY <2>1, <2>2
<1>11. MembersIn(bgId', place', bg')
  <2>1. \A c \in Instances : bg'[c].status = "none" => bg'[c] = NoBg
    BY <1>2, <1>6, <1>s, Parts DEF MembersIn
  <2>2. ASSUME NEW c \in Instances, NEW x \in bg'[c].players
        PROVE  bgId'[x] = c /\ place'[x] \in {"inside", "offlineInside"}
    <3>1. CASE x = p
      <4>1. c = b
        BY <3>1, <2>2, <1>7, <1>s
      <4> QED BY <3>1, <4>1, <1>1, <1>3, <1>b
    <3>2. CASE x # p
      <4>1. x \in bg[c].players /\ x \in Player
        BY <3>2, <2>2, <1>s, Parts DEF BgRecs
      <4> QED BY <3>2, <4>1, <1>1, <1>3, Parts DEF MembersIn
    <3> QED BY <3>1, <3>2
  <2> QED BY <2>1, <2>2 DEF MembersIn
<1>12. Listed(place', bg')
  <2> SUFFICES ASSUME NEW c \in Instances, bg[c].status \in {"join", "progress"}
               PROVE  /\ IsInjective(bg[c].offline)
                      /\ Range(bg[c].offline) = {x \in bg'[c].players : place'[x] \in {"offline", "offlineInside"}}
    BY <1>s DEF Listed
  <2>1. /\ IsInjective(bg[c].offline)
        /\ Range(bg[c].offline) = {x \in bg[c].players : place[x] \in {"offline", "offlineInside"}}
    BY Parts DEF Listed
  <2>2. \A x \in bg[c].players : place'[x] = place[x]
    BY <1>3, <1>7, Parts DEF BgRecs
  <2>3. {x \in bg'[c].players : place'[x] \in {"offline", "offlineInside"}}
            = {x \in bg[c].players : place[x] \in {"offline", "offlineInside"}}
    BY <2>2, <1>3, <1>s
  <2> QED BY <2>1, <2>3
<1>13. FreeRunning(freeSlots', bg')
  <2>1. Range(freeSlots) \subseteq Instances
    BY Parts, RangeOf DEF FreeRunning
  <2> QED BY <2>1, <1>1, <1>s, Parts DEF FreeRunning
<1>14. Exact(TakersOf(queue', slot', bgId', place', bg'), bg', miscounted')
  BY <1>1, <1>8, <1>s, Parts DEF Exact
<1>15. SlotsTaken(TakersOf(queue', slot', bgId', place', bg'), slot', bg', miscounted')
  <2>1. \A x \in Player : slot[x] > 0 => slot[x] \in Instances
    BY Parts, InstanceNumbers DEF Slots, NoSlot
  <2>2. SlotsTaken(TakersOf(queue, slot, bgId, place, bg), slot, bg, miscounted)
    BY Parts
  <2> QED BY <1>1, <1>8, <1>s, <2>1, <2>2 DEF SlotsTaken
<1> QED BY <1>1, <1>3, <1>6, <1>9, <1>10, <1>11, <1>12, <1>13, <1>14, <1>15, Parts DEF IInv, Good

\* HandleMoveWorldportAckOpcode at a battleground that is gone.
LEMMA ArriveNowhereStep ==
    ASSUME IInv, NEW p \in Player, Arrive(p), ~Exists(bgId[p]) PROVE IInv'
<1> DEFINE b == bgId[p]
           T == TakersOf(queue, slot, bgId, place, bg)
           T2 == TakersOf(queue', slot', bgId', place', bg')
<1>1. /\ place[p] = "ports" /\ place' = [place EXCEPT ![p] = "travels"] /\ bg' = bg
      /\ queue' = queue /\ slot' = slot /\ removals' = removals /\ bgId' = bgId
      /\ freeSlots' = freeSlots /\ miscounted' = miscounted /\ scheduled' = scheduled
  BY DEF Arrive, queueVars
<1>2. slot[p] = b /\ b \in Instances /\ bg[b].status = "none" /\ bgId[p] = b
  BY <1>1, PlaceFacts DEF Exists
<1>3. place' \in [Player -> Places] /\ place'[p] = "travels" /\ \A x \in Player \ {p} : place'[x] = place[x]
  BY <1>1, Parts DEF Places
<1>7. \A c \in Instances : p \notin bg[c].players
  BY <1>1, PlaceFacts
<1> HIDE DEF b
<1>8. \A c \in Instances, x \in Player : c # b \/ x # p =>
          (Taker(x, c, queue', slot', bgId', place', bg') <=> Taker(x, c, queue, slot, bgId, place, bg))
  BY <1>1, <1>2, <1>3 DEF Taker
<1>9. /\ \A c \in Instances \ {b} : T2[c] = T[c]
      /\ \A c \in Instances : \A x \in Player \ {p} : x \in T[c] => x \in T2[c]
  BY <1>8 DEF TakersOf
<1> HIDE DEF T, T2
<1>10. Exact(T, bg, miscounted) /\ SlotsTaken(T, slot, bg, miscounted)
  BY Parts DEF T
<1>11. Exact(T2, bg', miscounted')
  <2>1. \A c \in Instances : bg[c].status # "none" => T2[c] = T[c]
    BY <1>2, <1>9
  <2> QED BY <2>1, <1>1, <1>10 DEF Exact
<1>12. SlotsTaken(T2, slot', bg', miscounted')
  <2>1. \A x \in Player : slot[x] > 0 => slot[x] \in Instances
    BY Parts, InstanceNumbers DEF Slots, NoSlot
  <2>2. slot[p] \in miscounted \/ ~(slot[p] > 0)
    BY <1>2, <1>10 DEF SlotsTaken
  <2> QED BY <2>1, <2>2, <1>1, <1>9, <1>10 DEF SlotsTaken
<1>13. Waiters(queue', slot', removals', bgId', place')
  <2>1. \A x \in Player : InQ(queue, x) => x # p /\ bgId[x] = 0 /\ place[x] \in {"world", "travels"}
    BY <1>1, PlaceFacts
  <2> QED BY <1>1, <1>3, <2>1, WaitersKept
<1>14. Whereabouts(slot', bgId', place', bg')
  BY <1>1, <1>2, <1>3, Parts DEF Whereabouts
<1>15. \A c \in Instances : \A x \in bg[c].players : x \in Player /\ place'[x] = place[x]
  BY <1>7, <1>3, Parts DEF BgRecs
<1>16. MembersIn(bgId', place', bg') /\ Listed(place', bg')
  BY <1>1, <1>15, Parts DEF MembersIn, Listed
<1> QED BY <1>1, <1>3, <1>11, <1>12, <1>13, <1>14, <1>16, Parts DEF IInv, Good, T2

\* A member leaves, or is removed while he is offline (RemovePlayerAtLeave).
LEMMA MemberLeaves ==
    ASSUME IInv, NEW b \in Instances, NEW p \in bg[b].players, NEW off \in Seq(Player),
           bg[b].status \in {"join", "progress"} =>
               /\ IsInjective(off)
               /\ Range(off) = {x \in bg[b].players \ {p} : Offline(x)},
           bg' = [bg EXCEPT ![b] = WithoutMember([bg[b] EXCEPT !.offline = off], p)],
           freeSlots' = FreedSlots(b, p), queue' = queue, removals' = removals,
           miscounted' = miscounted, scheduled' \in BOOLEAN,
           slot' = [slot EXCEPT ![p] = NoSlot],
           bgId' \in [Player -> 0..MaxInstances], \A x \in Player \ {p} : bgId'[x] = bgId[x],
           place' \in [Player -> Places], \A x \in Player \ {p} : place'[x] = place[x],
           \/ place'[p] \in {"world", "travels"} /\ bgId'[p] = 0
           \/ place'[p] = "offlineInside"
    PROVE  IInv'
<1> DEFINE z == [bg[b] EXCEPT !.offline = off, !.players = @ \ {p}]
           y == Decreased(z, TeamOf[p])
           T == TakersOf(queue, slot, bgId, place, bg)
           T2 == TakersOf(queue', slot', bgId', place', bg')
<1>1. p \in Player /\ bg[b] \in BgRecs /\ TeamOf[p] \in Teams
  <2>1. bg[b] \in BgRecs
    BY Parts
  <2> QED BY <2>1, PlayersAssumption DEF BgRecs
<1>2. /\ bgId[p] = b /\ place[p] \in {"inside", "offlineInside"} /\ ~InQ(queue, p) /\ bg[b].status # "none"
  <2>1. bgId[p] = b /\ place[p] \in {"inside", "offlineInside"}
    BY <1>1, PlaceFacts
  <2>2. bg[b].status # "none"
    BY Parts DEF MembersIn, NoBg
  <2> QED BY <2>1, <2>2, <1>1, PlaceFacts
<1>3. z \in BgRecs /\ z.status = bg[b].status /\ z.invited = bg[b].invited /\ z.offline = off
      /\ z.players = bg[b].players \ {p}
  BY <1>1 DEF BgRecs
<1>4. WithoutMember([bg[b] EXCEPT !.offline = off], p) = y
  BY <1>1 DEF WithoutMember, BgRecs
<1> HIDE DEF z
<1>5. /\ y \in BgRecs /\ y.status = bg[b].status /\ y.offline = off /\ y.players = bg[b].players \ {p}
  BY <1>1, <1>3, DecreasedFacts
<1>6. y.invited = Decreased(bg[b], TeamOf[p]).invited
  BY <1>1, <1>3 DEF Decreased, BgRecs
<1> HIDE DEF y
<1>7. bg' \in [Instances -> BgRecs] /\ bg'[b] = y /\ \A c \in Instances \ {b} : bg'[c] = bg[c]
  BY <1>4, <1>5, Parts
<1>8. slot' \in Slots /\ slot'[p] = NoSlot /\ \A x \in Player \ {p} : slot'[x] = slot[x]
  BY <1>1, Parts, InstanceNumbers DEF Slots
<1>s. \A c \in Instances : /\ bg'[c].status = bg[c].status
                           /\ bg'[c].players = bg[c].players \ (IF c = b THEN {p} ELSE {})
  BY <1>5, <1>7
<1>9. \A c \in Instances \ {b} : p \notin bg[c].players
  BY <1>1, <1>2, PlaceFacts
<1>10. /\ \A c \in Instances : ~Taker(p, c, queue', slot', bgId', place', bg')
       /\ Taker(p, b, queue, slot, bgId, place, bg)
       /\ \A c \in Instances \ {b} : ~Taker(p, c, queue, slot, bgId, place, bg)
       /\ \A c \in Instances, x \in Player \ {p} :
             Taker(x, c, queue', slot', bgId', place', bg') <=> Taker(x, c, queue, slot, bgId, place, bg)
  <2>1. ASSUME NEW c \in Instances
        PROVE  ~Taker(p, c, queue', slot', bgId', place', bg')
    <3>1. ~InQ(queue', p)
      BY <1>2
    <3>2. place'[p] # "ports"
      OBVIOUS
    <3>3. p \notin bg'[c].players
      <4>1. CASE c = b
        BY <1>s, <4>1
      <4>2. CASE c # b
        BY <1>9, <1>s, <4>2
      <4> QED BY <4>1, <4>2
    <3> QED BY <3>1, <3>2, <3>3 DEF Taker
  <2>2. Taker(p, b, queue, slot, bgId, place, bg)
    BY DEF Taker
  <2>3. ASSUME NEW c \in Instances \ {b}
        PROVE  ~Taker(p, c, queue, slot, bgId, place, bg)
    BY <1>2, <1>9 DEF Taker
  <2>4. ASSUME NEW c \in Instances, NEW x \in Player \ {p}
        PROVE  Taker(x, c, queue', slot', bgId', place', bg') <=> Taker(x, c, queue, slot, bgId, place, bg)
    BY <1>8, <1>s DEF Taker
  <2> QED BY <2>1, <2>2, <2>3, <2>4
<1>11. /\ p \in T[b] /\ T2[b] = T[b] \ {p} /\ (\A c \in Instances : T[c] \subseteq Player)
       /\ \A c \in Instances \ {b} : T2[c] = T[c]
  <2>1. \A c \in Instances : /\ T[c] = {x \in Player : Taker(x, c, queue, slot, bgId, place, bg)}
                             /\ T2[c] = {x \in Player : Taker(x, c, queue', slot', bgId', place', bg')}
    BY DEF TakersOf
  <2> HIDE DEF T, T2
  <2>2. ASSUME NEW c \in Instances
        PROVE  /\ T[c] \subseteq Player /\ T2[c] = T[c] \ {p}
               /\ c = b => p \in T[c]
               /\ c # b => T2[c] = T[c]
    <3> DEFINE C(x) == Taker(x, c, queue, slot, bgId, place, bg)
               D(x) == Taker(x, c, queue', slot', bgId', place', bg')
    <3>1. ~D(p) /\ (C(p) <=> c = b) /\ \A x \in Player \ {p} : D(x) <=> C(x)
      BY <1>10
    <3>2. T[c] = {x \in Player : C(x)} /\ T2[c] = {x \in Player : D(x)}
      BY <2>1
    <3> HIDE DEF C, D
    <3> QED BY <1>1, <3>1, <3>2
  <2> QED BY <2>2
<1>12. Exact(T, bg, miscounted) /\ SlotsTaken(T, slot, bg, miscounted)
  BY Parts
<1> HIDE DEF T, T2
<1>13. Exact(T2, bg', miscounted')
  <2>3. \A c \in Instances \ {b} : bg'[c].invited = bg[c].invited /\ bg'[c].status = bg[c].status
    BY <1>7
  <2>4. bg'[b].invited = Decreased(bg[b], TeamOf[p]).invited
    BY <1>6, <1>7
  <2>5. \A c \in Instances : bg[c] \in BgRecs
    BY Parts
  <2>6. miscounted \subseteq miscounted'
    OBVIOUS
  <2>7. p \in T[b] /\ T2[b] = T[b] \ {p}
    BY <1>11
  <2>8. \A c \in Instances \ {b} : T2[c] = T[c]
    BY <1>11
  <2>9. \A c \in Instances : T[c] \subseteq Player
    BY <1>11
  <2>10. p \in Player /\ bg[b].status # "none" /\ Exact(T, bg, miscounted)
    BY <1>1, <1>2, <1>12
  <2> QED BY ONLY <2>10, b \in Instances, <2>3, <2>4, <2>5, <2>6, <2>7, <2>8, <2>9, PlaceGivenUp
<1>14. SlotsTaken(T2, slot', bg', miscounted')
  <2> DEFINE S == {p}
  <2>1. SlotsCleared(S, slot, slot')
    BY <1>8 DEF NoSlot, SlotsCleared
  <2>2. TakersKept(S, T, T2)
    BY <1>11 DEF TakersKept
  <2>3. StillExist(bg, bg')
    BY <1>s DEF StillExist
  <2>4. SlotsTaken(T, slot, bg, miscounted) /\ slot' \in Slots /\ miscounted \subseteq miscounted'
    BY <1>8, <1>12
  <2> HIDE DEF S
  <2> QED BY <2>1, <2>2, <2>3, <2>4, SlotGivenUp
<1>15. Waiters(queue', slot', removals', bgId', place')
  <2>1. \A x \in Player : InQ(queue, x) => x # p /\ bgId[x] = 0 /\ place[x] \in {"world", "travels"}
    BY <1>2, PlaceFacts
  <2> QED BY <1>8, <2>1, WaitersKept
<1>16. Whereabouts(slot', bgId', place', bg')
  <2> SUFFICES ASSUME NEW x \in Player
               PROVE  /\ place'[x] \in {"ports", "inside"} => slot'[x] = bgId'[x] /\ bgId'[x] \in Instances
                      /\ place'[x] = "inside" => x \in bg'[bgId'[x]].players
                      /\ place'[x] \in {"offline", "offlineInside"} => slot'[x] = NoSlot
                      /\ place'[x] = "world" => bgId'[x] = 0
                      /\ place'[x] = "travels" => bgId'[x] \in {0, slot'[x]}
    BY DEF Whereabouts
  <2>1. CASE x = p
    BY <2>1, <1>8
  <2>2. CASE x # p
    <3>1. slot'[x] = slot[x] /\ bgId'[x] = bgId[x] /\ place'[x] = place[x]
      BY <2>2, <1>8
    <3>2. /\ place[x] \in {"ports", "inside"} => slot[x] = bgId[x] /\ bgId[x] \in Instances
          /\ place[x] = "inside" => x \in bg[bgId[x]].players
          /\ place[x] \in {"offline", "offlineInside"} => slot[x] = NoSlot
          /\ place[x] = "world" => bgId[x] = 0
          /\ place[x] = "travels" => bgId[x] \in {0, slot[x]}
      BY Parts DEF Whereabouts
    <3>3. place[x] = "inside" => x \in bg'[bgId[x]].players
      BY <2>2, <3>2, <1>s
    <3> QED BY <3>1, <3>2, <3>3
  <2> QED BY <2>1, <2>2
<1>17. MembersIn(bgId', place', bg')
  <2>1. \A c \in Instances : bg'[c].status = "none" => bg'[c] = NoBg
    BY <1>2, <1>7, <1>s, Parts DEF MembersIn
  <2>2. ASSUME NEW c \in Instances, NEW x \in bg'[c].players
        PROVE  bgId'[x] = c /\ place'[x] \in {"inside", "offlineInside"}
    <3>1. x \in bg[c].players /\ (c = b => x # p)
      BY <2>2, <1>s
    <3>2. x # p /\ x \in Player
      <4>1. bg[c] \in BgRecs
        BY Parts
      <4> QED BY <3>1, <4>1, <1>9 DEF BgRecs
    <3>3. bgId[x] = c /\ place[x] \in {"inside", "offlineInside"}
      BY <3>1, Parts DEF MembersIn
    <3>4. bgId'[x] = bgId[x] /\ place'[x] = place[x]
      BY <3>2
    <3> QED BY <3>3, <3>4
  <2> QED BY <2>1, <2>2 DEF MembersIn
<1>18. Listed(place', bg')
  <2> SUFFICES ASSUME NEW c \in Instances, bg[c].status \in {"join", "progress"}
               PROVE  /\ IsInjective(bg'[c].offline)
                      /\ Range(bg'[c].offline) = {x \in bg'[c].players : place'[x] \in {"offline", "offlineInside"}}
    BY <1>s DEF Listed
  <2>1. \A x \in bg[c].players : x # p => place'[x] = place[x]
    BY Parts DEF BgRecs
  <2>2. CASE c = b
    <3>1. bg'[c].offline = off /\ bg'[c].players = bg[b].players \ {p}
      BY <2>2, <1>5, <1>7
    <3>2. IsInjective(off) /\ Range(off) = {x \in bg[b].players \ {p} : place[x] \in {"offline", "offlineInside"}}
      BY <2>2 DEF Offline
    <3>3. \A x \in bg[b].players \ {p} : place'[x] = place[x]
      BY <2>1, <2>2
    <3>4. {x \in bg[b].players \ {p} : place[x] \in {"offline", "offlineInside"}}
              = {x \in bg[b].players \ {p} : place'[x] \in {"offline", "offlineInside"}}
      BY <3>3
    <3> QED BY <3>1, <3>2, <3>4
  <2>3. CASE c # b
    <3>1. bg'[c] = bg[c] /\ \A x \in bg[c].players : place'[x] = place[x]
      BY <2>1, <2>3, <1>7, <1>9
    <3> QED BY <3>1, Parts DEF Listed
  <2> QED BY <2>2, <2>3
<1>19. FreeRunning(freeSlots', bg')
  <2>1. Range(freeSlots) \subseteq Instances /\ freeSlots \in Seq(Instances) /\ IsInjective(freeSlots)
        /\ \A c \in Range(freeSlots) : bg[c].status \in {"join", "progress"}
    BY Parts, RangeOf DEF FreeRunning
  <2>2. CASE Running(b) /\ b \notin Range(freeSlots)
    <3>1. freeSlots' = <<b>> \o freeSlots
      BY <2>2 DEF FreedSlots
    <3>2. freeSlots' \in Seq(Instances) /\ IsInjective(freeSlots') /\ Range(freeSlots') = {b} \cup Range(freeSlots)
      BY <3>1, <2>1, <2>2, InjectiveFirst
    <3> QED BY <3>2, <2>1, <2>2, <1>s DEF FreeRunning, Running
  <2>3. CASE ~(Running(b) /\ b \notin Range(freeSlots))
    <3>1. freeSlots' = freeSlots
      BY <2>3 DEF FreedSlots
    <3> QED BY <3>1, <2>1, <1>s DEF FreeRunning
  <2> QED BY <2>2, <2>3
<1> QED BY <1>7, <1>8, <1>13, <1>14, <1>15, <1>16, <1>17, <1>18, <1>19, Parts DEF IInv, Good, T2

\* Player::LeaveBattleground.
LEMMA LeaveBattlegroundStep == ASSUME IInv, NEW p \in Player, LeaveBattleground(p) PROVE IInv'
<1> DEFINE b == bgId[p]
           off == bg[b].offline
<1>1. /\ place[p] = "inside" /\ Exists(b) /\ bg' = [bg EXCEPT ![b] = WithoutMember(@, p)]
      /\ freeSlots' = FreedSlots(b, p) /\ scheduled' = (scheduled \/ (p \in bg[b].players /\ Running(b)))
      /\ miscounted' = miscounted /\ slot' = [slot EXCEPT ![p] = NoSlot] /\ bgId' = [bgId EXCEPT ![p] = 0]
      /\ place' = [place EXCEPT ![p] = "travels"] /\ queue' = queue /\ removals' = removals
  BY DEF LeaveBattleground, RemovePlayerAtLeave
<1>2. b \in Instances /\ p \in bg[b].players /\ bg[b] \in BgRecs
  BY <1>1, PlaceFacts, Parts DEF Exists
<1> HIDE DEF b
<1>3. off \in Seq(Player) /\ [bg[b] EXCEPT !.offline = off] = bg[b]
  BY <1>2 DEF BgRecs
<1>4. bg[b].status \in {"join", "progress"} =>
          IsInjective(off) /\ Range(off) = {x \in bg[b].players \ {p} : Offline(x)}
  <2>1. bg[b].status \in {"join", "progress"} =>
            IsInjective(off) /\ Range(off) = {x \in bg[b].players : place[x] \in {"offline", "offlineInside"}}
    BY <1>2, Parts DEF Listed
  <2>2. {x \in bg[b].players : place[x] \in {"offline", "offlineInside"}} = {x \in bg[b].players \ {p} : Offline(x)}
    BY <1>1 DEF Offline
  <2> QED BY <2>1, <2>2
<1> HIDE DEF off
<1>5. bg' = [bg EXCEPT ![b] = WithoutMember([bg[b] EXCEPT !.offline = off], p)]
  BY <1>1, <1>3
<1>6. scheduled' \in BOOLEAN
  BY <1>1, Parts
<1>7. /\ bgId' \in [Player -> 0..MaxInstances] /\ bgId'[p] = 0
      /\ place' \in [Player -> Places] /\ place'[p] \in {"world", "travels"}
  BY <1>1, Parts, InstanceNumbers DEF Places
<1>8. (\A x \in Player \ {p} : bgId'[x] = bgId[x]) /\ \A x \in Player \ {p} : place'[x] = place[x]
  BY <1>1, Parts
<1> QED BY <1>1, <1>2, <1>3, <1>4, <1>5, <1>6, <1>7, <1>8, MemberLeaves

\* _ProcessOfflineQueue.
LEMMA OfflineExpiresStep == ASSUME IInv, NEW b \in Instances, OfflineExpires(b) PROVE IInv'
<1> DEFINE p == Head(bg[b].offline)
           off == Tail(bg[b].offline)
<1>1. /\ bg[b].status = "progress" /\ bg[b].offline # <<>> /\ p \in bg[b].players
      /\ bg' = [bg EXCEPT ![b] = WithoutMember([bg[b] EXCEPT !.offline = off], p)]
      /\ freeSlots' = FreedSlots(b, p) /\ scheduled' = TRUE /\ miscounted' = miscounted
      /\ queue' = queue /\ slot' = slot /\ removals' = removals /\ bgId' = bgId /\ place' = place
  BY DEF OfflineExpires, queueVars, playerVars
<1>2. bg[b] \in BgRecs
  BY Parts
<1>3. /\ off \in Seq(Player) /\ p \in Player /\ Range(bg[b].offline) = {p} \cup Range(off)
      /\ IsInjective(bg[b].offline) => IsInjective(off) /\ p \notin Range(off)
  BY <1>1, <1>2, RangeTail DEF BgRecs
<1>4. IsInjective(bg[b].offline) /\ Range(bg[b].offline) = {x \in bg[b].players : Offline(x)}
  BY <1>1, Parts DEF Listed, Offline
<1> HIDE DEF p, off
<1>5. Offline(p) /\ IsInjective(off) /\ Range(off) = {x \in bg[b].players \ {p} : Offline(x)}
  BY <1>3, <1>4
<1>6. place[p] = "offlineInside" /\ slot[p] = NoSlot
  BY <1>1, <1>3, <1>5, PlaceFacts DEF Offline
<1>7. slot' = [slot EXCEPT ![p] = NoSlot]
  BY <1>1, <1>3, <1>6, Parts DEF Slots
<1>8. bgId' \in [Player -> 0..MaxInstances] /\ place' \in [Player -> Places] /\ place'[p] = "offlineInside"
  BY <1>1, <1>6, Parts
<1>9. (\A x \in Player \ {p} : bgId'[x] = bgId[x]) /\ \A x \in Player \ {p} : place'[x] = place[x]
  BY <1>1
<1>10. scheduled' \in BOOLEAN
  BY <1>1
<1> QED BY <1>1, <1>3, <1>5, <1>7, <1>8, <1>9, <1>10, MemberLeaves

\* LoadFromDB, where the battleground he was in is over, or not his any more.
LEMMA LoginOutsideStep ==
    ASSUME IInv, NEW p \in Player, Login(p), ~(place[p] = "offlineInside" /\ p \in bg[bgId[p]].players
                                                /\ Exists(bgId[p]) /\ bg[bgId[p]].status # "leave")
    PROVE  IInv'
<1> DEFINE b == bgId[p]
           member == Exists(b) /\ p \in bg[b].players
<1>1. /\ Offline(p) /\ place' = [place EXCEPT ![p] = "world"] /\ bgId' = [bgId EXCEPT ![p] = 0]
      /\ slot' = slot /\ queue' = queue /\ removals' = removals
      /\ IF place[p] = "offlineInside" /\ member THEN RemovePlayerAtLeave(p, b)
         ELSE UNCHANGED <<bgVars, scheduled>>
  BY DEF Login
<1>2. slot[p] = NoSlot
  BY <1>1, PlaceFacts
<1>3. /\ place' \in [Player -> Places] /\ place'[p] = "world" /\ \A x \in Player \ {p} : place'[x] = place[x]
      /\ bgId' \in [Player -> 0..MaxInstances] /\ bgId'[p] = 0 /\ \A x \in Player \ {p} : bgId'[x] = bgId[x]
  BY <1>1, Parts, InstanceNumbers DEF Places
<1>4. CASE place[p] = "offlineInside" /\ member
  <2> DEFINE off == bg[b].offline
  <2>1. /\ bg' = [bg EXCEPT ![b] = WithoutMember(@, p)] /\ freeSlots' = FreedSlots(b, p)
        /\ scheduled' = (scheduled \/ (p \in bg[b].players /\ Running(b))) /\ miscounted' = miscounted
    BY <1>1, <1>4 DEF RemovePlayerAtLeave
  <2>2. b \in Instances /\ p \in bg[b].players /\ bg[b] \in BgRecs /\ bg[b].status = "leave"
    BY <1>4, Parts DEF Exists
  <2> HIDE DEF b
  <2>3. off \in Seq(Player) /\ [bg[b] EXCEPT !.offline = off] = bg[b]
    BY <2>2 DEF BgRecs
  <2> HIDE DEF off
  <2>4. bg' = [bg EXCEPT ![b] = WithoutMember([bg[b] EXCEPT !.offline = off], p)]
    BY <2>1, <2>3
  <2>5. scheduled' \in BOOLEAN
    BY <2>1, Parts
  <2>6. slot' = [slot EXCEPT ![p] = NoSlot]
    BY <1>1, <1>2, Parts DEF Slots
  <2>7. bg[b].status \in {"join", "progress"} =>
            IsInjective(off) /\ Range(off) = {x \in bg[b].players \ {p} : Offline(x)}
    BY <2>2
  <2>8. (\A x \in Player \ {p} : bgId'[x] = bgId[x]) /\ \A x \in Player \ {p} : place'[x] = place[x]
    BY <1>3
  <2> QED BY <1>1, <1>3, <2>1, <2>2, <2>3, <2>4, <2>5, <2>6, <2>7, <2>8, MemberLeaves
<1>5. CASE ~(place[p] = "offlineInside" /\ member)
  <2>1. bg' = bg /\ freeSlots' = freeSlots /\ miscounted' = miscounted /\ scheduled' = scheduled
    BY <1>1, <1>5 DEF bgVars
  <2>2. ASSUME NEW c \in Instances
        PROVE  p \notin bg[c].players
    <3> SUFFICES ASSUME p \in bg[c].players PROVE FALSE
      OBVIOUS
    <3>1. bgId[p] = c /\ place[p] = "offlineInside"
      BY <1>1, PlaceFacts DEF Offline
    <3>2. bg[c].status # "none"
      BY Parts DEF MembersIn, NoBg
    <3> QED BY <3>1, <3>2, <1>5 DEF Exists
  <2>3. TakersOf(queue', slot', bgId', place', bg') = TakersOf(queue, slot, bgId, place, bg)
    <3>1. ASSUME NEW c \in Instances, NEW x \in Player
          PROVE  Taker(x, c, queue', slot', bgId', place', bg') <=> Taker(x, c, queue, slot, bgId, place, bg)
      BY <1>1, <1>3, <2>1 DEF Taker, Offline
    <3> QED BY <3>1, SameTakers
  <2>4. Waiters(queue', slot', removals', bgId', place')
    <3>1. \A x \in Player : InQ(queue, x) => bgId'[x] = 0 /\ place'[x] \in {"world", "travels"}
      BY <1>3, PlaceFacts
    <3> QED BY <1>1, <3>1, WaitersKept
  <2>5. Whereabouts(slot', bgId', place', bg')
    BY <1>1, <1>2, <1>3, <2>1, Parts DEF Whereabouts
  <2>6. \A c \in Instances : \A x \in bg[c].players : x \in Player /\ place'[x] = place[x] /\ bgId'[x] = bgId[x]
    BY <2>2, <1>3, Parts DEF BgRecs
  <2>7. MembersIn(bgId', place', bg') /\ Listed(place', bg')
    BY <2>1, <2>6, Parts DEF MembersIn, Listed
  <2> QED BY <1>1, <1>3, <2>1, <2>3, <2>4, <2>5, <2>7, Parts DEF IInv, Good
<1> QED BY <1>4, <1>5

LEMMA SlotNumbers == IInv => \A x \in Player : slot[x] > 0 => slot[x] \in Instances
BY Parts, InstanceNumbers DEF Slots, NoSlot

\* A member goes offline or comes back.
LEMMA MemberFlips ==
    ASSUME IInv, NEW b \in Instances, NEW p \in Player, p \in bg[b].players,
           NEW o \in {"inside", "offlineInside"}, place' = [place EXCEPT ![p] = o],
           NEW n \in NoSlot..MaxInstances, slot' = [slot EXCEPT ![p] = n],
           n = IF o = "inside" THEN b ELSE NoSlot,
           NEW off \in Seq(Player), bg' = [bg EXCEPT ![b].offline = off],
           bg[b].status \in {"join", "progress"} =>
               /\ IsInjective(off)
               /\ Range(off) = {x \in bg[b].players : place'[x] \in {"offline", "offlineInside"}},
           removals' \in Removals, \A x \in Player \ {p} : removals'[x] = removals[x],
           queue' = queue, bgId' = bgId, freeSlots' = freeSlots, miscounted' = miscounted,
           scheduled' \in BOOLEAN
    PROVE  IInv'
<1> DEFINE y == [bg[b] EXCEPT !.offline = off]
<1>1. /\ bgId[p] = b /\ place[p] \in {"inside", "offlineInside"} /\ ~InQ(queue, p) /\ bg[b].status # "none"
  <2>1. bgId[p] = b /\ place[p] \in {"inside", "offlineInside"}
    BY PlaceFacts
  <2>2. bg[b].status # "none"
    BY Parts DEF MembersIn, NoBg
  <2> QED BY <2>1, <2>2, PlaceFacts
<1>2. y \in BgRecs /\ y.status = bg[b].status /\ y.invited = bg[b].invited /\ y.players = bg[b].players
      /\ y.offline = off
  <2>1. bg[b] \in BgRecs
    BY Parts
  <2> QED BY <2>1 DEF BgRecs
<1>3. bg' = [bg EXCEPT ![b] = y]
  OBVIOUS
<1> HIDE DEF y
<1>4. bg' \in [Instances -> BgRecs] /\ bg'[b] = y /\ \A c \in Instances \ {b} : bg'[c] = bg[c]
  BY <1>2, <1>3, Parts
<1>5. \A c \in Instances : /\ bg'[c].status = bg[c].status /\ bg'[c].invited = bg[c].invited
                           /\ bg'[c].players = bg[c].players
  BY <1>2, <1>4
<1>6. /\ slot' \in Slots /\ slot'[p] = n /\ \A x \in Player \ {p} : slot'[x] = slot[x]
      /\ place' \in [Player -> Places] /\ place'[p] = o /\ \A x \in Player \ {p} : place'[x] = place[x]
  BY Parts DEF Slots, Places
<1>7. TakersOf(queue', slot', bgId', place', bg') = TakersOf(queue, slot, bgId, place, bg)
  <2>1. ASSUME NEW c \in Instances, NEW x \in Player
        PROVE  Taker(x, c, queue', slot', bgId', place', bg') <=> Taker(x, c, queue, slot, bgId, place, bg)
    <3>1. CASE x = p
      BY <3>1, <1>1, <1>5, <1>6 DEF Taker
    <3>2. CASE x # p
      BY <3>2, <1>5, <1>6 DEF Taker
    <3> QED BY <3>1, <3>2
  <2> QED BY ONLY <2>1, SameTakers
<1>8. Waiters(queue', slot', removals', bgId', place')
  <2>1. \A x \in Player : InQ(queue, x) => x # p /\ bgId[x] = 0 /\ place[x] \in {"world", "travels"}
    BY <1>1, PlaceFacts
  <2> QED BY <1>6, <2>1, WaitersKept
<1>9. Whereabouts(slot', bgId', place', bg')
  <2> SUFFICES ASSUME NEW x \in Player
               PROVE  /\ place'[x] \in {"ports", "inside"} => slot'[x] = bgId[x] /\ bgId[x] \in Instances
                      /\ place'[x] = "inside" => x \in bg'[bgId[x]].players
                      /\ place'[x] \in {"offline", "offlineInside"} => slot'[x] = NoSlot
                      /\ place'[x] = "world" => bgId[x] = 0
                      /\ place'[x] = "travels" => bgId[x] \in {0, slot'[x]}
    BY DEF Whereabouts
  <2>1. CASE x = p
    BY <2>1, <1>1, <1>5, <1>6
  <2>2. CASE x # p
    <3>1. slot'[x] = slot[x] /\ place'[x] = place[x]
      BY <2>2, <1>6
    <3>2. /\ place[x] \in {"ports", "inside"} => slot[x] = bgId[x] /\ bgId[x] \in Instances
          /\ place[x] = "inside" => x \in bg[bgId[x]].players
          /\ place[x] \in {"offline", "offlineInside"} => slot[x] = NoSlot
          /\ place[x] = "world" => bgId[x] = 0
          /\ place[x] = "travels" => bgId[x] \in {0, slot[x]}
      BY Parts DEF Whereabouts
    <3>3. place[x] = "inside" => x \in bg'[bgId[x]].players
      BY <3>2, <1>5
    <3> QED BY <3>1, <3>2, <3>3
  <2> QED BY <2>1, <2>2
<1>10. MembersIn(bgId', place', bg')
  <2>1. \A c \in Instances : bg'[c].status = "none" => bg'[c] = NoBg
    BY <1>1, <1>4, <1>5, Parts DEF MembersIn
  <2>2. ASSUME NEW c \in Instances, NEW x \in bg'[c].players
        PROVE  bgId'[x] = c /\ place'[x] \in {"inside", "offlineInside"}
    <3>1. x \in bg[c].players /\ x \in Player
      <4>1. bg[c] \in BgRecs
        BY Parts
      <4> QED BY <2>2, <4>1, <1>5 DEF BgRecs
    <3>2. bgId[x] = c /\ place[x] \in {"inside", "offlineInside"}
      BY <3>1, Parts DEF MembersIn
    <3> QED BY <3>1, <3>2, <1>6
  <2> QED BY <2>1, <2>2 DEF MembersIn
<1>11. Listed(place', bg')
  <2> SUFFICES ASSUME NEW c \in Instances, bg[c].status \in {"join", "progress"}
               PROVE  /\ IsInjective(bg'[c].offline)
                      /\ Range(bg'[c].offline) = {x \in bg[c].players : place'[x] \in {"offline", "offlineInside"}}
    BY <1>5 DEF Listed
  <2>1. CASE c = b
    BY <2>1, <1>2, <1>4
  <2>2. CASE c # b
    <3>1. ASSUME NEW x \in bg[c].players PROVE place'[x] = place[x]
      <4>1. x \in Player
        <5>1. bg[c] \in BgRecs
          BY Parts
        <5> QED BY <5>1 DEF BgRecs
      <4>2. x # p
        BY <1>1, <2>2, <4>1, PlaceFacts
      <4> QED BY <4>1, <4>2, <1>6
    <3>2. bg'[c] = bg[c]
      BY <2>2, <1>4
    <3> QED BY <3>1, <3>2, Parts DEF Listed
  <2> QED BY <2>1, <2>2
<1>12. FreeRunning(freeSlots', bg')
  <2>1. Range(freeSlots) \subseteq Instances
    BY Parts, RangeOf DEF FreeRunning
  <2> QED BY <2>1, <1>5, Parts DEF FreeRunning
<1>13. Exact(TakersOf(queue', slot', bgId', place', bg'), bg', miscounted')
  BY <1>5, <1>7, Parts DEF Exact
<1>14. SlotsTaken(TakersOf(queue', slot', bgId', place', bg'), slot', bg', miscounted')
  <2> DEFINE T == TakersOf(queue, slot, bgId, place, bg)
  <2>1. p \in T[b]
    <3>1. Taker(p, b, queue, slot, bgId, place, bg)
      BY DEF Taker
    <3> QED BY ONLY <3>1, b \in Instances, p \in Player DEF TakersOf, T
  <2>2. SlotsTaken(T, slot, bg, miscounted)
    BY Parts
  <2>3. \A x \in Player : slot[x] > 0 => slot[x] \in Instances
    BY SlotNumbers
  <2> HIDE DEF T
  <2> SUFFICES ASSUME NEW x \in Player, slot'[x] > 0, slot'[x] \notin miscounted
               PROVE  bg'[slot'[x]].status # "none" /\ x \in T[slot'[x]]
    BY <1>7 DEF SlotsTaken, T
  <2>4. CASE x = p
    <3>1. n = b
      BY <2>4, <1>6 DEF NoSlot
    <3> QED BY <2>1, <2>4, <3>1, <1>1, <1>5, <1>6
  <2>5. CASE x # p
    BY <2>5, <2>2, <2>3, <1>5, <1>6 DEF SlotsTaken
  <2> QED BY <2>4, <2>5
<1> QED BY <1>4, <1>6, <1>8, <1>9, <1>10, <1>11, <1>12, <1>13, <1>14, Parts DEF IInv, Good

\* LoadFromDB, where he is back in his battleground.
LEMMA LoginInsideStep ==
    ASSUME IInv, NEW p \in Player, Login(p), place[p] = "offlineInside", p \in bg[bgId[p]].players,
           Exists(bgId[p]), bg[bgId[p]].status # "leave"
    PROVE  IInv'
<1> DEFINE b == bgId[p]
           S == Player \ {p}
           off == Those(bg[b].offline, S)
           o == "inside"
<1>1. /\ place' = [place EXCEPT ![p] = o] /\ slot' = [slot EXCEPT ![p] = b]
      /\ bg' = [bg EXCEPT ![b] = Returned(@, p)]
      /\ bgId' = bgId /\ freeSlots' = freeSlots /\ miscounted' = miscounted /\ scheduled' = scheduled
      /\ queue' = queue /\ removals' = removals
  BY DEF Login
<1>2. b \in Instances /\ p \in bg[b].players /\ bg[b] \in BgRecs /\ b \in NoSlot..MaxInstances
      /\ bg[b].status \in {"join", "progress"}
  <2>1. b \in Instances /\ bg[b].status # "none"
    BY DEF Exists
  <2>2. bg[b] \in BgRecs
    BY <2>1, Parts
  <2> QED BY <2>1, <2>2, InstanceNumbers DEF BgRecs
<1>3. Returned(bg[b], p) = [bg[b] EXCEPT !.offline = off]
  BY <1>2 DEF Returned, BgRecs
<1>pl. place'[p] = o /\ \A x \in Player \ {p} : place'[x] = place[x]
  BY <1>1, Parts
<1> HIDE DEF b, S
<1>4. /\ off \in Seq(Player \cap S) /\ Range(off) = Range(bg[b].offline) \cap S
      /\ IsInjective(bg[b].offline) => IsInjective(off)
  BY <1>2, ThoseFacts DEF BgRecs
<1> HIDE DEF off
<1>5. off \in Seq(Player)
  BY <1>4, SeqLarger
<1>6. bg' = [bg EXCEPT ![b].offline = off]
  BY <1>1, <1>2, <1>3
<1>7. IsInjective(off) /\ Range(off) = {x \in bg[b].players : place'[x] \in {"offline", "offlineInside"}}
  <2>1. IsInjective(bg[b].offline)
        /\ Range(bg[b].offline) = {x \in bg[b].players : place[x] \in {"offline", "offlineInside"}}
    BY <1>2, Parts DEF Listed
  <2>2. Range(off) = {x \in bg[b].players : x # p /\ place[x] \in {"offline", "offlineInside"}}
    BY <2>1, <1>2, <1>4 DEF S, BgRecs
  <2>3. \A x \in bg[b].players : (x # p /\ place[x] \in {"offline", "offlineInside"})
                                     <=> place'[x] \in {"offline", "offlineInside"}
    BY <1>2, <1>pl DEF BgRecs
  <2> QED BY <2>1, <2>2, <2>3, <1>4
<1>8. o \in {"inside", "offlineInside"} /\ b = IF o = "inside" THEN b ELSE NoSlot
  OBVIOUS
<1>9. removals' \in Removals /\ (\A x \in Player \ {p} : removals'[x] = removals[x]) /\ scheduled' \in BOOLEAN
  BY <1>1, Parts
<1> HIDE DEF o
<1> QED BY <1>1, <1>2, <1>5, <1>6, <1>7, <1>8, <1>9, MemberFlips

LEMMA LoginStep == ASSUME IInv, NEW p \in Player, Login(p) PROVE IInv'
BY LoginInsideStep, LoginOutsideStep

\* LogoutPlayer.
LEMMA LogoutStep == ASSUME IInv, NEW p \in Player, Logout(p) PROVE IInv'
<1>1. /\ InWorld(p) /\ slot' = [slot EXCEPT ![p] = NoSlot] /\ removals' = [removals EXCEPT ![p] = <<>>]
      /\ bgId' = bgId /\ freeSlots' = freeSlots /\ scheduled' = scheduled
  BY DEF Logout
<1>2. removals' \in Removals /\ (\A x \in Player \ {p} : removals'[x] = removals[x]) /\ scheduled' \in BOOLEAN
  <2>1. <<>> \in Seq(Events) /\ Len(<<>>) = 0
    OBVIOUS
  <2> QED BY <1>1, <2>1, Parts, BoundsAssumption DEF Removals
<1>3. CASE place[p] = "inside"
  <2> DEFINE b == bgId[p]
             off == Append(bg[b].offline, p)
             o == "offlineInside"
  <2>1. /\ place' = [place EXCEPT ![p] = o] /\ queue' = queue /\ miscounted' = miscounted
        /\ bg' = IF Exists(b) THEN [bg EXCEPT ![b].offline = Append(@, p)] ELSE bg
    BY <1>3 DEF Logout
  <2>2. b \in Instances /\ p \in bg[b].players /\ bg[b] \in BgRecs
    <3>1. b \in Instances /\ p \in bg[b].players
      BY <1>3, PlaceFacts
    <3> QED BY <3>1, Parts
  <2>3. Exists(b)
    BY <2>2, Parts DEF MembersIn, NoBg, Exists
  <2>pl. place'[p] = o /\ \A x \in Player \ {p} : place'[x] = place[x]
    BY <2>1, Parts
  <2> HIDE DEF b
  <2>4. bg' = [bg EXCEPT ![b].offline = off]
    BY <2>1, <2>2, <2>3
  <2>5. off \in Seq(Player) /\ Range(off) = Range(bg[b].offline) \cup {p}
    BY <2>2, RangeAppend DEF BgRecs
  <2>6. bg[b].status \in {"join", "progress"} =>
            IsInjective(off) /\ Range(off) = {x \in bg[b].players : place'[x] \in {"offline", "offlineInside"}}
    <3> SUFFICES ASSUME bg[b].status \in {"join", "progress"}
                 PROVE  IsInjective(off) /\ Range(off) = {x \in bg[b].players : place'[x] \in {"offline", "offlineInside"}}
      OBVIOUS
    <3>1. IsInjective(bg[b].offline)
          /\ Range(bg[b].offline) = {x \in bg[b].players : place[x] \in {"offline", "offlineInside"}}
      BY <2>2, Parts DEF Listed
    <3>2. p \notin Range(bg[b].offline)
      BY <3>1, <1>3
    <3>3. IsInjective(off)
      BY <2>2, <3>1, <3>2, InjectiveAppend DEF BgRecs
    <3>4. \A x \in bg[b].players : place'[x] \in {"offline", "offlineInside"}
                                       <=> x = p \/ place[x] \in {"offline", "offlineInside"}
      BY <2>2, <2>pl DEF BgRecs
    <3> QED BY <2>2, <2>5, <3>1, <3>3, <3>4
  <2> HIDE DEF off
  <2> DEFINE n == NoSlot
  <2>7. o \in {"inside", "offlineInside"} /\ n \in NoSlot..MaxInstances /\ n = IF o = "inside" THEN b ELSE NoSlot
    BY InstanceNumbers
  <2>8. slot' = [slot EXCEPT ![p] = n]
    BY <1>1
  <2> HIDE DEF o, n
  <2> QED BY <1>1, <1>2, <2>1, <2>2, <2>4, <2>5, <2>6, <2>7, <2>8, MemberFlips
<1>4. CASE place[p] # "inside" /\ slot[p] # NoSlot /\ InQueue(p)
  <2> DEFINE o == "offline"
  <2>1. place' = [place EXCEPT ![p] = o] /\ queue' = QueueWithout(p) /\ GivesUpPlace(p)
        /\ o \in {"world", "offline"} /\ place[p] = "world"
    BY <1>1, <1>4 DEF Logout, InWorld
  <2> HIDE DEF o
  <2> QED BY <1>1, <1>2, <1>4, <2>1, GivingUp
<1>5. CASE place[p] # "inside" /\ ~(slot[p] # NoSlot /\ InQueue(p))
  <2>1. /\ place' = [place EXCEPT ![p] = "offline"] /\ queue' = queue /\ bg' = bg /\ miscounted' = miscounted
        /\ place[p] = "world"
    BY <1>1, <1>5 DEF Logout, InWorld
  <2>2. ~InQ(queue, p) /\ bgId[p] = 0 /\ \A c \in Instances : p \notin bg[c].players
    BY <1>5, <2>1, WaiterFacts, PlaceFacts, QueueWords, Parts
  <2>3. /\ place' \in [Player -> Places] /\ place'[p] = "offline" /\ \A x \in Player \ {p} : place'[x] = place[x]
        /\ slot' \in Slots /\ slot'[p] = NoSlot /\ \A x \in Player \ {p} : slot'[x] = slot[x]
    BY <1>1, <2>1, Parts, InstanceNumbers DEF Places, Slots
  <2>4. TakersOf(queue', slot', bgId', place', bg') = TakersOf(queue, slot, bgId, place, bg)
    <3>1. ASSUME NEW c \in Instances, NEW x \in Player
          PROVE  Taker(x, c, queue', slot', bgId', place', bg') <=> Taker(x, c, queue, slot, bgId, place, bg)
      <4>1. CASE x = p
        BY <4>1, <1>1, <2>1, <2>2, <2>3 DEF Taker
      <4>2. CASE x # p
        BY <4>2, <1>1, <2>1, <2>3 DEF Taker
      <4> QED BY <4>1, <4>2
    <3> QED BY <3>1, SameTakers
  <2>5. Waiters(queue', slot', removals', bgId', place')
    <3>1. \A x \in Player : InQ(queue, x) => x # p /\ bgId[x] = 0 /\ place[x] \in {"world", "travels"}
      BY <2>2, PlaceFacts
    <3> QED BY <1>1, <1>2, <2>1, <2>3, <3>1, WaitersKept
  <2>6. Whereabouts(slot', bgId', place', bg')
    BY <1>1, <2>1, <2>2, <2>3, Parts DEF Whereabouts
  <2>7. \A c \in Instances : \A x \in bg[c].players : x \in Player /\ place'[x] = place[x]
    BY <2>2, <2>3, Parts DEF BgRecs
  <2>8. MembersIn(bgId', place', bg') /\ Listed(place', bg')
    BY <1>1, <2>1, <2>7, Parts DEF MembersIn, Listed
  <2>9. SlotsTaken(TakersOf(queue', slot', bgId', place', bg'), slot', bg', miscounted')
    <3>1. \A x \in Player : slot'[x] > 0 => slot'[x] = slot[x]
      BY <2>3 DEF NoSlot
    <3>2. SlotsTaken(TakersOf(queue, slot, bgId, place, bg), slot, bg, miscounted)
      BY Parts
    <3> QED BY <2>1, <2>4, <3>1, <3>2 DEF SlotsTaken
  <2> QED BY <1>1, <1>2, <2>1, <2>3, <2>4, <2>5, <2>6, <2>8, <2>9, Parts DEF IInv, Good
<1> QED BY <1>3, <1>4, <1>5

-----------------------------------------------------------------------------
(* Battleground::Update.                                                     *)

\* The battlegrounds with free slots, without one.
LEMMA FreeWithout ==
    ASSUME IInv, NEW b \in Instances, NEW fr, fr = Those(freeSlots, Instances \ {b})
    PROVE  /\ fr \in Seq(Instances) /\ IsInjective(fr)
           /\ Range(fr) \subseteq Instances \ {b}
           /\ \A c \in Range(fr) : bg[c].status \in {"join", "progress"}
<1> DEFINE S == Instances \ {b}
<1>1. /\ freeSlots \in Seq(Instances) /\ IsInjective(freeSlots) /\ Range(freeSlots) \subseteq Instances
      /\ \A c \in Range(freeSlots) : bg[c].status \in {"join", "progress"}
  BY Parts, RangeOf DEF FreeRunning
<1>2. fr = Those(freeSlots, S)
  OBVIOUS
<1> HIDE DEF S
<1>3. fr \in Seq(Instances \cap S) /\ Range(fr) = Range(freeSlots) \cap S /\ IsInjective(fr)
  BY ONLY <1>1, <1>2, ThoseFacts
<1>4. fr \in Seq(Instances)
  BY <1>3, SeqLarger
<1> QED BY <1>1, <1>3, <1>4 DEF S

\* A battleground starts or is over.
LEMMA StatusStep ==
    ASSUME IInv, NEW b \in Instances, NEW st \in {"progress", "leave"},
           bg[b].status \in {"join", "progress"}, bg' = [bg EXCEPT ![b].status = st],
           freeSlots' = IF st = "leave" THEN Those(freeSlots, Instances \ {b}) ELSE freeSlots,
           queue' = queue, slot' = slot, removals' = removals, bgId' = bgId, place' = place,
           miscounted' = miscounted, scheduled' = scheduled
    PROVE  IInv'
<1> DEFINE y == [bg[b] EXCEPT !.status = st]
<1>1. y \in BgRecs /\ y.status = st /\ y.invited = bg[b].invited /\ y.players = bg[b].players
      /\ y.offline = bg[b].offline
  <2>1. bg[b] \in BgRecs
    BY Parts
  <2> QED BY <2>1 DEF BgRecs
<1>2. bg' = [bg EXCEPT ![b] = y]
  OBVIOUS
<1> HIDE DEF y
<1>3. bg' \in [Instances -> BgRecs] /\ bg'[b] = y /\ \A c \in Instances \ {b} : bg'[c] = bg[c]
  BY <1>1, <1>2, Parts
<1>4. \A c \in Instances : /\ bg'[c].status = (IF c = b THEN st ELSE bg[c].status)
                           /\ bg'[c].invited = bg[c].invited
                           /\ bg'[c].players = bg[c].players /\ bg'[c].offline = bg[c].offline
  BY <1>1, <1>3
<1>5. TakersOf(queue', slot', bgId', place', bg') = TakersOf(queue, slot, bgId, place, bg)
  <2>1. ASSUME NEW c \in Instances, NEW x \in Player
        PROVE  Taker(x, c, queue', slot', bgId', place', bg') <=> Taker(x, c, queue, slot, bgId, place, bg)
    BY <1>4 DEF Taker
  <2> QED BY ONLY <2>1, SameTakers
<1>6. Whereabouts(slot', bgId', place', bg')
  <2>1. Whereabouts(slot, bgId, place, bg)
    BY Parts
  <2> QED BY <2>1, <1>4 DEF Whereabouts
<1>7. MembersIn(bgId', place', bg')
  <2>1. MembersIn(bgId, place, bg)
    BY Parts
  <2> QED BY <2>1, <1>3, <1>4 DEF MembersIn
<1>8. Listed(place', bg')
  <2>1. Listed(place, bg)
    BY Parts
  <2> QED BY <2>1, <1>4 DEF Listed
<1>9. FreeRunning(freeSlots', bg')
  <2>1. CASE st = "leave"
    <3>1. freeSlots' = Those(freeSlots, Instances \ {b})
      BY <2>1
    <3>2. /\ freeSlots' \in Seq(Instances) /\ IsInjective(freeSlots')
          /\ Range(freeSlots') \subseteq Instances \ {b}
          /\ \A c \in Range(freeSlots') : bg[c].status \in {"join", "progress"}
      BY ONLY IInv, b \in Instances, <3>1, FreeWithout
    <3>3. \A c \in Instances \ {b} : bg'[c].status = bg[c].status
      BY <1>3
    <3> QED BY ONLY <3>2, <3>3 DEF FreeRunning
  <2>2. CASE st # "leave"
    <3>1. freeSlots \in Seq(Instances) /\ Range(freeSlots) \subseteq Instances /\ IsInjective(freeSlots)
          /\ \A c \in Range(freeSlots) : bg[c].status \in {"join", "progress"}
      BY Parts, RangeOf DEF FreeRunning
    <3> QED BY <2>2, <3>1, <1>4 DEF FreeRunning
  <2> QED BY <2>1, <2>2
<1>10. Exact(TakersOf(queue', slot', bgId', place', bg'), bg', miscounted')
  <2>1. Exact(TakersOf(queue, slot, bgId, place, bg), bg, miscounted)
    BY Parts
  <2> QED BY <2>1, <1>4, <1>5 DEF Exact
<1>11. SlotsTaken(TakersOf(queue', slot', bgId', place', bg'), slot', bg', miscounted')
  <2>1. SlotsTaken(TakersOf(queue, slot, bgId, place, bg), slot, bg, miscounted)
    BY Parts
  <2> QED BY <2>1, SlotNumbers, <1>4, <1>5 DEF SlotsTaken
<1> QED BY <1>3, <1>6, <1>7, <1>8, <1>9, <1>10, <1>11, Parts DEF IInv, Good

\* _ProcessJoin and EndBattleground.
LEMMA BgStartStep == ASSUME IInv, NEW b \in Instances, BgStart(b) PROVE IInv'
<1> DEFINE st == "progress"
<1>1. st \in {"progress", "leave"} /\ bg[b].status \in {"join", "progress"} /\ bg' = [bg EXCEPT ![b].status = st]
  BY DEF BgStart
<1>2. freeSlots' = IF st = "leave" THEN Those(freeSlots, Instances \ {b}) ELSE freeSlots
  BY DEF BgStart
<1> HIDE DEF st
<1> QED BY <1>1, <1>2, StatusStep DEF BgStart, queueVars, playerVars

LEMMA BgEndStep == ASSUME IInv, NEW b \in Instances, BgEnd(b) PROVE IInv'
<1> DEFINE st == "leave"
<1>1. st \in {"progress", "leave"} /\ bg[b].status \in {"join", "progress"} /\ bg' = [bg EXCEPT ![b].status = st]
  BY DEF BgEnd, Running
<1>2. freeSlots' = IF st = "leave" THEN Those(freeSlots, Instances \ {b}) ELSE freeSlots
  BY DEF BgEnd
<1> HIDE DEF st
<1> QED BY <1>1, <1>2, StatusStep DEF BgEnd, queueVars, playerVars

\* A team without players.
LEMMA NobodyTakes ==
    ASSUME NEW S, S \subseteq Player, \A t \in Teams : Cardinality(OfTeam(S, t)) = 0
    PROVE  S = {}
<1> SUFFICES ASSUME NEW p \in S PROVE FALSE
  OBVIOUS
<1>1. TeamOf[p] \in Teams /\ p \in OfTeam(S, TeamOf[p])
  BY PlayersAssumption DEF OfTeam
<1>2. IsFiniteSet(OfTeam(S, TeamOf[p]))
  BY TeamCounts
<1> QED BY <1>1, <1>2, FS_EmptySet

\* BattlegroundMgr::Update deletes a battleground.
LEMMA BgDeleteStep == ASSUME IInv, NEW b \in Instances, BgDelete(b) PROVE IInv'
<1> DEFINE T == TakersOf(queue, slot, bgId, place, bg)
<1>1. /\ bg[b].status # "none" /\ bg[b].players = {} /\ \A t \in Teams : bg[b].invited[t] = 0
      /\ bg' = [bg EXCEPT ![b] = NoBg] /\ freeSlots' = Those(freeSlots, Instances \ {b})
      /\ queue' = queue /\ slot' = slot /\ removals' = removals /\ bgId' = bgId /\ place' = place
      /\ miscounted' = miscounted /\ scheduled' = scheduled
  BY DEF BgDelete, queueVars, playerVars, Exists, ToBeDeleted
<1>2. NoBg \in BgRecs /\ NoBg.status = "none" /\ NoBg.players = {}
  <2>1. 0 \in 0..Wrap-1
    BY InRange
  <2>2. Zero \in [Teams -> 0..Wrap-1]
    BY <2>1 DEF Zero
  <2> QED BY <2>2 DEF NoBg, BgRecs
<1>3. bg' \in [Instances -> BgRecs] /\ bg'[b] = NoBg /\ \A c \in Instances \ {b} : bg'[c] = bg[c]
  BY <1>1, <1>2, Parts
<1>4. \A c \in Instances : bg'[c].players = bg[c].players
  BY <1>1, <1>2, <1>3
<1>5. TakersOf(queue', slot', bgId', place', bg') = T
  <2>1. ASSUME NEW c \in Instances, NEW x \in Player
        PROVE  Taker(x, c, queue', slot', bgId', place', bg') <=> Taker(x, c, queue, slot, bgId, place, bg)
    BY <1>1, <1>4 DEF Taker
  <2> QED BY <2>1, SameTakers
<1>6. \A c \in Instances : T[c] \subseteq Player
  BY DEF TakersOf
<1>7. Exact(T, bg, miscounted) /\ SlotsTaken(T, slot, bg, miscounted)
  BY Parts
<1> HIDE DEF T
<1>8. b \notin miscounted => T[b] = {}
  <2> SUFFICES ASSUME b \notin miscounted PROVE T[b] = {}
    OBVIOUS
  <2>1. \A t \in Teams : Cardinality(OfTeam(T[b], t)) = 0
    BY <1>1, <1>7 DEF Exact
  <2> QED BY <2>1, <1>6, NobodyTakes
<1>9. Exact(T, bg', miscounted)
  BY <1>2, <1>3, <1>7 DEF Exact
<1>10. SlotsTaken(T, slot, bg', miscounted)
  <2> SUFFICES ASSUME NEW x \in Player, slot[x] > 0, slot[x] \notin miscounted
               PROVE  bg'[slot[x]].status # "none" /\ x \in T[slot[x]]
    BY DEF SlotsTaken
  <2>1. slot[x] \in Instances /\ bg[slot[x]].status # "none" /\ x \in T[slot[x]]
    BY <1>7, SlotNumbers DEF SlotsTaken
  <2>2. slot[x] # b
    BY <2>1, <1>8
  <2> QED BY <2>1, <2>2, <1>3
<1>11. Whereabouts(slot', bgId', place', bg')
  <2>1. Whereabouts(slot, bgId, place, bg)
    BY Parts
  <2> QED BY <2>1, <1>1, <1>4 DEF Whereabouts
<1>12. MembersIn(bgId', place', bg')
  <2>1. MembersIn(bgId, place, bg)
    BY Parts
  <2> QED BY <2>1, <1>1, <1>3, <1>4 DEF MembersIn
<1>13. Listed(place', bg')
  <2>1. Listed(place, bg)
    BY Parts
  <2> QED BY <2>1, <1>1, <1>2, <1>3 DEF Listed
<1>14. FreeRunning(freeSlots', bg')
  <2>1. /\ freeSlots' \in Seq(Instances) /\ IsInjective(freeSlots')
        /\ Range(freeSlots') \subseteq Instances \ {b}
        /\ \A c \in Range(freeSlots') : bg[c].status \in {"join", "progress"}
    BY ONLY IInv, b \in Instances, <1>1, FreeWithout
  <2> QED BY <2>1, <1>3 DEF FreeRunning
<1> QED BY <1>1, <1>3, <1>5, <1>9, <1>10, <1>11, <1>12, <1>13, <1>14, Parts DEF IInv, Good, T

\* The elements of a finite set in a sequence.
LEMMA ListOf ==
    ASSUME NEW S, IsFiniteSet(S)
    PROVE  LET f == SetToSeq(S) IN
           /\ f \in [1..Cardinality(S) -> S] /\ IsInjective(f) /\ Cardinality(S) \in Nat
           /\ {f[i] : i \in 1..Cardinality(S)} = S
<1> DEFINE n == Cardinality(S)
           f == SetToSeq(S)
<1>1. n \in Nat /\ ExistsBijection(1..n, S)
  BY FS_CardinalityType
<1>2. \E g : g \in Injection(1..n, S)
  BY <1>1 DEF ExistsBijection, Bijection
<1>3. f \in [1..n -> S] /\ IsInjective(f)
  BY <1>2 DEF SetToSeq, Injection
<1> HIDE DEF f
<1>4. f \in Injection(1..n, S) /\ Cardinality(1..n) = n
  BY <1>1, <1>3, FS_Interval DEF Injection
<1> HIDE DEF n
<1>5. Cardinality(1..n) = Cardinality(S)
  BY <1>4 DEF n
<1>6. f \in Surjection(1..n, S)
  BY <1>4, <1>5, FS_Injection
<1>7. \A x \in S : \E i \in 1..n : f[i] = x
  BY <1>6 DEF Surjection
<1>8. {f[i] : i \in 1..n} = S
  BY <1>3, <1>7
<1> QED BY <1>1, <1>3, <1>8 DEF f, n

\* The members who leave a battleground one after the other.
CloseBody(f, x, seq, s) == IF s = {} THEN x ELSE WithoutMember(f[s \ {Max(s)}], seq[Max(s)])
CloseFold(x, seq) == CHOOSE f : f = [s \in SUBSET DOMAIN seq |-> CloseBody(f, x, seq, s)]

LEMMA CloseIsFold == \A x, seq : FoldLeft(WithoutMember, x, seq) = CloseFold(x, seq)[DOMAIN seq]
BY DEF FoldLeft, MapThenFoldSet, CloseFold, CloseBody

LEMMA WithoutMemberFacts ==
    ASSUME NEW x \in BgRecs, NEW p \in Player
    PROVE  LET y == WithoutMember(x, p) IN
           /\ y \in BgRecs /\ y.status = x.status /\ y.offline = x.offline
           /\ y.players = x.players \ {p}
           /\ p \in x.players => y.invited = Decreased(x, TeamOf[p]).invited
<1> DEFINE y == WithoutMember(x, p)
           z == [x EXCEPT !.players = @ \ {p}]
<1>1. TeamOf[p] \in Teams
  BY PlayersAssumption
<1>2. z \in BgRecs /\ z.status = x.status /\ z.offline = x.offline /\ z.invited = x.invited
      /\ z.players = x.players \ {p}
  BY DEF BgRecs
<1>3. CASE p \in x.players
  <2>1. y = Decreased(z, TeamOf[p])
    BY <1>3 DEF WithoutMember
  <2> HIDE DEF y, z
  <2>2. y \in BgRecs /\ y.status = x.status /\ y.offline = x.offline /\ y.players = x.players \ {p}
    BY <1>1, <1>2, <2>1, DecreasedFacts
  <2>3. y.invited = Decreased(x, TeamOf[p]).invited
    BY <1>1, <1>2, <2>1 DEF Decreased, BgRecs
  <2> QED BY <2>2, <2>3 DEF y
<1>4. CASE p \notin x.players
  <2>1. y = x /\ x.players = x.players \ {p}
    BY <1>4 DEF WithoutMember
  <2> QED BY <1>4, <2>1
<1> QED BY <1>3, <1>4

LEMMA CloseExists ==
    ASSUME NEW x \in BgRecs, NEW n \in Nat, NEW seq \in [1..n -> Player]
    PROVE  CloseFold(x, seq) = [s \in SUBSET (1..n) |-> CloseBody(CloseFold(x, seq), x, seq, s)]
<1> DEFINE S == BgRecs
           step == [kx \in (1..n) \X S |-> WithoutMember(kx[2], seq[kx[1]])]
<1>1. DOMAIN seq = 1..n
  OBVIOUS
<1>2. \A k \in 1..n, y \in S : step[<<k, y>>] = WithoutMember(y, seq[k]) /\ WithoutMember(y, seq[k]) \in S
  BY WithoutMemberFacts
<1> HIDE DEF S, step
<1>3. PICK f : f = [s \in SUBSET (1..n) |-> FoldBody(x, step, f, s)]
  BY FoldExists
<1>4. \A s \in SUBSET (1..n) : f[s] \in S /\ (s # {} => Max(s) \in 1..n)
  <2>1. f[{}] \in S
    BY <1>3 DEF FoldBody, S
  <2>2. ASSUME NEW s \in SUBSET (1..n), s # {}, Max(s) \in 1..n, f[s \ {Max(s)}] \in S
        PROVE  f[s] \in S
    <3>1. f[s] = step[<<Max(s), f[s \ {Max(s)}]>>]
      BY <1>3, <2>2 DEF FoldBody
    <3> QED BY <3>1, <1>2, <2>2
  <2> QED BY <2>1, <2>2, FoldStays
<1>5. f = [s \in SUBSET (1..n) |-> CloseBody(f, x, seq, s)]
  <2>1. ASSUME NEW s \in SUBSET (1..n)
        PROVE  FoldBody(x, step, f, s) = CloseBody(f, x, seq, s)
    <3>1. f[s \ {Max(s)}] \in S
      BY <1>4
    <3> QED BY <1>2, <1>4, <3>1 DEF FoldBody, CloseBody
  <2> QED BY <1>3, <2>1
<1>6. f = [s \in SUBSET DOMAIN seq |-> CloseBody(f, x, seq, s)]
  BY <1>1, <1>5
<1>7. CloseFold(x, seq) = [s \in SUBSET DOMAIN seq |-> CloseBody(CloseFold(x, seq), x, seq, s)]
  BY <1>6 DEF CloseFold
<1> QED BY <1>1, <1>7

\* When all members have left, those who remain counted are the other takers.
LEMMA ClosedFacts ==
    ASSUME NEW x \in BgRecs, NEW T, T \subseteq Player, x.players \subseteq T,
           NEW exact \in BOOLEAN,
           exact => \A t \in Teams : x.invited[t] = Cardinality(OfTeam(T, t))
    PROVE  LET y == FoldLeft(WithoutMember, x, SetToSeq(x.players)) IN
           /\ y \in BgRecs /\ y.status = x.status /\ y.offline = x.offline /\ y.players = {}
           /\ exact => \A t \in Teams : y.invited[t] = Cardinality(OfTeam(T \ x.players, t))
<1> DEFINE L == x.players
           n == Cardinality(L)
           seq == SetToSeq(L)
           c == CloseFold(x, seq)
           gone(k) == {seq[i] : i \in 1..k}
           P(k) == /\ c[1..k] \in BgRecs /\ c[1..k].status = x.status /\ c[1..k].offline = x.offline
                   /\ c[1..k].players = L \ gone(k)
                   /\ exact => \A t \in Teams : c[1..k].invited[t] = Cardinality(OfTeam(T \ gone(k), t))
           N == {k \in Nat : k <= n => P(k)}
<1>1. L \subseteq Player /\ IsFiniteSet(L)
  BY PlayersAssumption, FS_Subset DEF BgRecs
<1>2. n \in Nat /\ seq \in [1..n -> L] /\ IsInjective(seq) /\ gone(n) = L
  BY <1>1, ListOf
<1>3. seq \in [1..n -> Player] /\ DOMAIN seq = 1..n
  BY <1>1, <1>2
<1> HIDE DEF n, seq
<1>4. c = [s \in SUBSET (1..n) |-> CloseBody(c, x, seq, s)]
  BY <1>2, <1>3, CloseExists
<1>x. L \subseteq T
  OBVIOUS
<1>e. exact => \A t \in Teams : x.invited[t] = Cardinality(OfTeam(T, t))
  OBVIOUS
<1>l. x.players = L
  OBVIOUS
<1>c. FoldLeft(WithoutMember, x, seq) = c[1..n]
  BY <1>3, CloseIsFold
<1> HIDE DEF c, L
<1>5. 0 \in N
  <2>1. 1..0 = {} /\ gone(0) = {}
    OBVIOUS
  <2>2. c[1..0] = x
    BY <1>4, <2>1 DEF CloseBody
  <2>3. T \ gone(0) = T /\ L \ gone(0) = L
    BY <2>1
  <2> HIDE DEF gone
  <2> QED BY <2>2, <2>3, <1>e, <1>l
<1>6. ASSUME NEW k \in Nat, k \in N
      PROVE  k + 1 \in N
  <2> SUFFICES ASSUME k + 1 <= n PROVE P(k + 1)
    OBVIOUS
  <2> DEFINE p == seq[k + 1]
             G == gone(k)
             y == c[1..k]
             z == c[1..k + 1]
  <2>1. P(k)
    BY <1>2, <1>6
  <2>2. z = WithoutMember(y, p)
    <3>1. (1..k + 1) \in SUBSET (1..n) /\ 1..k + 1 # {}
      BY <1>2
    <3>2. z = CloseBody(c, x, seq, 1..k + 1)
      BY <1>4, <3>1
    <3> HIDE DEF z
    <3> QED BY <3>1, <3>2, LastNumber DEF CloseBody
  <2>3. gone(k + 1) = G \cup {p}
    BY <1>2
  <2>4. p \in L /\ p \notin G
    <3>1. k + 1 \in 1..n /\ \A i \in 1..k : i \in 1..n /\ i # k + 1
      BY <1>2
    <3> QED BY <3>1, <1>2, <1>3 DEF IsInjective
  <2>5. /\ y \in BgRecs /\ y.status = x.status /\ y.offline = x.offline /\ y.players = L \ G
        /\ exact => \A t \in Teams : y.invited[t] = Cardinality(OfTeam(T \ G, t))
    BY <2>1
  <2> HIDE DEF p, G, y, z, gone
  <2>6. p \in y.players /\ p \in Player
    BY <2>4, <2>5, <1>1
  <2>7. /\ z \in BgRecs /\ z.status = y.status /\ z.offline = y.offline /\ z.players = y.players \ {p}
        /\ z.invited = Decreased(y, TeamOf[p]).invited
    BY <2>2, <2>5, <2>6, WithoutMemberFacts
  <2>8. exact => \A t \in Teams : z.invited[t] = Cardinality(OfTeam(T \ (G \cup {p}), t))
    <3> SUFFICES ASSUME exact, NEW t \in Teams
                 PROVE  z.invited[t] = Cardinality(OfTeam(T \ (G \cup {p}), t))
      OBVIOUS
    <3> DEFINE R == T \ G
    <3>1. R \subseteq Player /\ p \in R /\ T \ (G \cup {p}) = R \ {p}
      BY <2>4, <1>x
    <3>2. \A u \in Teams : y.invited[u] = Cardinality(OfTeam(R, u))
      BY <2>5
    <3>3. TeamOf[p] \in Teams
      BY <2>6, PlayersAssumption
    <3> HIDE DEF R
    <3>4. /\ Cardinality(OfTeam(R, TeamOf[p])) \in Nat \ {0}
          /\ Cardinality(OfTeam(R \ {p}, TeamOf[p])) = Cardinality(OfTeam(R, TeamOf[p])) - 1
          /\ \A u : u # TeamOf[p] => OfTeam(R \ {p}, u) = OfTeam(R, u)
      BY <3>1, OneLess
    <3>5. /\ \A u \in Teams : u # TeamOf[p] => z.invited[u] = y.invited[u]
          /\ y.invited[TeamOf[p]] # 0 => z.invited[TeamOf[p]] = y.invited[TeamOf[p]] - 1
      BY <2>5, <2>7, <3>3, DecreasedFacts
    <3>6. CASE t # TeamOf[p]
      BY <3>1, <3>2, <3>4, <3>5, <3>6
    <3>7. CASE t = TeamOf[p]
      <4>1. y.invited[TeamOf[p]] # 0
        BY <3>2, <3>3, <3>4
      <4>2. z.invited[TeamOf[p]] = y.invited[TeamOf[p]] - 1
        BY <3>5, <4>1
      <4> QED BY <3>1, <3>2, <3>3, <3>4, <3>7, <4>2
    <3> QED BY <3>6, <3>7
  <2>9. z.players = L \ (G \cup {p})
    BY <2>5, <2>7
  <2>10. /\ z \in BgRecs /\ z.status = x.status /\ z.offline = x.offline
         /\ z.players = L \ gone(k + 1)
         /\ exact => \A t \in Teams : z.invited[t] = Cardinality(OfTeam(T \ gone(k + 1), t))
    BY <2>3, <2>5, <2>7, <2>8, <2>9
  <2> QED BY <2>10 DEF z
<1>7. n \in N
  <2> HIDE DEF N
  <2> QED BY <1>2, <1>5, <1>6, NumberInduction
<1>8. P(n)
  BY <1>2, <1>7
<1> HIDE DEF gone
<1>9. L \ L = {}
  OBVIOUS
<1> QED BY <1>2, <1>8, <1>9, <1>c DEF seq, L

\* _ProcessLeave.
LEMMA BgCloseStep == ASSUME IInv, NEW b \in Instances, BgClose(b) PROVE IInv'
<1> DEFINE L == bg[b].players
           found == {p \in L : InWorld(p)}
           y == FoldLeft(WithoutMember, bg[b], SetToSeq(L))
           T == TakersOf(queue, slot, bgId, place, bg)
           T2 == TakersOf(queue', slot', bgId', place', bg')
           exact == b \notin miscounted
<1>1. /\ bg[b].status = "leave" /\ bg' = [bg EXCEPT ![b] = y]
      /\ slot' = [p \in Player |-> IF p \in found THEN NoSlot ELSE slot[p]]
      /\ bgId' = [p \in Player |-> IF p \in found THEN 0 ELSE bgId[p]]
      /\ place' = [p \in Player |-> IF p \in found THEN "travels" ELSE place[p]]
      /\ queue' = queue /\ removals' = removals /\ freeSlots' = freeSlots
      /\ miscounted' = miscounted /\ scheduled' = scheduled
  BY DEF BgClose
<1>2. bg[b] \in BgRecs /\ L \subseteq Player
  <2>1. bg[b] \in BgRecs
    BY Parts
  <2> QED BY <2>1 DEF BgRecs
<1>3. \A p \in L : /\ bgId[p] = b /\ place[p] \in {"inside", "offlineInside"} /\ ~InQ(queue, p)
                   /\ (place[p] = "inside" <=> p \in found)
                   /\ p \notin found => slot[p] = NoSlot
  <2>1. \A p \in L : bgId[p] = b /\ place[p] \in {"inside", "offlineInside"} /\ ~InQ(queue, p)
    BY <1>2, PlaceFacts, WaiterFacts
  <2> QED BY <1>2, <2>1, PlaceFacts DEF InWorld, Offline
<1>4. found \subseteq L
  OBVIOUS
<1>5. /\ slot' \in Slots /\ bgId' \in [Player -> 0..MaxInstances] /\ place' \in [Player -> Places]
      /\ \A p \in Player : /\ slot'[p] = IF p \in found THEN NoSlot ELSE slot[p]
                           /\ bgId'[p] = IF p \in found THEN 0 ELSE bgId[p]
                           /\ place'[p] = IF p \in found THEN "travels" ELSE place[p]
  BY <1>1, Parts, InstanceNumbers DEF Slots, Places
<1>6. L \subseteq T[b] /\ \A c \in Instances : T[c] \subseteq Player
  BY <1>2 DEF TakersOf, Taker
<1>7. Exact(T, bg, miscounted) /\ SlotsTaken(T, slot, bg, miscounted)
  BY Parts
<1>8. exact => \A t \in Teams : bg[b].invited[t] = Cardinality(OfTeam(T[b], t))
  BY <1>1, <1>7 DEF Exact
<1>9. /\ y \in BgRecs /\ y.status = "leave" /\ y.players = {}
      /\ exact => \A t \in Teams : y.invited[t] = Cardinality(OfTeam(T[b] \ L, t))
  <2>1. exact \in BOOLEAN /\ bg[b].players \subseteq T[b] /\ T[b] \subseteq Player
    BY <1>6
  <2> DEFINE U == T[b]
             x == bg[b]
  <2>2. x \in BgRecs /\ U \subseteq Player /\ x.players \subseteq U /\ exact \in BOOLEAN
    BY <1>2, <2>1
  <2>3. exact => \A t \in Teams : x.invited[t] = Cardinality(OfTeam(U, t))
    BY <1>8
  <2>4. y = FoldLeft(WithoutMember, x, SetToSeq(x.players))
    OBVIOUS
  <2> HIDE DEF y, U, x, exact
  <2>5. /\ y \in BgRecs /\ y.status = x.status /\ y.players = {}
        /\ exact => \A t \in Teams : y.invited[t] = Cardinality(OfTeam(U \ x.players, t))
    BY ONLY <2>2, <2>3, <2>4, ClosedFacts
  <2> QED BY <2>5, <1>1 DEF U, x
<1> HIDE DEF y
<1>10. bg' \in [Instances -> BgRecs] /\ bg'[b] = y /\ \A c \in Instances \ {b} : bg'[c] = bg[c]
  BY <1>1, <1>9, Parts
<1>11. \A c \in Instances : /\ bg'[c].status = bg[c].status
                            /\ bg'[c].players = bg[c].players \ (IF c = b THEN L ELSE {})
  BY <1>1, <1>9, <1>10
<1>12. \A c \in Instances \ {b} : \A p \in bg[c].players : p \in Player /\ p \notin L
  <2>1. \A c \in Instances : bg[c] \in BgRecs
    BY Parts
  <2>2. \A c \in Instances : \A p \in bg[c].players : p \in Player /\ bgId[p] = c
    BY <2>1, PlaceFacts DEF BgRecs
  <2> QED BY <2>2, <1>3
<1> HIDE DEF L, found
<1>13. ASSUME NEW c \in Instances, NEW p \in Player
       PROVE  Taker(p, c, queue', slot', bgId', place', bg')
                  <=> Taker(p, c, queue, slot, bgId, place, bg) /\ ~(c = b /\ p \in L)
  <2>1. CASE p \in L
    <3>1. ~Taker(p, c, queue', slot', bgId', place', bg')
      <4>1. p \notin bg'[c].players
        BY <2>1, <1>11, <1>12
      <4>2. ~InQ(queue', p)
        BY <2>1, <1>1, <1>3
      <4>3. place'[p] # "ports"
        BY <2>1, <1>3, <1>5
      <4> QED BY <4>1, <4>2, <4>3 DEF Taker
    <3>2. c # b => ~Taker(p, c, queue, slot, bgId, place, bg)
      BY <2>1, <1>3, <1>12 DEF Taker
    <3> QED BY <2>1, <3>1, <3>2
  <2>2. CASE p \notin L
    <3>1. slot'[p] = slot[p] /\ bgId'[p] = bgId[p] /\ place'[p] = place[p]
      BY <2>2, <1>4, <1>5
    <3>2. p \in bg'[c].players <=> p \in bg[c].players
      BY <2>2, <1>11
    <3> QED BY <2>2, <3>1, <3>2, <1>1 DEF Taker
  <2> QED BY <2>1, <2>2
<1>14. T2[b] = T[b] \ L /\ \A c \in Instances \ {b} : T2[c] = T[c]
  <2>1. \A c \in Instances : /\ T[c] = {x \in Player : Taker(x, c, queue, slot, bgId, place, bg)}
                             /\ T2[c] = {x \in Player : Taker(x, c, queue', slot', bgId', place', bg')}
    BY DEF TakersOf
  <2> HIDE DEF T, T2
  <2>2. ASSUME NEW c \in Instances
        PROVE  T2[c] = T[c] \ (IF c = b THEN L ELSE {})
    <3> DEFINE C(x) == Taker(x, c, queue, slot, bgId, place, bg)
               D(x) == Taker(x, c, queue', slot', bgId', place', bg')
    <3>1. \A x \in Player : D(x) <=> C(x) /\ ~(c = b /\ x \in L)
      BY <1>13
    <3>2. T[c] = {x \in Player : C(x)} /\ T2[c] = {x \in Player : D(x)}
      BY <2>1
    <3> HIDE DEF C, D
    <3> QED BY <3>1, <3>2
  <2> QED BY <2>2
<1> HIDE DEF T, T2
<1>15. Exact(T2, bg', miscounted')
  <2> SUFFICES ASSUME NEW c \in Instances, bg'[c].status # "none", c \notin miscounted', NEW t \in Teams
               PROVE  bg'[c].invited[t] = Cardinality(OfTeam(T2[c], t))
    BY DEF Exact
  <2>1. CASE c = b
    BY <2>1, <1>1, <1>9, <1>10, <1>14
  <2>2. CASE c # b
    <3>1. bg'[c] = bg[c] /\ T2[c] = T[c] /\ c \notin miscounted
      BY <2>2, <1>1, <1>10, <1>14
    <3> QED BY <3>1, <1>7 DEF Exact
  <2> QED BY <2>1, <2>2
<1>16. SlotsTaken(T2, slot', bg', miscounted')
  <2>1. SlotsCleared(L, slot, slot')
    BY <1>2, <1>3, <1>4, <1>5 DEF NoSlot, SlotsCleared
  <2>2. TakersKept(L, T, T2)
    BY <1>14 DEF TakersKept
  <2>3. StillExist(bg, bg')
    BY <1>11 DEF StillExist
  <2>4. SlotsTaken(T, slot, bg, miscounted) /\ slot' \in Slots /\ miscounted \subseteq miscounted'
    BY <1>1, <1>5, <1>7
  <2> QED BY ONLY <2>1, <2>2, <2>3, <2>4, SlotGivenUp
<1>17. Waiters(queue', slot', removals', bgId', place')
  <2>1. \A x \in Player : InQ(queue, x) => x \notin found /\ bgId[x] = 0 /\ place[x] \in {"world", "travels"}
    BY <1>3, <1>4, PlaceFacts
  <2> QED BY <1>1, <1>5, <2>1, WaitersKept
<1>18. Whereabouts(slot', bgId', place', bg')
  <2> SUFFICES ASSUME NEW x \in Player
               PROVE  /\ place'[x] \in {"ports", "inside"} => slot'[x] = bgId'[x] /\ bgId'[x] \in Instances
                      /\ place'[x] = "inside" => x \in bg'[bgId'[x]].players
                      /\ place'[x] \in {"offline", "offlineInside"} => slot'[x] = NoSlot
                      /\ place'[x] = "world" => bgId'[x] = 0
                      /\ place'[x] = "travels" => bgId'[x] \in {0, slot'[x]}
    BY DEF Whereabouts
  <2>1. CASE x \in found
    BY <2>1, <1>5
  <2>2. CASE x \notin found
    <3>1. slot'[x] = slot[x] /\ place'[x] = place[x] /\ bgId'[x] = bgId[x]
      BY <2>2, <1>5
    <3>2. /\ place[x] \in {"ports", "inside"} => slot[x] = bgId[x] /\ bgId[x] \in Instances
          /\ place[x] = "inside" => x \in bg[bgId[x]].players
          /\ place[x] \in {"offline", "offlineInside"} => slot[x] = NoSlot
          /\ place[x] = "world" => bgId[x] = 0
          /\ place[x] = "travels" => bgId[x] \in {0, slot[x]}
      BY Parts DEF Whereabouts
    <3>3. place[x] = "inside" => x \in bg'[bgId[x]].players
      <4>1. place[x] = "inside" => x \notin L
        BY <2>2, <1>3
      <4> QED BY <4>1, <3>2, <1>11
    <3> QED BY <3>1, <3>2, <3>3
  <2> QED BY <2>1, <2>2
<1>19. \A c \in Instances \ {b} : \A x \in bg[c].players : bgId'[x] = bgId[x] /\ place'[x] = place[x]
  BY <1>4, <1>5, <1>12
<1>20. MembersIn(bgId', place', bg')
  <2>1. MembersIn(bgId, place, bg)
    BY Parts
  <2>2. \A c \in Instances \ {b} : /\ bg'[c].status = "none" => bg'[c] = NoBg
                                   /\ \A p \in bg'[c].players : bgId'[p] = c /\ place'[p] \in {"inside", "offlineInside"}
    BY <2>1, <1>10, <1>19 DEF MembersIn
  <2>3. bg'[b].status # "none" /\ bg'[b].players = {}
    BY <1>9, <1>10
  <2> QED BY <2>2, <2>3 DEF MembersIn
<1>21. Listed(place', bg')
  <2>1. Listed(place, bg)
    BY Parts
  <2>2. bg'[b].status = "leave"
    BY <1>9, <1>10
  <2>3. ASSUME NEW c \in Instances \ {b}, bg[c].status \in {"join", "progress"}
        PROVE  /\ IsInjective(bg[c].offline)
               /\ Range(bg[c].offline) = {p \in bg[c].players : place'[p] \in {"offline", "offlineInside"}}
    <3>1. Range(bg[c].offline) = {p \in bg[c].players : place[p] \in {"offline", "offlineInside"}}
          /\ IsInjective(bg[c].offline)
      BY <2>1, <2>3 DEF Listed
    <3>2. \A p \in bg[c].players : place'[p] = place[p]
      BY <1>19
    <3> QED BY <3>1, <3>2
  <2>4. \A c \in Instances \ {b} : bg'[c] = bg[c]
    BY <1>10
  <2> QED BY <2>2, <2>3, <2>4 DEF Listed
<1>22. FreeRunning(freeSlots', bg')
  <2>1. Range(freeSlots) \subseteq Instances /\ FreeRunning(freeSlots, bg)
    BY Parts, RangeOf DEF FreeRunning
  <2> QED BY <2>1, <1>1, <1>11 DEF FreeRunning
<1> QED BY <1>1, <1>5, <1>10, <1>15, <1>16, <1>17, <1>18, <1>20, <1>21, <1>22, Parts DEF IInv, Good, T2

-----------------------------------------------------------------------------
(* The update of the queue.                                                  *)

\* The images of finite sets, and what sequences are made of.
LEMMA FiniteImage ==
    ASSUME NEW S, IsFiniteSet(S), NEW X, NEW f \in [S -> X]
    PROVE  IsFiniteSet({f[x] : x \in S})
<1> DEFINE T == {f[x] : x \in S}
<1>1. f \in Surjection(S, T)
  <2>1. f \in [S -> T]
    OBVIOUS
  <2> QED BY <2>1 DEF Surjection
<1> HIDE DEF T
<1>2. IsFiniteSet(T)
  BY <1>1, FS_Surjection
<1> QED BY <1>2 DEF T

LEMMA FiniteSequence ==
    ASSUME NEW X, NEW s \in Seq(X)
    PROVE  IsFiniteSet(Range(s))
<1> DEFINE n == Len(s)
<1>1. n \in Nat /\ s \in [1..n -> X]
  OBVIOUS
<1>2. Range(s) = {s[i] : i \in 1..n}
  BY RangeOf
<1> HIDE DEF n
<1>3. IsFiniteSet(1..n)
  BY <1>1, FS_Interval
<1>4. IsFiniteSet({s[i] : i \in 1..n})
  BY <1>1, <1>3, FiniteImage
<1> QED BY <1>2, <1>4

\* The states of an update.
Updates == [queue : Queues, slot : Slots, removals : Removals, bg : [Instances -> BgRecs],
            free : Seq(Instances), miscounted : SUBSET Instances, returned : BOOLEAN]

LEMMA FreshNumber ==
    ASSUME NEW s \in Updates
    PROVE  FreshStamp(s) \in Nat
<1> DEFINE groups == UNION {Range(s.queue[k][t]) : k \in Kinds, t \in Teams}
           events == UNION {Range(s.removals[p]) : p \in Player}
           A == {g.stamp : g \in groups}
           B == {e.stamp : e \in events}
           used == A \cup B
           S == (1..Cardinality(used) + 1) \ used
<1>1. s.queue \in Queues /\ s.removals \in [Player -> Seq(Events)]
  BY DEF Updates, Removals
<1>2. IsFiniteSet(groups)
  <2>1. \A k \in Kinds, t \in Teams : IsFiniteSet(Range(s.queue[k][t]))
    <3>1. \A k \in Kinds, t \in Teams : s.queue[k][t] \in Seq(GroupRec)
      BY <1>1 DEF Queues
    <3> QED BY <3>1, FiniteSequence
  <2>2. groups = (Range(s.queue["premade"]["alliance"]) \cup Range(s.queue["premade"]["horde"]))
                     \cup (Range(s.queue["normal"]["alliance"]) \cup Range(s.queue["normal"]["horde"]))
    BY DEF Kinds, Teams
  <2>3. /\ IsFiniteSet(Range(s.queue["premade"]["alliance"])) /\ IsFiniteSet(Range(s.queue["premade"]["horde"]))
        /\ IsFiniteSet(Range(s.queue["normal"]["alliance"])) /\ IsFiniteSet(Range(s.queue["normal"]["horde"]))
    BY <2>1 DEF Kinds, Teams
  <2>4. /\ IsFiniteSet(Range(s.queue["premade"]["alliance"]) \cup Range(s.queue["premade"]["horde"]))
        /\ IsFiniteSet(Range(s.queue["normal"]["alliance"]) \cup Range(s.queue["normal"]["horde"]))
    BY <2>3, FS_Union
  <2> DEFINE U == Range(s.queue["premade"]["alliance"]) \cup Range(s.queue["premade"]["horde"])
             V == Range(s.queue["normal"]["alliance"]) \cup Range(s.queue["normal"]["horde"])
  <2>5. groups = U \cup V /\ IsFiniteSet(U) /\ IsFiniteSet(V)
    BY <2>2, <2>4
  <2> HIDE DEF U, V, groups
  <2>6. IsFiniteSet(U \cup V)
    BY <2>5, FS_Union
  <2> QED BY <2>5, <2>6
<1>3. IsFiniteSet(events)
  <2> DEFINE f == [p \in Player |-> Range(s.removals[p])]
             R == {f[p] : p \in Player}
  <2>1. IsFiniteSet(R)
    <3> DEFINE X == {Range(s.removals[p]) : p \in Player}
    <3>1. f \in [Player -> X]
      OBVIOUS
    <3> HIDE DEF f, X
    <3>2. IsFiniteSet(Player)
      BY PlayersAssumption
    <3> QED BY ONLY <3>1, <3>2, FiniteImage
  <2>2. \A r \in R : IsFiniteSet(r)
    BY <1>1, FiniteSequence
  <2>3. UNION R = events
    OBVIOUS
  <2> HIDE DEF R
  <2>4. IsFiniteSet(UNION R)
    BY <2>1, <2>2, FS_UNION
  <2> QED BY <2>3, <2>4
<1> HIDE DEF groups, events
<1>4. IsFiniteSet(A)
  <2> DEFINE f == [g \in groups |-> g.stamp]
  <2>1. f \in [groups -> {g.stamp : g \in groups}] /\ A = {f[g] : g \in groups}
    OBVIOUS
  <2> HIDE DEF f, A
  <2> QED BY <2>1, <1>2, FiniteImage
<1>5. IsFiniteSet(B)
  <2> DEFINE f == [g \in events |-> g.stamp]
  <2>1. f \in [events -> {g.stamp : g \in events}] /\ B = {f[g] : g \in events}
    OBVIOUS
  <2> HIDE DEF f, B
  <2> QED BY <2>1, <1>3, FiniteImage
<1>6. IsFiniteSet(used)
  <2> HIDE DEF A, B
  <2> QED BY <1>4, <1>5, FS_Union
<1>7. FreshStamp(s) = Min(S)
  BY DEF FreshStamp, groups, events
<1> HIDE DEF used
<1> DEFINE n == Cardinality(used)
<1>8. n \in Nat
  BY <1>6, FS_CardinalityType
<1>9. S # {}
  <2> SUFFICES ASSUME S = {} PROVE FALSE
    OBVIOUS
  <2>1. 1..n + 1 \subseteq used
    OBVIOUS
  <2>2. Cardinality(1..n + 1) <= n
    BY <1>6, <2>1, FS_Subset
  <2>3. Cardinality(1..n + 1) = n + 1
    <3> HIDE DEF n
    <3> QED BY <1>8, FS_Interval
  <2> QED BY <1>8, <2>2, <2>3
<1>10. S \in SUBSET Nat
  BY <1>8
<1> HIDE DEF S
<1>11. \E x \in S : \A m \in S : x <= m
  BY <1>9, <1>10, LeastNumber
<1>12. Min(S) \in S
  BY <1>11 DEF Min
<1> QED BY <1>7, <1>10, <1>12

\* A group that is invited.
Invited(g, groups, b, st) == IF g \in groups THEN [g EXCEPT !.inst = b, !.stamp = st] ELSE g

\* The groups that are invited wait, and are in the queue.
Chosen(groups, q) == \A g \in groups : Waits(g) /\ \E t \in Teams : g \in In(q, t)

LEMMA InvitedFacts ==
    ASSUME NEW g \in GroupRec, NEW groups, NEW b \in Instances, NEW st \in Nat
    PROVE  LET h == Invited(g, groups, b, st) IN
           /\ h \in GroupRec /\ h.players = g.players
           /\ g \in groups => h.inst = b /\ h.stamp = st
           /\ g \notin groups => h = g
<1>1. b \in 0..MaxInstances
  BY InstanceNumbers, BoundsAssumption DEF Instances
<1> QED BY <1>1 DEF Invited, GroupRec

\* What those who are found were before.
LEMMA FoundFacts ==
    ASSUME NEW q, NEW sl, NEW rm, NEW bgs, NEW fr, NEW mis, Good(q, sl, rm, bgId, place, bgs, fr, mis),
           NEW groups, Chosen(groups, q), NEW found, found = Found(UNION {g.players : g \in groups})
    PROVE  /\ found \subseteq Player
           /\ \A p \in found :
                  /\ \E g \in groups : g \in In(q, TeamOf[p]) /\ p \in g.players
                  /\ sl[p] = 0 /\ bgId[p] = 0 /\ place[p] = "world" /\ Len(rm[p]) < MaxRemovals
                  /\ InQ(q, p)
                  /\ \A b \in Instances : ~Taker(p, b, q, sl, bgId, place, bgs)
           /\ \A t \in Teams : \A g \in In(q, t) : \A p \in g.players :
                  p \in found <=> g \in groups /\ place[p] = "world"
<1>1. /\ q \in Queues /\ OneGroup(q) /\ Waiters(q, sl, rm, bgId, place)
      /\ Whereabouts(sl, bgId, place, bgs) /\ MembersIn(bgId, place, bgs)
  BY DEF Good
<1>2. \A t \in Teams : In(q, t) \subseteq GroupRec
  BY <1>1, QueueFacts
<1>3. \A t \in Teams : \A g \in In(q, t) : \A p \in g.players :
          p \in Player /\ TeamOf[p] = t /\ Waiter(p, g, sl, rm, bgId, place)
  BY <1>1, <1>2 DEF OneGroup, Waiters, GroupRec
<1>4. \A p : p \in found <=> (\E g \in groups : p \in g.players) /\ InWorld(p)
  BY DEF Found
<1>5. ASSUME NEW p \in found
      PROVE  /\ \E g \in groups : g \in In(q, TeamOf[p]) /\ p \in g.players
             /\ p \in Player
             /\ sl[p] = 0 /\ bgId[p] = 0 /\ place[p] = "world" /\ Len(rm[p]) < MaxRemovals
             /\ InQ(q, p)
             /\ \A b \in Instances : ~Taker(p, b, q, sl, bgId, place, bgs)
  <2>1. PICK g \in groups : p \in g.players
    BY <1>4
  <2>2. PICK t \in Teams : g \in In(q, t)
    BY DEF Chosen
  <2>3. p \in Player /\ TeamOf[p] = t /\ Waiter(p, g, sl, rm, bgId, place) /\ g.inst = 0
    BY <1>3, <2>1, <2>2 DEF Chosen, Waits
  <2>4. sl[p] = 0 /\ bgId[p] = 0 /\ place[p] \in {"world", "travels"} /\ Len(rm[p]) < MaxRemovals
    BY <2>3 DEF Waiter
  <2>5. place[p] = "world"
    BY <1>4, <2>4 DEF InWorld
  <2>6. InQ(q, p)
    BY <2>1, <2>2, <2>3 DEF InQ
  <2>7. \A b \in Instances : ~Taker(p, b, q, sl, bgId, place, bgs)
    <3>1. \A b \in Instances : p \notin bgs[b].players
      BY <1>1, <2>5 DEF MembersIn
    <3> QED BY <3>1, <2>4, <2>5, InstanceNumbers DEF Taker
  <2> QED BY <2>1, <2>2, <2>3, <2>4, <2>5, <2>6, <2>7
<1>6. ASSUME NEW t \in Teams, NEW g \in In(q, t), NEW p \in g.players
      PROVE  p \in found <=> g \in groups /\ place[p] = "world"
  <2>1. p \in found => g \in groups
    <3> SUFFICES ASSUME p \in found PROVE g \in groups
      OBVIOUS
    <3>1. PICK h \in groups : h \in In(q, TeamOf[p]) /\ p \in h.players
      BY <1>5
    <3>2. h = g
      BY <3>1, <1>1, <1>3 DEF OneGroup
    <3> QED BY <3>1, <3>2
  <2>2. g \in groups /\ place[p] = "world" => p \in found
    BY <1>4 DEF InWorld
  <2> QED BY <2>1, <2>2, <1>5
<1> QED BY <1>5, <1>6

\* What InviteGroupToBG makes of the queue, the slots, the events and the battlegrounds.
Inviting(q, sl, rm, bgs, groups, found, b, st, q2, sl2, rm2, bgs2) ==
    /\ Chosen(groups, q) /\ found = Found(UNION {g.players : g \in groups})
    /\ b \in Instances /\ bgs[b].status # "none" /\ st \in Nat
    /\ q2 \in Queues /\ \A t \in Teams : In(q2, t) = {Invited(g, groups, b, st) : g \in In(q, t)}
    /\ sl2 \in Slots /\ \A p \in found : sl2[p] = b
    /\ \A p \in Player \ found : sl2[p] = sl[p]
    /\ rm2 \in [Player -> Seq(Events)]
    /\ \A p \in found : rm2[p] = Append(rm[p], [inst |-> b, stamp |-> st])
    /\ \A p \in Player \ found : rm2[p] = rm[p]
    /\ bgs2 \in [Instances -> BgRecs]
    /\ \A c \in Instances : /\ bgs2[c].status = bgs[c].status /\ bgs2[c].players = bgs[c].players
                             /\ bgs2[c].offline = bgs[c].offline
    /\ \A c \in Instances \ {b} : bgs2[c] = bgs[c]
    /\ \A t \in Teams : bgs2[b].invited[t] = (bgs[b].invited[t] + Cardinality(OfTeam(found, t))) % Wrap

\* InviteGroupToBG, for any queue, slots and battlegrounds.
LEMMA InviteCore ==
    ASSUME NEW q, NEW sl, NEW rm, NEW bgs, NEW fr, NEW mis, Good(q, sl, rm, bgId, place, bgs, fr, mis),
           NEW groups, NEW found, NEW b, NEW st, NEW q2, NEW sl2, NEW rm2, NEW bgs2,
           Inviting(q, sl, rm, bgs, groups, found, b, st, q2, sl2, rm2, bgs2)
    PROVE  Good(q2, sl2, rm2, bgId, place, bgs2, fr, mis)
<1> SUFFICES ASSUME Chosen(groups, q), found = Found(UNION {g.players : g \in groups}),
                    b \in Instances, bgs[b].status # "none", st \in Nat, q2 \in Queues,
                    \A t \in Teams : In(q2, t) = {Invited(g, groups, b, st) : g \in In(q, t)},
                    sl2 \in Slots, \A p \in found : sl2[p] = b, \A p \in Player \ found : sl2[p] = sl[p],
                    rm2 \in [Player -> Seq(Events)],
                    \A p \in found : rm2[p] = Append(rm[p], [inst |-> b, stamp |-> st]),
                    \A p \in Player \ found : rm2[p] = rm[p],
                    bgs2 \in [Instances -> BgRecs],
                    \A c \in Instances : /\ bgs2[c].status = bgs[c].status /\ bgs2[c].players = bgs[c].players
                                         /\ bgs2[c].offline = bgs[c].offline,
                    \A c \in Instances \ {b} : bgs2[c] = bgs[c],
                    \A t \in Teams : bgs2[b].invited[t]
                                         = (bgs[b].invited[t] + Cardinality(OfTeam(found, t))) % Wrap
             PROVE  Good(q2, sl2, rm2, bgId, place, bgs2, fr, mis)
  BY Zenon DEF Inviting
<1> DEFINE T == TakersOf(q, sl, bgId, place, bgs)
           T2 == TakersOf(q2, sl2, bgId, place, bgs2)
<1>1. /\ q \in Queues /\ sl \in Slots /\ rm \in Removals
      /\ bgId \in [Player -> 0..MaxInstances] /\ place \in [Player -> Places]
      /\ bgs \in [Instances -> BgRecs] /\ FreeRunning(fr, bgs) /\ mis \subseteq Instances
      /\ OneGroup(q)
      /\ Waiters(q, sl, rm, bgId, place)
      /\ Whereabouts(sl, bgId, place, bgs)
      /\ MembersIn(bgId, place, bgs)
      /\ Listed(place, bgs)
      /\ Exact(T, bgs, mis)
      /\ SlotsTaken(T, sl, bgs, mis)
  BY DEF Good
<1>2. found \subseteq Player /\ \A p \in found :
          /\ \E g \in groups : g \in In(q, TeamOf[p]) /\ p \in g.players
          /\ sl[p] = 0 /\ bgId[p] = 0 /\ place[p] = "world" /\ Len(rm[p]) < MaxRemovals
          /\ InQ(q, p)
          /\ \A c \in Instances : ~Taker(p, c, q, sl, bgId, place, bgs)
  BY ONLY Good(q, sl, rm, bgId, place, bgs, fr, mis), Chosen(groups, q),
          found = Found(UNION {g.players : g \in groups}), FoundFacts
<1>3. \A t \in Teams : \A g \in In(q, t) : \A p \in g.players :
          p \in found <=> g \in groups /\ place[p] = "world"
  BY FoundFacts
<1>4. \A t \in Teams : \A g \in In(q, t) :
          /\ g \in GroupRec /\ Invited(g, groups, b, st).players = g.players
          /\ g \in groups => Invited(g, groups, b, st).inst = b /\ Invited(g, groups, b, st).stamp = st
          /\ g \notin groups => Invited(g, groups, b, st) = g
  BY <1>1, QueueFacts, InvitedFacts
<1>5. \A t \in Teams : \A h \in In(q2, t) : \E g \in In(q, t) : h = Invited(g, groups, b, st)
  OBVIOUS
<1>6. \A p \in Player : TeamOf[p] \in Teams
  BY PlayersAssumption
<1>7. \A p \in Player : InQ(q2, p) <=> InQ(q, p)
  <2>1. ASSUME NEW p \in Player, InQ(q2, p) PROVE InQ(q, p)
    <3>1. PICK h \in In(q2, TeamOf[p]) : p \in h.players
      BY <2>1 DEF InQ
    <3>2. PICK g \in In(q, TeamOf[p]) : h = Invited(g, groups, b, st)
      BY <1>5, <1>6
    <3>3. p \in g.players
      BY <1>4, <1>6, <3>1, <3>2
    <3> QED BY <3>3 DEF InQ
  <2>2. ASSUME NEW p \in Player, InQ(q, p) PROVE InQ(q2, p)
    <3>1. PICK g \in In(q, TeamOf[p]) : p \in g.players
      BY <2>2 DEF InQ
    <3>2. Invited(g, groups, b, st) \in In(q2, TeamOf[p]) /\ p \in Invited(g, groups, b, st).players
      BY <1>4, <1>6, <3>1
    <3> QED BY <3>2 DEF InQ
  <2> QED BY <2>1, <2>2
<1>8. OneGroup(q2)
  <2> SUFFICES ASSUME NEW t \in Teams, NEW h \in In(q2, t), NEW x \in h.players
               PROVE  TeamOf[x] = t /\ \A h2 \in In(q2, t) : x \in h2.players => h2 = h
    BY DEF OneGroup
  <2>1. PICK g \in In(q, t) : h = Invited(g, groups, b, st) /\ x \in g.players
    BY <1>4, <1>5
  <2>2. TeamOf[x] = t /\ \A g2 \in In(q, t) : x \in g2.players => g2 = g
    BY <1>1, <2>1 DEF OneGroup
  <2>3. ASSUME NEW h2 \in In(q2, t), x \in h2.players PROVE h2 = h
    <3>1. PICK g2 \in In(q, t) : h2 = Invited(g2, groups, b, st) /\ x \in g2.players
      BY <1>4, <1>5, <2>3
    <3> QED BY <2>1, <2>2, <3>1
  <2> QED BY <2>2, <2>3
<1>9. rm2 \in Removals /\ \A p \in found : [inst |-> b, stamp |-> st] \in Range(rm2[p])
  <2> DEFINE e == [inst |-> b, stamp |-> st]
  <2>1. e \in Events
    BY InstanceNumbers, BoundsAssumption DEF Events, Instances
  <2>2. \A p \in Player : rm[p] \in Seq(Events) /\ Len(rm[p]) <= MaxRemovals
    BY <1>1 DEF Removals
  <2>3. \A p \in found : rm2[p] = Append(rm[p], e)
    OBVIOUS
  <2> HIDE DEF e
  <2>4. ASSUME NEW p \in found
        PROVE  Len(rm2[p]) <= MaxRemovals /\ e \in Range(rm2[p])
    <3>1. rm[p] \in Seq(Events) /\ Len(rm[p]) < MaxRemovals /\ rm2[p] = Append(rm[p], e)
      BY <1>2, <2>2, <2>3
    <3>2. Len(Append(rm[p], e)) = Len(rm[p]) + 1 /\ Len(rm[p]) \in Nat
      BY <2>1, <3>1
    <3>3. Range(Append(rm[p], e)) = Range(rm[p]) \cup {e}
      BY <2>1, <3>1, RangeAppend
    <3>4. Len(rm2[p]) <= MaxRemovals
      BY <3>1, <3>2, BoundsAssumption
    <3> QED BY <3>1, <3>3, <3>4
  <2>5. \A p \in Player : Len(rm2[p]) <= MaxRemovals
    BY <2>2, <2>4
  <2>6. rm2 \in Removals
    BY <2>5 DEF Removals
  <2> QED BY <2>4, <2>6 DEF e
<1>10. Waiters(q2, sl2, rm2, bgId, place)
  <2> SUFFICES ASSUME NEW t \in Teams, NEW h \in In(q2, t), NEW x \in h.players
               PROVE  Waiter(x, h, sl2, rm2, bgId, place)
    BY DEF Waiters
  <2>1. PICK g \in In(q, t) : h = Invited(g, groups, b, st) /\ x \in g.players
    BY <1>4, <1>5
  <2>2. Waiter(x, g, sl, rm, bgId, place) /\ x \in Player
    BY <1>1, <1>4, <2>1 DEF Waiters, GroupRec
  <2>3. CASE x \in found
    <3>1. h.inst = b /\ h.stamp = st /\ sl2[x] = b /\ [inst |-> b, stamp |-> st] \in Range(rm2[x])
      BY <2>1, <2>3, <1>3, <1>4, <1>9
    <3>2. b # 0
      BY InstanceNumbers
    <3> QED BY <2>2, <3>1, <3>2 DEF Waiter
  <2>4. CASE x \notin found
    <3>1. sl2[x] = sl[x] /\ rm2[x] = rm[x]
      BY <2>2, <2>4
    <3>2. CASE g \in groups
      <4>1. h.inst = b /\ g.inst = 0 /\ b # 0
        BY <2>1, <3>2, <1>4, InstanceNumbers DEF Chosen, Waits
      <4>2. sl2[x] = 0
        BY <2>2, <3>1, <4>1 DEF Waiter
      <4> QED BY <2>2, <4>1, <4>2 DEF Waiter
    <3>3. CASE g \notin groups
      <4>1. h = g
        BY <2>1, <3>3, <1>4
      <4> QED BY <2>2, <3>1, <4>1 DEF Waiter
    <3> QED BY <3>2, <3>3
  <2> QED BY <2>3, <2>4
<1>11. Whereabouts(sl2, bgId, place, bgs2)
  <2> SUFFICES ASSUME NEW x \in Player
               PROVE  /\ place[x] \in {"ports", "inside"} => sl2[x] = bgId[x] /\ bgId[x] \in Instances
                      /\ place[x] = "inside" => x \in bgs2[bgId[x]].players
                      /\ place[x] \in {"offline", "offlineInside"} => sl2[x] = NoSlot
                      /\ place[x] = "world" => bgId[x] = 0
                      /\ place[x] = "travels" => bgId[x] \in {0, sl2[x]}
    BY DEF Whereabouts
  <2>1. CASE x \in found
    BY <2>1, <1>2
  <2>2. CASE x \notin found
    BY <2>2, <1>1 DEF Whereabouts
  <2> QED BY <2>1, <2>2
<1>12. MembersIn(bgId, place, bgs2)
  <2>1. \A c \in Instances : bgs[c].status = "none" => bgs[c] = NoBg
    BY <1>1 DEF MembersIn
  <2>2. \A c \in Instances : bgs2[c].status = "none" => bgs2[c] = NoBg
    BY <2>1
  <2>3. \A c \in Instances : \A p \in bgs2[c].players : bgId[p] = c /\ place[p] \in {"inside", "offlineInside"}
    BY <1>1 DEF MembersIn
  <2> QED BY ONLY <2>2, <2>3 DEF MembersIn
<1>13. Listed(place, bgs2)
  BY <1>1 DEF Listed
<1>14. FreeRunning(fr, bgs2)
  <2>1. Range(fr) \subseteq Instances
    BY <1>1, RangeOf DEF FreeRunning
  <2> QED BY <1>1, <2>1 DEF FreeRunning
<1>15. \A c \in Instances, x \in Player :
           Taker(x, c, q2, sl2, bgId, place, bgs2)
               <=> Taker(x, c, q, sl, bgId, place, bgs) \/ (c = b /\ x \in found)
  <2> SUFFICES ASSUME NEW c \in Instances, NEW x \in Player
               PROVE  Taker(x, c, q2, sl2, bgId, place, bgs2)
                          <=> Taker(x, c, q, sl, bgId, place, bgs) \/ (c = b /\ x \in found)
    OBVIOUS
  <2>1. CASE x \in found
    <3>1. ~Taker(x, c, q, sl, bgId, place, bgs) /\ InQ(q, x) /\ sl2[x] = b
      BY <2>1, <1>2
    <3>2. InQ(q2, x) /\ place[x] # "ports" /\ x \notin bgs2[c].players
      BY <2>1, <3>1, <1>2, <1>7 DEF Taker
    <3> QED BY <2>1, <3>1, <3>2 DEF Taker
  <2>2. CASE x \notin found
    BY <2>2, <1>7 DEF Taker
  <2> QED BY <2>1, <2>2
<1>16. /\ \A c \in Instances : T2[c] = T[c] \cup (IF c = b THEN found ELSE {})
       /\ \A c \in Instances : T[c] \subseteq Player
       /\ T[b] \cap found = {}
  <2>1. \A c \in Instances : /\ T[c] = {x \in Player : Taker(x, c, q, sl, bgId, place, bgs)}
                             /\ T2[c] = {x \in Player : Taker(x, c, q2, sl2, bgId, place, bgs2)}
    BY DEF TakersOf
  <2> HIDE DEF T, T2
  <2>2. ASSUME NEW c \in Instances
        PROVE  T2[c] = T[c] \cup (IF c = b THEN found ELSE {}) /\ T[c] \subseteq Player
    <3> DEFINE C(x) == Taker(x, c, q, sl, bgId, place, bgs)
               D(x) == Taker(x, c, q2, sl2, bgId, place, bgs2)
    <3>1. \A x \in Player : D(x) <=> C(x) \/ (c = b /\ x \in found)
      BY <1>15
    <3>2. T[c] = {x \in Player : C(x)} /\ T2[c] = {x \in Player : D(x)}
      BY <2>1
    <3> HIDE DEF C, D
    <3>3. found \subseteq Player
      BY <1>2
    <3> QED BY ONLY <3>1, <3>2, <3>3
  <2>3. T[b] \cap found = {}
    BY <2>1, <1>2
  <2> QED BY <2>2, <2>3
<1> HIDE DEF T, T2
<1>17. Exact(T2, bgs2, mis)
  <2> SUFFICES ASSUME NEW c \in Instances, bgs2[c].status # "none", c \notin mis, NEW t \in Teams
               PROVE  bgs2[c].invited[t] = Cardinality(OfTeam(T2[c], t))
    BY DEF Exact
  <2>0. bgs[c].status # "none"
    OBVIOUS
  <2>1. bgs[c].invited[t] = Cardinality(OfTeam(T[c], t))
    BY ONLY <2>0, <1>1, c \in Instances, c \notin mis, t \in Teams DEF Exact
  <2>2. CASE c # b
    <3>1. T2[c] = T[c]
      BY ONLY <2>2, <1>16, c \in Instances
    <3>2. bgs2[c] = bgs[c]
      BY <2>2
    <3> QED BY <2>1, <3>1, <3>2
  <2>3. CASE c = b
    <3>1. Cardinality(OfTeam(T[b] \cup found, t))
              = Cardinality(OfTeam(T[b], t)) + Cardinality(OfTeam(found, t))
      <4>1. T[b] \subseteq Player /\ found \subseteq Player /\ T[b] \cap found = {}
        BY ONLY <1>2, <1>16, b \in Instances
      <4> QED BY ONLY <4>1, TwoCounts
    <3>2. T2[b] = T[b] \cup found /\ T2[b] \subseteq Player
      BY <1>2, <1>16
    <3>3. Cardinality(OfTeam(T2[b], t)) \in Nat /\ Cardinality(OfTeam(T2[b], t)) < Wrap
      BY <3>2, TeamCounts
    <3>4. bgs2[b].invited[t] = Cardinality(OfTeam(T2[b], t)) % Wrap
      BY <2>1, <2>3, <3>1, <3>2
    <3>5. \A n \in Nat : n < Wrap => n % Wrap = n
      BY InRange
    <3> QED BY <2>3, <3>3, <3>4, <3>5
  <2> QED BY <2>2, <2>3
<1>18. SlotsTaken(T2, sl2, bgs2, mis)
  <2> SUFFICES ASSUME NEW x \in Player, sl2[x] > 0, sl2[x] \notin mis
               PROVE  bgs2[sl2[x]].status # "none" /\ x \in T2[sl2[x]]
    BY DEF SlotsTaken
  <2>1. CASE x \in found
    BY <2>1, <1>16
  <2>2. CASE x \notin found
    <3>1. sl2[x] = sl[x]
      BY <2>2
    <3>2. sl[x] \in Instances
      BY <3>1, <1>1, InstanceNumbers DEF Slots, NoSlot
    <3>3. bgs[sl[x]].status # "none" /\ x \in T[sl[x]]
      BY <3>1, <1>1 DEF SlotsTaken
    <3>4. x \in T2[sl[x]]
      BY <3>2, <3>3, <1>16
    <3> QED BY <3>1, <3>2, <3>3, <3>4
  <2> QED BY <2>1, <2>2
<1> QED BY <1>1, <1>8, <1>9, <1>10, <1>11, <1>12, <1>13, <1>14, <1>17, <1>18 DEF Good, T2

\* A state of an update is sound if the invariant holds in it, and whoever has
\* another slot than at first has that of a battleground that is there.
Moved(s) == \A p \in Player : s.slot[p] # slot[p] =>
                s.slot[p] \in Instances /\ s.bg[s.slot[p]].status # "none"
Sound(s) ==
    /\ s \in Updates
    /\ Good(s.queue, s.slot, s.removals, bgId, place, s.bg, s.free, s.miscounted)
    /\ Moved(s)
    /\ Fit(s.bg, s.miscounted)
SameStatus(s, s2) == \A c \in Instances : s2.bg[c].status = s.bg[c].status

\* The queue after an invitation.
QueueInvited(q, groups, b, st) ==
    [k \in Kinds |-> [t \in Teams |-> [i \in DOMAIN q[k][t] |-> Invited(q[k][t][i], groups, b, st)]]]

LEMMA QueueInvitedFacts ==
    ASSUME NEW q \in Queues, NEW groups, NEW b \in Instances, NEW st \in Nat
    PROVE  /\ QueueInvited(q, groups, b, st) \in Queues
           /\ \A t \in Teams : In(QueueInvited(q, groups, b, st), t) = {Invited(g, groups, b, st) : g \in In(q, t)}
<1> DEFINE q2 == QueueInvited(q, groups, b, st)
           v(k, t) == [i \in DOMAIN q[k][t] |-> Invited(q[k][t][i], groups, b, st)]
<1>1. q2 = [k \in Kinds |-> [t \in Teams |-> v(k, t)]]
  BY DEF QueueInvited
<1>2. ASSUME NEW k \in Kinds, NEW t \in Teams
      PROVE  v(k, t) \in Seq(GroupRec) /\ Range(v(k, t)) = {Invited(g, groups, b, st) : g \in Range(q[k][t])}
  <2> DEFINE s == q[k][t]
             w == v(k, t)
  <2>1. s \in Seq(GroupRec)
    BY DEF Queues
  <2>2. Len(s) \in Nat /\ DOMAIN s = 1..Len(s) /\ \A i \in 1..Len(s) : s[i] \in GroupRec
    BY <2>1
  <2>3. w = [i \in 1..Len(s) |-> Invited(s[i], groups, b, st)]
    BY <2>2
  <2> HIDE DEF w, s
  <2>4. w \in Seq(GroupRec) /\ Len(w) = Len(s)
    <3>1. \A i \in 1..Len(s) : Invited(s[i], groups, b, st) \in GroupRec
      BY <2>2, InvitedFacts
    <3> QED BY <3>1, <2>2, <2>3
  <2>5. Range(w) = {w[i] : i \in 1..Len(s)} /\ Range(s) = {s[i] : i \in 1..Len(s)}
    BY <2>1, <2>4, RangeOf
  <2>6. Range(w) = {Invited(g, groups, b, st) : g \in Range(s)}
    BY <2>3, <2>5
  <2> QED BY <2>4, <2>6 DEF w, s
<1> HIDE DEF v, q2
<1>3. q2 \in Queues
  BY <1>1, <1>2 DEF Queues
<1>4. ASSUME NEW t \in Teams
      PROVE  In(q2, t) = {Invited(g, groups, b, st) : g \in In(q, t)}
  <2>1. q2["premade"][t] = v("premade", t) /\ q2["normal"][t] = v("normal", t)
    BY <1>1 DEF Kinds
  <2>2. /\ Range(v("premade", t)) = {Invited(g, groups, b, st) : g \in Range(q["premade"][t])}
        /\ Range(v("normal", t)) = {Invited(g, groups, b, st) : g \in Range(q["normal"][t])}
    BY <1>2 DEF Kinds
  <2> QED BY <2>1, <2>2 DEF In
<1> QED BY <1>3, <1>4 DEF q2

LEMMA PoolGroups ==
    ASSUME NEW q, NEW pools, PoolsFrom(pools, q)
    PROVE  Chosen(UNION {Range(pools[t]) : t \in Teams}, q)
<1>1. \A t \in Teams : Range(pools[t]) \subseteq Ready(In(q, t))
  BY RangeOf DEF PoolsFrom
<1> QED BY <1>1 DEF Chosen, Ready

\* An update with another queue, and so on.
Changed(s, b, q, inv, sl, rm) == [s EXCEPT !.queue = q, !.bg[b].invited = inv, !.slot = sl, !.removals = rm]

LEMMA UpdateOfParts ==
    ASSUME NEW s \in Updates, NEW b \in Instances, NEW q, NEW inv, NEW sl, NEW rm
    PROVE  Changed(s, b, q, inv, sl, rm)
             = [queue |-> q, slot |-> sl, removals |-> rm, bg |-> [s.bg EXCEPT ![b].invited = inv],
                    free |-> s.free, miscounted |-> s.miscounted, returned |-> s.returned]
<1>1. s = [queue |-> s.queue, slot |-> s.slot, removals |-> s.removals, bg |-> s.bg, free |-> s.free,
              miscounted |-> s.miscounted, returned |-> s.returned]
  BY DEF Updates
<1> DEFINE s1 == [s EXCEPT !.queue = q]
           bgs2 == [s.bg EXCEPT ![b].invited = inv]
           s3 == [s1 EXCEPT !.bg = bgs2]
<1>2. s1 = [queue |-> q, slot |-> s.slot, removals |-> s.removals, bg |-> s.bg, free |-> s.free,
              miscounted |-> s.miscounted, returned |-> s.returned]
  BY <1>1
<1>3. s1.bg = s.bg
  BY <1>2
<1>b. bgs2 = [s1.bg EXCEPT ![b] = [s1.bg[b] EXCEPT !.invited = inv]]
  BY <1>3
<1> HIDE DEF bgs2
<1>4. s3 = [queue |-> q, slot |-> s.slot, removals |-> s.removals, bg |-> bgs2, free |-> s.free,
              miscounted |-> s.miscounted, returned |-> s.returned]
  <2> HIDE DEF s1
  <2> QED BY <1>2
<1>5. [s EXCEPT !.queue = q, !.bg[b].invited = inv, !.slot = sl, !.removals = rm]
        = [s3 EXCEPT !.slot = sl, !.removals = rm]
  BY <1>b, <1>3, Zenon
<1> DEFINE s4 == [s3 EXCEPT !.slot = sl]
<1>s. s4 = [queue |-> q, slot |-> sl, removals |-> s.removals, bg |-> bgs2,
                    free |-> s.free, miscounted |-> s.miscounted, returned |-> s.returned]
  <2> HIDE DEF s3
  <2> QED BY <1>4
<1>6. [s3 EXCEPT !.slot = sl, !.removals = rm] = [queue |-> q, slot |-> sl, removals |-> rm, bg |-> bgs2,
                    free |-> s.free, miscounted |-> s.miscounted, returned |-> s.returned]
  <2> HIDE DEF s4
  <2>1. [s4 EXCEPT !.removals = rm] = [queue |-> q, slot |-> sl, removals |-> rm, bg |-> bgs2, free |-> s.free,
            miscounted |-> s.miscounted, returned |-> s.returned]
    BY <1>s
  <2> QED BY <2>1 DEF s4
<1> HIDE DEF s3
<1>7. bgs2 = [s.bg EXCEPT ![b].invited = inv]
  BY DEF bgs2
<1> DEFINE L == [s EXCEPT !.queue = q, !.bg[b].invited = inv, !.slot = sl, !.removals = rm]
           M == [s3 EXCEPT !.slot = sl, !.removals = rm]
<1>8. L = M
  BY <1>5
<1>9. M = [queue |-> q, slot |-> sl, removals |-> rm, bg |-> [s.bg EXCEPT ![b].invited = inv],
                    free |-> s.free, miscounted |-> s.miscounted, returned |-> s.returned]
  <2> HIDE DEF M
  <2>1. M = [queue |-> q, slot |-> sl, removals |-> rm, bg |-> bgs2,
                    free |-> s.free, miscounted |-> s.miscounted, returned |-> s.returned]
    BY <1>6 DEF M
  <2> QED BY <2>1, <1>7
<1> HIDE DEF M
<1>10. L = [queue |-> q, slot |-> sl, removals |-> rm, bg |-> [s.bg EXCEPT ![b].invited = inv],
                    free |-> s.free, miscounted |-> s.miscounted, returned |-> s.returned]
  <2> HIDE DEF L
  <2> QED BY <1>8, <1>9
<1> QED BY <1>10 DEF Changed

\* There is room for the pools in a battleground.
HasRoom(s, pools, b) ==
    b \notin s.miscounted => \A t \in Teams : s.bg[b].invited[t] + PlayerCount(pools[t]) <= MaxPlayersPerTeam

\* Those who are found are no more than the pools have.
LEMMA FoundInPools ==
    ASSUME NEW q, NEW sl, NEW rm, NEW bgs, NEW fr, NEW mis, Good(q, sl, rm, bgId, place, bgs, fr, mis),
           NEW pools, PoolsFrom(pools, q),
           NEW found, found = Found(UNION {g.players : g \in UNION {Range(pools[t]) : t \in Teams}}),
           NEW t \in Teams
    PROVE  /\ Cardinality(OfTeam(found, t)) <= PlayerCount(pools[t])
           /\ PlayerCount(pools[t]) \in Nat /\ Cardinality(OfTeam(found, t)) \in Nat
<1> DEFINE P == UNION {g.players : g \in Range(pools[t])}
<1>1. q \in Queues /\ OneGroup(q)
  BY DEF Good
<1>2. \A u \in Teams : pools[u] \in Seq(Ready(In(q, u))) /\ In(q, u) \subseteq GroupRec
  BY <1>1, QueueFacts DEF PoolsFrom
<1>3. \A u \in Teams : Range(pools[u]) \subseteq In(q, u)
  <2>1. ASSUME NEW u \in Teams
        PROVE  Range(pools[u]) \subseteq In(q, u)
    <3>1. Range(pools[u]) \subseteq Ready(In(q, u))
      BY <1>2, RangeOf
    <3> QED BY <3>1 DEF Ready
  <2> QED BY <2>1
<1>4. ASSUME NEW p \in OfTeam(found, t)
      PROVE  p \in P
  <2>1. p \in found /\ TeamOf[p] = t
    BY DEF OfTeam
  <2>2. PICK u \in Teams : \E g \in Range(pools[u]) : p \in g.players
    BY <2>1 DEF Found
  <2>3. TeamOf[p] = u
    BY <2>2, <1>1, <1>3 DEF OneGroup
  <2> QED BY <2>1, <2>2, <2>3
<1>5. pools[t] \in Seq(GroupRec) /\ PlayerCount(pools[t]) \in Nat
  BY <1>2, ReadyGroups
<1>6. IsFiniteSet(P) /\ Cardinality(P) <= PlayerCount(pools[t])
  BY <1>5, CountCovers
<1> HIDE DEF P
<1>7. IsFiniteSet(OfTeam(found, t)) /\ Cardinality(OfTeam(found, t)) <= Cardinality(P)
  BY <1>4, <1>6, FS_Subset
<1>8. Cardinality(OfTeam(found, t)) \in Nat /\ Cardinality(P) \in Nat
  BY <1>6, <1>7, FS_CardinalityType
<1> QED BY <1>5, <1>6, <1>7, <1>8

\* InviteGroupToBG for the groups of both pools.
LEMMA InviteStep ==
    ASSUME NEW s, Sound(s), NEW pools, PoolsFrom(pools, s.queue), NEW b \in Instances,
           s.bg[b].status # "none", HasRoom(s, pools, b)
    PROVE  /\ Sound(Invite(s, pools, b)) /\ SameStatus(s, Invite(s, pools, b))
           /\ Invite(s, pools, b).free = s.free
<1> DEFINE groups == UNION {Range(pools[t]) : t \in Teams}
           st == FreshStamp(s)
           e == [inst |-> b, stamp |-> st]
           found == Found(UNION {g.players : g \in groups})
           q2 == QueueInvited(s.queue, groups, b, st)
           inv == [t \in Teams |-> (s.bg[b].invited[t] + Cardinality({p \in found : TeamOf[p] = t})) % Wrap]
           bgs2 == [s.bg EXCEPT ![b].invited = inv]
           sl2 == [p \in Player |-> IF p \in found /\ s.slot[p] # NoSlot THEN b ELSE s.slot[p]]
           rm2 == [p \in Player |-> IF p \in found THEN Append(s.removals[p], e) ELSE s.removals[p]]
           s2 == Changed(s, b, q2, inv, sl2, rm2)
<1>1. /\ s \in Updates /\ Good(s.queue, s.slot, s.removals, bgId, place, s.bg, s.free, s.miscounted)
      /\ Moved(s) /\ Fit(s.bg, s.miscounted)
  BY DEF Sound
<1>2. /\ s.queue \in Queues /\ s.slot \in Slots /\ s.removals \in Removals /\ s.bg \in [Instances -> BgRecs]
      /\ s.free \in Seq(Instances) /\ s.miscounted \in SUBSET Instances /\ s.returned \in BOOLEAN
      /\ s = [queue |-> s.queue, slot |-> s.slot, removals |-> s.removals, bg |-> s.bg, free |-> s.free,
              miscounted |-> s.miscounted, returned |-> s.returned]
  BY <1>1 DEF Updates
<1>3. Invite(s, pools, b) = s2
  <2> DEFINE v == [inst |-> b, stamp |-> st]
             q3 == [k \in Kinds |-> [t \in Teams |-> [i \in DOMAIN s.queue[k][t] |->
                        IF s.queue[k][t][i] \in groups
                        THEN [s.queue[k][t][i] EXCEPT !.inst = v.inst, !.stamp = v.stamp] ELSE s.queue[k][t][i]]]]
  <2>1. v.inst = b /\ v.stamp = st
    OBVIOUS
  <2>2. Invite(s, pools, b) = Changed(s, b, q3, inv, sl2, rm2)
    BY Zenon DEF Invite, Changed
  <2>3. q3 = q2
    <3> HIDE DEF v, st, groups
    <3> QED BY <2>1, Zenon DEF QueueInvited, Invited
  <2> HIDE DEF q3, q2, inv, sl2, rm2
  <2> QED BY <2>2, <2>3
<1>4. st \in Nat /\ Chosen(groups, s.queue)
  BY <1>1, FreshNumber, PoolGroups
<1>t. \A t \in Teams :
          /\ Cardinality(OfTeam(found, t)) <= PlayerCount(pools[t])
          /\ PlayerCount(pools[t]) \in Nat /\ Cardinality(OfTeam(found, t)) \in Nat
  <2>1. found = Found(UNION {g.players : g \in UNION {Range(pools[t]) : t \in Teams}})
    OBVIOUS
  <2> HIDE DEF found
  <2> QED BY ONLY <2>1, <1>1, PoolsFrom(pools, s.queue), FoundInPools
<1> DEFINE T == s2
<1>5. s2 = [queue |-> q2, slot |-> sl2, removals |-> rm2, bg |-> bgs2, free |-> s.free,
            miscounted |-> s.miscounted, returned |-> s.returned]
  <2>1. bgs2 = [s.bg EXCEPT ![b].invited = inv]
    OBVIOUS
  <2> HIDE DEF q2, bgs2, sl2, rm2, inv
  <2>2. s2 = [queue |-> q2, slot |-> sl2, removals |-> rm2, bg |-> [s.bg EXCEPT ![b].invited = inv],
              free |-> s.free, miscounted |-> s.miscounted, returned |-> s.returned]
    BY <1>1, UpdateOfParts
  <2> HIDE DEF s2
  <2> QED BY <2>1, <2>2, Zenon
<1> HIDE DEF groups, st
<1>6. found \subseteq Player /\ \A p \in found : s.slot[p] = 0
  <2>1. found = Found(UNION {g.players : g \in groups})
    OBVIOUS
  <2> HIDE DEF found
  <2> QED BY ONLY <2>1, <1>1, <1>4, FoundFacts
<1>f. found = Found(UNION {g.players : g \in groups})
  OBVIOUS
<1> HIDE DEF found
<1>7. q2 \in Queues /\ \A t \in Teams : In(q2, t) = {Invited(g, groups, b, st) : g \in In(s.queue, t)}
  <2>1. s.queue \in Queues
    BY <1>2
  <2> QED BY ONLY <2>1, <1>4, b \in Instances, QueueInvitedFacts
<1> HIDE DEF q2
<1>8. /\ sl2 \in Slots /\ (\A p \in found : sl2[p] = b) /\ (\A p \in Player \ found : sl2[p] = s.slot[p])
  <2>1. b \in NoSlot..MaxInstances /\ 0 # NoSlot
    BY InstanceNumbers DEF Instances, NoSlot
  <2> QED BY <2>1, <1>2, <1>6 DEF Slots
<1> HIDE DEF sl2
<1>9. /\ rm2 \in [Player -> Seq(Events)]
      /\ \A p \in found : rm2[p] = Append(s.removals[p], e)
      /\ \A p \in Player \ found : rm2[p] = s.removals[p]
  <2>1. e \in Events
    BY <1>4, InstanceNumbers, BoundsAssumption DEF Events, Instances
  <2>2. s.removals \in [Player -> Seq(Events)]
    BY <1>2 DEF Removals
  <2> HIDE DEF e
  <2>3. \A p \in Player : Append(s.removals[p], e) \in Seq(Events)
    BY <2>1, <2>2
  <2> QED BY <2>2, <2>3, <1>6
<1>e. e = [inst |-> b, stamp |-> st]
  OBVIOUS
<1> HIDE DEF rm2, e
<1>10. inv \in [Teams -> 0..Wrap-1]
       /\ \A t \in Teams : inv[t] = (s.bg[b].invited[t] + Cardinality(OfTeam(found, t))) % Wrap
  <2>1. \A t \in Teams : {p \in found : TeamOf[p] = t} = OfTeam(found, t)
    BY DEF OfTeam
  <2>2. \A t \in Teams : inv[t] = (s.bg[b].invited[t] + Cardinality(OfTeam(found, t))) % Wrap
    BY <2>1
  <2>3. \A t \in Teams : inv[t] \in 0..Wrap-1
    <3>1. \A t \in Teams : Cardinality(OfTeam(found, t)) \in Nat
      BY <1>6, TeamCounts
    <3>2. \A t \in Teams : s.bg[b].invited[t] \in Nat
      <4>1. s.bg[b] \in BgRecs
        BY <1>2
      <4>2. \A t \in Teams : s.bg[b].invited[t] \in 0..Wrap-1
        BY <4>1 DEF BgRecs
      <4>3. 0..Wrap-1 \subseteq Nat
        BY BoundsAssumption
      <4> QED BY <4>2, <4>3
    <3>3. \A t \in Teams : s.bg[b].invited[t] + Cardinality(OfTeam(found, t)) \in Nat
      BY <3>1, <3>2
    <3>4. \A n \in Nat : n % Wrap \in 0..Wrap-1
      BY InRange
    <3> HIDE DEF inv
    <3> QED BY <2>2, <3>3, <3>4
  <2> QED BY <2>2, <2>3
<1> HIDE DEF inv
<1>11. /\ bgs2 \in [Instances -> BgRecs]
       /\ \A c \in Instances : /\ bgs2[c].status = s.bg[c].status /\ bgs2[c].players = s.bg[c].players
                               /\ bgs2[c].offline = s.bg[c].offline
       /\ \A c \in Instances \ {b} : bgs2[c] = s.bg[c]
       /\ bgs2[b].invited = inv
  <2> DEFINE y == [s.bg[b] EXCEPT !.invited = inv]
  <2>1. /\ y \in BgRecs /\ y.status = s.bg[b].status /\ y.players = s.bg[b].players
        /\ y.offline = s.bg[b].offline /\ y.invited = inv
    <3>1. s.bg[b] \in BgRecs
      BY <1>2
    <3> QED BY <3>1, <1>10 DEF BgRecs
  <2>2. bgs2 = [s.bg EXCEPT ![b] = y]
    OBVIOUS
  <2> HIDE DEF y, bgs2
  <2>3. bgs2 \in [Instances -> BgRecs] /\ bgs2[b] = y /\ \A c \in Instances \ {b} : bgs2[c] = s.bg[c]
    BY <2>1, <2>2, <1>2
  <2> QED BY <2>1, <2>3
<1> HIDE DEF bgs2
<1>12. Good(q2, sl2, rm2, bgId, place, bgs2, s.free, s.miscounted)
  <2>1. \A t \in Teams : bgs2[b].invited[t] = (s.bg[b].invited[t] + Cardinality(OfTeam(found, t))) % Wrap
    BY <1>10, <1>11
  <2>2. \A p \in found : rm2[p] = Append(s.removals[p], [inst |-> b, stamp |-> st])
    BY <1>9, <1>e
  <2> DEFINE q == s.queue
             sl == s.slot
             rm == s.removals
             bgs == s.bg
             fr == s.free
             mis == s.miscounted
  <2>3. Good(q, sl, rm, bgId, place, bgs, fr, mis) /\ Chosen(groups, q) /\ bgs[b].status # "none"
    BY <1>1, <1>4
  <2>4. (\A t \in Teams : In(q2, t) = {Invited(g, groups, b, st) : g \in In(q, t)})
        /\ (\A p \in Player \ found : sl2[p] = sl[p])
        /\ (\A p \in found : rm2[p] = Append(rm[p], [inst |-> b, stamp |-> st]))
        /\ \A p \in Player \ found : rm2[p] = rm[p]
    BY <1>7, <1>8, <1>9, <2>2
  <2>5. \A c \in Instances : /\ bgs2[c].status = bgs[c].status /\ bgs2[c].players = bgs[c].players
                             /\ bgs2[c].offline = bgs[c].offline
    BY <1>11
  <2>6. \A c \in Instances \ {b} : bgs2[c] = bgs[c]
    BY <1>11
  <2>7. \A t \in Teams : bgs2[b].invited[t] = (bgs[b].invited[t] + Cardinality(OfTeam(found, t))) % Wrap
    BY <2>1
  <2>9. st \in Nat /\ q2 \in Queues /\ sl2 \in Slots /\ rm2 \in [Player -> Seq(Events)]
        /\ bgs2 \in [Instances -> BgRecs]
    BY <1>4, <1>7, <1>8, <1>9, <1>11
  <2>10. \A p \in found : sl2[p] = b
    BY <1>8
  <2>a. \A t \in Teams : In(q2, t) = {Invited(g, groups, b, st) : g \in In(q, t)}
    BY <2>4
  <2>b. \A p \in Player \ found : sl2[p] = sl[p]
    BY <2>4
  <2>c. \A p \in found : rm2[p] = Append(rm[p], [inst |-> b, stamp |-> st])
    BY <2>4
  <2>d. \A p \in Player \ found : rm2[p] = rm[p]
    BY <2>4
  <2> HIDE DEF q, sl, rm, bgs, fr, mis
  <2>8. Good(q2, sl2, rm2, bgId, place, bgs2, fr, mis)
    <3>1. Inviting(q, sl, rm, bgs, groups, found, b, st, q2, sl2, rm2, bgs2)
      BY ONLY <1>f, <2>3, <2>a, <2>b, <2>c, <2>d, <2>5, <2>6, <2>7, <2>9, <2>10, b \in Instances, Zenon
         DEF Inviting
    <3> QED BY ONLY <2>3, <3>1, InviteCore
  <2> QED BY <2>8 DEF fr, mis
<1>13. rm2 \in Removals
  BY <1>12 DEF Good
<1>14. s2 \in Updates
  BY <1>2, <1>5, <1>7, <1>8, <1>11, <1>13 DEF Updates
<1>15. s2.queue = q2 /\ s2.slot = sl2 /\ s2.removals = rm2 /\ s2.bg = bgs2 /\ s2.free = s.free
       /\ s2.miscounted = s.miscounted
  BY <1>5
<1> HIDE DEF s2
<1>16. Moved(s2)
  <2> SUFFICES ASSUME NEW p \in Player, sl2[p] # slot[p]
               PROVE  sl2[p] \in Instances /\ bgs2[sl2[p]].status # "none"
    BY <1>15 DEF Moved
  <2>1. CASE p \in found
    BY <2>1, <1>8, <1>11
  <2>2. CASE p \notin found
    <3>1. sl2[p] = s.slot[p]
      BY <2>2, <1>8
    <3>2. s.slot[p] \in Instances /\ s.bg[s.slot[p]].status # "none"
      BY <3>1, <1>1 DEF Moved
    <3> QED BY <3>1, <3>2, <1>11
  <2> QED BY <2>1, <2>2
<1>f2. Fit(bgs2, s.miscounted)
  <2> SUFFICES ASSUME NEW c \in Instances, bgs2[c].status # "none", c \notin s.miscounted, NEW t \in Teams
               PROVE  bgs2[c].invited[t] <= MaxPlayersPerTeam
    BY DEF Fit
  <2>1. CASE c # b
    BY <2>1, <1>1, <1>11 DEF Fit
  <2>2. CASE c = b
    <3> DEFINE k == s.bg[b].invited[t]
               m == Cardinality(OfTeam(found, t))
    <3>1. bgs2[c].invited[t] = (k + m) % Wrap
      BY <2>2, <1>10, <1>11
    <3>2. k \in Nat
      <4>1. s.bg[b].invited \in [Teams -> 0..Wrap-1]
        BY <1>2 DEF BgRecs
      <4> QED BY <4>1
    <3>3. k + PlayerCount(pools[t]) <= MaxPlayersPerTeam
      BY <2>2 DEF HasRoom
    <3> HIDE DEF k
    <3>4. k + m \in Nat /\ k + m <= MaxPlayersPerTeam
      <4>1. m \in Nat /\ m <= PlayerCount(pools[t]) /\ PlayerCount(pools[t]) \in Nat
        BY <1>t
      <4> HIDE DEF m
      <4> QED BY <4>1, <3>2, <3>3, TeamSizeAssumption
    <3> HIDE DEF m
    <3>5. k + m < Wrap
      BY <3>4, TeamSizeAssumption, BoundsAssumption
    <3>6. (k + m) % Wrap = k + m
      BY <3>4, <3>5, InRange
    <3> QED BY <3>1, <3>4, <3>6
  <2> QED BY <2>1, <2>2
<1>17. Sound(s2)
  BY <1>12, <1>14, <1>15, <1>16, <1>f2 DEF Sound
<1> QED BY <1>3, <1>11, <1>15, <1>17 DEF SameStatus


LEMMA FreeLess ==
    ASSUME NEW fr, NEW bgs, FreeRunning(fr, bgs), NEW S
    PROVE  FreeRunning(Those(fr, S), bgs)
<1>1. fr \in Seq(Instances) /\ IsInjective(fr) /\ \A b \in Range(fr) : bgs[b].status \in {"join", "progress"}
  BY DEF FreeRunning
<1> DEFINE w == Those(fr, S)
<1>2. w \in Seq(Instances \cap S) /\ Range(w) = Range(fr) \cap S /\ IsInjective(w)
  BY <1>1, ThoseFacts
<1> HIDE DEF w
<1>3. w \in Seq(Instances)
  BY <1>2, SeqLarger
<1> QED BY <1>1, <1>2, <1>3 DEF FreeRunning, w

LEMMA FreeChanged ==
    ASSUME NEW s, Sound(s), NEW fr, FreeRunning(fr, s.bg)
    PROVE  Sound([s EXCEPT !.free = fr]) /\ SameStatus(s, [s EXCEPT !.free = fr])
<1> DEFINE s2 == [s EXCEPT !.free = fr]
<1>1. /\ s \in Updates /\ Good(s.queue, s.slot, s.removals, bgId, place, s.bg, s.free, s.miscounted)
      /\ Moved(s) /\ Fit(s.bg, s.miscounted)
  BY DEF Sound
<1>2. fr \in Seq(Instances)
  BY DEF FreeRunning
<1>3. /\ s2 \in Updates /\ s2.queue = s.queue /\ s2.slot = s.slot /\ s2.removals = s.removals
      /\ s2.bg = s.bg /\ s2.free = fr /\ s2.miscounted = s.miscounted
  BY <1>1, <1>2 DEF Updates
<1> HIDE DEF s2
<1>4. Good(s.queue, s.slot, s.removals, bgId, place, s.bg, fr, s.miscounted)
  BY <1>1 DEF Good
<1>5. Sound(s2)
  BY <1>1, <1>3, <1>4 DEF Sound, Moved
<1> QED BY <1>3, <1>5 DEF SameStatus, s2

\* GetFreeSlotsForTeam is at most what the invited leave of the team.
LEMMA FreeFacts ==
    ASSUME NEW x \in BgRecs, NEW t \in Teams
    PROVE  /\ FreeSlotsForTeam(x, t) \in Nat
           /\ x.invited[t] \in Nat
           /\ x.invited[t] <= MaxPlayersPerTeam
                  => x.invited[t] + FreeSlotsForTeam(x, t) <= MaxPlayersPerTeam
<1> DEFINE o == Other(t)
           invited == x.invited[t]
           otherTeam == x.invited[o]
           in == Cardinality(Members(x, t))
           otherIn == Cardinality(Members(x, o))
           more(other, own) == IF other = own THEN 1 ELSE Max({0, other - own})
           diff2 == Max({0, MaxPlayersPerTeam - invited})
           diff3 == IF otherIn < in /\ invited <= MinPlayersPerTeam
                    THEN MinPlayersPerTeam - invited + 1
                    ELSE more(otherIn, in)
           three == {more(otherTeam, invited), diff2, diff3}
<1>1. FreeSlotsForTeam(x, t) = IF x.status = "join" THEN diff2 ELSE Min(three)
  BY DEF FreeSlotsForTeam
<1>2. invited \in Nat /\ otherTeam \in Nat
  <2>1. x.invited \in [Teams -> 0..Wrap-1] /\ o \in Teams
    BY TwoTeams DEF BgRecs
  <2> HIDE DEF o
  <2> QED BY <2>1
<1>3. in \in Nat /\ otherIn \in Nat
  <2>1. \A u : Members(x, u) \subseteq Player
    BY DEF Members, BgRecs
  <2>2. \A u : IsFiniteSet(Members(x, u))
    BY <2>1, PlayersAssumption, FS_Subset
  <2> QED BY <2>2, FS_CardinalityType
<1>4. MaxPlayersPerTeam \in Nat /\ MinPlayersPerTeam \in Nat
  BY TeamSizeAssumption
<1>5. \A other, own \in Nat : more(other, own) \in Nat
  <2>1. ASSUME NEW other \in Nat, NEW own \in Nat
        PROVE  more(other, own) \in Nat
    <3>1. other - own \in Int
      OBVIOUS
    <3> QED BY <3>1, NotNegative
  <2> QED BY <2>1
<1> HIDE DEF invited, otherTeam, in, otherIn
<1>6. diff2 \in Nat /\ (invited <= MaxPlayersPerTeam => invited + diff2 <= MaxPlayersPerTeam)
  <2> DEFINE y == MaxPlayersPerTeam - invited
  <2>1. y \in Int /\ (invited <= MaxPlayersPerTeam => y \in Nat)
    BY <1>2, <1>4
  <2>2. diff2 \in Nat /\ (diff2 = 0 \/ diff2 = y)
    BY <2>1, NotNegative
  <2> HIDE DEF diff2
  <2> QED BY <2>2, <1>2, <1>4
<1>7. more(otherTeam, invited) \in Nat /\ more(otherIn, in) \in Nat
  BY <1>2, <1>3, <1>5
<1>8. diff3 \in Nat
  <2> HIDE DEF more
  <2>1. invited <= MinPlayersPerTeam => MinPlayersPerTeam - invited + 1 \in Nat
    BY <1>2, <1>4
  <2> QED BY <2>1, <1>7
<1> HIDE DEF diff2, diff3, more
<1>9. Min(three) \in Nat /\ Min(three) <= diff2
  <2>1. three \in SUBSET Nat /\ three # {} /\ diff2 \in three
    BY <1>6, <1>7, <1>8
  <2> HIDE DEF three
  <2>2. \E y \in three : \A z \in three : y <= z
    BY <2>1, LeastNumber
  <2>3. Min(three) \in three /\ \A z \in three : Min(three) <= z
    BY <2>2 DEF Min
  <2> QED BY <2>1, <2>3
<1> HIDE DEF three
<1> DEFINE f == FreeSlotsForTeam(x, t)
<1>10. f \in Nat /\ f <= diff2
  BY <1>1, <1>6, <1>9
<1> HIDE DEF f
<1>11. f \in Nat /\ invited \in Nat /\ (invited <= MaxPlayersPerTeam => invited + f <= MaxPlayersPerTeam)
  BY <1>2, <1>4, <1>6, <1>10
<1> QED BY <1>11 DEF f, invited

LEMMA FillStep ==
    ASSUME NEW s, Sound(s), NEW b \in Instances, s.bg[b].status # "none"
    PROVE  Sound(Fill(s, b)) /\ SameStatus(s, Fill(s, b))
<1> DEFINE free == [t \in Teams |-> FreeSlotsForTeam(s.bg[b], t)]
           pools == FillPlayersToBG(s.queue["normal"], free)
           s1 == Invite(s, pools, b)
           fr == IF HasFreeSlots(s.bg[b]) THEN s1.free ELSE Those(s1.free, Instances \ {b})
<1>1. s.queue \in Queues
  BY DEF Sound, Updates
<1>b. s.bg[b] \in BgRecs /\ Fit(s.bg, s.miscounted)
  BY DEF Sound, Updates
<1>f. free \in [Teams -> Nat] /\ \A t \in Teams : free[t] = FreeSlotsForTeam(s.bg[b], t)
  BY <1>b, FreeFacts
<1>2. PoolsFrom(pools, s.queue) /\ PoolsFit(pools, free)
  <2> HIDE DEF free
  <2> QED BY <1>1, <1>f, FillPools
<1>3. Fill(s, b) = [s1 EXCEPT !.free = fr]
  BY DEF Fill
<1> HIDE DEF pools, free
<1>r. HasRoom(s, pools, b)
  <2> SUFFICES ASSUME b \notin s.miscounted, NEW t \in Teams
               PROVE  s.bg[b].invited[t] + PlayerCount(pools[t]) <= MaxPlayersPerTeam
    BY DEF HasRoom
  <2>1. s.bg[b].invited[t] <= MaxPlayersPerTeam
    BY <1>b DEF Fit
  <2>2. /\ s.bg[b].invited[t] \in Nat /\ free[t] \in Nat
        /\ s.bg[b].invited[t] + free[t] <= MaxPlayersPerTeam
    BY <2>1, <1>b, <1>f, FreeFacts
  <2>3. PlayerCount(pools[t]) <= free[t]
    BY <1>2 DEF PoolsFit
  <2>4. PlayerCount(pools[t]) \in Nat
    <3>1. pools[t] \in Seq(Ready(In(s.queue, t))) /\ In(s.queue, t) \subseteq GroupRec
      BY <1>1, <1>2, QueueFacts DEF PoolsFrom
    <3> QED BY <3>1, ReadyGroups
  <2> QED BY <2>2, <2>3, <2>4, TeamSizeAssumption
<1>4. Sound(s1) /\ SameStatus(s, s1)
  BY <1>2, <1>r, InviteStep
<1> HIDE DEF s1
<1>5. FreeRunning(s1.free, s1.bg)
  BY <1>4 DEF Sound, Good
<1>6. FreeRunning(fr, s1.bg)
  BY <1>5, FreeLess
<1> HIDE DEF fr
<1>7. Sound([s1 EXCEPT !.free = fr]) /\ SameStatus(s1, [s1 EXCEPT !.free = fr])
  BY <1>4, <1>6, FreeChanged
<1> QED BY <1>3, <1>4, <1>7 DEF SameStatus

\* All battlegrounds with free slots, one after the other.
FillBody(f, x, seq, s) == IF s = {} THEN x ELSE Fill(f[s \ {Max(s)}], seq[Max(s)])
FillFold(x, seq) == CHOOSE f : f = [s \in SUBSET DOMAIN seq |-> FillBody(f, x, seq, s)]

LEMMA FillIsFold == \A x, seq : FoldLeft(Fill, x, seq) = FillFold(x, seq)[DOMAIN seq]
BY DEF FoldLeft, MapThenFoldSet, FillFold, FillBody

LEMMA FillAll ==
    ASSUME NEW x, Sound(x), NEW seq \in Seq(Instances), \A b \in Range(seq) : x.bg[b].status # "none"
    PROVE  Sound(FoldLeft(Fill, x, seq)) /\ SameStatus(x, FoldLeft(Fill, x, seq))
<1> DEFINE S == {s \in Updates : Sound(s) /\ SameStatus(x, s)}
           n == Len(seq)
           step == [kx \in (1..n) \X S |-> Fill(kx[2], seq[kx[1]])]
<1>1. n \in Nat /\ DOMAIN seq = 1..n /\ \A k \in 1..n : seq[k] \in Instances /\ seq[k] \in Range(seq)
  BY RangeOf
<1>2. \A k \in 1..n, y \in S : step[<<k, y>>] = Fill(y, seq[k]) /\ Fill(y, seq[k]) \in S
  <2>1. ASSUME NEW k \in 1..n, NEW y \in S
        PROVE  Fill(y, seq[k]) \in S
    <3>1. Sound(y) /\ SameStatus(x, y) /\ seq[k] \in Instances /\ y.bg[seq[k]].status # "none"
      BY <1>1 DEF SameStatus
    <3>2. Sound(Fill(y, seq[k])) /\ SameStatus(y, Fill(y, seq[k]))
      BY <3>1, FillStep
    <3>3. SameStatus(x, Fill(y, seq[k]))
      BY <3>1, <3>2 DEF SameStatus
    <3> QED BY <3>2, <3>3 DEF Sound
  <2> HIDE DEF S
  <2> QED BY <2>1
<1>3. x \in S
  BY DEF Sound, SameStatus
<1>s. \A s \in S : Sound(s) /\ SameStatus(x, s)
  OBVIOUS
<1> HIDE DEF S, step, n
<1>4. PICK f : f = [s \in SUBSET (1..n) |-> FoldBody(x, step, f, s)]
  BY <1>1, FoldExists
<1>5. \A s \in SUBSET (1..n) : f[s] \in S /\ (s # {} => Max(s) \in 1..n)
  <2>1. f[{}] \in S
    BY <1>4, <1>3 DEF FoldBody
  <2>2. ASSUME NEW s \in SUBSET (1..n), s # {}, Max(s) \in 1..n, f[s \ {Max(s)}] \in S
        PROVE  f[s] \in S
    <3>1. f[s] = step[<<Max(s), f[s \ {Max(s)}]>>]
      BY <1>4, <2>2 DEF FoldBody
    <3> QED BY <3>1, <1>2, <2>2
  <2> QED BY <1>1, <2>1, <2>2, FoldStays
<1>6. f = [s \in SUBSET (1..n) |-> FillBody(f, x, seq, s)]
  <2>1. ASSUME NEW s \in SUBSET (1..n)
        PROVE  FoldBody(x, step, f, s) = FillBody(f, x, seq, s)
    <3>1. f[s \ {Max(s)}] \in S
      BY <1>5
    <3> QED BY <1>2, <1>5, <3>1 DEF FoldBody, FillBody
  <2> QED BY <1>4, <2>1
<1> DEFINE c == FillFold(x, seq)
<1>7. c = [s \in SUBSET (1..n) |-> FillBody(c, x, seq, s)]
  <2>1. f = [s \in SUBSET DOMAIN seq |-> FillBody(f, x, seq, s)]
    BY <1>1, <1>6
  <2>2. c = [s \in SUBSET DOMAIN seq |-> FillBody(c, x, seq, s)]
    BY <2>1 DEF FillFold
  <2> HIDE DEF c
  <2> QED BY <1>1, <2>2
<1>r. FoldLeft(Fill, x, seq) = c[1..n]
  BY <1>1, FillIsFold
<1> HIDE DEF c
<1>8. \A s \in SUBSET (1..n) : c[s] \in S /\ (s # {} => Max(s) \in 1..n)
  <2>1. c[{}] \in S
    BY <1>7, <1>3 DEF FillBody
  <2>2. ASSUME NEW s \in SUBSET (1..n), s # {}, Max(s) \in 1..n, c[s \ {Max(s)}] \in S
        PROVE  c[s] \in S
    <3>1. c[s] = Fill(c[s \ {Max(s)}], seq[Max(s)])
      BY <1>7, <2>2 DEF FillBody
    <3> QED BY <3>1, <1>2, <2>2
  <2> QED BY <1>1, <2>1, <2>2, FoldStays
<1>9. c[1..n] \in S
  BY <1>8
<1> QED BY <1>9, <1>r, <1>s


LEMMA NewBg == [NoBg EXCEPT !.status = "join"]
                  = [status |-> "join", invited |-> Zero, players |-> {}, offline |-> <<>>]
<1> DEFINE z == [status |-> "none", invited |-> Zero, players |-> {}, offline |-> <<>>]
<1>1. NoBg = z
  BY DEF NoBg
<1>2. \A i, v, w, r : r = [status |-> "none", invited |-> i, players |-> v, offline |-> w]
          => [r EXCEPT !.status = "join"] = [status |-> "join", invited |-> i, players |-> v, offline |-> w]
  OBVIOUS
<1> HIDE DEF z
<1>3. z = [status |-> "none", invited |-> Zero, players |-> {}, offline |-> <<>>]
  BY DEF z
<1> QED BY <1>1, <1>2, <1>3

\* A new battleground with a free id.  It is miscounted if anybody has the slot of the last one.
LEMMA BgOpened ==
    ASSUME NEW q, NEW sl, NEW rm, NEW bgs, NEW fr, NEW mis, Good(q, sl, rm, bgId, place, bgs, fr, mis),
           NEW b \in Instances, bgs[b].status = "none",
           NEW mis2 \in SUBSET Instances, mis \ {b} \subseteq mis2,
           b \notin mis2 => \A p \in Player : sl[p] # b
    PROVE  Good(q, sl, rm, bgId, place, [bgs EXCEPT ![b] = [NoBg EXCEPT !.status = "join"]], <<b>> \o fr, mis2)
<1> DEFINE y == [NoBg EXCEPT !.status = "join"]
           bgs2 == [bgs EXCEPT ![b] = y]
           fr2 == <<b>> \o fr
           T == TakersOf(q, sl, bgId, place, bgs)
           T2 == TakersOf(q, sl, bgId, place, bgs2)
<1>1. /\ q \in Queues /\ sl \in Slots /\ rm \in Removals
      /\ bgId \in [Player -> 0..MaxInstances] /\ place \in [Player -> Places]
      /\ bgs \in [Instances -> BgRecs] /\ FreeRunning(fr, bgs) /\ mis \subseteq Instances
      /\ OneGroup(q)
      /\ Waiters(q, sl, rm, bgId, place)
      /\ Whereabouts(sl, bgId, place, bgs)
      /\ MembersIn(bgId, place, bgs)
      /\ Listed(place, bgs)
      /\ Exact(T, bgs, mis)
      /\ SlotsTaken(T, sl, bgs, mis)
  BY DEF Good
<1>2. /\ y \in BgRecs /\ y.status = "join" /\ y.players = {} /\ y.offline = <<>>
      /\ \A t \in Teams : y.invited[t] = 0
  <2>1. 0 \in 0..Wrap-1
    BY InRange
  <2>2. y = [status |-> "join", invited |-> Zero, players |-> {}, offline |-> <<>>]
    BY NewBg
  <2>3. Zero \in [Teams -> 0..Wrap-1] /\ \A t \in Teams : Zero[t] = 0
    BY <2>1 DEF Zero
  <2> HIDE DEF y
  <2> QED BY <2>2, <2>3 DEF BgRecs
<1>3. bgs[b].players = {}
  <2>1. bgs[b] = NoBg
    BY <1>1 DEF MembersIn
  <2> QED BY <2>1 DEF NoBg
<1> HIDE DEF y
<1>4. bgs2 \in [Instances -> BgRecs] /\ bgs2[b] = y /\ \A c \in Instances \ {b} : bgs2[c] = bgs[c]
  BY <1>1, <1>2
<1> HIDE DEF bgs2
<1>5. \A c \in Instances : bgs2[c].players = bgs[c].players
  BY <1>2, <1>3, <1>4
<1>6. FreeRunning(fr2, bgs2)
  <2>1. fr \in Seq(Instances) /\ IsInjective(fr) /\ \A c \in Range(fr) : bgs[c].status \in {"join", "progress"}
    BY <1>1 DEF FreeRunning
  <2>2. b \notin Range(fr)
    BY <2>1
  <2>3. fr2 \in Seq(Instances) /\ Range(fr2) = {b} \cup Range(fr) /\ IsInjective(fr2)
    BY <2>1, <2>2, InjectiveFirst
  <2>4. Range(fr) \subseteq Instances
    BY <2>1, RangeOf
  <2> HIDE DEF fr2
  <2> QED BY <2>1, <2>3, <2>4, <1>2, <1>4 DEF FreeRunning
<1>7. Whereabouts(sl, bgId, place, bgs2)
  BY <1>1, <1>5 DEF Whereabouts
<1>8. MembersIn(bgId, place, bgs2)
  <2>1. \A c \in Instances : bgs2[c].status = "none" => bgs2[c] = NoBg
    BY <1>1, <1>2, <1>4 DEF MembersIn
  <2>2. \A c \in Instances : \A p \in bgs2[c].players : bgId[p] = c /\ place[p] \in {"inside", "offlineInside"}
    BY <1>1, <1>5 DEF MembersIn
  <2> QED BY ONLY <2>1, <2>2 DEF MembersIn
<1>9. Listed(place, bgs2)
  <2> SUFFICES ASSUME NEW c \in Instances, bgs2[c].status \in {"join", "progress"}
               PROVE  /\ IsInjective(bgs2[c].offline)
                      /\ Range(bgs2[c].offline)
                           = {p \in bgs2[c].players : place[p] \in {"offline", "offlineInside"}}
    BY DEF Listed
  <2>1. CASE c = b
    <3>1. IsInjective(<<>>) /\ Range(<<>>) = {}
      BY DEF IsInjective, Range
    <3> QED BY <2>1, <3>1, <1>2, <1>4
  <2>2. CASE c # b
    BY <2>2, <1>1, <1>4 DEF Listed
  <2> QED BY <2>1, <2>2
<1>10. \A c \in Instances : T2[c] = T[c]
  <2>1. ASSUME NEW c \in Instances, NEW p \in Player
        PROVE  Taker(p, c, q, sl, bgId, place, bgs2) <=> Taker(p, c, q, sl, bgId, place, bgs)
    BY <1>5 DEF Taker
  <2> QED BY <2>1 DEF TakersOf
<1>11. b \notin mis2 => T2[b] = {}
  <2> SUFFICES ASSUME b \notin mis2, NEW p \in Player, Taker(p, b, q, sl, bgId, place, bgs2)
               PROVE  FALSE
    BY DEF TakersOf
  <2>1. p \notin bgs2[b].players
    BY <1>3, <1>5
  <2>2. sl[p] = b
    BY <2>1, <1>1 DEF Taker, Whereabouts
  <2> QED BY <2>2
<1> HIDE DEF T, T2
<1>12. Exact(T2, bgs2, mis2)
  <2> SUFFICES ASSUME NEW c \in Instances, bgs2[c].status # "none", c \notin mis2, NEW t \in Teams
               PROVE  bgs2[c].invited[t] = Cardinality(OfTeam(T2[c], t))
    BY DEF Exact
  <2>1. CASE c = b
    <3>1. OfTeam({}, t) = {} /\ Cardinality({}) = 0
      BY FS_EmptySet DEF OfTeam
    <3> QED BY <2>1, <3>1, <1>2, <1>4, <1>11
  <2>2. CASE c # b
    <3>1. bgs2[c] = bgs[c] /\ T2[c] = T[c] /\ c \notin mis
      BY <2>2, <1>4, <1>10
    <3> QED BY <3>1, <1>1 DEF Exact
  <2> QED BY <2>1, <2>2
<1>13. SlotsTaken(T2, sl, bgs2, mis2)
  <2> SUFFICES ASSUME NEW x \in Player, sl[x] > 0, sl[x] \notin mis2
               PROVE  bgs2[sl[x]].status # "none" /\ x \in T2[sl[x]]
    BY DEF SlotsTaken
  <2>1. sl[x] \in Instances
    BY <1>1, InstanceNumbers DEF Slots, NoSlot
  <2>2. sl[x] # b
    OBVIOUS
  <2>3. sl[x] \notin mis
    BY <2>2
  <2>4. bgs[sl[x]].status # "none" /\ x \in T[sl[x]]
    BY <2>3, <1>1 DEF SlotsTaken
  <2> QED BY <2>1, <2>2, <2>4, <1>4, <1>10
<1> QED BY <1>1, <1>4, <1>6, <1>7, <1>8, <1>9, <1>12, <1>13 DEF Good, T2, bgs2, fr2, y


\* An update with another battleground, and so on.
Opened(s, b, y, fr, mis) == [s EXCEPT !.bg[b] = y, !.free = fr, !.miscounted = mis]

LEMMA OpenedParts ==
    ASSUME NEW s \in Updates, NEW b \in Instances, NEW y, NEW fr, NEW mis
    PROVE  Opened(s, b, y, fr, mis)
             = [queue |-> s.queue, slot |-> s.slot, removals |-> s.removals, bg |-> [s.bg EXCEPT ![b] = y],
                free |-> fr, miscounted |-> mis, returned |-> s.returned]
<1> DEFINE bgs == [s.bg EXCEPT ![b] = y]
           s1 == [s EXCEPT !.bg = bgs]
           s2 == [s1 EXCEPT !.free = fr]
           s3 == [s2 EXCEPT !.miscounted = mis]
<1>1. s = [queue |-> s.queue, slot |-> s.slot, removals |-> s.removals, bg |-> s.bg, free |-> s.free,
           miscounted |-> s.miscounted, returned |-> s.returned]
  BY DEF Updates
<1>2. Opened(s, b, y, fr, mis) = s3
  BY Zenon DEF Opened
<1> HIDE DEF bgs
<1>3. s1 = [queue |-> s.queue, slot |-> s.slot, removals |-> s.removals, bg |-> bgs, free |-> s.free,
            miscounted |-> s.miscounted, returned |-> s.returned]
  BY <1>1
<1> HIDE DEF s1
<1>4. s2 = [queue |-> s.queue, slot |-> s.slot, removals |-> s.removals, bg |-> bgs, free |-> fr,
            miscounted |-> s.miscounted, returned |-> s.returned]
  BY <1>3
<1> HIDE DEF s2
<1>5. s3 = [queue |-> s.queue, slot |-> s.slot, removals |-> s.removals, bg |-> bgs, free |-> fr,
            miscounted |-> mis, returned |-> s.returned]
  BY <1>4
<1> HIDE DEF s3
<1> QED BY <1>2, <1>5, Zenon DEF bgs

LEMMA ReturnedParts ==
    ASSUME NEW s \in Updates
    PROVE  LET s2 == [s EXCEPT !.returned = TRUE] IN
           /\ s2 \in Updates /\ s2.queue = s.queue /\ s2.slot = s.slot /\ s2.removals = s.removals
           /\ s2.bg = s.bg /\ s2.free = s.free /\ s2.miscounted = s.miscounted
BY DEF Updates

LEMMA StartMatchStep ==
    ASSUME NEW s, Sound(s), NEW pools, PoolsFrom(pools, s.queue), PoolsFit(pools, FullTeams)
    PROVE  Sound(StartMatch(s, pools))
<1>1. /\ s \in Updates /\ Good(s.queue, s.slot, s.removals, bgId, place, s.bg, s.free, s.miscounted)
      /\ Moved(s) /\ Fit(s.bg, s.miscounted)
  BY DEF Sound
<1> DEFINE ids == {b \in Instances : s.bg[b].status = "none"}
           b == Min(ids)
           guests == {p \in Player : slot[p] = b}
           y == [NoBg EXCEPT !.status = "join"]
           fr == <<b>> \o s.free
           mis == IF guests = {} THEN s.miscounted \ {b} ELSE s.miscounted \cup {b}
           s1 == Opened(s, b, y, fr, mis)
<1>2. CASE ids = {}
  <2> DEFINE s2 == [s EXCEPT !.returned = TRUE]
  <2>1. StartMatch(s, pools) = s2
    BY <1>2 DEF StartMatch
  <2>2. /\ s2 \in Updates /\ s2.queue = s.queue /\ s2.slot = s.slot /\ s2.removals = s.removals
        /\ s2.bg = s.bg /\ s2.free = s.free /\ s2.miscounted = s.miscounted
    BY <1>1, ReturnedParts
  <2> HIDE DEF s2
  <2>3. Sound(s2)
    BY <1>1, <2>2 DEF Sound, Moved
  <2> QED BY <2>1, <2>3
<1>3. CASE ids # {}
  <2>1. StartMatch(s, pools) = Invite(s1, pools, b)
    BY <1>3, Zenon DEF StartMatch, Opened
  <2>2. b \in Instances /\ s.bg[b].status = "none"
    <3>1. ids \in SUBSET Nat
      BY DEF Instances
    <3>2. \A k \in ids : k \in Instances /\ s.bg[k].status = "none"
      OBVIOUS
    <3> HIDE DEF ids
    <3>3. \E x \in ids : \A m \in ids : x <= m
      BY <1>3, <3>1, LeastNumber
    <3>4. Min(ids) \in ids
      BY <3>3 DEF Min
    <3> QED BY <3>2, <3>4
  <2>g. guests = {p \in Player : slot[p] = b}
    OBVIOUS
  <2> HIDE DEF b, guests
  <2>3. s1 = [queue |-> s.queue, slot |-> s.slot, removals |-> s.removals, bg |-> [s.bg EXCEPT ![b] = y],
              free |-> fr, miscounted |-> mis, returned |-> s.returned]
    <3> HIDE DEF y, fr, mis
    <3>1. s \in Updates
      BY <1>1
    <3> QED BY ONLY <3>1, <2>2, OpenedParts
  <2> HIDE DEF s1
  <2>4. /\ s1.queue = s.queue /\ s1.slot = s.slot /\ s1.removals = s.removals
        /\ s1.bg = [s.bg EXCEPT ![b] = y] /\ s1.free = fr /\ s1.miscounted = mis
        /\ s1.returned = s.returned
    BY <2>3
  <2>5. s.miscounted \subseteq Instances
    BY <1>1 DEF Good
  <2>6. mis \in SUBSET Instances /\ s.miscounted \ {b} \subseteq mis
    BY <2>2, <2>5
  <2>7. b \notin mis => \A p \in Player : s.slot[p] # b
    <3> SUFFICES ASSUME b \notin mis, NEW p \in Player, s.slot[p] = b
                 PROVE  FALSE
      OBVIOUS
    <3>1. guests = {}
      OBVIOUS
    <3>2. s.slot[p] # slot[p]
      BY <3>1, <2>g
    <3> QED BY <3>2, <1>1, <2>2 DEF Moved
  <2> HIDE DEF mis
  <2>8. Good(s.queue, s.slot, s.removals, bgId, place, [s.bg EXCEPT ![b] = y], fr, mis)
    <3> DEFINE q == s.queue
               sl == s.slot
               rm == s.removals
               bgs == s.bg
               f == s.free
               m == s.miscounted
    <3>1. /\ Good(q, sl, rm, bgId, place, bgs, f, m) /\ b \in Instances /\ bgs[b].status = "none"
          /\ mis \in SUBSET Instances /\ m \ {b} \subseteq mis
          /\ b \notin mis => \A p \in Player : sl[p] # b
      BY <1>1, <2>2, <2>6, <2>7
    <3> HIDE DEF q, sl, rm, bgs, f, m
    <3>2. Good(q, sl, rm, bgId, place, [bgs EXCEPT ![b] = y], <<b>> \o f, mis)
      BY ONLY <3>1, BgOpened
    <3> QED BY <3>2 DEF q, sl, rm, bgs, f, m
  <2>n. s1.bg[b].invited = Zero /\ \A t \in Teams : s1.bg[b].invited[t] = 0
    <3>1. y.invited = Zero
      BY NewBg
    <3>2. s.bg \in [Instances -> BgRecs]
      BY <1>1 DEF Updates
    <3> HIDE DEF y
    <3> QED BY <2>2, <2>4, <3>1, <3>2 DEF Zero
  <2>9. Sound(s1)
    <3>1. [s.bg EXCEPT ![b] = y] \in [Instances -> BgRecs] /\ fr \in Seq(Instances)
      BY <2>8 DEF Good, FreeRunning
    <3>2. s1 \in Updates
      <4>1. /\ s.queue \in Queues /\ s.slot \in Slots /\ s.removals \in Removals /\ s.returned \in BOOLEAN
        BY <1>1 DEF Updates
      <4> HIDE DEF fr
      <4> QED BY <4>1, <3>1, <2>3, <2>6 DEF Updates
    <3>3. y.status = "join"
      BY NewBg
    <3>4. Moved(s1)
      <4> HIDE DEF y
      <4> SUFFICES ASSUME NEW p \in Player, s.slot[p] # slot[p]
                   PROVE  s.slot[p] \in Instances /\ s1.bg[s.slot[p]].status # "none"
        BY <2>4 DEF Moved
      <4>1. s.slot[p] \in Instances /\ s.bg[s.slot[p]].status # "none"
        BY <1>1 DEF Moved
      <4>2. s.bg \in [Instances -> BgRecs]
        BY <1>1 DEF Updates
      <4> QED BY <4>1, <4>2, <2>2, <2>4, <3>3
    <3>5. Fit(s1.bg, s1.miscounted)
      <4> SUFFICES ASSUME NEW c \in Instances, s1.bg[c].status # "none", c \notin mis, NEW t \in Teams
                   PROVE  s1.bg[c].invited[t] <= MaxPlayersPerTeam
        BY <2>4 DEF Fit
      <4>1. CASE c = b
        BY <4>1, <2>n, TeamSizeAssumption
      <4>2. CASE c # b
        <5>1. s1.bg[c] = s.bg[c] /\ c \notin s.miscounted
          BY <4>2, <2>4, <2>6
        <5> QED BY <5>1, <1>1 DEF Fit
      <4> QED BY <4>1, <4>2
    <3> QED BY <2>4, <2>8, <3>2, <3>4, <3>5 DEF Sound
  <2>10. PoolsFrom(pools, s1.queue)
    BY <2>4
  <2>11. s1.bg[b].status # "none"
    <3>1. s.bg \in [Instances -> BgRecs]
      BY <1>1 DEF Updates
    <3>2. y.status = "join"
      BY NewBg
    <3> HIDE DEF y
    <3> QED BY <2>2, <2>4, <3>1, <3>2
  <2>r. HasRoom(s1, pools, b)
    <3> SUFFICES ASSUME NEW t \in Teams
                 PROVE  s1.bg[b].invited[t] + PlayerCount(pools[t]) <= MaxPlayersPerTeam
      BY DEF HasRoom
    <3>1. PlayerCount(pools[t]) <= MaxPlayersPerTeam
      BY DEF PoolsFit, FullTeams
    <3>2. PlayerCount(pools[t]) \in Nat
      <4>1. s.queue \in Queues
        BY <1>1 DEF Updates
      <4>2. pools[t] \in Seq(Ready(In(s.queue, t))) /\ In(s.queue, t) \subseteq GroupRec
        BY <4>1, QueueFacts DEF PoolsFrom
      <4> QED BY <4>2, ReadyGroups
    <3> QED BY <2>n, <3>1, <3>2
  <2>12. Sound(Invite(s1, pools, b))
    BY ONLY <2>2, <2>9, <2>10, <2>11, <2>r, InviteStep
  <2> QED BY <2>1, <2>12
<1> QED BY <1>2, <1>3


\* The invariant sees which groups are in the queue, not where.
LEMMA SameGroups ==
    ASSUME NEW q, NEW sl, NEW rm, NEW bgs, NEW fr, NEW mis, Good(q, sl, rm, bgId, place, bgs, fr, mis),
           NEW q2 \in Queues, \A t \in Teams : In(q2, t) = In(q, t)
    PROVE  Good(q2, sl, rm, bgId, place, bgs, fr, mis)
<1>1. /\ q \in Queues /\ sl \in Slots /\ rm \in Removals
      /\ bgId \in [Player -> 0..MaxInstances] /\ place \in [Player -> Places]
      /\ bgs \in [Instances -> BgRecs] /\ FreeRunning(fr, bgs) /\ mis \subseteq Instances
      /\ OneGroup(q)
      /\ Waiters(q, sl, rm, bgId, place)
      /\ Whereabouts(sl, bgId, place, bgs)
      /\ MembersIn(bgId, place, bgs)
      /\ Listed(place, bgs)
      /\ Exact(TakersOf(q, sl, bgId, place, bgs), bgs, mis)
      /\ SlotsTaken(TakersOf(q, sl, bgId, place, bgs), sl, bgs, mis)
  BY DEF Good
<1>2. OneGroup(q2) /\ Waiters(q2, sl, rm, bgId, place)
  BY <1>1 DEF OneGroup, Waiters
<1>3. \A p \in Player : InQ(q2, p) <=> InQ(q, p)
  BY PlayersAssumption DEF InQ
<1>4. TakersOf(q2, sl, bgId, place, bgs) = TakersOf(q, sl, bgId, place, bgs)
  BY <1>3 DEF TakersOf, Taker
<1> QED BY <1>1, <1>2, <1>4 DEF Good

MovedOn(s, t, first, rest) == [s EXCEPT !.queue["premade"][t] = first, !.queue["normal"][t] = rest]
MovedQueue(q, t, first, rest) ==
    [k \in Kinds |-> [u \in Teams |-> IF u # t THEN q[k][u] ELSE IF k = "premade" THEN first ELSE rest]]

LEMMA MovedParts ==
    ASSUME NEW s \in Updates, NEW t \in Teams, NEW first, NEW rest
    PROVE  MovedOn(s, t, first, rest)
             = [queue |-> MovedQueue(s.queue, t, first, rest), slot |-> s.slot, removals |-> s.removals,
                bg |-> s.bg, free |-> s.free, miscounted |-> s.miscounted, returned |-> s.returned]
<1> DEFINE q == s.queue
           q1 == [q EXCEPT !["premade"] = [q["premade"] EXCEPT ![t] = first]]
           q2 == [q1 EXCEPT !["normal"] = [q1["normal"] EXCEPT ![t] = rest]]
           s1 == [s EXCEPT !.queue = q1]
           s2 == [s1 EXCEPT !.queue = q2]
<1>1. s = [queue |-> s.queue, slot |-> s.slot, removals |-> s.removals, bg |-> s.bg, free |-> s.free,
           miscounted |-> s.miscounted, returned |-> s.returned] /\ s.queue \in Queues
  BY DEF Updates
<1>2. q2 = MovedQueue(s.queue, t, first, rest)
  <2>1. q \in Queues
    BY <1>1
  <2> HIDE DEF q
  <2>2. DOMAIN q = Kinds /\ DOMAIN q["premade"] = Teams /\ DOMAIN q["normal"] = Teams
        /\ q = [k \in Kinds |-> q[k]] /\ "premade" \in Kinds /\ "normal" \in Kinds
        /\ q["premade"] = [u \in Teams |-> q["premade"][u]] /\ q["normal"] = [u \in Teams |-> q["normal"][u]]
    BY <2>1 DEF Queues, Kinds
  <2>3. q1["normal"] = q["normal"] /\ q1["premade"] = [q["premade"] EXCEPT ![t] = first]
        /\ q1 = [k \in Kinds |-> q1[k]]
    BY <2>2
  <2>4. q2["normal"] = [q["normal"] EXCEPT ![t] = rest] /\ q2["premade"] = q1["premade"]
        /\ q2 = [k \in Kinds |-> q2[k]]
    BY <2>2, <2>3
  <2>5. q2["normal"] = [u \in Teams |-> IF u # t THEN q["normal"][u] ELSE rest]
    BY <2>2, <2>4
  <2>6. q2["premade"] = [u \in Teams |-> IF u # t THEN q["premade"][u] ELSE first]
    BY <2>2, <2>3, <2>4
  <2> DEFINE m == MovedQueue(q, t, first, rest)
  <2>7. m = [k \in Kinds |-> m[k]] /\ m["normal"] = [u \in Teams |-> IF u # t THEN q["normal"][u] ELSE rest]
        /\ m["premade"] = [u \in Teams |-> IF u # t THEN q["premade"][u] ELSE first]
    BY DEF MovedQueue, Kinds
  <2> HIDE DEF m, q2, q1
  <2>8. \A k \in Kinds : m[k] = q2[k]
    BY <2>5, <2>6, <2>7 DEF Kinds
  <2>9. m = q2
    BY <2>4, <2>7, <2>8
  <2> QED BY <2>9 DEF m, q
<1> HIDE DEF q1
<1>3. s1 = [queue |-> q1, slot |-> s.slot, removals |-> s.removals, bg |-> s.bg, free |-> s.free,
            miscounted |-> s.miscounted, returned |-> s.returned]
  BY <1>1
<1>4. MovedOn(s, t, first, rest) = [s1 EXCEPT !.queue = [s1.queue EXCEPT !["normal"] = [s1.queue["normal"] EXCEPT ![t] = rest]]]
  BY Zenon DEF MovedOn, q1
<1>5. s1.queue = q1
  BY <1>3
<1> HIDE DEF s1
<1>6. MovedOn(s, t, first, rest) = s2
  BY <1>4, <1>5, Zenon
<1> HIDE DEF q2
<1>7. s2 = [queue |-> q2, slot |-> s.slot, removals |-> s.removals, bg |-> s.bg, free |-> s.free,
            miscounted |-> s.miscounted, returned |-> s.returned]
  BY <1>3
<1> HIDE DEF s2
<1> QED BY <1>2, <1>6, <1>7, Zenon

LEMMA MovedGroups ==
    ASSUME NEW q \in Queues, NEW t \in Teams, q["premade"][t] # <<>>
    PROVE  LET q2 == MovedQueue(q, t, Tail(q["premade"][t]), <<q["premade"][t][1]>> \o q["normal"][t]) IN
           q2 \in Queues /\ \A u \in Teams : In(q2, u) = In(q, u)
<1> DEFINE pre == q["premade"][t]
           nor == q["normal"][t]
           first == Tail(pre)
           one == <<pre[1]>>
           rest == one \o nor
           q2 == MovedQueue(q, t, first, rest)
<1>1. pre \in Seq(GroupRec) /\ nor \in Seq(GroupRec) /\ pre # <<>>
  BY QueueFacts
<1> HIDE DEF pre, nor
<1>2. first \in Seq(GroupRec) /\ Range(pre) = {pre[1]} \cup Range(first) /\ pre[1] \in GroupRec
  BY <1>1, RangeTail
<1>3. one \in Seq(GroupRec) /\ Range(one) = {pre[1]}
  <2>1. one \in Seq(GroupRec) /\ Len(one) = 1 /\ one[1] = pre[1]
    BY <1>2
  <2> HIDE DEF one
  <2> QED BY <2>1, RangeOf
<1> HIDE DEF first, one
<1>4. rest \in Seq(GroupRec) /\ Range(rest) = {pre[1]} \cup Range(nor)
  BY <1>1, <1>3, RangeConcat
<1> HIDE DEF rest
<1>5. \A k \in Kinds, u \in Teams : q2[k][u] = IF u # t THEN q[k][u] ELSE IF k = "premade" THEN first ELSE rest
  BY DEF MovedQueue
<1>6. \A k \in Kinds, u \in Teams : q2[k][u] \in Seq(GroupRec)
  BY <1>2, <1>4, <1>5 DEF Queues
<1>7. q2 \in Queues
  <2>1. q2 = [k \in Kinds |-> [u \in Teams |-> q2[k][u]]]
    BY <1>5, Zenon DEF MovedQueue
  <2> HIDE DEF q2
  <2> QED BY <1>6, <2>1 DEF Queues
<1>8. ASSUME NEW u \in Teams
      PROVE  In(q2, u) = In(q, u)
  <2>1. "premade" \in Kinds /\ "normal" \in Kinds /\ "normal" # "premade"
    BY DEF Kinds
  <2>2. CASE u = t
    <3>1. q2["premade"][u] = first /\ q2["normal"][u] = rest
      BY <2>1, <2>2, <1>5
    <3>2. q["premade"][u] = pre /\ q["normal"][u] = nor
      BY <2>2 DEF pre, nor
    <3> HIDE DEF q2
    <3> QED BY <3>1, <3>2, <1>2, <1>4 DEF In
  <2>3. CASE u # t
    BY <2>1, <2>3, <1>5 DEF In
  <2> QED BY <2>2, <2>3
<1> QED BY <1>7, <1>8 DEF q2, rest, first, one, pre, nor


LEMMA MoveFirstStep ==
    ASSUME NEW s, Sound(s), NEW t \in Teams, NEW aged
    PROVE  Sound(MoveFirst(s, t, aged))
<1>1. /\ s \in Updates /\ Good(s.queue, s.slot, s.removals, bgId, place, s.bg, s.free, s.miscounted)
      /\ Moved(s) /\ Fit(s.bg, s.miscounted)
  BY DEF Sound
<1> DEFINE premade == s.queue["premade"][t]
           first == Tail(premade)
           rest == <<premade[1]>> \o s.queue["normal"][t]
           s2 == MovedOn(s, t, first, rest)
           q2 == MovedQueue(s.queue, t, first, rest)
           moves == /\ premade # <<>> /\ Waits(premade[1])
                    /\ t \in aged \/ Size(premade[1]) < MinPlayersPerTeam
<1>2. MoveFirst(s, t, aged) = IF ~moves THEN s ELSE s2
  BY Zenon DEF MoveFirst, MovedOn
<1>3. CASE ~moves
  BY <1>2, <1>3
<1>4. CASE moves
  <2>1. MoveFirst(s, t, aged) = s2
    BY <1>2, <1>4
  <2>2. s.queue \in Queues /\ premade # <<>>
    BY <1>1, <1>4 DEF Updates
  <2> HIDE DEF s2
  <2>3. q2 \in Queues /\ \A u \in Teams : In(q2, u) = In(s.queue, u)
    BY <2>2, MovedGroups
  <2>4. s2 = [queue |-> q2, slot |-> s.slot, removals |-> s.removals,
              bg |-> s.bg, free |-> s.free, miscounted |-> s.miscounted, returned |-> s.returned]
    <3> HIDE DEF first, rest
    <3> QED BY <1>1, MovedParts DEF s2
  <2> HIDE DEF q2
  <2>5. s2.queue = q2 /\ s2.slot = s.slot /\ s2.removals = s.removals
        /\ s2.bg = s.bg /\ s2.free = s.free /\ s2.miscounted = s.miscounted
    BY <2>4
  <2>6. s2 \in Updates
    BY <1>1, <2>3, <2>4 DEF Updates
  <2>7. Good(q2, s.slot, s.removals, bgId, place, s.bg, s.free, s.miscounted)
    <3> DEFINE q == s.queue
               sl == s.slot
               rm == s.removals
               bgs == s.bg
               fr == s.free
               mis == s.miscounted
    <3>1. Good(q, sl, rm, bgId, place, bgs, fr, mis)
      BY <1>1
    <3>2. q2 \in Queues /\ \A u \in Teams : In(q2, u) = In(q, u)
      BY <2>3
    <3> HIDE DEF q, sl, rm, bgs, fr, mis
    <3>3. Good(q2, sl, rm, bgId, place, bgs, fr, mis)
      BY ONLY <3>1, <3>2, SameGroups
    <3> QED BY <3>3 DEF q, sl, rm, bgs, fr, mis
  <2>8. Sound(s2)
    BY <1>1, <2>5, <2>6, <2>7 DEF Sound, Moved
  <2> QED BY <2>1, <2>8
<1> HIDE DEF moves
<1> QED BY <1>3, <1>4

LEMMA PremadeStep ==
    ASSUME NEW s, Sound(s), NEW aged
    PROVE  Sound(Premade(s, aged))
<1>1. s.queue \in Queues
  BY DEF Sound, Updates
<1>2. CASE PremadeFound(s.queue["premade"])
  <2> DEFINE pools == PremadePools(s.queue["premade"], s.queue["normal"])
  <2>1. PoolsFrom(pools, s.queue) /\ PoolsFit(pools, FullTeams)
    BY <1>1, <1>2, PremadePoolsFrom
  <2>2. Premade(s, aged) = StartMatch(s, pools)
    BY <1>2 DEF Premade
  <2> HIDE DEF pools
  <2> QED BY <2>1, <2>2, StartMatchStep
<1>3. CASE ~PremadeFound(s.queue["premade"])
  <2> DEFINE s1 == MoveFirst(s, "alliance", aged)
  <2>1. Premade(s, aged) = MoveFirst(s1, "horde", aged)
    BY <1>3 DEF Premade
  <2>2. "alliance" \in Teams /\ "horde" \in Teams
    BY DEF Teams
  <2>3. Sound(s1)
    BY <2>2, MoveFirstStep
  <2> HIDE DEF s1
  <2> QED BY <2>1, <2>2, <2>3, MoveFirstStep
<1> QED BY <1>2, <1>3

LEMMA NormalStep ==
    ASSUME NEW s, Sound(s)
    PROVE  Sound(Normal(s))
<1>1. s.queue \in Queues
  BY DEF Sound, Updates
<1> DEFINE pools == NormalPools(s.queue["normal"])
<1>2. PoolsFrom(pools, s.queue) /\ PoolsFit(pools, FullTeams)
  BY <1>1, NormalPoolsFrom
<1>3. Normal(s) = s \/ Normal(s) = StartMatch(s, pools)
  BY DEF Normal
<1> HIDE DEF pools
<1> QED BY <1>2, <1>3, StartMatchStep

\* BattlegroundQueueUpdate.
LEMMA QueueUpdateStep ==
    ASSUME FInv, NEW aged, QueueUpdate(aged)
    PROVE  FInv'
<1> DEFINE s0 == QueueState
           s1 == FoldLeft(Fill, s0, freeSlots)
           s == IF Groups = {} THEN s0 ELSE Normal(Premade(s1, aged))
<1>1. /\ s0.queue = queue /\ s0.slot = slot /\ s0.removals = removals /\ s0.bg = bg
      /\ s0.free = freeSlots /\ s0.miscounted = miscounted /\ s0 \in Updates
  BY Parts DEF FInv, QueueState, Updates, FreeRunning
<1> HIDE DEF s0
<1>2. Sound(s0)
  BY <1>1 DEF FInv, IInv, Sound, Moved
<1>3. freeSlots \in Seq(Instances) /\ \A b \in Range(freeSlots) : s0.bg[b].status # "none"
  BY <1>1, Parts DEF FreeRunning, FInv
<1>4. Sound(s1)
  BY <1>2, <1>3, FillAll
<1>5. queue' = s.queue /\ slot' = s.slot /\ removals' = s.removals
      /\ bg' = s.bg /\ freeSlots' = s.free /\ miscounted' = s.miscounted
      /\ bgId' = bgId /\ place' = place /\ scheduled' = FALSE
  BY DEF QueueUpdate, playerVars, s0
<1> HIDE DEF s1
<1>6. Sound(s)
  BY <1>2, <1>4, PremadeStep, NormalStep
<1> HIDE DEF s
<1>7. /\ Good(s.queue, s.slot, s.removals, bgId, place, s.bg, s.free, s.miscounted)
      /\ Fit(s.bg, s.miscounted)
  BY <1>6 DEF Sound
<1>8. /\ Good(queue', slot', removals', bgId', place', bg', freeSlots', miscounted')
      /\ Fit(bg', miscounted')
  BY ONLY <1>5, <1>7
<1> QED BY <1>5, <1>8 DEF IInv, FInv

-----------------------------------------------------------------------------
(* The sizes of the teams.                                                   *)

\* Of a battleground whose counters are lowered by one, or not at all.
Lower(y, x) ==
    /\ y.status # "none" => x.status # "none"
    /\ \A u \in Teams : y.invited[u] \in {x.invited[u], (x.invited[u] + Wrap - 1) % Wrap}
CountersFall == miscounted \subseteq miscounted' /\ \A b \in Instances : Lower(bg'[b], bg[b])

\* Counters that are exact do not run below zero, so no team grows when they are lowered.
LEMMA FallsFit ==
    ASSUME FInv, IInv', CountersFall
    PROVE  FInv'
<1> SUFFICES ASSUME NEW b \in Instances, bg'[b].status # "none", b \notin miscounted', NEW t \in Teams
             PROVE  bg'[b].invited[t] <= MaxPlayersPerTeam
  BY DEF FInv, Fit
<1> DEFINE n == bg[b].invited[t]
           m == bg'[b].invited[t]
           C == Cardinality(Player)
           T2 == TakersOf(queue', slot', bgId', place', bg')
<1>1. /\ bg[b].status # "none" /\ b \notin miscounted
      /\ m \in {n, (n + Wrap - 1) % Wrap}
  BY DEF CountersFall, Lower
<1>2. n <= MaxPlayersPerTeam
  BY <1>1 DEF FInv, Fit
<1>3. n \in 0..Wrap-1
  <2>1. bg[b] \in BgRecs
    BY Parts DEF FInv
  <2> QED BY <2>1 DEF BgRecs
<1>4. m <= C /\ m \in Nat
  <2>1. Exact(T2, bg', miscounted')
    BY DEF IInv, Good
  <2>2. T2[b] \subseteq Player
    BY DEF TakersOf
  <2>3. m = Cardinality(OfTeam(T2[b], t))
    BY <2>1 DEF Exact
  <2> HIDE DEF T2
  <2> QED BY <2>2, <2>3, TeamCounts
<1>5. C \in Nat /\ Wrap \in Nat /\ Wrap > 2 * C /\ MaxPlayersPerTeam \in Nat
  BY PlayersAssumption, BoundsAssumption, TeamSizeAssumption, FS_CardinalityType
<1> HIDE DEF n, m, C
<1>6. CASE n # 0
  <2>1. (n + Wrap - 1) % Wrap = n - 1
    <3>1. n \in Nat \ {0} /\ n < Wrap
      BY <1>3, <1>5, <1>6
    <3> QED BY ONLY <3>1, InRange
  <2> QED BY <1>1, <1>2, <1>3, <1>5, <2>1 DEF m
<1>7. CASE n = 0
  <2>1. (n + Wrap - 1) % Wrap = Wrap - 1
    <3>1. Wrap - 1 \in Nat /\ Wrap - 1 < Wrap
      BY <1>5
    <3>2. (Wrap - 1) % Wrap = Wrap - 1
      BY <3>1, InRange
    <3>3. n + Wrap - 1 = Wrap - 1
      BY <1>5, <1>7
    <3> QED BY <3>2, <3>3
  <2>2. m = 0
    <3>1. m = 0 \/ m = Wrap - 1
      BY <1>1, <1>7, <2>1
    <3> QED BY <1>4, <1>5, <3>1
  <2> QED BY <1>5, <2>2 DEF m
<1> QED BY <1>6, <1>7

LEMMA NoneLower ==
    ASSUME NEW x \in BgRecs
    PROVE  \A y : y.status = x.status /\ y.invited = x.invited => Lower(y, x)
BY DEF Lower

LEMMA DecreasedIsLower ==
    ASSUME NEW x \in BgRecs, NEW z \in BgRecs, NEW t \in Teams,
           z.status = x.status, z.invited = x.invited
    PROVE  Lower(Decreased(z, t), x)
<1>1. Decreased(z, t).status = z.status
  BY DecreasedFacts
<1>2. Decreased(z, t).invited = [z.invited EXCEPT ![t] = (@ + Wrap - 1) % Wrap]
  BY DEF Decreased, BgRecs
<1>3. z.invited \in [Teams -> 0..Wrap-1]
  BY DEF BgRecs
<1>4. \A u \in Teams : Decreased(z, t).invited[u] \in {z.invited[u], (z.invited[u] + Wrap - 1) % Wrap}
  BY <1>2, <1>3
<1> QED BY <1>1, <1>4 DEF Lower

LEMMA WithoutMemberIsLower ==
    ASSUME NEW x \in BgRecs, NEW z \in BgRecs, NEW p \in Player,
           z.status = x.status, z.invited = x.invited
    PROVE  Lower(WithoutMember(z, p), x)
<1> DEFINE w == [z EXCEPT !.players = @ \ {p}]
<1>1. TeamOf[p] \in Teams
  BY PlayersAssumption
<1>2. w \in BgRecs /\ w.status = x.status /\ w.invited = x.invited
  BY DEF BgRecs
<1>3. WithoutMember(z, p) = IF p \in z.players THEN Decreased(w, TeamOf[p]) ELSE z
  BY DEF WithoutMember
<1> HIDE DEF w
<1>4. Lower(Decreased(w, TeamOf[p]), x) /\ Lower(z, x)
  BY <1>1, <1>2, DecreasedIsLower, NoneLower
<1> QED BY <1>3, <1>4

\* One battleground is changed.
LEMMA OneLower ==
    ASSUME IInv, NEW b \in Instances, NEW y, Lower(y, bg[b]), bg' = [bg EXCEPT ![b] = y],
           miscounted \subseteq miscounted'
    PROVE  CountersFall
<1>1. bg \in [Instances -> BgRecs]
  BY Parts
<1>2. bg'[b] = y /\ \A c \in Instances \ {b} : bg'[c] = bg[c]
  BY <1>1
<1>3. \A c \in Instances : Lower(bg[c], bg[c])
  BY DEF Lower
<1> QED BY <1>2, <1>3 DEF CountersFall

LEMMA UnchangedFalls ==
    ASSUME bg' = bg, miscounted \subseteq miscounted'
    PROVE  CountersFall
BY DEF CountersFall, Lower

\* An invitation is given up.
LEMMA GivesUpFalls ==
    ASSUME IInv, NEW p \in Player, GivesUpPlace(p)
    PROVE  CountersFall
<1> DEFINE b == GroupOf(p).inst
<1>1. /\ bg' = IF Exists(b) THEN [bg EXCEPT ![b] = Decreased(@, TeamOf[p])] ELSE bg
      /\ miscounted \subseteq miscounted'
  BY DEF GivesUpPlace
<1> HIDE DEF b
<1>2. CASE Exists(b)
  <2>1. b \in Instances /\ TeamOf[p] \in Teams
    BY <1>2, PlayersAssumption DEF Exists
  <2>2. bg[b] \in BgRecs
    BY <2>1, Parts
  <2>3. Lower(Decreased(bg[b], TeamOf[p]), bg[b])
    BY <2>1, <2>2, DecreasedIsLower
  <2>4. bg' = [bg EXCEPT ![b] = Decreased(bg[b], TeamOf[p])]
    BY <1>1, <1>2
  <2> QED BY <1>1, <2>1, <2>3, <2>4, OneLower
<1>3. CASE ~Exists(b)
  BY <1>1, <1>3, UnchangedFalls
<1> QED BY <1>2, <1>3

\* The actions of the players.
LEMMA PlayerFalls ==
    ASSUME IInv, NEW p \in Player,
           \/ Join(p) \/ (\E party \in Parties : JoinAsGroup(p, party))
           \/ LeaveQueue(p) \/ Port(p) \/ InviteExpires(p)
           \/ Zone(p) \/ Arrive(p) \/ ArriveOutside(p) \/ LeaveBattleground(p)
           \/ Logout(p) \/ Login(p)
    PROVE  CountersFall
<1>b. bg \in [Instances -> BgRecs]
  BY Parts
<1>1. CASE Join(p) \/ (\E party \in Parties : JoinAsGroup(p, party)) \/ Port(p) \/ Zone(p) \/ ArriveOutside(p)
  <2>1. bg' = bg /\ miscounted' = miscounted
    BY <1>1 DEF Join, JoinAsGroup, Port, Zone, ArriveOutside, bgVars
  <2> QED BY <2>1, UnchangedFalls
<1>2. CASE LeaveQueue(p)
  BY <1>2, GivesUpFalls DEF LeaveQueue
<1>3. CASE InviteExpires(p)
  <2>1. GivesUpPlace(p) \/ (bg' = bg /\ miscounted' = miscounted)
    BY <1>3 DEF InviteExpires
  <2> QED BY <2>1, GivesUpFalls, UnchangedFalls
<1>4. CASE Arrive(p)
  <2> DEFINE b == bgId[p]
             y == [bg[b] EXCEPT !.players = @ \cup {p}]
  <2>1. bg' = bg \/ (b \in Instances /\ bg' = [bg EXCEPT ![b] = y])
    BY <1>4 DEF Arrive, Exists
  <2>2. miscounted' = miscounted
    BY <1>4 DEF Arrive
  <2>3. b \in Instances => Lower(y, bg[b])
    <3>1. b \in Instances => bg[b] \in BgRecs
      BY <1>b
    <3>2. b \in Instances => y.status = bg[b].status /\ y.invited = bg[b].invited
      BY <3>1 DEF BgRecs
    <3> HIDE DEF y, b
    <3> QED BY <3>1, <3>2, NoneLower
  <2> HIDE DEF y, b
  <2> QED BY <2>1, <2>2, <2>3, OneLower, UnchangedFalls
<1>5. ASSUME NEW b \in Instances, RemovePlayerAtLeave(p, b)
      PROVE  CountersFall
  <2>1. bg[b] \in BgRecs
    BY <1>b
  <2>2. Lower(WithoutMember(bg[b], p), bg[b])
    BY <2>1, WithoutMemberIsLower
  <2>3. bg' = [bg EXCEPT ![b] = WithoutMember(bg[b], p)] /\ miscounted' = miscounted
    BY <1>5 DEF RemovePlayerAtLeave
  <2> QED BY <2>2, <2>3, OneLower
<1>6. CASE LeaveBattleground(p)
  BY <1>5, <1>6 DEF LeaveBattleground, Exists
<1>7. CASE Logout(p)
  <2> DEFINE b == bgId[p]
             y == [bg[b] EXCEPT !.offline = Append(@, p)]
  <2>1. \/ GivesUpPlace(p)
        \/ bg' = bg /\ miscounted' = miscounted
        \/ b \in Instances /\ bg' = [bg EXCEPT ![b] = y] /\ miscounted' = miscounted
    BY <1>7, <1>b DEF Logout, Exists
  <2>2. b \in Instances => Lower(y, bg[b])
    <3>1. b \in Instances => bg[b] \in BgRecs
      BY <1>b
    <3>2. b \in Instances => y.status = bg[b].status /\ y.invited = bg[b].invited
      BY <3>1 DEF BgRecs
    <3> HIDE DEF y, b
    <3> QED BY <3>1, <3>2, NoneLower
  <2> HIDE DEF y, b
  <2> QED BY <2>1, <2>2, GivesUpFalls, OneLower, UnchangedFalls
<1>8. CASE Login(p)
  <2> DEFINE b == bgId[p]
             y == Returned(bg[b], p)
  <2>1. \/ bg' = bg /\ miscounted' = miscounted
        \/ b \in Instances /\ bg' = [bg EXCEPT ![b] = y] /\ miscounted' = miscounted
        \/ b \in Instances /\ RemovePlayerAtLeave(p, b)
    BY <1>8 DEF Login, Exists, bgVars
  <2>2. b \in Instances => Lower(y, bg[b])
    <3>1. b \in Instances => bg[b] \in BgRecs
      BY <1>b
    <3>2. b \in Instances => y.status = bg[b].status /\ y.invited = bg[b].invited
      BY <3>1 DEF BgRecs, Returned
    <3> HIDE DEF y, b
    <3> QED BY <3>1, <3>2, NoneLower
  <2> HIDE DEF y, b
  <2> QED BY <1>5, <2>1, <2>2, OneLower, UnchangedFalls
<1> QED BY <1>1, <1>2, <1>3, <1>4, <1>6, <1>7, <1>8

\* Battleground::Update and BattlegroundMgr::Update, where nobody is sent out.
LEMMA BgFalls ==
    ASSUME IInv, NEW b \in Instances,
           BgStart(b) \/ BgEnd(b) \/ OfflineExpires(b) \/ BgDelete(b)
    PROVE  CountersFall
<1>b. bg[b] \in BgRecs
  BY Parts
<1>1. CASE BgStart(b) \/ BgEnd(b)
  <2>1. PICK st \in {"progress", "leave"} : bg' = [bg EXCEPT ![b].status = st]
    BY <1>1 DEF BgStart, BgEnd
  <2> DEFINE y == [bg[b] EXCEPT !.status = st]
  <2>2. bg[b].status # "none" /\ miscounted' = miscounted
    BY <1>1 DEF BgStart, BgEnd, Running
  <2>3. y.invited = bg[b].invited
    BY <1>b DEF BgRecs
  <2>4. bg' = [bg EXCEPT ![b] = y]
    BY <2>1
  <2> HIDE DEF y
  <2>5. Lower(y, bg[b])
    BY <2>2, <2>3 DEF Lower
  <2> QED BY <2>2, <2>4, <2>5, OneLower
<1>2. CASE OfflineExpires(b)
  <2> DEFINE p == Head(bg[b].offline)
             x == [bg[b] EXCEPT !.offline = Tail(@)]
  <2>1. bg' = [bg EXCEPT ![b] = WithoutMember(x, p)] /\ miscounted' = miscounted /\ p \in bg[b].players
        /\ bg[b].offline # <<>>
    BY <1>2 DEF OfflineExpires
  <2>2. p \in Player
    BY <1>b, <2>1 DEF BgRecs
  <2>3. x \in BgRecs /\ x.status = bg[b].status /\ x.invited = bg[b].invited
    <3>1. bg[b].offline \in Seq(Player)
      BY <1>b DEF BgRecs
    <3>2. Tail(bg[b].offline) \in Seq(Player)
      BY <2>1, <3>1
    <3> QED BY <1>b, <3>2 DEF BgRecs
  <2> HIDE DEF p, x
  <2>4. Lower(WithoutMember(x, p), bg[b])
    BY <1>b, <2>2, <2>3, WithoutMemberIsLower
  <2> QED BY <2>1, <2>4, OneLower
<1>3. CASE BgDelete(b)
  <2>1. bg' = [bg EXCEPT ![b] = NoBg] /\ miscounted' = miscounted /\ \A t \in Teams : bg[b].invited[t] = 0
    BY <1>3 DEF BgDelete, ToBeDeleted
  <2>2. Lower(NoBg, bg[b])
    BY <2>1 DEF Lower, NoBg, Zero
  <2> QED BY <2>1, <2>2, OneLower
<1> QED BY <1>1, <1>2, <1>3

\* All the members are removed: who still takes a place took it before.
LEMMA BgCloseFits == ASSUME FInv, NEW b \in Instances, BgClose(b) PROVE FInv'
<1> DEFINE L == bg[b].players
           y == FoldLeft(WithoutMember, bg[b], SetToSeq(L))
           T == TakersOf(queue, slot, bgId, place, bg)
           T2 == TakersOf(queue', slot', bgId', place', bg')
<1>i. IInv /\ IInv'
  BY BgCloseStep DEF FInv
<1>1. /\ bg' = [bg EXCEPT ![b] = y] /\ queue' = queue /\ miscounted' = miscounted
      /\ \A p \in Player : /\ slot'[p] \in {slot[p], NoSlot}
                           /\ place'[p] = "ports" => place[p] = "ports" /\ bgId'[p] = bgId[p]
  BY DEF BgClose
<1>2. y.players = {} /\ y.status = bg[b].status
  <2>1. bg[b] \in BgRecs
    BY <1>i, Parts
  <2> DEFINE x == bg[b]
             exact == FALSE
  <2>2. x \in BgRecs /\ L \subseteq Player /\ x.players = L /\ exact \in BOOLEAN /\ ~exact
    BY <2>1 DEF BgRecs
  <2>3. y = FoldLeft(WithoutMember, x, SetToSeq(x.players))
    OBVIOUS
  <2> HIDE DEF y, x, L, exact
  <2>4. y.players = {} /\ y.status = x.status
    BY ONLY <2>2, <2>3, ClosedFacts
  <2> QED BY <2>4 DEF x
<1> HIDE DEF y
<1>3. \A c \in Instances : bg'[c].players \subseteq bg[c].players /\ bg'[c].status = bg[c].status
  <2>1. bg \in [Instances -> BgRecs]
    BY <1>i, Parts
  <2> QED BY <1>1, <1>2, <2>1
<1>4. \A c \in Instances : T2[c] \subseteq T[c] /\ T[c] \subseteq Player
  <2>1. ASSUME NEW c \in Instances, NEW p \in Player, Taker(p, c, queue', slot', bgId', place', bg')
        PROVE  Taker(p, c, queue, slot, bgId, place, bg)
    <3>1. c # NoSlot
      BY InstanceNumbers DEF NoSlot
    <3> QED BY <1>1, <1>3, <2>1, <3>1 DEF Taker
  <2> QED BY <2>1 DEF TakersOf
<1>5. Exact(T, bg, miscounted) /\ Exact(T2, bg', miscounted')
  BY <1>i DEF IInv, Good
<1> HIDE DEF T, T2
<1>6. ASSUME NEW c \in Instances, bg'[c].status # "none", c \notin miscounted', NEW t \in Teams
      PROVE  bg'[c].invited[t] <= MaxPlayersPerTeam
  <2>1. /\ bg'[c].invited[t] = Cardinality(OfTeam(T2[c], t))
        /\ bg[c].invited[t] = Cardinality(OfTeam(T[c], t))
        /\ bg[c].invited[t] <= MaxPlayersPerTeam
    BY <1>1, <1>3, <1>5, <1>6 DEF Exact, FInv, Fit
  <2>2. OfTeam(T2[c], t) \subseteq OfTeam(T[c], t) /\ IsFiniteSet(OfTeam(T[c], t))
    BY <1>4, TeamCounts DEF OfTeam
  <2>3. /\ Cardinality(OfTeam(T2[c], t)) <= Cardinality(OfTeam(T[c], t))
        /\ Cardinality(OfTeam(T2[c], t)) \in Nat /\ Cardinality(OfTeam(T[c], t)) \in Nat
    BY <2>2, FS_Subset, FS_CardinalityType
  <2> QED BY <2>1, <2>3, TeamSizeAssumption
<1> QED BY <1>i, <1>6 DEF FInv, Fit

LEMMA Initially == Init => FInv
<1> SUFFICES ASSUME Init PROVE FInv
  OBVIOUS
<1> DEFINE T == TakersOf(queue, slot, bgId, place, bg)
<1>1. /\ queue = [k \in Kinds |-> [t \in Teams |-> <<>>]]
      /\ slot = [p \in Player |-> NoSlot]
      /\ removals = [p \in Player |-> <<>>]
      /\ bgId = [p \in Player |-> 0]
      /\ place = [p \in Player |-> "world"]
      /\ bg = [b \in Instances |-> NoBg]
      /\ freeSlots = <<>> /\ scheduled = FALSE /\ miscounted = {}
  BY DEF Init
<1>e. Range(<<>>) = {} /\ IsInjective(<<>>)
  BY DEF Range, IsInjective
<1>2. queue \in Queues
  BY <1>1 DEF Queues
<1>3. \A t \in Teams : In(queue, t) = {}
  <2>1. \A k \in Kinds, t \in Teams : queue[k][t] = <<>>
    BY <1>1
  <2> QED BY <2>1, <1>e DEF In, Kinds
<1>4. slot \in Slots /\ \A p \in Player : slot[p] = NoSlot
  BY <1>1, InstanceNumbers, BoundsAssumption DEF Slots, NoSlot
<1>5. removals \in Removals
  <2>1. removals \in [Player -> Seq(Events)]
    BY <1>1
  <2>2. \A p \in Player : Len(removals[p]) = 0
    BY <1>1
  <2>3. 0 <= MaxRemovals
    BY BoundsAssumption
  <2> QED BY <2>1, <2>2, <2>3 DEF Removals
<1>6. bgId \in [Player -> 0..MaxInstances] /\ place \in [Player -> Places] /\ \A p \in Player : place[p] = "world" /\ bgId[p] = 0
  BY <1>1, BoundsAssumption DEF Places
<1>n. /\ NoBg \in BgRecs /\ NoBg.status = "none" /\ NoBg.players = {}
  <2>1. 0 \in 0..Wrap-1
    BY InRange
  <2>2. Zero \in [Teams -> 0..Wrap-1]
    BY <2>1 DEF Zero
  <2>3. <<>> \in Seq(Player)
    OBVIOUS
  <2> QED BY <2>2, <2>3 DEF NoBg, BgRecs
<1>7. bg \in [Instances -> BgRecs] /\ \A b \in Instances : bg[b] = NoBg
  BY <1>1, <1>n
<1>8. FreeRunning(freeSlots, bg)
  BY <1>1, <1>e DEF FreeRunning
<1>9. OneGroup(queue) /\ Waiters(queue, slot, removals, bgId, place)
  BY <1>3 DEF OneGroup, Waiters
<1>10. Whereabouts(slot, bgId, place, bg)
  BY <1>6 DEF Whereabouts
<1>11. MembersIn(bgId, place, bg)
  BY <1>7, <1>n DEF MembersIn
<1>12. Listed(place, bg)
  BY <1>7, <1>n DEF Listed
<1>13. Exact(T, bg, miscounted)
  BY <1>7, <1>n DEF Exact
<1>14. SlotsTaken(T, slot, bg, miscounted)
  BY <1>4 DEF SlotsTaken, NoSlot
<1>15. miscounted \subseteq Instances /\ scheduled \in BOOLEAN
  BY <1>1
<1>16. Fit(bg, miscounted)
  BY <1>7, <1>n DEF Fit
<1>17. IInv
  BY <1>2, <1>4, <1>5, <1>6, <1>7, <1>8, <1>9, <1>10, <1>11, <1>12, <1>13, <1>14, <1>15 DEF IInv, Good, T
<1> QED BY <1>16, <1>17 DEF FInv

LEMMA Steps == FInv /\ [Next]_vars => FInv'
<1> SUFFICES ASSUME FInv, [Next]_vars PROVE FInv'
  OBVIOUS
<1>i. IInv
  BY DEF FInv
<1>1. ASSUME NEW aged, QueueUpdate(aged) PROVE FInv'
  BY <1>1, QueueUpdateStep
<1>2. ASSUME NEW p \in Player,
             \/ Join(p) \/ (\E party \in Parties : JoinAsGroup(p, party))
             \/ LeaveQueue(p) \/ Port(p) \/ InviteExpires(p)
             \/ Zone(p) \/ Arrive(p) \/ ArriveOutside(p) \/ LeaveBattleground(p)
             \/ Logout(p) \/ Login(p)
      PROVE  FInv'
  <2>1. CASE Join(p)
    BY <1>i, <2>1, JoinStep, PlayerFalls, FallsFit
  <2>2. CASE \E party \in Parties : JoinAsGroup(p, party)
    BY <1>i, <2>2, JoinAsGroupStep, PlayerFalls, FallsFit
  <2>3. CASE LeaveQueue(p)
    BY <1>i, <2>3, LeaveQueueStep, PlayerFalls, FallsFit
  <2>4. CASE Port(p)
    BY <1>i, <2>4, PortStep, PlayerFalls, FallsFit
  <2>5. CASE InviteExpires(p)
    BY <1>i, <2>5, InviteExpiresStep, PlayerFalls, FallsFit
  <2>6. CASE Zone(p)
    BY <1>i, <2>6, ZoneStep, PlayerFalls, FallsFit
  <2>7. CASE Arrive(p)
    BY <1>i, <2>7, ArriveInsideStep, ArriveNowhereStep, PlayerFalls, FallsFit
  <2>8. CASE ArriveOutside(p)
    BY <1>i, <2>8, ArriveOutsideStep, PlayerFalls, FallsFit
  <2>9. CASE LeaveBattleground(p)
    BY <1>i, <2>9, LeaveBattlegroundStep, PlayerFalls, FallsFit
  <2>10. CASE Logout(p)
    BY <1>i, <2>10, LogoutStep, PlayerFalls, FallsFit
  <2>11. CASE Login(p)
    BY <1>i, <2>11, LoginStep, PlayerFalls, FallsFit
  <2> QED BY <1>2, <2>1, <2>2, <2>3, <2>4, <2>5, <2>6, <2>7, <2>8, <2>9, <2>10, <2>11
<1>3. ASSUME NEW b \in Instances, BgEnd(b) \/ BgUpdate(b)
      PROVE  FInv'
  <2>1. CASE BgEnd(b)
    BY <1>i, <2>1, BgEndStep, BgFalls, FallsFit
  <2>2. CASE BgStart(b)
    BY <1>i, <2>2, BgStartStep, BgFalls, FallsFit
  <2>3. CASE OfflineExpires(b)
    BY <1>i, <2>3, OfflineExpiresStep, BgFalls, FallsFit
  <2>4. CASE BgDelete(b)
    BY <1>i, <2>4, BgDeleteStep, BgFalls, FallsFit
  <2>5. CASE BgClose(b)
    BY <2>5, BgCloseFits
  <2> QED BY <1>3, <2>1, <2>2, <2>3, <2>4, <2>5 DEF BgUpdate
<1>4. CASE UNCHANGED vars
  <2>1. /\ queue' = queue /\ slot' = slot /\ removals' = removals /\ bgId' = bgId /\ place' = place
        /\ bg' = bg /\ freeSlots' = freeSlots /\ miscounted' = miscounted /\ scheduled' = scheduled
    BY <1>4 DEF vars, queueVars, playerVars, bgVars
  <2>2. /\ Good(queue, slot, removals, bgId, place, bg, freeSlots, miscounted) /\ scheduled \in BOOLEAN
        /\ Fit(bg, miscounted)
    BY DEF IInv, FInv
  <2>3. /\ Good(queue', slot', removals', bgId', place', bg', freeSlots', miscounted') /\ scheduled' \in BOOLEAN
        /\ Fit(bg', miscounted')
    BY ONLY <2>1, <2>2
  <2> QED BY <2>3 DEF IInv, FInv
<1> QED BY <1>1, <1>2, <1>3, <1>4, Zenon DEF Next

-----------------------------------------------------------------------------
(* The theorems.                                                             *)

\* The queue, the players' slots and the battlegrounds agree in every state, for
\* any number of players, battlegrounds, group and team sizes, and no counter of
\* the invited passes the size of a team.
THEOREM Invariant == Spec => []FInv
<1>1. Init => FInv
  BY Initially
<1>2. FInv /\ [Next]_vars => FInv'
  BY Steps
<1> QED BY <1>1, <1>2, PTL DEF Spec

\* The queue, the slots, the battlegrounds and the list of those with free slots
\* keep their types, and the latter are running, each once.
THEOREM QueueIsTyped == Spec => []TypeOK
<1>1. FInv => TypeOK
  BY GoodIsTyped DEF FInv
<1> QED BY <1>1, Invariant, PTL

\* The invited counters of a battleground (InviteGroupToBG, RemovePlayer,
\* RemovePlayerAtLeave) are those who are asked, on their way or members, for any
\* number of players and battlegrounds, unless they have been lowered for
\* somebody they never counted.
THEOREM InvitedAreCounted == Spec => []InvitedExact
<1>1. FInv => InvitedExact
  BY GoodIsExact DEF FInv
<1> QED BY <1>1, Invariant, PTL

\* Who is asked, on his way or a member of a battleground is never more than
\* MaxPlayersPerTeam of a team, for any number of players and any team sizes:
\* neither the first match nor any later filling of free places
\* (GetFreeSlotsForTeam, FillPlayersToBG, CheckPremadeMatch, CheckNormalMatch)
\* gives a place away twice.
THEOREM TeamsNeverOverfull == Spec => []TeamsFit
<1>1. FInv => TeamsFit
  BY FitIsTeams
<1> QED BY <1>1, Invariant, PTL

\* The queue, the player's slot and the battleground agree about where everybody is.
THEOREM SlotsTell == Spec => []SlotsAgree
<1>1. FInv => SlotsAgree
  BY GoodAgrees DEF FInv
<1> QED BY <1>1, Invariant, PTL

\* The head of _OfflineQueue is always a member who is offline, and nobody who is
\* offline is missing in it (_ProcessOfflineQueue).
THEOREM OfflineAreListed == Spec => []OfflineListed
<1>1. FInv => OfflineListed
  BY GoodIsListed DEF FInv
<1> QED BY <1>1, Invariant, PTL

\* No invitation is without the BGQueueRemoveEvent that ends it, for any number of
\* events that a player may have.
THEOREM InvitationsEnd == Spec => []AskedIsTimed
<1>1. FInv => AskedIsTimed
  BY GoodIsTimed DEF FInv
<1> QED BY <1>1, Invariant, PTL
=============================================================================

-------------------------- MODULE GroupLoot_proofs ---------------------------
(***************************************************************************)
(* Proofs about GroupLoot, for any number of members, corpses and items:   *)
(* the totals of a roll are those of its votes, an item goes to the right  *)
(* one, and nobody who may vote is passed over.                            *)
(***************************************************************************)
EXTENDS GroupLoot, FiniteSetTheorems, TLAPS

\* What the clients chose is what a roll counted, and who does not take part
\* in it has no window of it.
Match(r, window) ==
    \A p \in Player :
        IF p \in DOMAIN r.vote
        THEN IF r.vote[p] \in Votes THEN window[p] = r.vote[p]
             ELSE window[p] \in {"NOT_EMITED_YET", "no window"}
        ELSE window[p] = "no window"

WindowsMatch == \A i \in DOMAIN rolls : Match(rolls[i], choice[i])

\* Nobody has seen the items of a corpse that was not opened.
Unseen ==
    \A i \in Item : corpse[CorpseOf[i]] = "closed" =>
        i \notin looted /\ \A p \in Player : choice[i][p] = "no window"

\* A group that is disbanded has no rolls.
Disbanded == members = {} => DOMAIN rolls = {}

IInv == RollsSound /\ WindowsMatch /\ Unseen /\ Disbanded

-----------------------------------------------------------------------------
(* Single rolls.                                                             *)

\* A roll whose totals are right.
Exact(r) ==
    /\ r \in Roll
    /\ r.rolling = Cardinality(DOMAIN r.vote)
    /\ r.pass = Cardinality(Voters(r, {"PASS"}))
    /\ r.need = Cardinality(Voters(r, {"NEED"}))
    /\ r.greed = Cardinality(Voters(r, {"GREED", "DISENCHANT"}))

LEMMA RollFacts ==
    ASSUME NEW r \in Roll
    PROVE  /\ r.vote \in [DOMAIN r.vote -> RollVote]
           /\ DOMAIN r.vote \in SUBSET Player /\ IsFiniteSet(DOMAIN r.vote)
           /\ r.rolling \in Int /\ r.pass \in Int /\ r.need \in Int /\ r.greed \in Int
           /\ r = [vote |-> r.vote, rolling |-> r.rolling, pass |-> r.pass,
                   need |-> r.need, greed |-> r.greed]
<1>1. r.vote \in UNION {[S -> RollVote] : S \in SUBSET Player}
  BY DEF Roll
<1>2. PICK S \in SUBSET Player : r.vote \in [S -> RollVote]
  BY <1>1
<1>3. DOMAIN r.vote = S
  BY <1>2
<1>4. IsFiniteSet(S)
  BY <1>2, FiniteAssumption, FS_Subset
<1> QED
  BY <1>2, <1>3, <1>4 DEF Roll

LEMMA MakeRoll ==
    ASSUME NEW S \in SUBSET Player, NEW v \in [S -> RollVote],
           NEW a \in Int, NEW b \in Int, NEW c \in Int, NEW d \in Int
    PROVE  [vote |-> v, rolling |-> a, pass |-> b, need |-> c, greed |-> d] \in Roll
<1>1. v \in UNION {[T -> RollVote] : T \in SUBSET Player}
  OBVIOUS
<1> QED
  BY <1>1 DEF Roll

LEMMA VotersFinite ==
    ASSUME NEW r \in Roll, NEW kinds
    PROVE  IsFiniteSet(Voters(r, kinds)) /\ Cardinality(Voters(r, kinds)) \in Nat
<1>1. Voters(r, kinds) \in SUBSET DOMAIN r.vote
  BY DEF Voters
<1>2. IsFiniteSet(Voters(r, kinds))
  BY <1>1, RollFacts, FS_Subset
<1> QED
  BY <1>2, FS_CardinalityType

\* A new roll is exact.
LEMMA NewRollExact ==
    ASSUME NEW eligible \in SUBSET Player, NEW passing \in SUBSET Player
    PROVE  /\ Exact(NewRoll(eligible, passing))
           /\ DOMAIN NewRoll(eligible, passing).vote = eligible
           /\ NewRoll(eligible, passing).vote \in [eligible -> {"PASS", "NOT_EMITED_YET"}]
<1> DEFINE r == NewRoll(eligible, passing)
<1>1. IsFiniteSet(eligible) /\ IsFiniteSet(eligible \cap passing)
  BY FiniteAssumption, FS_Subset, FS_Intersection
<1>2. Cardinality(eligible) \in Int /\ Cardinality(eligible \cap passing) \in Int
  BY <1>1, FS_CardinalityType
<1>3. /\ r.vote \in [eligible -> {"PASS", "NOT_EMITED_YET"}]
      /\ r.rolling = Cardinality(eligible) /\ r.pass = Cardinality(eligible \cap passing)
      /\ r.need = 0 /\ r.greed = 0
      /\ \A p \in eligible : r.vote[p] = IF p \in passing THEN "PASS" ELSE "NOT_EMITED_YET"
  BY DEF NewRoll
<1>4. r \in Roll
  <2>1. r = [vote |-> r.vote, rolling |-> Cardinality(eligible),
             pass |-> Cardinality(eligible \cap passing), need |-> 0, greed |-> 0]
    BY DEF NewRoll
  <2>2. r.vote \in [eligible -> RollVote]
    BY <1>3 DEF RollVote, Votes
  <2> HIDE DEF r
  <2> QED
    BY <2>1, <2>2, <1>2, MakeRoll
<1>5. DOMAIN r.vote = eligible
  BY <1>3
<1> HIDE DEF r
<1>6. Voters(r, {"PASS"}) = eligible \cap passing
  BY <1>3, <1>5 DEF Voters
<1>7. Voters(r, {"NEED"}) = {} /\ Voters(r, {"GREED", "DISENCHANT"}) = {}
  BY <1>3, <1>5 DEF Voters
<1>8. Exact(r)
  BY <1>3, <1>4, <1>5, <1>6, <1>7, FS_EmptySet DEF Exact
<1> QED
  BY <1>3, <1>5, <1>8 DEF r

\* How the number of voters changes with the vote of one.
LEMMA AddVoter ==
    ASSUME NEW r \in Roll, NEW s \in Roll, NEW p \in DOMAIN r.vote, NEW kinds,
           s.vote = [r.vote EXCEPT ![p] = s.vote[p]],
           r.vote[p] \notin kinds
    PROVE  Cardinality(Voters(s, kinds)) =
               Cardinality(Voters(r, kinds)) + OneIn(s.vote[p], kinds)
<1>1. DOMAIN s.vote = DOMAIN r.vote
  OBVIOUS
<1>2. Voters(s, kinds) = IF s.vote[p] \in kinds THEN Voters(r, kinds) \cup {p}
                         ELSE Voters(r, kinds)
  BY <1>1 DEF Voters
<1>3. p \notin Voters(r, kinds)
  BY DEF Voters
<1>4. IsFiniteSet(Voters(r, kinds)) /\ Cardinality(Voters(r, kinds)) \in Nat
  BY VotersFinite
<1>5. Cardinality(Voters(r, kinds) \cup {p}) = Cardinality(Voters(r, kinds)) + 1
  BY <1>3, <1>4, FS_AddElement
<1> QED
  BY <1>2, <1>4, <1>5 DEF OneIn

\* A vote that was not given yet keeps the totals exact.
LEMMA WithVoteExact ==
    ASSUME NEW r, Exact(r), NEW p \in DOMAIN r.vote, r.vote[p] = "NOT_EMITED_YET",
           NEW v \in Votes
    PROVE  /\ Exact(WithVote(r, p, v))
           /\ WithVote(r, p, v).vote = [r.vote EXCEPT ![p] = v]
           /\ DOMAIN WithVote(r, p, v).vote = DOMAIN r.vote
<1> DEFINE s == WithVote(r, p, v)
<1>1. r \in Roll
  BY DEF Exact
<1>2. s = [vote |-> [r.vote EXCEPT ![p] = v], rolling |-> r.rolling,
           pass |-> r.pass + OneIn(v, {"PASS"}), need |-> r.need + OneIn(v, {"NEED"}),
           greed |-> r.greed + OneIn(v, {"GREED", "DISENCHANT"})]
  <2>1. OneIn(v, {"PASS"}) \in Int /\ OneIn(v, {"NEED"}) \in Int
        /\ OneIn(v, {"GREED", "DISENCHANT"}) \in Int
    BY DEF OneIn
  <2> QED
    BY <2>1 DEF WithVote, Tally
<1> HIDE DEF s
<1>3. s.vote = [r.vote EXCEPT ![p] = v] /\ DOMAIN s.vote = DOMAIN r.vote /\ s.vote[p] = v
  BY <1>2
<1>4. s \in Roll
  <2>1. s.vote \in [DOMAIN r.vote -> RollVote] /\ DOMAIN r.vote \in SUBSET Player
    BY <1>1, <1>3, RollFacts DEF RollVote
  <2>2. OneIn(v, {"PASS"}) \in Int /\ OneIn(v, {"NEED"}) \in Int
        /\ OneIn(v, {"GREED", "DISENCHANT"}) \in Int
    BY DEF OneIn
  <2>3. r.rolling \in Int /\ r.pass \in Int /\ r.need \in Int /\ r.greed \in Int
    BY <1>1, RollFacts
  <2>4. /\ r.pass + OneIn(v, {"PASS"}) \in Int /\ r.need + OneIn(v, {"NEED"}) \in Int
        /\ r.greed + OneIn(v, {"GREED", "DISENCHANT"}) \in Int
    BY <2>2, <2>3
  <2>5. s = [vote |-> s.vote, rolling |-> r.rolling,
             pass |-> r.pass + OneIn(v, {"PASS"}), need |-> r.need + OneIn(v, {"NEED"}),
             greed |-> r.greed + OneIn(v, {"GREED", "DISENCHANT"})]
    BY <1>2
  <2> QED
    BY <2>1, <2>3, <2>4, <2>5, MakeRoll
<1>5. \A kinds \in {{"PASS"}, {"NEED"}, {"GREED", "DISENCHANT"}} :
          Cardinality(Voters(s, kinds)) = Cardinality(Voters(r, kinds)) + OneIn(v, kinds)
  <2> TAKE kinds \in {{"PASS"}, {"NEED"}, {"GREED", "DISENCHANT"}}
  <2>1. r.vote[p] \notin kinds
    OBVIOUS
  <2> QED
    BY <1>1, <1>3, <1>4, <2>1, AddVoter
<1>6. Exact(s)
  BY <1>2, <1>3, <1>4, <1>5 DEF Exact
<1> QED
  BY <1>3, <1>6 DEF s

\* A member that leaves takes its vote with it.
LEMMA WithoutExact ==
    ASSUME NEW r, Exact(r), NEW p \in Player
    PROVE  /\ Exact(Without(r, p))
           /\ DOMAIN Without(r, p).vote = DOMAIN r.vote \ {p}
           /\ \A q \in DOMAIN r.vote \ {p} : Without(r, p).vote[q] = r.vote[q]
<1>1. r \in Roll
  BY DEF Exact
<1>2. CASE p \notin DOMAIN r.vote
  BY <1>2 DEF Without
<1>3. CASE p \in DOMAIN r.vote
  <2> DEFINE s == Without(r, p)
             w == r.vote[p]
  <2>2. /\ OneIn(w, {"PASS"}) \in {0, 1} /\ OneIn(w, {"NEED"}) \in {0, 1}
        /\ OneIn(w, {"GREED", "DISENCHANT"}) \in {0, 1}
    BY DEF OneIn
  <2>3. r.rolling \in Int /\ r.pass \in Int /\ r.need \in Int /\ r.greed \in Int
    BY <1>1, RollFacts
  <2>4. s = [vote |-> [q \in DOMAIN r.vote \ {p} |-> r.vote[q]], rolling |-> r.rolling - 1,
             pass |-> r.pass - OneIn(w, {"PASS"}), need |-> r.need - OneIn(w, {"NEED"}),
             greed |-> r.greed - OneIn(w, {"GREED", "DISENCHANT"})]
    BY <1>3, <2>2, <2>3 DEF Without, Tally, Restrict
  <2> HIDE DEF s
  <2>5. /\ DOMAIN s.vote = DOMAIN r.vote \ {p}
        /\ \A q \in DOMAIN r.vote \ {p} : s.vote[q] = r.vote[q]
    BY <2>4
  <2>6. s \in Roll
    <3>1. /\ s.vote \in [DOMAIN r.vote \ {p} -> RollVote]
          /\ DOMAIN r.vote \ {p} \in SUBSET Player
      BY <1>1, <2>4, RollFacts
    <3>2. /\ r.rolling - 1 \in Int /\ r.pass - OneIn(w, {"PASS"}) \in Int
          /\ r.need - OneIn(w, {"NEED"}) \in Int
          /\ r.greed - OneIn(w, {"GREED", "DISENCHANT"}) \in Int
      BY <2>2, <2>3
    <3>3. s = [vote |-> s.vote, rolling |-> r.rolling - 1,
               pass |-> r.pass - OneIn(w, {"PASS"}), need |-> r.need - OneIn(w, {"NEED"}),
               greed |-> r.greed - OneIn(w, {"GREED", "DISENCHANT"})]
      BY <2>4
    <3> QED
      BY <3>1, <3>2, <3>3, MakeRoll
  <2>7. ASSUME NEW kinds
        PROVE  Cardinality(Voters(s, kinds)) = Cardinality(Voters(r, kinds)) - OneIn(w, kinds)
    <3>1. Voters(s, kinds) = Voters(r, kinds) \ {p}
      BY <2>5 DEF Voters
    <3>2. p \in Voters(r, kinds) <=> w \in kinds
      BY <1>3 DEF Voters
    <3>3. IsFiniteSet(Voters(r, kinds)) /\ Cardinality(Voters(r, kinds)) \in Nat
      BY <1>1, VotersFinite
    <3>4. Cardinality(Voters(r, kinds) \ {p}) =
              IF p \in Voters(r, kinds) THEN Cardinality(Voters(r, kinds)) - 1
              ELSE Cardinality(Voters(r, kinds))
      BY <3>3, FS_RemoveElement
    <3> QED
      BY <3>1, <3>2, <3>3, <3>4 DEF OneIn
  <2>8. Cardinality(DOMAIN s.vote) = Cardinality(DOMAIN r.vote) - 1
    <3>1. IsFiniteSet(DOMAIN r.vote)
      BY <1>1, RollFacts
    <3> QED
      BY <1>3, <2>5, <3>1, FS_RemoveElement
  <2>9. Exact(s)
    <3>1. /\ Cardinality(Voters(s, {"PASS"})) = Cardinality(Voters(r, {"PASS"})) - OneIn(w, {"PASS"})
          /\ Cardinality(Voters(s, {"NEED"})) = Cardinality(Voters(r, {"NEED"})) - OneIn(w, {"NEED"})
          /\ Cardinality(Voters(s, {"GREED", "DISENCHANT"})) =
                 Cardinality(Voters(r, {"GREED", "DISENCHANT"})) - OneIn(w, {"GREED", "DISENCHANT"})
      BY <2>7
    <3> QED
      BY <2>4, <2>6, <2>8, <3>1 DEF Exact
  <2> QED
    BY <2>5, <2>9 DEF s
<1> QED
  BY <1>2, <1>3

\* Once the totals reach the number of players, everybody has voted.
LEMMA AllVotedFacts ==
    ASSUME NEW r, Exact(r), AllVoted(r)
    PROVE  \A p \in DOMAIN r.vote : r.vote[p] \in Votes
<1> DEFINE A == Voters(r, {"PASS"})
           B == Voters(r, {"NEED"})
           C == Voters(r, {"GREED", "DISENCHANT"})
<1>1. r \in Roll
  BY DEF Exact
<1>2. /\ IsFiniteSet(A) /\ IsFiniteSet(B) /\ IsFiniteSet(C)
      /\ Cardinality(A) \in Nat /\ Cardinality(B) \in Nat /\ Cardinality(C) \in Nat
  BY <1>1, VotersFinite
<1>3. A \cap B = {} /\ (A \cup B) \cap C = {}
  BY DEF Voters
<1> HIDE DEF A, B, C
<1>4. IsFiniteSet(A \cup B) /\ Cardinality(A \cup B) = Cardinality(A) + Cardinality(B)
  <2>1. Cardinality(A \cup B) = Cardinality(A) + Cardinality(B) - Cardinality(A \cap B)
    BY <1>2, FS_Union
  <2> QED
    BY <1>2, <1>3, <2>1, FS_Union, FS_EmptySet
<1>5. /\ IsFiniteSet(A \cup B \cup C)
      /\ Cardinality(A \cup B \cup C) = Cardinality(A) + Cardinality(B) + Cardinality(C)
  <2>1. Cardinality(A \cup B \cup C) =
            Cardinality(A \cup B) + Cardinality(C) - Cardinality((A \cup B) \cap C)
    BY <1>2, <1>4, FS_Union
  <2> QED
    BY <1>2, <1>3, <1>4, <2>1, FS_Union, FS_EmptySet
<1>6. A \cup B \cup C \in SUBSET DOMAIN r.vote
  BY DEF Voters, A, B, C
<1>7. Cardinality(A) + Cardinality(B) + Cardinality(C) >= Cardinality(DOMAIN r.vote)
  BY DEF Exact, AllVoted, A, B, C
<1>8. IsFiniteSet(DOMAIN r.vote) /\ Cardinality(DOMAIN r.vote) \in Nat
  BY <1>1, RollFacts, FS_CardinalityType
<1>9. A \cup B \cup C = DOMAIN r.vote
  <2>1. Cardinality(A \cup B \cup C) <= Cardinality(DOMAIN r.vote)
    BY <1>6, <1>8, FS_Subset
  <2>2. Cardinality(A \cup B \cup C) = Cardinality(DOMAIN r.vote)
    BY <1>2, <1>5, <1>7, <1>8, <2>1
  <2> QED
    BY <1>6, <1>8, <2>2, FS_Subset
<1> QED
  BY <1>9 DEF Voters, Votes, A, B, C

\* Who gets the item by a roll has voted for it, and for need if anybody did.
LEMMA OutcomeFacts ==
    ASSUME NEW r, Exact(r), NEW w \in Player, w \in Outcomes(r)
    PROVE  /\ w \in DOMAIN r.vote /\ w \in online
           /\ r.vote[w] \in {"NEED", "GREED", "DISENCHANT"}
           /\ r.vote[w] # "NEED" => \A p \in DOMAIN r.vote : r.vote[p] # "NEED"
<1>1. w # "free" /\ w # "blocked"
  BY NobodyAssumption
<1>2. ~(r.need = 0 /\ r.greed = 0)
  BY <1>1 DEF Outcomes
<1>3. /\ w \in Winners(r) /\ w \in online
      /\ r.need = 0 => r.vote[w] \in {"GREED", "DISENCHANT"}
  <2> DEFINE E(x) == IF x \notin online \/ (r.need = 0 /\ r.vote[x] \notin {"GREED", "DISENCHANT"})
                     THEN {"blocked"}
                     ELSE IF r.need = 0 /\ r.vote[x] = "DISENCHANT" THEN {x} ELSE {x, "free"}
             W == Winners(r)
  <2>1. w \in UNION {E(x) : x \in W}
    BY <1>2, Zenon DEF Outcomes
  <2>3. PICK x \in W : w \in E(x)
    <3> HIDE DEF E, W
    <3> QED
      BY <2>1
  <2> QED
    BY <1>1, <2>3
<1>4. r \in Roll
  BY DEF Exact
<1>5. IsFiniteSet(Voters(r, {"NEED"})) /\ Cardinality(Voters(r, {"NEED"})) \in Nat
  BY <1>4, VotersFinite
<1>6. r.need = 0 <=> Voters(r, {"NEED"}) = {}
  BY <1>5, FS_EmptySet DEF Exact
<1>7. r.need > 0 \/ r.need = 0
  BY <1>5 DEF Exact
<1>8. w \in DOMAIN r.vote
  BY <1>3 DEF Winners, Voters
<1>9. CASE r.need > 0
  <2>1. w \in Voters(r, {"NEED"})
    BY <1>3, <1>5, <1>6, <1>9 DEF Winners
  <2> QED
    BY <1>3, <1>8, <2>1 DEF Voters
<1>10. CASE r.need = 0
  BY <1>3, <1>6, <1>8, <1>10 DEF Voters
<1> QED
  BY <1>7, <1>9, <1>10

-----------------------------------------------------------------------------
(* Steps.                                                                    *)

LEMMA ExactRolls ==
    ASSUME TypeOK, TotalsExact
    PROVE  \A i \in DOMAIN rolls : Exact(rolls[i]) /\ DOMAIN rolls[i].vote \subseteq members
BY DEF TypeOK, TotalsExact, Exact

\* What CountTheRolls does to the rolls and the loot.
LEMMA CountFacts ==
    ASSUME IInv, NEW ended \in SUBSET DOMAIN rolls, NEW votes, DOMAIN votes = DOMAIN rolls,
           CountTheRolls(ended, votes), corpse' = corpse
    PROVE  /\ DOMAIN rolls' = DOMAIN rolls \ ended
           /\ \A i \in DOMAIN rolls' : rolls'[i] = votes[i]
           /\ \A i \in Item : owner'[i] # owner[i] =>
                  i \in ended /\ owner'[i] \in Player \cap Outcomes(votes[i])
           /\ owner' \in [Item -> Player \cup {Nobody}]
           /\ looted \subseteq looted' /\ looted' \subseteq looted \cup ended
           /\ blocked \ ended \subseteq blocked' /\ blocked' \subseteq blocked
           /\ unlootedCount' \in [Corpse -> Int]
           /\ LootIsCounted'
<1>1. PICK result \in [ended -> Player \cup {"free", "blocked"}] :
          LET won == {i \in ended : result[i] \in Player}
          IN  /\ \A i \in ended : result[i] \in Outcomes(votes[i])
              /\ looted' = looted \cup won
              /\ blocked' = blocked \ {i \in ended : result[i] = "free"}
              /\ owner' = [i \in Item |-> IF i \in won THEN result[i] ELSE owner[i]]
              /\ unlootedCount' =
                     [c \in Corpse |-> unlootedCount[c] - Cardinality(won \cap ItemsOf(c))]
              /\ rolls' = Restrict(votes, DOMAIN votes \ ended)
  BY Zenon DEF CountTheRolls
<1> DEFINE won == {i \in ended : result[i] \in Player}
<1>2. /\ \A i \in ended : result[i] \in Outcomes(votes[i])
      /\ looted' = looted \cup won
      /\ blocked' = blocked \ {i \in ended : result[i] = "free"}
      /\ owner' = [i \in Item |-> IF i \in won THEN result[i] ELSE owner[i]]
      /\ unlootedCount' =
             [c \in Corpse |-> unlootedCount[c] - Cardinality(won \cap ItemsOf(c))]
      /\ rolls' = Restrict(votes, DOMAIN votes \ ended)
  BY <1>1, Zenon
<1>3. TypeOK /\ RollsAreOpen /\ LootIsCounted
  BY DEF IInv, RollsSound
<1>4. won \subseteq ended /\ ended \subseteq Item /\ ended \cap looted = {}
  BY <1>3 DEF TypeOK, RollsAreOpen
<1>5. \A i \in won : result[i] \in Player \cap Outcomes(votes[i])
  BY <1>2
<1>6. DOMAIN rolls' = DOMAIN rolls \ ended /\ \A i \in DOMAIN rolls' : rolls'[i] = votes[i]
  BY <1>2 DEF Restrict
<1> HIDE DEF won
<1>7. \A i \in Item : owner'[i] # owner[i] =>
          i \in ended /\ owner'[i] \in Player \cap Outcomes(votes[i])
  BY <1>2, <1>4, <1>5
<1>8. owner' \in [Item -> Player \cup {Nobody}]
  BY <1>2, <1>3, <1>5 DEF TypeOK
<1>9. ASSUME NEW c \in Corpse
      PROVE  /\ unlootedCount'[c] \in Int
             /\ corpse[c] # "gone" => unlootedCount'[c] = Cardinality(ItemsOf(c) \ looted')
  <2>1. unlootedCount'[c] = unlootedCount[c] - Cardinality(won \cap ItemsOf(c))
    BY <1>2
  <2>2. IsFiniteSet(ItemsOf(c) \ looted) /\ IsFiniteSet(won \cap ItemsOf(c))
    <3>1. ItemsOf(c) \ looted \subseteq Item /\ won \cap ItemsOf(c) \subseteq Item
      BY DEF ItemsOf
    <3> QED
      BY <3>1, FiniteAssumption, FS_Subset
  <2>3. /\ unlootedCount[c] \in Int /\ Cardinality(won \cap ItemsOf(c)) \in Nat
        /\ Cardinality(ItemsOf(c) \ looted) \in Nat
    BY <1>3, <2>2, FS_CardinalityType DEF TypeOK
  <2>4. ItemsOf(c) \ looted' = (ItemsOf(c) \ looted) \ (won \cap ItemsOf(c))
    BY <1>2
  <2>5. (ItemsOf(c) \ looted) \cap (won \cap ItemsOf(c)) = won \cap ItemsOf(c)
    BY <1>4
  <2>6. Cardinality(ItemsOf(c) \ looted') =
            Cardinality(ItemsOf(c) \ looted) - Cardinality(won \cap ItemsOf(c))
    <3> DEFINE S == ItemsOf(c) \ looted
               T == won \cap ItemsOf(c)
    <3>1. IsFiniteSet(S) /\ ItemsOf(c) \ looted' = S \ T /\ S \cap T = T
      BY <2>2, <2>4, <2>5
    <3> HIDE DEF S, T
    <3>2. Cardinality(S \ T) = Cardinality(S) - Cardinality(S \cap T)
      BY <3>1, FS_Difference
    <3>3. Cardinality(ItemsOf(c) \ looted') = Cardinality(S) - Cardinality(T)
      BY <3>1, <3>2
    <3> QED
      BY <3>3 DEF S, T
  <2> QED
    BY <1>3, <2>1, <2>3, <2>6 DEF LootIsCounted
<1>10. LootIsCounted' /\ unlootedCount' \in [Corpse -> Int]
  BY <1>2, <1>9 DEF LootIsCounted
<1> QED
  BY <1>2, <1>4, <1>6, <1>7, <1>8, <1>10

\* What is known of the state before a step.
LEMMA InvFacts ==
    ASSUME IInv
    PROVE  /\ TypeOK /\ TotalsExact /\ RollsAreOpen /\ LootIsCounted
           /\ WindowsMatch /\ Unseen /\ Disbanded
           /\ members \subseteq Player /\ online \subseteq Player
           /\ corpse \in [Corpse -> {"closed", "open", "gone"}] /\ timer \subseteq Corpse
           /\ looted \subseteq Item /\ blocked \subseteq Item
           /\ unlootedCount \in [Corpse -> Int] /\ owner \in [Item -> Player \cup {Nobody}]
           /\ choice \in [Item -> [Player -> RollVote \cup {"no window"}]]
           /\ DOMAIN rolls \subseteq Item
           /\ \A i \in DOMAIN rolls : Exact(rolls[i]) /\ DOMAIN rolls[i].vote \subseteq members
BY ExactRolls DEF IInv, RollsSound, TypeOK

\* What a step must leave.
LEMMA InvHolds ==
    ASSUME members' \in SUBSET Player, online' \in SUBSET Player,
           corpse' \in [Corpse -> {"closed", "open", "gone"}], timer' \in SUBSET Corpse,
           looted' \in SUBSET Item, blocked' \in SUBSET Item,
           unlootedCount' \in [Corpse -> Int],
           owner' \in [Item -> Player \cup {Nobody}],
           choice' \in [Item -> [Player -> RollVote \cup {"no window"}]],
           DOMAIN rolls' \in SUBSET Item,
           \A i \in DOMAIN rolls' : Exact(rolls'[i]) /\ DOMAIN rolls'[i].vote \subseteq members',
           RollsAreOpen', LootIsCounted', WindowsMatch', Unseen', Disbanded'
    PROVE  IInv'
<1>1. TypeOK'
  BY DEF TypeOK, Exact
<1>2. TotalsExact'
  BY DEF TotalsExact, Exact
<1> QED
  BY <1>1, <1>2 DEF IInv, RollsSound

LEMMA InitInv == Init => IInv
<1> SUFFICES ASSUME Init PROVE IInv
  OBVIOUS
<1>1. DOMAIN rolls = {}
  BY DEF Init, NoRolls
<1>2. ASSUME NEW c \in Corpse PROVE Cardinality(ItemsOf(c)) \in Int
  BY FiniteAssumption, FS_Subset, FS_CardinalityType DEF ItemsOf
<1>3. TypeOK
  BY <1>1, <1>2 DEF Init, TypeOK
<1>4. LootIsCounted
  <2>1. \A c \in Corpse : ItemsOf(c) \ looted = ItemsOf(c)
    BY DEF Init
  <2> QED
    BY <2>1 DEF LootIsCounted, Init
<1> QED
  BY <1>1, <1>3, <1>4 DEF Init, IInv, RollsSound, TotalsExact, RollsAreOpen, WindowsMatch, Match,
                          Unseen, Disbanded

LEMMA SendLootInv ==
    ASSUME IInv, NEW c \in Corpse, SendLoot(c)
    PROVE  IInv'
<1>1. PICK eligible \in [ItemsOf(c) -> SUBSET Linked], passing \in SUBSET Linked :
          LET rolled == {i \in ItemsOf(c) : eligible[i] # {}}
          IN  /\ rolls' = [i \in DOMAIN rolls \cup rolled |->
                              IF i \in rolled THEN NewRoll(eligible[i], passing) ELSE rolls[i]]
              /\ choice' = [i \in Item |->
                               [p \in Player |-> IF i \in rolled /\ p \in eligible[i]
                                                 THEN NewRoll(eligible[i], passing).vote[p]
                                                 ELSE choice[i][p]]]
              /\ blocked' = blocked \cup rolled
              /\ timer' = IF rolled = {} THEN timer ELSE timer \cup {c}
  BY Zenon DEF SendLoot
<1> DEFINE rolled == {i \in ItemsOf(c) : eligible[i] # {}}
           new(i) == NewRoll(eligible[i], passing)
<1>2. /\ rolls' = [i \in DOMAIN rolls \cup rolled |->
                      IF i \in rolled THEN new(i) ELSE rolls[i]]
      /\ choice' = [i \in Item |->
                       [p \in Player |-> IF i \in rolled /\ p \in eligible[i]
                                         THEN new(i).vote[p] ELSE choice[i][p]]]
      /\ blocked' = blocked \cup rolled
      /\ timer' = IF rolled = {} THEN timer ELSE timer \cup {c}
  BY <1>1, Zenon
<1>3. /\ corpse[c] = "closed" /\ corpse' = [corpse EXCEPT ![c] = "open"]
      /\ UNCHANGED <<members, online, looted, unlootedCount, owner>>
  BY DEF SendLoot, groupVars
<1>4. /\ TypeOK /\ RollsAreOpen /\ LootIsCounted /\ WindowsMatch /\ Unseen /\ Disbanded
      /\ DOMAIN rolls \subseteq Item
      /\ \A i \in DOMAIN rolls : Exact(rolls[i]) /\ DOMAIN rolls[i].vote \subseteq members
  BY InvFacts
<1>5. /\ members \subseteq Player /\ online \subseteq Player
      /\ corpse \in [Corpse -> {"closed", "open", "gone"}] /\ timer \subseteq Corpse
      /\ looted \subseteq Item /\ blocked \subseteq Item
      /\ unlootedCount \in [Corpse -> Int] /\ owner \in [Item -> Player \cup {Nobody}]
      /\ choice \in [Item -> [Player -> RollVote \cup {"no window"}]]
  BY <1>4 DEF TypeOK
<1>6. /\ rolled \subseteq Item /\ \A i \in rolled : CorpseOf[i] = c
      /\ \A i \in rolled : eligible[i] \in SUBSET Linked /\ eligible[i] # {}
      /\ Linked \subseteq members /\ Linked \subseteq Player
  BY <1>5 DEF ItemsOf, Linked
<1>7. \A i \in rolled : /\ Exact(new(i)) /\ DOMAIN new(i).vote = eligible[i]
                        /\ new(i).vote \in [eligible[i] -> {"PASS", "NOT_EMITED_YET"}]
  BY <1>6, NewRollExact
<1> HIDE DEF rolled, new
<1>8. rolled \cap DOMAIN rolls = {}
  BY <1>3, <1>4, <1>6 DEF RollsAreOpen
<1>9. /\ DOMAIN rolls' = DOMAIN rolls \cup rolled
      /\ \A i \in DOMAIN rolls : rolls'[i] = rolls[i]
      /\ \A i \in rolled : rolls'[i] = new(i)
  BY <1>2, <1>8
<1>10. choice' \in [Item -> [Player -> RollVote \cup {"no window"}]]
  <2>1. \A i \in rolled, p \in Player : p \in eligible[i] => new(i).vote[p] \in RollVote
    BY <1>7 DEF RollVote, Votes
  <2> QED
    BY <1>2, <1>5, <2>1
<1>11. \A i \in DOMAIN rolls' : Exact(rolls'[i]) /\ DOMAIN rolls'[i].vote \subseteq members'
  BY <1>3, <1>4, <1>6, <1>7, <1>9
<1>12. RollsAreOpen'
  <2>1. \A i \in DOMAIN rolls : CorpseOf[i] \in Corpse /\ CorpseOf[i] # c
    BY <1>3, <1>4, CorpseAssumption DEF RollsAreOpen
  <2>2. \A i \in rolled : i \notin looted
    BY <1>3, <1>4, <1>6 DEF Unseen
  <2>3. \A i \in DOMAIN rolls : corpse'[CorpseOf[i]] = corpse[CorpseOf[i]]
    BY <1>3, <1>5, <2>1
  <2>4. timer \subseteq timer' /\ blocked \subseteq blocked' /\ looted' = looted
    BY <1>2, <1>3
  <2>5. \A i \in DOMAIN rolls : /\ corpse'[CorpseOf[i]] = "open" /\ CorpseOf[i] \in timer'
                                /\ i \in blocked' \ looted'
    BY <1>4, <2>3, <2>4 DEF RollsAreOpen
  <2>6. \A i \in rolled : /\ corpse'[CorpseOf[i]] = "open" /\ CorpseOf[i] \in timer'
                          /\ i \in blocked' \ looted'
    BY <1>2, <1>3, <1>5, <1>6, <2>2
  <2> QED
    BY <1>9, <2>5, <2>6 DEF RollsAreOpen
<1>13. LootIsCounted'
  BY <1>3, <1>4, <1>5 DEF LootIsCounted
<1>14. WindowsMatch'
  <2> SUFFICES ASSUME NEW i \in DOMAIN rolls', NEW p \in Player
               PROVE  IF p \in DOMAIN rolls'[i].vote
                      THEN IF rolls'[i].vote[p] \in Votes THEN choice'[i][p] = rolls'[i].vote[p]
                           ELSE choice'[i][p] \in {"NOT_EMITED_YET", "no window"}
                      ELSE choice'[i][p] = "no window"
    BY DEF WindowsMatch, Match
  <2>1. CASE i \in rolled
    <3>1. choice'[i][p] = IF p \in eligible[i] THEN new(i).vote[p] ELSE choice[i][p]
      BY <1>2, <1>6, <2>1
    <3>2. choice[i][p] = "no window"
      BY <1>3, <1>4, <1>6, <2>1 DEF Unseen
    <3> QED
      BY <1>7, <1>9, <2>1, <3>1, <3>2 DEF Votes
  <2>2. CASE i \notin rolled
    <3>1. i \in DOMAIN rolls /\ rolls'[i] = rolls[i] /\ choice'[i][p] = choice[i][p]
      BY <1>2, <1>4, <1>9, <2>2
    <3> QED
      BY <1>4, <3>1 DEF WindowsMatch, Match
  <2> QED
    BY <2>1, <2>2
<1>15. Unseen'
  <2> SUFFICES ASSUME NEW i \in Item, corpse'[CorpseOf[i]] = "closed"
               PROVE  i \notin looted' /\ \A p \in Player : choice'[i][p] = "no window"
    BY DEF Unseen
  <2>1. CorpseOf[i] # c /\ corpse[CorpseOf[i]] = "closed"
    BY <1>3, <1>5, CorpseAssumption
  <2> QED
    BY <1>2, <1>3, <1>4, <1>6, <2>1 DEF Unseen
<1>16. Disbanded'
  BY <1>3, <1>4, <1>6, <1>9 DEF Disbanded
<1>17. timer' \in SUBSET Corpse /\ blocked' \in SUBSET Item /\ DOMAIN rolls' \in SUBSET Item
  BY <1>2, <1>4, <1>5, <1>6, <1>9
<1>18. corpse' \in [Corpse -> {"closed", "open", "gone"}]
  BY <1>3, <1>5
<1> QED
  BY <1>3, <1>5, <1>10, <1>11, <1>12, <1>13, <1>14, <1>15, <1>16, <1>17, <1>18, InvHolds

\* Rolls that end, or get one more vote, leave what must hold: CountTheRolls.
LEMMA CountInv ==
    ASSUME IInv, NEW ended \in SUBSET DOMAIN rolls, NEW votes, DOMAIN votes = DOMAIN rolls,
           CountTheRolls(ended, votes), UNCHANGED <<members, online, corpse>>,
           \A i \in DOMAIN rolls : Exact(votes[i]) /\ DOMAIN votes[i].vote \subseteq members,
           timer' \in SUBSET timer,
           \A i \in DOMAIN rolls \ ended : CorpseOf[i] \in timer',
           choice' \in [Item -> [Player -> RollVote \cup {"no window"}]],
           WindowsMatch', Unseen'
    PROVE  IInv'
<1>1. /\ DOMAIN rolls' = DOMAIN rolls \ ended
      /\ \A i \in DOMAIN rolls' : rolls'[i] = votes[i]
      /\ owner' \in [Item -> Player \cup {Nobody}]
      /\ looted \subseteq looted' /\ looted' \subseteq looted \cup ended
      /\ blocked \ ended \subseteq blocked' /\ blocked' \subseteq blocked
      /\ unlootedCount' \in [Corpse -> Int]
      /\ LootIsCounted'
  BY CountFacts
<1>2. /\ RollsAreOpen /\ Disbanded /\ DOMAIN rolls \subseteq Item
      /\ members \subseteq Player /\ online \subseteq Player
      /\ corpse \in [Corpse -> {"closed", "open", "gone"}] /\ timer \subseteq Corpse
      /\ looted \subseteq Item /\ blocked \subseteq Item
  BY InvFacts
<1>3. RollsAreOpen'
  BY <1>1, <1>2 DEF RollsAreOpen
<1>4. Disbanded'
  BY <1>1, <1>2 DEF Disbanded
<1>5. looted' \in SUBSET Item /\ blocked' \in SUBSET Item
  BY <1>1, <1>2
<1>6. \A i \in DOMAIN rolls' : Exact(rolls'[i]) /\ DOMAIN rolls'[i].vote \subseteq members'
  BY <1>1
<1> QED
  BY <1>1, <1>2, <1>3, <1>4, <1>5, <1>6, InvHolds

\* What a vote leaves when it counts: the totals are exact, and agree with the
\* windows.
LEMMA VoteCounted ==
    ASSUME IInv, NEW p \in Player, NEW i \in Item, NEW v \in Votes, CountRollVote(p, i, v),
           i \in DOMAIN rolls, p \in DOMAIN rolls[i].vote,
           NEW votes, votes = [rolls EXCEPT ![i] = WithVote(rolls[i], p, v)]
    PROVE  /\ DOMAIN votes = DOMAIN rolls
           /\ votes[i] = WithVote(rolls[i], p, v)
           /\ \A j \in DOMAIN rolls : /\ Exact(votes[j]) /\ DOMAIN votes[j].vote \subseteq members
                                      /\ Match(votes[j], choice'[j])
<1> DEFINE r == WithVote(rolls[i], p, v)
<1>1. choice[i][p] = "NOT_EMITED_YET" /\ choice' = [choice EXCEPT ![i][p] = v]
  BY DEF CountRollVote
<1>2. /\ WindowsMatch /\ DOMAIN rolls \subseteq Item
      /\ choice \in [Item -> [Player -> RollVote \cup {"no window"}]]
      /\ \A j \in DOMAIN rolls : Exact(rolls[j]) /\ DOMAIN rolls[j].vote \subseteq members
  BY InvFacts
<1>3. \A j \in Item, q \in Player :
          choice'[j][q] = IF j = i /\ q = p THEN v ELSE choice[j][q]
  BY <1>1, <1>2 DEF RollVote
<1>4. rolls[i].vote[p] = "NOT_EMITED_YET"
  <2>1. rolls[i] \in Roll
    BY <1>2 DEF Exact
  <2>2. rolls[i].vote[p] \in RollVote
    BY <2>1, RollFacts
  <2> QED
    BY <1>1, <1>2, <2>2 DEF WindowsMatch, Match, RollVote, Votes
<1>5. /\ Exact(r) /\ r.vote = [rolls[i].vote EXCEPT ![p] = v]
      /\ DOMAIN r.vote = DOMAIN rolls[i].vote
  <2>1. Exact(rolls[i])
    BY <1>2
  <2> QED
    BY <1>4, <2>1, WithVoteExact
<1> HIDE DEF r
<1>6. /\ DOMAIN votes = DOMAIN rolls /\ votes[i] = r
      /\ \A j \in DOMAIN rolls : votes[j] = IF j = i THEN r ELSE rolls[j]
  BY DEF r
<1>7. \A j \in DOMAIN rolls : Exact(votes[j]) /\ DOMAIN votes[j].vote \subseteq members
  BY <1>2, <1>5, <1>6
<1>8. ASSUME NEW j \in DOMAIN rolls PROVE Match(votes[j], choice'[j])
  <2> SUFFICES ASSUME NEW q \in Player
               PROVE  IF q \in DOMAIN votes[j].vote
                      THEN IF votes[j].vote[q] \in Votes THEN choice'[j][q] = votes[j].vote[q]
                           ELSE choice'[j][q] \in {"NOT_EMITED_YET", "no window"}
                      ELSE choice'[j][q] = "no window"
    BY DEF Match
  <2>1. j \in Item /\ votes[j] = IF j = i THEN r ELSE rolls[j]
    BY <1>2, <1>6
  <2>2. CASE j = i /\ q = p
    <3>1. choice'[j][q] = v
      BY <1>3, <2>1, <2>2
    <3>2. q \in DOMAIN votes[j].vote /\ votes[j].vote[q] = v
      BY <1>5, <2>1, <2>2
    <3> QED
      BY <3>1, <3>2
  <2>3. CASE j # i \/ q # p
    <3>1. choice'[j][q] = choice[j][q]
      BY <1>3, <2>1, <2>3
    <3>2. /\ DOMAIN votes[j].vote = DOMAIN rolls[j].vote
          /\ q \in DOMAIN rolls[j].vote => votes[j].vote[q] = rolls[j].vote[q]
      BY <1>5, <2>1, <2>3
    <3> QED
      BY <1>2, <3>1, <3>2 DEF WindowsMatch, Match
  <2> QED
    BY <2>2, <2>3
<1> QED
  BY <1>6, <1>7, <1>8 DEF r

LEMMA CountRollVoteInv ==
    ASSUME IInv, NEW p \in Player, NEW i \in Item, NEW v \in Votes, CountRollVote(p, i, v)
    PROVE  IInv'
<1>1. /\ choice[i][p] = "NOT_EMITED_YET"
      /\ choice' = [choice EXCEPT ![i][p] = v]
      /\ UNCHANGED <<members, online, corpse, timer>>
  BY DEF CountRollVote, groupVars
<1>2. /\ RollsAreOpen /\ WindowsMatch /\ Unseen /\ TypeOK /\ LootIsCounted /\ Disbanded
      /\ DOMAIN rolls \subseteq Item
      /\ choice \in [Item -> [Player -> RollVote \cup {"no window"}]]
      /\ \A j \in DOMAIN rolls : Exact(rolls[j]) /\ DOMAIN rolls[j].vote \subseteq members
  BY InvFacts
<1>3. /\ choice' \in [Item -> [Player -> RollVote \cup {"no window"}]]
      /\ \A j \in Item, q \in Player :
             choice'[j][q] = IF j = i /\ q = p THEN v ELSE choice[j][q]
  BY <1>1, <1>2 DEF RollVote
<1>4. corpse[CorpseOf[i]] # "closed"
  BY <1>1, <1>2 DEF Unseen
<1>5. CASE i \in DOMAIN rolls /\ p \in DOMAIN rolls[i].vote
  <2> DEFINE votes == [rolls EXCEPT ![i] = WithVote(rolls[i], p, v)]
             ended == IF AllVoted(WithVote(rolls[i], p, v)) THEN {i} ELSE {}
  <2>1. CountTheRolls(ended, votes) /\ ended \in SUBSET DOMAIN rolls
    BY <1>5, Zenon DEF CountRollVote
  <2>2. /\ DOMAIN votes = DOMAIN rolls
        /\ \A j \in DOMAIN rolls : /\ Exact(votes[j]) /\ DOMAIN votes[j].vote \subseteq members
                                   /\ Match(votes[j], choice'[j])
    BY <1>5, VoteCounted
  <2> HIDE DEF votes, ended
  <2>3. /\ DOMAIN rolls' = DOMAIN rolls \ ended /\ \A j \in DOMAIN rolls' : rolls'[j] = votes[j]
        /\ looted' \subseteq looted \cup ended
    <3>1. DOMAIN votes = DOMAIN rolls /\ ended \in SUBSET DOMAIN rolls /\ corpse' = corpse
      BY <1>1, <2>1, <2>2
    <3> QED
      BY <2>1, <3>1, CountFacts
  <2>4. looted' \subseteq looted \cup DOMAIN rolls
    BY <2>1, <2>3
  <2>5. WindowsMatch'
    BY <2>2, <2>3 DEF WindowsMatch
  <2>6. Unseen'
    <3> SUFFICES ASSUME NEW j \in Item, corpse[CorpseOf[j]] = "closed"
                 PROVE  j \notin looted' /\ \A q \in Player : choice'[j][q] = "no window"
      BY <1>1 DEF Unseen
    <3>1. j # i /\ j \notin DOMAIN rolls
      BY <1>2, <1>4 DEF RollsAreOpen
    <3>2. j \notin looted /\ \A q \in Player : choice[j][q] = "no window"
      BY <1>2 DEF Unseen
    <3> QED
      BY <1>3, <2>4, <3>1, <3>2
  <2>7. /\ timer' \in SUBSET timer
        /\ \A j \in DOMAIN rolls \ ended : CorpseOf[j] \in timer'
    BY <1>1, <1>2 DEF RollsAreOpen
  <2> QED
    BY <1>1, <1>3, <2>1, <2>2, <2>5, <2>6, <2>7, CountInv
<1>6. CASE ~(i \in DOMAIN rolls /\ p \in DOMAIN rolls[i].vote)
  <2>1. UNCHANGED <<looted, blocked, owner, unlootedCount, rolls>>
    BY <1>6 DEF CountRollVote
  <2>2. i \notin DOMAIN rolls
    BY <1>1, <1>2, <1>6 DEF WindowsMatch, Match
  <2>3. WindowsMatch'
    <3> SUFFICES ASSUME NEW j \in DOMAIN rolls, NEW q \in Player
                 PROVE  IF q \in DOMAIN rolls[j].vote
                        THEN IF rolls[j].vote[q] \in Votes THEN choice'[j][q] = rolls[j].vote[q]
                             ELSE choice'[j][q] \in {"NOT_EMITED_YET", "no window"}
                        ELSE choice'[j][q] = "no window"
      BY <2>1 DEF WindowsMatch, Match
    <3>1. choice'[j][q] = choice[j][q]
      BY <1>2, <1>3, <2>2
    <3> QED
      BY <1>2, <3>1 DEF WindowsMatch, Match
  <2>4. Unseen'
    <3> SUFFICES ASSUME NEW j \in Item, corpse[CorpseOf[j]] = "closed"
                 PROVE  j \notin looted /\ \A q \in Player : choice'[j][q] = "no window"
      BY <1>1, <2>1 DEF Unseen
    <3>1. j # i
      BY <1>4
    <3>2. j \notin looted /\ \A q \in Player : choice[j][q] = "no window"
      BY <1>2 DEF Unseen
    <3> QED
      BY <1>3, <3>1, <3>2
  <2>5. RollsAreOpen' /\ LootIsCounted' /\ Disbanded'
    BY <1>1, <1>2, <2>1 DEF RollsAreOpen, LootIsCounted, Disbanded
  <2> QED
    BY <1>1, <1>2, <1>3, <2>1, <2>3, <2>4, <2>5, InvFacts, InvHolds
<1> QED
  BY <1>5, <1>6

LEMMA TimerInv ==
    ASSUME IInv, NEW c \in Corpse, GroupLootTimerExpires(c)
    PROVE  IInv'
<1> DEFINE ended == IF members = {} THEN {} ELSE RollsFor(c)
<1>1. /\ timer' = timer \ {c} /\ CountTheRolls(ended, rolls)
      /\ UNCHANGED <<members, online, corpse, choice>>
  BY Zenon DEF GroupLootTimerExpires, groupVars
<1>2. /\ RollsAreOpen /\ WindowsMatch /\ Unseen /\ Disbanded /\ DOMAIN rolls \subseteq Item
      /\ choice \in [Item -> [Player -> RollVote \cup {"no window"}]]
      /\ \A j \in DOMAIN rolls : Exact(rolls[j]) /\ DOMAIN rolls[j].vote \subseteq members
  BY InvFacts
<1>3. /\ ended \in SUBSET DOMAIN rolls
      /\ \A j \in DOMAIN rolls \ ended : CorpseOf[j] # c
  BY <1>2 DEF RollsFor, ItemsOf, Disbanded
<1> HIDE DEF ended
<1>4. /\ DOMAIN rolls' = DOMAIN rolls \ ended /\ \A j \in DOMAIN rolls' : rolls'[j] = rolls[j]
      /\ looted' \subseteq looted \cup ended
  BY <1>1, <1>3, CountFacts
<1>5. WindowsMatch'
  BY <1>1, <1>2, <1>4 DEF WindowsMatch, Match
<1>6. Unseen'
  BY <1>1, <1>2, <1>3, <1>4 DEF Unseen, RollsAreOpen
<1>7. timer' \in SUBSET timer /\ \A j \in DOMAIN rolls \ ended : CorpseOf[j] \in timer'
  BY <1>1, <1>2, <1>3 DEF RollsAreOpen
<1>8. choice' \in [Item -> [Player -> RollVote \cup {"no window"}]]
  BY <1>1, <1>2
<1> QED
  BY <1>1, <1>2, <1>3, <1>5, <1>6, <1>7, <1>8, CountInv

LEMMA StoreLootItemInv ==
    ASSUME IInv, NEW p \in Player, NEW i \in Item, StoreLootItem(p, i)
    PROVE  IInv'
<1>1. /\ corpse[CorpseOf[i]] = "open" /\ i \notin looted \cup blocked
      /\ looted' = looted \cup {i} /\ owner' = [owner EXCEPT ![i] = p]
      /\ unlootedCount' = [unlootedCount EXCEPT ![CorpseOf[i]] = @ - 1]
      /\ UNCHANGED <<members, online, corpse, timer, blocked, rolls, choice>>
  BY DEF StoreLootItem, groupVars
<1>2. /\ LootIsCounted /\ RollsAreOpen /\ WindowsMatch /\ Unseen /\ Disbanded
      /\ members \subseteq Player /\ online \subseteq Player
      /\ corpse \in [Corpse -> {"closed", "open", "gone"}] /\ timer \subseteq Corpse
      /\ looted \subseteq Item /\ blocked \subseteq Item
      /\ unlootedCount \in [Corpse -> Int] /\ owner \in [Item -> Player \cup {Nobody}]
      /\ choice \in [Item -> [Player -> RollVote \cup {"no window"}]]
      /\ DOMAIN rolls \subseteq Item
      /\ \A j \in DOMAIN rolls : Exact(rolls[j]) /\ DOMAIN rolls[j].vote \subseteq members
  BY InvFacts
<1>3. RollsAreOpen'
  BY <1>1, <1>2 DEF RollsAreOpen
<1>4. ASSUME NEW c \in Corpse
      PROVE  /\ unlootedCount'[c] \in Int
             /\ corpse[c] # "gone" => unlootedCount'[c] = Cardinality(ItemsOf(c) \ looted')
  <2>1. CorpseOf[i] \in Corpse
    BY CorpseAssumption
  <2>2. IsFiniteSet(ItemsOf(c) \ looted) /\ unlootedCount[c] \in Int
    <3>1. ItemsOf(c) \ looted \subseteq Item
      BY DEF ItemsOf
    <3> QED
      BY <1>2, <3>1, FiniteAssumption, FS_Subset
  <2>3. CASE c = CorpseOf[i]
    <3>1. unlootedCount'[c] = unlootedCount[c] - 1
      BY <1>1, <1>2, <2>1, <2>3
    <3>2. i \in ItemsOf(c) \ looted /\ ItemsOf(c) \ looted' = (ItemsOf(c) \ looted) \ {i}
      BY <1>1, <2>3 DEF ItemsOf
    <3>3. Cardinality((ItemsOf(c) \ looted) \ {i}) = Cardinality(ItemsOf(c) \ looted) - 1
      BY <2>2, <3>2, FS_RemoveElement
    <3>4. unlootedCount[c] = Cardinality(ItemsOf(c) \ looted)
      BY <1>1, <1>2, <2>3 DEF LootIsCounted
    <3>5. Cardinality(ItemsOf(c) \ looted') = Cardinality(ItemsOf(c) \ looted) - 1
      BY <3>2, <3>3, Zenon
    <3>6. unlootedCount'[c] = Cardinality(ItemsOf(c) \ looted')
      BY <3>1, <3>4, <3>5, Zenon
    <3> QED
      BY <2>2, <3>1, <3>6
  <2>4. CASE c # CorpseOf[i]
    <3>1. unlootedCount'[c] = unlootedCount[c]
      BY <1>1, <1>2, <2>1, <2>4
    <3>2. ItemsOf(c) \ looted' = ItemsOf(c) \ looted
      BY <1>1, <2>4 DEF ItemsOf
    <3> QED
      BY <1>2, <2>2, <3>1, <3>2 DEF LootIsCounted
  <2> QED
    BY <2>3, <2>4
<1>5. LootIsCounted' /\ unlootedCount' \in [Corpse -> Int]
  BY <1>1, <1>2, <1>4 DEF LootIsCounted
<1>6. WindowsMatch' /\ Disbanded'
  BY <1>1, <1>2 DEF WindowsMatch, Match, Disbanded
<1>7. Unseen'
  BY <1>1, <1>2 DEF Unseen
<1>8. looted' \in SUBSET Item /\ owner' \in [Item -> Player \cup {Nobody}]
  BY <1>1, <1>2
<1> QED
  BY <1>1, <1>2, <1>3, <1>5, <1>6, <1>7, <1>8, InvHolds

LEMMA RemoveCorpseInv ==
    ASSUME IInv, NEW c \in Corpse, RemoveCorpse(c)
    PROVE  IInv'
<1>1. /\ corpse' = [corpse EXCEPT ![c] = "gone"]
      /\ rolls' = Restrict(rolls, DOMAIN rolls \ ItemsOf(c))
      /\ unlootedCount' = [unlootedCount EXCEPT ![c] = 0]
      /\ UNCHANGED <<members, online, timer, looted, blocked, owner, choice>>
  BY DEF RemoveCorpse, groupVars
<1>2. /\ LootIsCounted /\ RollsAreOpen /\ WindowsMatch /\ Unseen /\ Disbanded
      /\ members \subseteq Player /\ online \subseteq Player
      /\ corpse \in [Corpse -> {"closed", "open", "gone"}] /\ timer \subseteq Corpse
      /\ looted \subseteq Item /\ blocked \subseteq Item
      /\ unlootedCount \in [Corpse -> Int] /\ owner \in [Item -> Player \cup {Nobody}]
      /\ choice \in [Item -> [Player -> RollVote \cup {"no window"}]]
      /\ DOMAIN rolls \subseteq Item
      /\ \A j \in DOMAIN rolls : Exact(rolls[j]) /\ DOMAIN rolls[j].vote \subseteq members
  BY InvFacts
<1>3. /\ DOMAIN rolls' = DOMAIN rolls \ ItemsOf(c)
      /\ \A i \in DOMAIN rolls' : rolls'[i] = rolls[i] /\ CorpseOf[i] # c
  BY <1>1, <1>2 DEF Restrict, ItemsOf
<1>4. \A d \in Corpse : corpse'[d] = IF d = c THEN "gone" ELSE corpse[d]
  BY <1>1, <1>2
<1>5. RollsAreOpen'
  BY <1>1, <1>2, <1>3, <1>4, CorpseAssumption DEF RollsAreOpen
<1>6. LootIsCounted' /\ unlootedCount' \in [Corpse -> Int]
  <2>1. \A d \in Corpse : d # c => unlootedCount'[d] = unlootedCount[d]
    BY <1>1, <1>2
  <2>2. \A d \in Corpse : ItemsOf(d) \ looted' = ItemsOf(d) \ looted
    BY <1>1
  <2>3. LootIsCounted'
    <3> SUFFICES ASSUME NEW d \in Corpse, corpse'[d] # "gone"
                 PROVE  unlootedCount'[d] = Cardinality(ItemsOf(d) \ looted')
      BY DEF LootIsCounted
    <3>1. d # c /\ corpse[d] # "gone"
      BY <1>4
    <3> QED
      BY <1>2, <2>1, <2>2, <3>1 DEF LootIsCounted
  <2>4. unlootedCount' = [unlootedCount EXCEPT ![c] = 0] /\ unlootedCount \in [Corpse -> Int]
    BY <1>1, <1>2
  <2>5. unlootedCount' \in [Corpse -> Int]
    BY <2>4
  <2> QED
    BY <2>3, <2>5
<1>7. WindowsMatch'
  BY <1>1, <1>2, <1>3 DEF WindowsMatch, Match
<1>8. Disbanded'
  BY <1>1, <1>2, <1>3 DEF Disbanded
<1>9. Unseen'
  <2> SUFFICES ASSUME NEW i \in Item, corpse'[CorpseOf[i]] = "closed"
               PROVE  i \notin looted /\ \A p \in Player : choice[i][p] = "no window"
    BY <1>1 DEF Unseen
  <2>1. CorpseOf[i] \in Corpse
    BY CorpseAssumption
  <2>2. corpse[CorpseOf[i]] = "closed"
    BY <1>4, <2>1
  <2> QED
    BY <1>2, <2>2 DEF Unseen
<1>10. corpse' \in [Corpse -> {"closed", "open", "gone"}]
  BY <1>1, <1>2
<1>11. \A i \in DOMAIN rolls' : Exact(rolls'[i]) /\ DOMAIN rolls'[i].vote \subseteq members'
  BY <1>1, <1>2, <1>3
<1> QED
  BY <1>1, <1>2, <1>3, <1>5, <1>6, <1>7, <1>8, <1>9, <1>10, <1>11, InvHolds

\* A client's windows are closed by a step that does not touch the loot.
LEMMA WindowsClosed ==
    ASSUME IInv, NEW p \in Player, NEW kept \in SUBSET RollVote, CloseWindows(p, kept)
    PROVE  /\ choice' \in [Item -> [Player -> RollVote \cup {"no window"}]]
           /\ \A i \in Item, q \in Player :
                 choice'[i][q] = IF q = p /\ choice[i][q] \notin kept THEN "no window"
                                 ELSE choice[i][q]
<1>1. choice \in [Item -> [Player -> RollVote \cup {"no window"}]]
  BY InvFacts
<1>2. choice' = [i \in Item |->
                    [choice[i] EXCEPT ![p] = IF @ \in kept THEN @ ELSE "no window"]]
  BY DEF CloseWindows
<1>3. \A i \in Item, q \in Player :
          choice'[i][q] = IF q = p /\ choice[i][q] \notin kept THEN "no window"
                          ELSE choice[i][q]
  BY <1>1, <1>2
<1> QED
  BY <1>1, <1>2, <1>3

LEMMA UnseenStays ==
    ASSUME IInv, NEW p \in Player, NEW kept \in SUBSET RollVote, CloseWindows(p, kept),
           UNCHANGED <<corpse, looted>>
    PROVE  Unseen'
<1> SUFFICES ASSUME NEW i \in Item, corpse[CorpseOf[i]] = "closed"
             PROVE  i \notin looted /\ \A q \in Player : choice'[i][q] = "no window"
  BY DEF Unseen
<1>1. i \notin looted /\ \A q \in Player : choice[i][q] = "no window"
  BY InvFacts DEF Unseen
<1> QED
  BY <1>1, WindowsClosed

LEMMA RemoveMemberInv ==
    ASSUME IInv, NEW p \in Player, RemoveMember(p), UNCHANGED lootVars,
           online' \in SUBSET Player
    PROVE  IInv'
<1> DEFINE disbands == Cardinality(members) <= 2 \/ Cardinality(Linked \ {p}) < 2
<1>1. /\ p \in members
      /\ members' = IF disbands THEN {} ELSE members \ {p}
      /\ rolls' = IF disbands THEN NoRolls ELSE [i \in DOMAIN rolls |-> Without(rolls[i], p)]
      /\ CloseWindows(p, {})
      /\ UNCHANGED <<corpse, timer, looted, blocked, unlootedCount, owner>>
  BY Zenon DEF RemoveMember, lootVars
<1>2. /\ LootIsCounted /\ RollsAreOpen /\ WindowsMatch /\ Unseen /\ Disbanded
      /\ members \subseteq Player /\ online \subseteq Player
      /\ corpse \in [Corpse -> {"closed", "open", "gone"}] /\ timer \subseteq Corpse
      /\ looted \subseteq Item /\ blocked \subseteq Item
      /\ unlootedCount \in [Corpse -> Int] /\ owner \in [Item -> Player \cup {Nobody}]
      /\ DOMAIN rolls \subseteq Item
      /\ \A j \in DOMAIN rolls : Exact(rolls[j]) /\ DOMAIN rolls[j].vote \subseteq members
  BY InvFacts
<1>3. disbands \/ members \ {p} # {}
  <2>1. members \ {p} = {} => members = {p}
    BY <1>1
  <2>2. Cardinality({p}) = 1
    BY FS_Singleton
  <2> QED
    BY <2>1, <2>2
<1> HIDE DEF disbands
<1>4. /\ choice' \in [Item -> [Player -> RollVote \cup {"no window"}]]
      /\ \A i \in Item, q \in Player :
             choice'[i][q] = IF q = p THEN "no window" ELSE choice[i][q]
  <2>1. {} \in SUBSET RollVote /\ CloseWindows(p, {})
    BY <1>1
  <2>2. /\ choice' \in [Item -> [Player -> RollVote \cup {"no window"}]]
        /\ \A i \in Item, q \in Player :
              choice'[i][q] = IF q = p /\ choice[i][q] \notin {} THEN "no window"
                              ELSE choice[i][q]
    BY <2>1, WindowsClosed, Zenon
  <2> QED
    BY <2>2
<1>5. Unseen'
  BY <1>1, UnseenStays
<1>6. \A i \in DOMAIN rolls : /\ Exact(Without(rolls[i], p))
                              /\ DOMAIN Without(rolls[i], p).vote = DOMAIN rolls[i].vote \ {p}
                              /\ \A q \in DOMAIN rolls[i].vote \ {p} :
                                     Without(rolls[i], p).vote[q] = rolls[i].vote[q]
  BY <1>2, WithoutExact
<1>7. CASE disbands
  <2>1. members' = {} /\ DOMAIN rolls' = {}
    BY <1>1, <1>7 DEF NoRolls
  <2>2. RollsAreOpen' /\ WindowsMatch' /\ Disbanded' /\ LootIsCounted'
    BY <1>1, <1>2, <2>1 DEF RollsAreOpen, WindowsMatch, Match, Disbanded, LootIsCounted
  <2> QED
    BY <1>1, <1>2, <1>4, <1>5, <2>1, <2>2, InvHolds
<1>8. CASE ~disbands
  <2>1. /\ members' = members \ {p} /\ members' # {} /\ DOMAIN rolls' = DOMAIN rolls
        /\ \A i \in DOMAIN rolls : rolls'[i] = Without(rolls[i], p)
    BY <1>1, <1>3, <1>8
  <2>2. RollsAreOpen' /\ Disbanded' /\ LootIsCounted'
    BY <1>1, <1>2, <2>1 DEF RollsAreOpen, Disbanded, LootIsCounted
  <2>3. WindowsMatch'
    <3> SUFFICES ASSUME NEW i \in DOMAIN rolls, NEW q \in Player
                 PROVE  IF q \in DOMAIN rolls'[i].vote
                        THEN IF rolls'[i].vote[q] \in Votes
                             THEN choice'[i][q] = rolls'[i].vote[q]
                             ELSE choice'[i][q] \in {"NOT_EMITED_YET", "no window"}
                        ELSE choice'[i][q] = "no window"
      BY <2>1 DEF WindowsMatch, Match
    <3>1. choice'[i][q] = IF q = p THEN "no window" ELSE choice[i][q]
      BY <1>2, <1>4
    <3>2. /\ DOMAIN rolls'[i].vote = DOMAIN rolls[i].vote \ {p}
          /\ \A u \in DOMAIN rolls[i].vote \ {p} : rolls'[i].vote[u] = rolls[i].vote[u]
      BY <1>6, <2>1
    <3>3. CASE q = p
      BY <3>1, <3>2, <3>3
    <3>4. CASE q # p
      BY <1>2, <3>1, <3>2, <3>4 DEF WindowsMatch, Match
    <3> QED
      BY <3>3, <3>4
  <2>4. \A i \in DOMAIN rolls' : Exact(rolls'[i]) /\ DOMAIN rolls'[i].vote \subseteq members'
    BY <1>2, <1>6, <2>1
  <2> QED
    BY <1>1, <1>2, <1>4, <1>5, <2>1, <2>2, <2>3, <2>4, InvHolds
<1> QED
  BY <1>7, <1>8

LEMMA LogoutPlayerInv ==
    ASSUME IInv, NEW p \in Player, LogoutPlayer(p)
    PROVE  IInv'
<1>1. online' \in SUBSET Player /\ UNCHANGED lootVars
  BY InvFacts DEF LogoutPlayer
<1>2. CASE RemoveMember(p)
  BY <1>1, <1>2, RemoveMemberInv
<1>3. CASE CloseWindows(p, Votes) /\ UNCHANGED <<members, rolls>>
  <2>1. UNCHANGED <<corpse, timer, looted, blocked, unlootedCount, owner>>
    BY <1>1 DEF lootVars
  <2>2. Votes \in SUBSET RollVote
    BY DEF RollVote
  <2>3. /\ choice' \in [Item -> [Player -> RollVote \cup {"no window"}]]
        /\ \A i \in Item, q \in Player :
               choice'[i][q] = IF q = p /\ choice[i][q] \notin Votes THEN "no window"
                               ELSE choice[i][q]
    BY <1>3, <2>2, WindowsClosed
  <2>4. Unseen'
    BY <1>3, <2>1, <2>2, UnseenStays
  <2>5. /\ LootIsCounted /\ RollsAreOpen /\ WindowsMatch /\ Disbanded
        /\ members \subseteq Player
        /\ corpse \in [Corpse -> {"closed", "open", "gone"}] /\ timer \subseteq Corpse
        /\ looted \subseteq Item /\ blocked \subseteq Item
        /\ unlootedCount \in [Corpse -> Int] /\ owner \in [Item -> Player \cup {Nobody}]
        /\ DOMAIN rolls \subseteq Item
        /\ \A j \in DOMAIN rolls : Exact(rolls[j]) /\ DOMAIN rolls[j].vote \subseteq members
    BY InvFacts
  <2>6. RollsAreOpen' /\ LootIsCounted' /\ Disbanded'
    BY <1>3, <2>1, <2>5 DEF RollsAreOpen, LootIsCounted, Disbanded
  <2>7. WindowsMatch'
    <3> SUFFICES ASSUME NEW i \in DOMAIN rolls, NEW q \in Player
                 PROVE  IF q \in DOMAIN rolls[i].vote
                        THEN IF rolls[i].vote[q] \in Votes THEN choice'[i][q] = rolls[i].vote[q]
                             ELSE choice'[i][q] \in {"NOT_EMITED_YET", "no window"}
                        ELSE choice'[i][q] = "no window"
      BY <1>3 DEF WindowsMatch, Match
    <3>1. choice'[i][q] = IF q = p /\ choice[i][q] \notin Votes THEN "no window"
                          ELSE choice[i][q]
      BY <2>3, <2>5
    <3> QED
      BY <2>5, <3>1 DEF WindowsMatch, Match
  <2> QED
    BY <1>1, <1>3, <2>1, <2>3, <2>4, <2>5, <2>6, <2>7, InvHolds
<1> QED
  BY <1>2, <1>3 DEF LogoutPlayer

LEMMA GroupStepInv ==
    ASSUME IInv, NEW p \in Player, Login(p) \/ AddMember(p)
    PROVE  IInv'
<1>1. /\ LootIsCounted /\ RollsAreOpen /\ WindowsMatch /\ Unseen /\ Disbanded
      /\ members \subseteq Player /\ online \subseteq Player
      /\ corpse \in [Corpse -> {"closed", "open", "gone"}] /\ timer \subseteq Corpse
      /\ looted \subseteq Item /\ blocked \subseteq Item
      /\ unlootedCount \in [Corpse -> Int] /\ owner \in [Item -> Player \cup {Nobody}]
      /\ choice \in [Item -> [Player -> RollVote \cup {"no window"}]]
      /\ DOMAIN rolls \subseteq Item
      /\ \A j \in DOMAIN rolls : Exact(rolls[j]) /\ DOMAIN rolls[j].vote \subseteq members
  BY InvFacts
<1>2. /\ UNCHANGED <<corpse, timer, looted, blocked, unlootedCount, owner, rolls, choice>>
      /\ members' \in SUBSET Player /\ online' \in SUBSET Player
      /\ members \subseteq members' /\ (members = {} => members' = {})
  <2>1. CASE Login(p)
    BY <1>1, <2>1 DEF Login, lootVars
  <2>2. CASE AddMember(p)
    BY <1>1, <2>2 DEF AddMember, lootVars, Linked
  <2> QED
    BY <2>1, <2>2
<1>3. RollsAreOpen' /\ LootIsCounted'
  BY <1>1, <1>2 DEF RollsAreOpen, LootIsCounted
<1>4. WindowsMatch'
  BY <1>1, <1>2 DEF WindowsMatch, Match
<1>5. Unseen' /\ Disbanded'
  BY <1>1, <1>2 DEF Unseen, Disbanded
<1>6. \A i \in DOMAIN rolls' : Exact(rolls'[i]) /\ DOMAIN rolls'[i].vote \subseteq members'
  BY <1>1, <1>2
<1> QED
  BY <1>1, <1>2, <1>3, <1>4, <1>5, <1>6, InvHolds

LEMMA StepInv == IInv /\ [Next]_vars => IInv'
<1> SUFFICES ASSUME IInv, [Next]_vars PROVE IInv'
  OBVIOUS
<1>1. ASSUME NEW p \in Player, Leave(p) PROVE IInv'
  <2>1. RemoveMember(p) /\ UNCHANGED lootVars /\ online' \in SUBSET Player
    BY <1>1, InvFacts DEF Leave
  <2> QED
    BY <2>1, RemoveMemberInv
<1>2. ASSUME NEW p \in Player, LogoutPlayer(p) PROVE IInv'
  BY <1>2, LogoutPlayerInv
<1>3. ASSUME NEW p \in Player, Login(p) \/ AddMember(p) PROVE IInv'
  BY <1>3, GroupStepInv
<1>4. ASSUME NEW c \in Corpse, SendLoot(c) PROVE IInv'
  BY <1>4, SendLootInv
<1>5. ASSUME NEW c \in Corpse, GroupLootTimerExpires(c) PROVE IInv'
  BY <1>5, TimerInv
<1>6. ASSUME NEW c \in Corpse, RemoveCorpse(c) PROVE IInv'
  BY <1>6, RemoveCorpseInv
<1>7. ASSUME NEW p \in Player, NEW i \in Item, NEW v \in Votes, CountRollVote(p, i, v)
      PROVE  IInv'
  BY <1>7, CountRollVoteInv
<1>8. ASSUME NEW p \in Player, NEW i \in Item, StoreLootItem(p, i) PROVE IInv'
  BY <1>8, StoreLootItemInv
<1>9. CASE UNCHANGED vars
  <2>1. UNCHANGED <<members, online, corpse, timer, looted, blocked, unlootedCount, owner,
                    rolls, choice>>
    BY <1>9 DEF vars, groupVars, lootVars
  <2>2. TypeOK' /\ TotalsExact' /\ RollsAreOpen'
    BY <2>1, InvFacts DEF TypeOK, TotalsExact, RollsAreOpen
  <2>3. LootIsCounted' /\ WindowsMatch' /\ Unseen' /\ Disbanded'
    BY <2>1, InvFacts DEF LootIsCounted, WindowsMatch, Unseen, Disbanded
  <2> QED
    BY <2>2, <2>3 DEF IInv, RollsSound
<1> QED
  BY <1>1, <1>2, <1>3, <1>4, <1>5, <1>6, <1>7, <1>8, <1>9 DEF Next, GroupNext, LootNext

\* The votes, the windows of the clients, the corpse and the loot agree: what
\* CountRollVote, EndRoll and RemoveMember rely on.
THEOREM Invariant == Spec => []IInv
<1>1. Init => IInv
  BY InitInv
<1>2. IInv /\ [Next]_vars => IInv'
  BY StepInv
<1> QED
  BY <1>1, <1>2, PTL DEF Spec

\* The totals of every roll are those of its votes, however many members leave
\* (Group::RemoveMember) or vote, and what is rolled for is still on its corpse.
THEOREM RollsAreSound == Spec => []RollsSound
<1>1. IInv => RollsSound
  BY DEF IInv
<1> QED
  BY <1>1, Invariant, PTL

-----------------------------------------------------------------------------
(* What a step may never do.                                                 *)

\* An item that is rolled for keeps its owner until the roll ends.
LEMMA StoreLootItemKeeps ==
    ASSUME IInv, NEW p \in Player, NEW j \in Item, StoreLootItem(p, j)
    PROVE  \A i \in DOMAIN rolls : owner'[i] = owner[i]
<1> SUFFICES ASSUME NEW i \in DOMAIN rolls PROVE owner'[i] = owner[i]
  OBVIOUS
<1>1. i \in Item /\ i \in blocked /\ owner \in [Item -> Player \cup {Nobody}]
  BY InvFacts DEF RollsAreOpen
<1>2. j # i /\ owner' = [owner EXCEPT ![j] = p]
  BY <1>1 DEF StoreLootItem
<1> QED
  BY <1>1, <1>2

\* The item of a roll that ends goes to the right one.
Right(i, w) ==
    /\ w \in members \cap online
    /\ choice'[i][w] \in {"NEED", "GREED", "DISENCHANT"}
    /\ choice'[i][w] # "NEED" => \A p \in members : choice'[i][p] # "NEED"

LEMMA CountIsRight ==
    ASSUME IInv, NEW ended \in SUBSET DOMAIN rolls, NEW votes, DOMAIN votes = DOMAIN rolls,
           CountTheRolls(ended, votes), corpse' = corpse,
           \A i \in DOMAIN rolls : /\ Exact(votes[i]) /\ DOMAIN votes[i].vote \subseteq members
                                   /\ Match(votes[i], choice'[i])
    PROVE  \A i \in DOMAIN rolls : owner'[i] # owner[i] => Right(i, owner'[i])
<1> SUFFICES ASSUME NEW i \in DOMAIN rolls, owner'[i] # owner[i]
             PROVE  Right(i, owner'[i])
  OBVIOUS
<1> DEFINE w == owner'[i]
           r == votes[i]
<1>1. DOMAIN rolls \subseteq Item /\ members \subseteq Player
  BY InvFacts
<1>2. w \in Player /\ w \in Outcomes(r)
  <2>1. \A j \in Item : owner'[j] # owner[j] =>
            j \in ended /\ owner'[j] \in Player \cap Outcomes(votes[j])
    BY CountFacts
  <2> QED
    BY <1>1, <2>1
<1>3. Exact(r) /\ DOMAIN r.vote \subseteq members /\ Match(r, choice'[i])
  OBVIOUS
<1> HIDE DEF w, r
<1>4. /\ w \in DOMAIN r.vote /\ w \in online
      /\ r.vote[w] \in {"NEED", "GREED", "DISENCHANT"}
      /\ r.vote[w] # "NEED" => \A p \in DOMAIN r.vote : r.vote[p] # "NEED"
  BY <1>2, <1>3, OutcomeFacts
<1>5. choice'[i][w] = r.vote[w]
  BY <1>2, <1>3, <1>4 DEF Match, Votes
<1>6. ASSUME r.vote[w] # "NEED", NEW p \in members PROVE choice'[i][p] # "NEED"
  <2>1. p \in DOMAIN r.vote => r.vote[p] # "NEED"
    BY <1>4, <1>6
  <2> QED
    BY <1>1, <1>3, <2>1 DEF Match
<1>7. Right(i, w)
  BY <1>3, <1>4, <1>5, <1>6 DEF Right
<1> QED
  BY <1>7 DEF w

\* Who gets an item by a roll is a member, is online, and chose need or, if no
\* member did, greed: CountTheRoll, after whatever happened to the group since
\* the roll was started.
THEOREM TheRightOneWins == Spec => WonByTheRightOne
<1>1. ASSUME IInv, [Next]_vars
      PROVE  \A i \in DOMAIN rolls : owner'[i] # owner[i] => Right(i, owner'[i])
  <2>1. CASE \E p \in Player : Leave(p) \/ LogoutPlayer(p) \/ Login(p) \/ AddMember(p)
    BY <2>1 DEF Leave, LogoutPlayer, Login, AddMember, lootVars
  <2>2. CASE \E c \in Corpse : SendLoot(c) \/ RemoveCorpse(c)
    BY <2>2 DEF SendLoot, RemoveCorpse
  <2>3. ASSUME NEW c \in Corpse, GroupLootTimerExpires(c)
        PROVE  \A i \in DOMAIN rolls : owner'[i] # owner[i] => Right(i, owner'[i])
    <3> DEFINE ended == IF members = {} THEN {} ELSE RollsFor(c)
    <3>1. CountTheRolls(ended, rolls) /\ corpse' = corpse /\ choice' = choice
      BY <2>3, Zenon DEF GroupLootTimerExpires
    <3>2. ended \in SUBSET DOMAIN rolls
      BY DEF RollsFor
    <3> HIDE DEF ended
    <3>3. \A i \in DOMAIN rolls : /\ Exact(rolls[i]) /\ DOMAIN rolls[i].vote \subseteq members
                                  /\ Match(rolls[i], choice'[i])
      BY <1>1, <3>1, InvFacts DEF WindowsMatch
    <3> QED
      BY <1>1, <3>1, <3>2, <3>3, CountIsRight
  <2>4. ASSUME NEW p \in Player, NEW j \in Item, NEW v \in Votes, CountRollVote(p, j, v)
        PROVE  \A i \in DOMAIN rolls : owner'[i] # owner[i] => Right(i, owner'[i])
    <3>1. CASE j \in DOMAIN rolls /\ p \in DOMAIN rolls[j].vote
      <4> DEFINE votes == [rolls EXCEPT ![j] = WithVote(rolls[j], p, v)]
                 ended == IF AllVoted(WithVote(rolls[j], p, v)) THEN {j} ELSE {}
      <4>1. CountTheRolls(ended, votes) /\ corpse' = corpse
        BY <2>4, <3>1, Zenon DEF CountRollVote
      <4>2. ended \in SUBSET DOMAIN rolls
        BY <3>1
      <4>3. /\ DOMAIN votes = DOMAIN rolls
            /\ \A i \in DOMAIN rolls : /\ Exact(votes[i]) /\ DOMAIN votes[i].vote \subseteq members
                                       /\ Match(votes[i], choice'[i])
        BY <1>1, <2>4, <3>1, VoteCounted
      <4> HIDE DEF ended, votes
      <4> QED
        BY <1>1, <4>1, <4>2, <4>3, CountIsRight
    <3>2. CASE ~(j \in DOMAIN rolls /\ p \in DOMAIN rolls[j].vote)
      BY <2>4, <3>2 DEF CountRollVote
    <3> QED
      BY <3>1, <3>2
  <2>5. ASSUME NEW p \in Player, NEW j \in Item, StoreLootItem(p, j)
        PROVE  \A i \in DOMAIN rolls : owner'[i] # owner[i] => Right(i, owner'[i])
    BY <1>1, <2>5, StoreLootItemKeeps
  <2>6. CASE UNCHANGED vars
    BY <2>6 DEF vars, lootVars
  <2> QED
    BY <1>1, <2>1, <2>2, <2>3, <2>4, <2>5, <2>6 DEF Next, GroupNext, LootNext
<1>2. IInv /\ [Next]_vars =>
          [\A i \in DOMAIN rolls :
              LET w == owner'[i]
              IN  w # owner[i] =>
                     /\ w \in members \cap online
                     /\ choice'[i][w] \in {"NEED", "GREED", "DISENCHANT"}
                     /\ choice'[i][w] # "NEED" => \A p \in members : choice'[i][p] # "NEED"]_vars
  BY <1>1 DEF Right
<1> QED
  BY <1>2, Invariant, PTL DEF Spec, WonByTheRightOne

\* Before its time is up a roll ends only when everybody who may vote has done
\* so, or with the group: AllVoted, the totals of CountRollVote.
THEOREM NobodyIsPassedOver == Spec => EverybodyIsAsked
<1> DEFINE Asked ==
        \A i \in DOMAIN rolls \ DOMAIN rolls' :
            (CorpseOf[i] \in timer' /\ members' # {}) =>
                \A p \in DOMAIN rolls[i].vote : choice'[i][p] \in Votes
<1>1. ASSUME IInv, [Next]_vars PROVE Asked
  <2>1. ASSUME NEW p \in Player, RemoveMember(p) PROVE Asked
    <3>1. members' = {} \/ DOMAIN rolls' = DOMAIN rolls
      BY <2>1 DEF RemoveMember
    <3> QED
      BY <3>1
  <2>2. ASSUME NEW p \in Player, Leave(p) \/ LogoutPlayer(p) \/ Login(p) \/ AddMember(p)
        PROVE  Asked
    BY <2>1, <2>2 DEF Leave, LogoutPlayer, Login, AddMember
  <2>3. ASSUME NEW c \in Corpse, SendLoot(c) PROVE Asked
    <3>1. DOMAIN rolls \subseteq DOMAIN rolls'
      BY <2>3 DEF SendLoot
    <3> QED
      BY <3>1
  <2>4. ASSUME NEW c \in Corpse, GroupLootTimerExpires(c) PROVE Asked
    <3> DEFINE ended == IF members = {} THEN {} ELSE RollsFor(c)
    <3>1. CountTheRolls(ended, rolls) /\ corpse' = corpse /\ timer' = timer \ {c}
      BY <2>4, Zenon DEF GroupLootTimerExpires
    <3>2. ended \in SUBSET DOMAIN rolls /\ \A i \in ended : CorpseOf[i] = c
      BY DEF RollsFor, ItemsOf
    <3> HIDE DEF ended
    <3>3. DOMAIN rolls' = DOMAIN rolls \ ended
      BY <1>1, <3>1, <3>2, CountFacts
    <3> QED
      BY <3>1, <3>2, <3>3
  <2>5. ASSUME NEW c \in Corpse, RemoveCorpse(c) PROVE Asked
    <3> SUFFICES ASSUME NEW i \in DOMAIN rolls \ DOMAIN rolls', CorpseOf[i] \in timer'
                 PROVE  FALSE
      OBVIOUS
    <3>1. timer' = timer /\ DOMAIN rolls' = DOMAIN rolls \ ItemsOf(c)
      BY <2>5 DEF RemoveCorpse, Restrict
    <3>2. i \in ItemsOf(c) /\ CorpseOf[i] = c
      BY <3>1 DEF ItemsOf
    <3>3. unlootedCount[c] = 0
      BY <2>5, <3>1, <3>2 DEF RemoveCorpse
    <3>4. i \in ItemsOf(c) \ looted /\ unlootedCount[c] = Cardinality(ItemsOf(c) \ looted)
      BY <1>1, <2>5, <3>2, InvFacts DEF RollsAreOpen, LootIsCounted, RemoveCorpse
    <3>5. IsFiniteSet(ItemsOf(c) \ looted)
      <4>1. ItemsOf(c) \ looted \subseteq Item
        BY DEF ItemsOf
      <4> QED
        BY <4>1, FiniteAssumption, FS_Subset
    <3>6. Cardinality(ItemsOf(c) \ looted) # 0
      BY <3>4, <3>5, FS_EmptySet
    <3> QED
      BY <3>3, <3>4, <3>6
  <2>6. ASSUME NEW p \in Player, NEW j \in Item, NEW v \in Votes, CountRollVote(p, j, v)
        PROVE  Asked
    <3>1. CASE j \in DOMAIN rolls /\ p \in DOMAIN rolls[j].vote
      <4> DEFINE r == WithVote(rolls[j], p, v)
                 votes == [rolls EXCEPT ![j] = r]
                 ended == IF AllVoted(r) THEN {j} ELSE {}
      <4>1. CountTheRolls(ended, votes) /\ corpse' = corpse
        BY <2>6, <3>1, Zenon DEF CountRollVote
      <4>2. /\ ended \in SUBSET DOMAIN rolls
            /\ \A i \in ended : i = j /\ AllVoted(r)
        BY <3>1
      <4>3. /\ DOMAIN votes = DOMAIN rolls /\ votes[j] = r
            /\ Exact(votes[j]) /\ Match(votes[j], choice'[j])
            /\ DOMAIN votes[j].vote \subseteq members
        BY <1>1, <2>6, <3>1, VoteCounted
      <4>4. DOMAIN r.vote = DOMAIN rolls[j].vote
        BY DEF WithVote, Tally
      <4> HIDE DEF ended, votes, r
      <4>5. DOMAIN rolls' = DOMAIN rolls \ ended
        BY <1>1, <4>1, <4>2, <4>3, CountFacts
      <4>6. ASSUME AllVoted(r), NEW q \in DOMAIN rolls[j].vote PROVE choice'[j][q] \in Votes
        <5>1. r.vote[q] \in Votes /\ q \in DOMAIN r.vote
          BY <4>3, <4>4, <4>6, AllVotedFacts
        <5>2. q \in Player
          BY <1>1, <4>3, <5>1, InvFacts
        <5> QED
          BY <4>3, <5>1, <5>2 DEF Match
      <4> QED
        BY <4>2, <4>5, <4>6
    <3>2. CASE ~(j \in DOMAIN rolls /\ p \in DOMAIN rolls[j].vote)
      BY <2>6, <3>2 DEF CountRollVote
    <3> QED
      BY <3>1, <3>2
  <2>7. ASSUME NEW p \in Player, NEW j \in Item, StoreLootItem(p, j) PROVE Asked
    BY <2>7 DEF StoreLootItem
  <2>8. CASE UNCHANGED vars
    BY <2>8 DEF vars
  <2> QED
    BY <1>1, <2>2, <2>3, <2>4, <2>5, <2>6, <2>7, <2>8 DEF Next, GroupNext, LootNext
<1>2. IInv /\ [Next]_vars => [Asked]_vars
  BY <1>1
<1> QED
  BY <1>2, Invariant, PTL DEF Spec, EverybodyIsAsked
=============================================================================

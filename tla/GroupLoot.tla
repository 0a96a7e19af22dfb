------------------------------ MODULE GroupLoot ------------------------------
(***************************************************************************)
(* How a group rolls for the items of a corpse                             *)
(* (src/src/server/game/Groups/Group.cpp, Handlers/LootHandler.cpp,        *)
(* Handlers/GroupHandler.cpp and the corpse in Creature::Update).          *)
(*                                                                         *)
(* The loot of a corpse says which items are blocked and looted; the group *)
(* keeps the rolls (RollId) in a list of its own, with the votes and their *)
(* totals; the corpse has the timer that ends them.  Members vote, leave,  *)
(* are kicked, lose their connection and come back in the meantime.  All   *)
(* packets are handled one at a time by the world thread, and corpses are  *)
(* updated while it waits.                                                 *)
(*                                                                         *)
(* One group, with group loot or need before greed; only items above its   *)
(* threshold are modelled.  The dice, the distances and the room in the    *)
(* inventories are left to chance.  A client answers a roll once, in the   *)
(* window it was shown.                                                    *)
(***************************************************************************)
EXTENDS Integers, FiniteSets, Functions

CONSTANTS
    Player,         \* characters
    Corpse,
    Item,           \* what lies on the corpses
    CorpseOf,       \* [Item -> Corpse]
    Nobody          \* no character

ASSUME NobodyAssumption == {Nobody, "free", "blocked"} \cap Player = {}
ASSUME FiniteAssumption == IsFiniteSet(Player) /\ IsFiniteSet(Item)
ASSUME CorpseAssumption == CorpseOf \in [Item -> Corpse]

VARIABLES
    members,        \* m_memberSlots; {} once the group is disbanded
    online,         \* characters ObjectAccessor::FindPlayer finds
    corpse,         \* [Corpse -> "closed" (nobody opened it), "open", "gone"]
    timer,          \* corpses with _groupLootTimer and lootingGroupLowGUID
    looted,         \* items with is_looted
    blocked,        \* items with is_blocked
    unlootedCount,  \* [Corpse -> Int]
    rolls,          \* RollId: [items rolled for -> Roll]
    owner,          \* [Item -> who got it, or what it was disenchanted into]
    choice          \* [Item -> [Player -> what the client chose in its window]]

groupVars == <<members, online>>
lootVars == <<corpse, timer, looted, blocked, unlootedCount, owner>>
vars == <<groupVars, lootVars, rolls, choice>>

Votes == {"PASS", "NEED", "GREED", "DISENCHANT"}
RollVote == Votes \cup {"NOT_EMITED_YET"}

\* playerVote, totalPlayersRolling, totalPass, totalNeed and totalGreed.
Roll == [vote : UNION {[S -> RollVote] : S \in SUBSET Player},
         rolling : Int, pass : Int, need : Int, greed : Int]

ItemsOf(c) == {i \in Item : CorpseOf[i] = c}
Linked == members \cap online     \* m_memberMgr
NoRolls == [i \in {} |-> {}]

TypeOK ==
    /\ members \subseteq Player /\ online \subseteq Player
    /\ corpse \in [Corpse -> {"closed", "open", "gone"}]
    /\ timer \subseteq Corpse
    /\ looted \subseteq Item /\ blocked \subseteq Item
    /\ unlootedCount \in [Corpse -> Int]
    /\ DOMAIN rolls \subseteq Item /\ \A i \in DOMAIN rolls : rolls[i] \in Roll
    /\ owner \in [Item -> Player \cup {Nobody}]
    /\ choice \in [Item -> [Player -> RollVote \cup {"no window"}]]

Init ==
    /\ members \in {S \in SUBSET Player : Cardinality(S) >= 2}
    /\ online = Player
    /\ corpse = [c \in Corpse |-> "closed"]
    /\ timer = {} /\ looted = {} /\ blocked = {}
    /\ unlootedCount = [c \in Corpse |-> Cardinality(ItemsOf(c))]
    /\ rolls = NoRolls
    /\ owner = [i \in Item |-> Nobody]
    /\ choice = [i \in Item |-> [p \in Player |-> "no window"]]

-----------------------------------------------------------------------------
(* Rolls. *)

OneIn(v, kinds) == IF v \in kinds THEN 1 ELSE 0

\* The roll with these votes and players, when its totals have got n more
\* votes v.
Tally(r, vote, rolling, v, n) ==
    [vote |-> vote, rolling |-> rolling,
     pass |-> r.pass + n * OneIn(v, {"PASS"}),
     need |-> r.need + n * OneIn(v, {"NEED"}),
     greed |-> r.greed + n * OneIn(v, {"GREED", "DISENCHANT"})]

\* A new roll: those who opted out of loot have passed.
NewRoll(eligible, passing) ==
    [vote |-> [p \in eligible |-> IF p \in passing THEN "PASS" ELSE "NOT_EMITED_YET"],
     rolling |-> Cardinality(eligible), pass |-> Cardinality(eligible \cap passing),
     need |-> 0, greed |-> 0]

\* The vote of p.
WithVote(r, p, v) == Tally(r, [r.vote EXCEPT ![p] = v], r.rolling, v, 1)

\* Mutant: a vote that was cast goes on counting.
WithoutVoter(r, p) ==
    [r EXCEPT !.rolling = @ - 1, !.vote = Restrict(@, DOMAIN @ \ {p})]

\* What RemoveMember leaves of a roll.
Without(r, p) ==
    IF p \notin DOMAIN r.vote THEN r
    ELSE Tally(r, Restrict(r.vote, DOMAIN r.vote \ {p}), r.rolling - 1, r.vote[p], -1)

\* Mutant: members that are offline are not waited for.
AllOnlineVoted(r) ==
    r.pass + r.need + r.greed >= Cardinality(DOMAIN r.vote \cap online)

AllVoted(r) == r.pass + r.need + r.greed >= r.rolling

Voters(r, kinds) == {p \in DOMAIN r.vote : r.vote[p] \in kinds}

\* Mutant: greed is as good as need.
AnyRoller(r) == Voters(r, {"NEED", "GREED", "DISENCHANT"})

\* Whom the dice may favour: by the totals the roll is one of need or of greed,
\* and the first of the list wins if nobody rolled.
Winners(r) ==
    LET rolled == Voters(r, IF r.need > 0 THEN {"NEED"} ELSE {"GREED", "DISENCHANT"})
    IN  IF rolled = {} THEN DOMAIN r.vote ELSE rolled

\* How CountTheRoll may leave an item: with the winner, free for everybody if
\* nobody wants it or the winner has no room, or as it is if the winner is not
\* online.
Outcomes(r) ==
    IF r.need = 0 /\ r.greed = 0 THEN {"free"}
    ELSE UNION {IF w \notin online \/ (r.need = 0 /\ r.vote[w] \notin {"GREED", "DISENCHANT"})
                THEN {"blocked"}
                ELSE IF r.need = 0 /\ r.vote[w] = "DISENCHANT" THEN {w} ELSE {w, "free"}
                    : w \in Winners(r)}

\* CountTheRoll for the rolls of some items.
CountTheRolls(ended, votes) ==
    \E result \in [ended -> Player \cup {"free", "blocked"}] :
        LET won == {i \in ended : result[i] \in Player}
        IN  /\ \A i \in ended : result[i] \in Outcomes(votes[i])
            /\ looted' = looted \cup won
            /\ blocked' = blocked \ {i \in ended : result[i] = "free"}
            /\ owner' = [i \in Item |-> IF i \in won THEN result[i] ELSE owner[i]]
            /\ unlootedCount' =
                   [c \in Corpse |-> unlootedCount[c] - Cardinality(won \cap ItemsOf(c))]
            /\ rolls' = Restrict(votes, DOMAIN votes \ ended)

-----------------------------------------------------------------------------
(* Looting. *)

\* The first SendLoot of a corpse: GroupLoot or NeedBeforeGreed starts a roll
\* for every item some members near it may have, unless the group is gone.
SendLoot(c) ==
    /\ corpse[c] = "closed"
    /\ corpse' = [corpse EXCEPT ![c] = "open"]
    /\ \E eligible \in [ItemsOf(c) -> SUBSET Linked], passing \in SUBSET Linked :
        LET rolled == {i \in ItemsOf(c) : eligible[i] # {}}
        IN  /\ rolls' = [i \in DOMAIN rolls \cup rolled |->
                            IF i \in rolled THEN NewRoll(eligible[i], passing) ELSE rolls[i]]
            /\ choice' = [i \in Item |->
                             [p \in Player |-> IF i \in rolled /\ p \in eligible[i]
                                               THEN NewRoll(eligible[i], passing).vote[p]
                                               ELSE choice[i][p]]]
            /\ blocked' = blocked \cup rolled
            /\ timer' = IF rolled = {} THEN timer ELSE timer \cup {c}
    /\ UNCHANGED <<groupVars, looted, unlootedCount, owner>>

\* HandleLootRoll and CountRollVote, for a client whose window is open; there
\* may be no roll any more, or p may have left and joined the group since.
CountRollVote(p, i, v) ==
    LET counts == i \in DOMAIN rolls /\ p \in DOMAIN rolls[i].vote
        r == WithVote(rolls[i], p, v)
    IN  /\ p \in Linked
        /\ choice[i][p] = "NOT_EMITED_YET"
        /\ choice' = [choice EXCEPT ![i][p] = v]
        /\ IF counts
           THEN CountTheRolls(IF AllVoted(r) THEN {i} ELSE {}, [rolls EXCEPT ![i] = r])
           ELSE UNCHANGED <<looted, blocked, owner, unlootedCount, rolls>>
        /\ UNCHANGED <<groupVars, corpse, timer>>

\* Mutant: rolls nobody voted in are passed over.
RollsVotedIn(c) ==
    {i \in DOMAIN rolls \cap ItemsOf(c) : Voters(rolls[i], Votes) # {}}

\* The rolls for the loot of a corpse, which EndRoll looks for.
RollsFor(c) == DOMAIN rolls \cap ItemsOf(c)

\* The timer in Creature::Update and EndRoll; a group that is disbanded is not
\* found.
GroupLootTimerExpires(c) ==
    /\ c \in timer
    /\ timer' = timer \ {c}
    /\ CountTheRolls(IF members = {} THEN {} ELSE RollsFor(c), rolls)
    /\ UNCHANGED <<groupVars, corpse, choice>>

\* Player::StoreLootItem, for an item that is shown as free.
StoreLootItem(p, i) ==
    /\ p \in online
    /\ corpse[CorpseOf[i]] = "open"
    /\ i \notin looted \cup blocked
    /\ looted' = looted \cup {i}
    /\ owner' = [owner EXCEPT ![i] = p]
    /\ unlootedCount' = [unlootedCount EXCEPT ![CorpseOf[i]] = @ - 1]
    /\ UNCHANGED <<groupVars, corpse, timer, blocked, rolls, choice>>

\* RemoveCorpse once the corpse has decayed, which it does not while the timer
\* runs; or DoLootRelease when all is looted.  Rolls for it are not found any
\* more.
RemoveCorpse(c) ==
    /\ corpse[c] # "gone"
    /\ c \notin timer \/ unlootedCount[c] = 0
    /\ corpse' = [corpse EXCEPT ![c] = "gone"]
    /\ rolls' = Restrict(rolls, DOMAIN rolls \ ItemsOf(c))
    /\ unlootedCount' = [unlootedCount EXCEPT ![c] = 0]
    /\ UNCHANGED <<groupVars, timer, looted, blocked, owner, choice>>

-----------------------------------------------------------------------------
(* The group. *)

\* The windows of p's client are closed; what it chose is forgotten too if it
\* does not belong to the group any more.
CloseWindows(p, kept) ==
    choice' = [i \in Item |-> [choice[i] EXCEPT ![p] = IF @ \in kept THEN @ ELSE "no window"]]

\* Group::RemoveMember; the roll is not counted then, for the vote that
\* CountRollVote looks for has just been erased.  The group is disbanded, with
\* its rolls, if there are no two members left, or left online.
RemoveMember(p) ==
    LET disbands == Cardinality(members) <= 2 \/ Cardinality(Linked \ {p}) < 2
    IN  /\ p \in members
        /\ members' = IF disbands THEN {} ELSE members \ {p}
        /\ rolls' = IF disbands THEN NoRolls ELSE [i \in DOMAIN rolls |-> Without(rolls[i], p)]
        /\ CloseWindows(p, {})

\* A member leaves, or is kicked by another one.
Leave(p) ==
    /\ Linked \ {p} # {} \/ p \in online
    /\ RemoveMember(p)
    /\ UNCHANGED <<online, lootVars>>

\* WorldSession::LogoutPlayer: who logs out leaves the group, who loses the
\* connection or is in a raid stays in it.
LogoutPlayer(p) ==
    /\ p \in online
    /\ online' = online \ {p}
    /\ \/ RemoveMember(p)
       \/ CloseWindows(p, Votes) /\ UNCHANGED <<members, rolls>>
    /\ UNCHANGED lootVars

Login(p) ==
    /\ p \notin online
    /\ online' = online \cup {p}
    /\ UNCHANGED <<members, lootVars, rolls, choice>>

AddMember(p) ==
    /\ p \in online \ members
    /\ Linked # {}
    /\ members' = members \cup {p}
    /\ UNCHANGED <<online, lootVars, rolls, choice>>

-----------------------------------------------------------------------------
(* The specification. *)

GroupNext == \E p \in Player : Leave(p) \/ LogoutPlayer(p) \/ Login(p) \/ AddMember(p)

LootNext ==
    \/ \E c \in Corpse : SendLoot(c) \/ GroupLootTimerExpires(c) \/ RemoveCorpse(c)
    \/ \E p \in Player, i \in Item :
          \/ \E v \in Votes : CountRollVote(p, i, v)
          \/ StoreLootItem(p, i)

Next == GroupNext \/ LootNext

\* Corpses are updated as long as they lie there.
Fairness == \A c \in Corpse : WF_vars(GroupLootTimerExpires(c))

Spec == Init /\ [][Next]_vars /\ Fairness

-----------------------------------------------------------------------------
(* Properties. *)

\* The totals are those of the votes, of members of the group only.
TotalsExact ==
    \A i \in DOMAIN rolls :
        LET r == rolls[i]
        IN  /\ DOMAIN r.vote \subseteq members
            /\ r.rolling = Cardinality(DOMAIN r.vote)
            /\ r.pass = Cardinality(Voters(r, {"PASS"}))
            /\ r.need = Cardinality(Voters(r, {"NEED"}))
            /\ r.greed = Cardinality(Voters(r, {"GREED", "DISENCHANT"}))

\* What is rolled for is blocked, is still there and has a timer.
RollsAreOpen ==
    \A i \in DOMAIN rolls :
        /\ corpse[CorpseOf[i]] = "open" /\ CorpseOf[i] \in timer
        /\ i \in blocked \ looted

\* unlootedCount counts what is left.
LootIsCounted ==
    \A c \in Corpse : corpse[c] # "gone" =>
        unlootedCount[c] = Cardinality(ItemsOf(c) \ looted)

\* The votes, the totals, the corpse and the loot agree about every roll.
RollsSound == TypeOK /\ TotalsExact /\ RollsAreOpen /\ LootIsCounted

\* Who gets an item by a roll is a member of the group and chose need, or else
\* greed when no member that may still win it chose need: whoever voted and
\* left, was kicked or lost the connection in between.
WonByTheRightOne ==
    [][\A i \in DOMAIN rolls :
          LET w == owner'[i]
          IN  w # owner[i] =>
                 /\ w \in members \cap online
                 /\ choice'[i][w] \in {"NEED", "GREED", "DISENCHANT"}
                 /\ choice'[i][w] # "NEED" => \A p \in members : choice'[i][p] # "NEED"]_vars

\* Before its time is up a roll ends only when everybody who may vote has done
\* so, however many have left in the meantime, or with the group.
EverybodyIsAsked ==
    [][\A i \in DOMAIN rolls \ DOMAIN rolls' :
          (CorpseOf[i] \in timer' /\ members' # {}) =>
              \A p \in DOMAIN rolls[i].vote : choice'[i][p] \in Votes]_vars

\* Every roll ends, also if those who have not voted are offline or have left.
RollEnds == \A i \in Item : i \in DOMAIN rolls ~> i \notin DOMAIN rolls

=============================================================================

-------------------------------- MODULE Trade --------------------------------
(***************************************************************************)
(* Trading between players (src/src/server/game/Handlers/TradeHandler.cpp  *)
(* and class TradeData, src/src/server/game/Entities/Player).              *)
(*                                                                         *)
(* Two players who trade own one TradeData each, which names items by GUID *)
(* and is looked up in the inventory of its owner every time it is used.   *)
(* All trade packets are thread-unsafe: the world thread handles them one  *)
(* at a time, in any order, and between any two of them players may spend  *)
(* money, lose items, log out, or the server may crash.                    *)
(*                                                                         *)
(* The constructor of TradeData leaves _items uninitialised: a new object  *)
(* holds what the memory it is given held before.                          *)
(***************************************************************************)
EXTENDS Naturals, FiniteSets, FiniteSetsExt

CONSTANTS
    Player,         \* characters
    Item,           \* item objects; stacks are not merged
    Slot,           \* the slots of the trade window
    NonTraded,      \* TRADE_SLOT_NONTRADED, one of them
    Eligible,       \* [Item -> SUBSET Player]: allowedGUIDs of a looted item
                    \* that binds, all players for others
    Purse,          \* the money of each player at the beginning
    MaxMoney,       \* MAX_MONEY_AMOUNT
    Capacity,       \* items an inventory holds
    NoItem,         \* an empty slot
    NoTrade         \* _trade is NULL

ASSUME PlayerAssumption == IsFiniteSet(Player)
ASSUME ItemAssumption == IsFiniteSet(Item) /\ NoItem \notin Item
ASSUME SlotAssumption == NonTraded \in Slot
ASSUME CapacityAssumption == Capacity \in Nat
ASSUME EligibleAssumption == Eligible \in [Item -> SUBSET Player]
ASSUME MoneyAssumption == MaxMoney \in Nat /\ Purse \in 0..MaxMoney

VARIABLES
    online,         \* players in the world
    inv,            \* [Player -> SUBSET Item]: the inventories
    money,          \* [Player -> 0..MaxMoney]
    bound,          \* items that became soulbound and cannot be traded
    trade,          \* [Player -> TradeData or NoTrade]: _trade
    memory,         \* bound: the item slots of the two TradeData objects that
                    \* were deleted last, while no other trade has begun
    saved           \* [Player -> [inv, money]]: the rows of the database

vars == <<online, inv, money, bound, trade, memory, saved>>

Slots == [Slot -> Item \cup {NoItem}]
EmptySlots == [s \in Slot |-> NoItem]

TradeData ==
    [trader : Player, accepted : BOOLEAN, gold : 0..MaxMoney, spell : BOOLEAN, items : Slots]

ASSUME NoTradeAssumption == NoTrade \notin TradeData

TypeOK ==
    /\ online \subseteq Player
    /\ inv \in [Player -> SUBSET Item]
    /\ money \in [Player -> 0..MaxMoney]
    /\ bound \subseteq Item
    /\ trade \in [Player -> TradeData \cup {NoTrade}]
    /\ memory \subseteq Slots
    /\ saved \in [Player -> [inv : SUBSET Item, money : 0..MaxMoney]]

\* Inventories that share no item and are not too full.
Inventories ==
    {f \in [Player -> SUBSET Item] :
        \A p, q \in Player : /\ Cardinality(f[p]) <= Capacity
                             /\ p # q => f[p] \cap f[q] = {}}

Init ==
    /\ online = Player
    /\ inv \in Inventories
    /\ money = [p \in Player |-> Purse]
    /\ bound = {}
    /\ trade = [p \in Player |-> NoTrade]
    /\ memory = {}
    /\ saved = [p \in Player |-> [inv |-> inv[p], money |-> Purse]]

-----------------------------------------------------------------------------
(* TradeData. *)

Trading(p) == trade[p] # NoTrade
Trader(p) == trade[p].trader

\* GetItem: the item of a slot, if its owner still has it.
GetItem(p, s) == IF trade[p].items[s] \in inv[p] THEN trade[p].items[s] ELSE NoItem

\* What setAcceptTradeMode collects: the items to change hands.
Offer(p) == {GetItem(p, s) : s \in Slot \ {NonTraded}} \ {NoItem}

\* Mutant: the partner stays accepted.
ResetOwnAccept(p, new) == [trade EXCEPT ![p] = [new EXCEPT !.accepted = FALSE]]

\* The trades after p changed its TradeData to new: SetItem, SetMoney and
\* SetSpell take back both acceptances.
Changed(p, new) ==
    [trade EXCEPT ![p] = [new EXCEPT !.accepted = FALSE],
                  ![Trader(p)].accepted = FALSE]

\* Mutant: one trader is forgotten.
CloseOwnTrade(t, p) == [t EXCEPT ![p] = NoTrade]

\* Both TradeData objects deleted, both pointers cleared.
CloseTrade(t, p) == [t EXCEPT ![p] = NoTrade, ![t[p].trader] = NoTrade]

Freed(p) == {trade[p].items, trade[Trader(p)].items} \ {EmptySlots}

-----------------------------------------------------------------------------
(* The handlers that set up and change a trade. *)

\* Both are in the world and none of them trades; distance, faction, level and
\* the other conditions may hold or not.
MayMeet(p, q) == {p, q} \subseteq online /\ p # q /\ ~Trading(p) /\ ~Trading(q)

NewTradeData(trader, items) ==
    [trader |-> trader, accepted |-> FALSE, gold |-> 0, spell |-> FALSE, items |-> items]

InitiateTrade(p, q) ==
    /\ MayMeet(p, q)
    /\ \E mine \in memory \cup {EmptySlots} :
       \E his \in (memory \ {mine}) \cup {EmptySlots} :
          trade' = [trade EXCEPT ![p] = NewTradeData(q, mine), ![q] = NewTradeData(p, his)]
    /\ memory' = {}
    /\ UNCHANGED <<online, inv, money, bound, saved>>

\* The amount is not compared with the money of the player.
SetTradeGold(p, amount) ==
    /\ Trading(p)
    /\ trade[p].gold # amount
    /\ trade' = Changed(p, [trade[p] EXCEPT !.gold = amount])
    /\ UNCHANGED <<online, inv, money, bound, memory, saved>>

\* TradeData::SetItem: a changed slot also takes back the spells it concerns.
SetItem(p, s, i) ==
    LET t == Changed(p, [trade[p] EXCEPT !.items[s] = i, !.spell = FALSE])
    IN  /\ trade[p].items[s] # i
        /\ trade' = IF s = NonTraded THEN [t EXCEPT ![Trader(p)].spell = FALSE] ELSE t
        /\ UNCHANGED <<online, inv, money, bound, memory, saved>>

CanBeTraded(i) == i \notin bound

SetTradeItem(p, s, i) ==
    /\ Trading(p)
    /\ i \in inv[p]
    /\ s # NonTraded => CanBeTraded(i)
    /\ \A x \in Slot : trade[p].items[x] # i
    /\ SetItem(p, s, i)

ClearTradeItem(p, s) ==
    /\ Trading(p)
    /\ SetItem(p, s, NoItem)

\* A spell cast on the item in the partner's non-traded slot is remembered.
SetSpell(p) ==
    /\ Trading(p)
    /\ ~trade[p].spell
    /\ GetItem(Trader(p), NonTraded) # NoItem
    /\ trade' = Changed(p, [trade[p] EXCEPT !.spell = TRUE])
    /\ UNCHANGED <<online, inv, money, bound, memory, saved>>

UnacceptTrade(p) ==
    /\ Trading(p)
    /\ trade' = [trade EXCEPT ![p].accepted = FALSE]
    /\ UNCHANGED <<online, inv, money, bound, memory, saved>>

\* TradeCancel, by the client or before a flight.
CancelTrade(p) ==
    /\ Trading(p)
    /\ trade' = CloseTrade(trade, p)
    /\ memory' = Freed(p)
    /\ UNCHANGED <<online, inv, money, bound, saved>>

-----------------------------------------------------------------------------
(* HandleAcceptTradeOpcode. *)

\* Mutant: the money is not compared again.
AnyAmount(p) == TRUE

HasEnoughMoney(p) == money[p] >= trade[p].gold

\* The acceptance is set before the checks and taken back by some of them.
AcceptWithoutMoney(p) ==
    /\ Trading(p)
    /\ \/ /\ ~HasEnoughMoney(p)
          /\ trade' = [trade EXCEPT ![p].accepted = FALSE]
       \/ /\ HasEnoughMoney(p) /\ ~HasEnoughMoney(Trader(p))
          /\ trade' = [trade EXCEPT ![p].accepted = TRUE, ![Trader(p)].accepted = FALSE]
    /\ UNCHANGED <<online, inv, money, bound, memory, saved>>

\* Mutant: the items are only checked when they are put into the window.
CheckedBefore(p) == TRUE

IsBindedNotWith(i, q) == i \in bound \/ q \notin Eligible[i]

\* The checks of the items: only the player's own ones are compared with the
\* players who may have them.
ItemsPass(p) ==
    /\ \A i \in Offer(p) : CanBeTraded(i) /\ ~IsBindedNotWith(i, Trader(p))
    /\ \A i \in Offer(Trader(p)) : CanBeTraded(i)

ChecksPass(p) ==
    /\ Trading(p)
    /\ HasEnoughMoney(p) /\ HasEnoughMoney(Trader(p))
    /\ ItemsPass(p)

\* The handler returns without taking the acceptance back.
AcceptRefused(p) ==
    /\ Trading(p)
    /\ HasEnoughMoney(p) /\ HasEnoughMoney(Trader(p))
    /\ ~ItemsPass(p)
    /\ trade' = [trade EXCEPT ![p].accepted = TRUE]
    /\ UNCHANGED <<online, inv, money, bound, memory, saved>>

AcceptFirst(p) ==
    /\ ChecksPass(p)
    /\ ~trade[Trader(p)].accepted
    /\ trade' = [trade EXCEPT ![p].accepted = TRUE]
    /\ UNCHANGED <<online, inv, money, bound, memory, saved>>

\* Whether a spell can still be cast: its target must be there, the rest of the
\* check of the spell may fail.
NeedsSpellCheck(p) == trade[p].spell
TargetIsThere(p) == GetItem(Trader(p), NonTraded) # NoItem

\* The first spell that fails, of p or else of its partner, is taken back, and
\* with it both acceptances.
SpellFails(p) ==
    /\ ChecksPass(p)
    /\ trade[Trader(p)].accepted
    /\ \E x \in {p, Trader(p)} :
          /\ NeedsSpellCheck(x)
          /\ x # p /\ NeedsSpellCheck(p) => TargetIsThere(p)
          /\ trade' = Changed(x, [trade[x] EXCEPT !.spell = FALSE])
    /\ UNCHANGED <<online, inv, money, bound, memory, saved>>

SpellsPass(p) ==
    \A x \in {p, Trader(p)} : NeedsSpellCheck(x) => TargetIsThere(x)

\* CanStoreItems: items marked as in trade free their place.
Fits(p) == Cardinality((inv[p] \ Offer(p)) \cup Offer(Trader(p))) <= Capacity

NoRoom(p) ==
    /\ ChecksPass(p)
    /\ trade[Trader(p)].accepted
    /\ SpellsPass(p)
    /\ ~Fits(p) \/ ~Fits(Trader(p))
    /\ trade' = [trade EXCEPT ![p].accepted = FALSE, ![Trader(p)].accepted = FALSE]
    /\ UNCHANGED <<online, inv, money, bound, memory, saved>>

\* ModifyMoney: a loss stops at 0, a gain at the limit.
Paid(x, d) == IF x > d THEN x - d ELSE 0
Received(x, d) == IF x < MaxMoney - d THEN x + d ELSE MaxMoney

\* Each pays before it receives.
Balance(p) == Received(Paid(money[p], trade[p].gold), trade[Trader(p)].gold)

\* Items are removed from both inventories and stored in the other one; with
\* the room tested above none has to be given back.
Exchanged(p) == (inv[p] \ Offer(p)) \cup Offer(Trader(p))

\* Mutant: only the player whose packet completed the trade is saved.
SaveOne(p) == saved' = [saved EXCEPT ![p] = [inv |-> inv'[p], money |-> money'[p]]]

\* SaveInventoryAndGoldToDB of both in one transaction.
SaveBoth(p) ==
    saved' = [x \in Player |-> IF x \in {p, Trader(p)}
                               THEN [inv |-> inv'[x], money |-> money'[x]] ELSE saved[x]]

CompleteTrade(p) ==
    /\ ChecksPass(p)
    /\ trade[Trader(p)].accepted
    /\ SpellsPass(p)
    /\ Fits(p) /\ Fits(Trader(p))
    /\ inv' = [x \in Player |-> IF x \in {p, Trader(p)} THEN Exchanged(x) ELSE inv[x]]
    /\ money' = [x \in Player |-> IF x \in {p, Trader(p)} THEN Balance(x) ELSE money[x]]
    /\ trade' = CloseTrade(trade, p)
    /\ memory' = Freed(p)
    /\ SaveBoth(p)
    /\ UNCHANGED <<online, bound>>

-----------------------------------------------------------------------------
(* What else happens to the players. *)

\* A player pays a vendor, the mail, a repair.
Spend(p, amount) ==
    /\ p \in online
    /\ amount <= money[p]
    /\ money' = [money EXCEPT ![p] = @ - amount]
    /\ UNCHANGED <<online, inv, bound, trade, memory, saved>>

\* An item is destroyed or sold; nothing tells a trade.
DestroyItem(p, i) ==
    /\ p \in online
    /\ i \in inv[p]
    /\ inv' = [inv EXCEPT ![p] = @ \ {i}]
    /\ UNCHANGED <<online, money, bound, trade, memory, saved>>

\* An item is equipped or enchanted, or the time in which a bound one may be
\* traded has passed.
Bind(p, i) ==
    /\ p \in online
    /\ i \in inv[p]
    /\ bound' = bound \cup {i}
    /\ UNCHANGED <<online, inv, money, trade, memory, saved>>

SavePlayer(p) == saved' = [saved EXCEPT ![p] = [inv |-> inv[p], money |-> money[p]]]

\* Player::SaveToDB, at intervals.
SaveToDB(p) ==
    /\ p \in online
    /\ SavePlayer(p)
    /\ UNCHANGED <<online, inv, money, bound, trade, memory>>

\* LogoutPlayer: the player is saved, then CleanupsBeforeDelete cancels.
Logout(p) ==
    /\ p \in online
    /\ SavePlayer(p)
    /\ online' = online \ {p}
    /\ IF Trading(p)
       THEN trade' = CloseTrade(trade, p) /\ memory' = Freed(p)
       ELSE UNCHANGED <<trade, memory>>
    /\ UNCHANGED <<inv, money, bound>>

\* The player is loaded from its row.
Login(p) ==
    /\ p \notin online
    /\ online' = online \cup {p}
    /\ inv' = [inv EXCEPT ![p] = saved[p].inv]
    /\ money' = [money EXCEPT ![p] = saved[p].money]
    /\ UNCHANGED <<bound, trade, memory, saved>>

\* The server dies; what was not saved is gone.
Crash ==
    /\ online' = {}
    /\ inv' = [p \in Player |-> saved[p].inv]
    /\ money' = [p \in Player |-> saved[p].money]
    /\ trade' = [p \in Player |-> NoTrade]
    /\ memory' = {}
    /\ UNCHANGED <<bound, saved>>

-----------------------------------------------------------------------------
AcceptTrade(p) ==
    \/ AcceptWithoutMoney(p) \/ AcceptRefused(p) \/ AcceptFirst(p)
    \/ SpellFails(p) \/ NoRoom(p) \/ CompleteTrade(p)

TradeNext(p) ==
    \/ \E q \in Player : InitiateTrade(p, q)
    \/ \E amount \in 0..MaxMoney : SetTradeGold(p, amount)
    \/ \E s \in Slot : ClearTradeItem(p, s) \/ \E i \in Item : SetTradeItem(p, s, i)
    \/ SetSpell(p)
    \/ AcceptTrade(p) \/ UnacceptTrade(p) \/ CancelTrade(p)

PlayerNext(p) ==
    \/ \E amount \in 1..MaxMoney : Spend(p, amount)
    \/ \E i \in Item : DestroyItem(p, i) \/ Bind(p, i)
    \/ SaveToDB(p) \/ Logout(p) \/ Login(p)

Next == Crash \/ \E p \in Player : TradeNext(p) \/ PlayerNext(p)

Spec == Init /\ [][Next]_vars

-----------------------------------------------------------------------------
(* Safety. *)

\* The two TradeData objects of a trade refer to each other and to players who
\* are in the world, whoever cancels, completes or logs out: the code follows
\* GetTrader()->_trade without asking.
TradesPaired ==
    \A p \in Player : Trading(p) =>
        /\ {p, Trader(p)} \subseteq online /\ Trader(p) # p
        /\ Trading(Trader(p)) /\ Trader(Trader(p)) = p

\* No item is in two inventories, neither in memory nor in the database, so
\* that none is there twice after a crash at any moment.
OneOwner ==
    \A p, q \in Player : p # q =>
        inv[p] \cap inv[q] = {} /\ saved[p].inv \cap saved[q].inv = {}

\* Trading creates no money, not even when it was spent after it was put into
\* the window, nor when the server crashes after the trade.
Total(f) == MapThenSumSet(LAMBDA p : f[p], Player)
SavedMoney == [p \in Player |-> saved[p].money]

NoMoneyFromNothing ==
    [][Total(money') <= Total(SavedMoney) /\ Total(SavedMoney') <= Total(SavedMoney)]_vars

\* An acceptance that outlives a step stands for the same terms: whoever has
\* pressed accept is not held to an offer that was changed afterwards.
Terms(p) == <<trade[p].gold, trade[p].items, trade[p].spell>>

AcceptanceKeepsTerms ==
    [][\A p \in Player :
          Trading(p) /\ Trading(p)' /\ trade[p].accepted /\ trade'[p].accepted =>
              Terms(p)' = Terms(p) /\ Terms(Trader(p))' = Terms(Trader(p))]_vars

\* An item that became soulbound while it was in the window stays with its
\* owner.
BoundItemsStay ==
    [][\A p, q \in Player : p # q => inv[p] \cap bound \cap inv'[q] = {}]_vars

\* A trade never leaves a player with more items than the inventory holds.
RoomForItems == \A p \in Player : Cardinality(inv[p]) <= Capacity

=============================================================================

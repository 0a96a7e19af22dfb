# A formal model of the world server

This directory holds TLA+ modules that model the parts of the world server
(`src/src/server`) whose correctness depends on the order of events: who waits
and who is admitted, which thread touches what and when, what an acceptance, a
logout or a crash leaves behind. TLC checks them on small instances, TLAPS
proves the most important invariants for every value of the constants.

Paths below are relative to `src/src/server/game` unless they start with
`shared/` or `worldserver/`.

## 1. The system

The server is one process. **Network threads** authenticate clients and append
packets to the queue of each session. One **world thread** runs a loop of
ticks (`WorldRunnable::run`, `World::Update`): it admits and updates sessions,
has all maps updated, then runs the managers (auctions, battlegrounds, mail,
LFG, ...) alone. A pool of **map threads** updates maps in parallel while the
world thread waits. **Database worker threads** execute statements and
transactions in the background and complete futures that the world thread
polls.

### Components

| Component | State | Operations | Talks to | Hard behaviour | What makes it correct |
|---|---|---|---|---|---|
| World: session map and login queue (`World/World.cpp`) | `m_sessions`, `addSessQueue`, `m_QueuedPlayer`, `m_disconnects`, `m_playerLimit`; per session `m_inQueue`, `m_playerLoading`, `m_timeOutTime` | `AddSession_`, `RemoveSession`, `AddQueuedPlayer`, `RemoveQueuedPlayer`, `UpdateSessions`, `KickAll`, `SetPlayerAmountLimit` | network threads (locked list), sessions | reconnects while queued or loading, time-outs in the queue, a limit that changes, shutdown | no pointer to a deleted session; flags agree with the list; places handed on in order; the limit kept; every connection answered |
| World thread (`worldserver/WorldThread`) | tick, `m_stopEvent` | `run`, `Update` | everything | the end of the server | a stop saves every session |
| Map thread pool (`Maps/MapUpdater.cpp`, `shared/Threading/DelayExecutor.cpp`, `Maps/MapManager.cpp`, `Maps/MapInstanced.cpp`) | `pending_requests`, mutex, condition, request queue | `schedule_update`, `wait`, `update_finished`, `execute`, `svc`, `deactivate` | world thread, maps | nested scheduling while the world thread already waits, a full queue, lost wake-ups, shutdown | a barrier: serial phases overlap no map update; a map is updated once and by one thread; no deadlock |
| Session (`Server/WorldSession.cpp`) | `_recvQueue`, player, `m_playerLoading`, `m_playerRecentlyLogout`, `_logoutTime` | `QueuePacket`, `Update`, the status switch, login, logout, far teleport | network thread, world and map threads, login query | two threads with two filters, packets put back, a logout overtaken by packets | no packet touched after deletion, none for the wrong character, the queue drains |
| Trade (`Handlers/TradeHandler.cpp`, `Entities/Player/Player.h`) | two `TradeData`, inventories, money, rows of two characters | initiate, set gold/item/spell, clear, accept, unaccept, cancel | inventory, database | GUIDs looked up late, acceptances that outlive a change, logout or crash in between | pairing; nothing duplicated; terms kept |
| Auction house (`AuctionHouse`, `Handlers/AuctionHouseHandler.cpp`) | auctions, items in them, bids | sell, bid, buyout, cancel, expire | mail, database | expiry reads the database while bids are still on their way to it; an object used after its deletion | one winner; items and money neither lost nor doubled; every transaction a deal |
| Mail (`Mails`, `Handlers/MailHandler.cpp`) | mails with items, money, COD | send, take, return, expire | auction, trade partner, database | return and expiry racing taking | as above |
| Database pool (`shared/Database`) | queue of operations, futures | enqueue, execute, commit, callbacks | all | order between workers, callbacks for sessions that are gone | transactions of one character keep their order |
| Socket (`Server/WorldSocket.cpp`) | reference to the session, output buffer | handshake, ping, send, close | session | both ends closing, ping after close | no use of a session that is gone |
| Groups and loot rolls (`Groups/Group.cpp`, `Handlers/LootHandler.cpp`) | members, rolls with votes and totals; on the corpse blocked and looted items and a timer | open, vote, end of roll, leave, kick, log out, join | players, items | members leaving, and losing the connection, during a roll | exact totals, nobody passed over, the right winner, the roll ends |
| Battlegrounds (`Battlegrounds`, `Handlers/BattlegroundHandler.cpp`) | queued groups, selection pools, the player's queue slots, invited counters, members, offline list, `BGFreeSlotQueue` | join, leave, accept, queue update, invitations running out, enter, disconnect, end | players, groups, teleports | four records of one invitation; loading screens and logouts in between; places given away while guests are on their way | exact counters, teams that fit, invitations that end, battlegrounds that are deleted |
| Dungeon finder (`DungeonFinding`) | queues, proposals | join, answer, time out | groups, maps | answers racing time-outs | nobody in two places; everybody answered |
| Instance saves (`Instances`), guilds, calendar, social, chat, commands, spells, combat, AI, movement, Warden, authentication server, events, pools, weather | | | | mostly sequential data or numeric rules | see section 8 |

`PROJECT.json` lists the components with what is and is not modelled, and the
hazards: each place in the code where something can go wrong that a test would
hardly reach, with the properties that would notice.

## 2. The modules

| Module | Models | Run by |
|---|---|---|
| `LoginQueue` | session map, login queue, idle timers, shutdown | `MCLoginQueue` |
| `MapUpdater` | the map thread pool | `MCMapUpdater` |
| `UpdateBarrier` | what the pool promises (abstract) | through `MapUpdater` |
| `SessionPackets` | the packets of one session | `MCSessionPackets` |
| `Trade` | trades between players, with saves and crashes | `MCTrade` |
| `CharacterDatabase` | the queue in front of the character database, its worker, a crash | through `Mailbox` and `AuctionHouse` |
| `Mailbox` | mail between characters (extends `CharacterDatabase`) | `MCMailbox` |
| `AuctionHouse` | auctions, their mails and restarts (extends `Mailbox`) | `MCAuctionHouse` |
| `Ledger` | what an auction house promises (abstract) | through `AuctionHouse` |
| `GroupLoot` | a group rolling for the items of corpses | `MCGroupLoot` |
| `Matchmaking` | whom a battleground queue invites: pure functions of the queues | `MCMatchmaking` |
| `BattlegroundQueue` | the queue, its invitations and the battlegrounds (extends `Matchmaking`) | `MCBattlegroundQueue` |
| `LoginQueue_proofs`, `MapUpdater_proofs`, `SessionPackets_proofs`, `Trade_proofs`, `Mailbox_proofs`, `GroupLoot_proofs`, `BattlegroundQueue_proofs` | theorems about the module of that name; `Mailbox_proofs` also about `AuctionHouse` | TLAPS |
| `Ledger_proofs` | the proof that `AuctionHouse` implements `Ledger` | TLAPS |

Specifications are composed by extension: `AuctionHouse` adds auctions to the
mailboxes of `Mailbox`, which works on the transactions of `CharacterDatabase`; an
action of the upper module is a whole handler and commits one transaction of
the lower one; `BattlegroundQueue` calls the selections of `Matchmaking` in its
queue update. `MapUpdater` contains an instance of `UpdateBarrier` and implements
it, `AuctionHouse` one of `Ledger`. The other components meet in shared facts
rather than in shared variables: `LoginQueue` sees a session as something that
loads, is idle or closed; `SessionPackets` looks into one served session and says
what its update does; both rest on the barrier of `MapUpdater`, which is why a
whole session update is one step of `LoginQueue` and why the world thread handles
packets one at a time in `Trade`, `Mailbox`, `AuctionHouse`, `GroupLoot` and
`BattlegroundQueue`.

### LoginQueue

A session is an object identity, a member of `Session`: it is deleted and its
memory used again, so that a stale pointer in a list is visible.
`account[s] = NoAccount` says that the object is not allocated. The action
`Connect` is the network side (`WorldSocket::HandleAuthSession`,
`World::AddSession`). The world thread is a loop with the positions `phase`:
"add" (draining `addSessQueue`, one `AddSession` or `RejectSession` per entry),
"update" (one `UpdateSession` or `RemoveClosed` per session, in any order, as
`m_sessions` is an unordered map), "rest" (the remainder of the tick, where a
stop is noticed) and "done". `AfterRemoval` is the list after
`RemoveQueuedPlayer`, which is called twice for a session that closes, as in the
code. `KickAll` empties the list without clearing `m_inQueue`, as in the code.
`HasRecentlyDisconnected` keeps records for ever because the code passes its
arguments to `difftime` in the wrong order (`World/World.cpp:313`), so the
difference is never positive.

### MapUpdater and UpdateBarrier

Each thread has a position `pc`. `schedule_update` is two steps, both under
`m_mutex`: `ScheduleUpdate` counts the request, `Execute` hands it to the
executor's queue or takes it back from the counter when the queue is full.
Between the two, map threads dequeue and work. `Wait` is one test of the
condition, `SpuriousWakeup` what a condition variable may do. A map thread
dequeues a request, schedules the instance copies of its map that are not
unloaded in this tick, ends the update, and counts down and broadcasts.
`Deactivate`, `Exit`, `Join` are the shutdown.

`UpdateBarrier` is the promise, for any number of threads: a tick opens, maps
become due, begin and finish, an instance becomes due at most once and after
its base map began, a map may be skipped, with its instances, and the tick closes
only when nothing is due or running. The refinement mapping reads `due`, `running` and `done` off
the loop positions and the queue.

### SessionPackets

`sent` is everything the network thread has queued; a packet is its number in it
and carries the character it was meant for. Opcodes are grouped into kinds by
their status and processing in `Server/Protocol/Opcodes.cpp` and by what their
handlers do to the session (`Status`, `Processing`). `Take` is one turn of the
loop of `WorldSession::Update`, guarded as `LockedQueue::next` is by closed socket,
`firstDelayedPacket` and the filter; `HandleDelayed`, `HandleDropped`,
`HandleGame`, ... are the branches of the switch. The map thread's turn comes only
while the player is in the world. `HandlePlayerLogin` is the answer of the login
query. The client is well behaved: it sends game packets for a character from
the moment it asks for it until it learns of the logout.

### Trade

`trade[p]` is `p`'s `TradeData` or `NoTrade`; `inv` and `money` are memory,
`saved` the rows of the database. Every handler of `TradeHandler.cpp` is an
action or, for `HandleAcceptTradeOpcode`, one action per way out of it
(`AcceptWithoutMoney`, `AcceptRefused`, `AcceptFirst`, `SpellFails`, `NoRoom`,
`CompleteTrade`). Between any two of them players spend money, lose items, have
them bound, are saved, log out and in, and the server may crash. The constructor of `TradeData`
leaves its slots uninitialised, so `InitiateTrade` chooses for each new object
between empty slots and those of an object that was deleted by the trade before
(`memory`).

### CharacterDatabase

`db` is what the worker has executed, `writes` the transactions that wait in its
queue, each with the rows it will leave and the characters whose login waits for
it. `Latest` is what the newest transaction will leave: a synchronous query reads `db`, a
handler that commits works from `Latest`. `Execute` is the worker's turn; `LoseQueue` is what a crash does.
One worker thread is assumed, the default of the configuration, so
transactions keep their order; none of them fails.

### Mailbox

A mail is a row and, after its receiver has listed the mailbox, an object in
`box` that is written back by `_SaveMail`. The UPDATE there names some columns
only, which is `UpdateRow`. `SendMail`, `TakeItem`, `TakeMoney`, `ReturnToSender`,
`HandleMailDelete`, `HandleMailMarkAsRead`, `GetMailList` are the handlers, `Save`,
`Logout` and `Login` the character's rows; `ReturnOrDeleteOldMails` is a sequence
of single statements, run at startup and, with `DailyRun`, once a day.

### AuctionHouse and Ledger

`auctions` is `AuctionsMap`, `aitems` the keys of `mAitems`. The handlers are
`SellItem`, `PlaceBid`, `Buyout` and `RemoveItem`; `End` lets the time of an auction
come; `Update` settles the auctions that the executed rows name, from the objects
in memory, and reads `item_guidlow` of an auction it has deleted (a free choice
of what is read). After `AuctionCrash` the server starts in three steps, in the
order of `World::SetInitialWorldSettings`: `DeleteExpiredAuctionsAtStartup`,
`LoadAuctionItems`, `LoadAuctions`.

`Ledger` knows no rows, mails or transactions: an item is held by somebody or on
offer, funds are what somebody owns in the purse, in the mail and in standing
bids. The refinement mapping reads the ledger off the executed rows alone, so
each transaction must be a whole deal whatever crash comes before or after it.
This is checked by TLC and proved (`HouseKeepsLedger`, section 7).

### GroupLoot

A roll is a record of votes and the four totals `CountRollVote` and `RemoveMember`
maintain (`Tally`). `CountTheRolls` is `CountTheRoll` for the rolls that end in a
step: one when the last vote arrives (`CountRollVote`), all of a corpse when its
timer expires (`GroupLootTimerExpires`, that is `Creature::Update` and
`Group::EndRoll`). The dice are a free choice among the `Winners`, and whether the
winner has room among the `Outcomes`. `RemoveMember` takes a member out of every
roll and does not end one, since the vote that `CountRollVote` looks for has just
been erased; it disbands the group, with its rolls, when too few are left.
`choice` is what the clients chose in their roll windows: it is not part of the
server and is there for the properties to compare with.

### Matchmaking

A pool is the sequence of groups selected so far. `AddGroup` and `Full` are the
two results of `SelectionPool::AddGroup`, `KickGroup` the other operation.
`FillPlayersToBG` takes groups in order and then runs the loop that evens the
sides out (`Round`, `Breaks`); the loop is a fold over more rounds than it can
take, and `FillFair` says that it has ended. `PremadePools` and `NormalPools` are
`CheckPremadeMatch` and `CheckNormalMatch`. `MCMatchmaking` makes every choice of
queues an initial state and the selection the only step.

### BattlegroundQueue

What is known of one invitation is spread over the group in the queue (`inst`,
`stamp`), the player's own `slot`, the counters of the battleground
(`bg[b].invited`) and the event that takes it back (`removals`); one action
changes as many of them as its handler does. A battleground is created, filled
and listed in `QueueUpdate`, which is one step because it runs alone on the
world thread; so are the steps of `Battleground::Update`. A teleport is two steps: `Port`
or `Zone`, then `Arrive` or `ArriveOutside`. In between `InWorld` is false, that is,
`ObjectAccessor::FindPlayer` does not find the player although he is online.
`removals` holds the events of a player in the order in which they run out;
they are run by his map, so not while he is on his way. `stamp` tells
invitations apart as `RemoveInviteTime` does. Ids of battlegrounds are used
again, the lowest free one first.

`miscounted` is a history variable: the battlegrounds whose counters have been
lowered for somebody they never counted, and those whose id still stands in the
slot of a guest of their predecessor. Several properties exclude them; the run
`LeftBehind` shows how a battleground gets there and what becomes of it.

## 3. The runs

| Run | Shows | Instance and why it is enough |
|---|---|---|
| `LoginQueue` | soundness of the lists, flags, timers, the limit, the order of admission | three session objects, three accounts of which one is staff, limit 1 raised to 2 or not, two ticks of time-out, disconnect records kept. Two served or waiting sessions and one that connects give every combination of "leaves", "is replaced" and "stays" for the head, another place of the list and a served session |
| `LoginQueueLive` | connections are answered, closed sessions deleted, a stop completes | two sessions, two accounts, limits 0, 1, 2, no symmetry |
| `MapUpdater` | barrier, implementation of `UpdateBarrier`, the tick and the shutdown end | three map threads, three base maps, one of them with two instance copies, a queue of two requests, fewer than the base maps, so that the world thread's requests as well as those of instances are refused while others are in work |
| `SessionPackets` | packets and characters | four packets of eight kinds, two characters: a packet for the first one delayed into the second needs login, logout, login and the packet |
| `Trade` | pairing, ownership, money, terms | two players, two items, a purse of 1 equal to the limit of money, inventories of capacity 1, one ordinary slot and the non-traded one; every exchange meets the limit of money and of room |
| `Mailbox` | items in one place, purses saved, money and payment | two characters, one item, two mails at a time, a queue of two transactions, so that a mailbox is listed while a mail to it, or its return, is still on its way to the database; purses of two units, the limit of money |
| `AuctionHouse` | goods, auctions and rows agree, implementation of `Ledger`, settlement | three characters, one of whom sells one item, bids of 1 and 2, with and without a buyout, one crash: two bidders give an outbid, an own raise, and an owner who turns a bid down |
| `GroupLoot` | totals, winner, nobody passed over, rolls end | four characters and one item: with four, one can leave and another vote without the group being disbanded, and one can join during the roll |
| `Matchmaking` | order, room, balance of the selections; when a match starts | up to three groups of 1, 2 or 4 players against two, one of them perhaps invited already, 0 to 4 free places, teams of 2 to 5: groups too large for what is left, groups that can be swapped for smaller ones, and sides out of balance by more than the slack of 1 and 2 in the code |
| `BattlegroundQueue` | counters, slots, offline lists and events agree | two friends of one side, alone or as a group, against one; teams of 1 to 2; one battleground, deleted and made again; one waiting event per player, so that nobody queues again before the event of his last invitation has run (with two events this instance does not finish in the time of a run) |
| `AuctionStartup`, `LeftBehind` | one finding each, see section 6 | the smallest instances that show them |

`Session`, `Player` and `Item` are symmetric sets in the safety runs of
`LoginQueue`, `Trade` and `Mailbox`, the two friends in that of
`BattlegroundQueue`; symmetry is not used where liveness is checked. Deadlock
checking is on for `BattlegroundQueue`, whose players can always go on, and off
elsewhere because each system has a proper end: the world thread stops, the
pool is unloaded, the session is deleted or has no packet left, all players are
offline with nothing left to do, every corpse is gone, the selection is made.

Bounds: `Backlog` (sessions that wait for the world thread at once), `TimeOut`
(in ticks), `QueueBound` (below the high-water mark of the ACE queue, which is
in bytes), `MaxPackets`, `MaxLogins`, `MaxMoney`, `Capacity`, `memory`, which
remembers the slots of the last trade only, `MaxWrites` (transactions in the
queue), `MaxMails` and `MaxAuctions` (at a time; their numbers are used again),
`Sellers`, `StartBids`, `Prices`, `Buyouts`, `MaxCrashes`, `MaxAlliance`, `MaxHorde`,
`Sizes`, `MaxFree` (queues and free places of `MCMatchmaking`), `MaxInstances`
(battlegrounds at a time), `MaxRemovals` (events a player has waiting; he joins no
queue while he has as many), `Wrap` (above twice the number of players, so that a
wrapped counter is not mistaken for a real one). Switches: `DailyRun` (the daily
`ReturnOrDeleteOldMails`), `EndsWhileDown` (auctions end while the server is
down) and `LogTrade` (the configuration `GM.LogTrade`).

Every property of a passing run is broken by a mutant of one definition, a
plausible slip in the code it stands for (comments beginning "Mutant:").

## 4. Properties

**LoginQueue.** `QueueSound`: no list holds a deleted session or one twice.
`WaitingLeavesNoTrace`: the flag and the list agree, and a session admitted from
the queue is not closed at once for the time it waited. `PlacesAreHandedOn`: no
step leaves a place free while sessions wait that was not free before.
`LimitHolds`: the sessions the limit applies to do not exceed it, although
`RemoveQueuedPlayer` runs twice for one session. `NoOvertaking`: first come,
first served. These hold for steps that do not change the limit;
`SetPlayerAmountLimit` does not touch the queue, so after raising it a queue
may be left with free places (no text of the repository says otherwise). Live:
`ConnectionIsAnswered`, `ClosedIsDeleted`, `StopCompletes`.

**MapUpdater.** `BarrierHolds`, `ImplementsBarrier`; `TickEnds` and `UnloadEnds`: no
lost wake-up, no deadlock. `PendingCounts`, which is proved, says that the counter
is exact, so the "BUG" branch of `update_finished` is dead.

**SessionPackets.** `PacketsSound`: nothing deleted is used or deleted again.
`ForTheRightCharacter`: no packet is handled for another character than it was
sent for, unless the client itself made the server forget the logout.
`QueueDrains`: the queue runs empty, though packets are put back into it.

**Trade.** `TradesPaired`, `OneOwner` (in memory and in the database, hence after
a crash), `NoMoneyFromNothing`, `AcceptanceKeepsTerms`, `BoundItemsStay`.
`RoomForItems`, which is proved, says that no exchange overfills an inventory.

**Mailbox.** `OnePlace`: an item is in one inventory or mail, in memory and in
every version of the rows a crash may leave. `PursesSaved`: what a handler did to
purse and inventory is in a transaction. `NoMoneyFromMail`: no transaction makes
money. `CodIsPaid`: the item of a mail cash on delivery moves only in the
transaction that pays the sender. `NoItemLost`: an item keeps a place unless it is
thrown away. `DailyRun` is off in the run: with it, a mail is returned in the rows
while its receiver, who lists the mailbox before the worker has executed the
statement, still gets it in memory, and `OnePlace` fails after nine steps; no text of
the repository says otherwise.

**AuctionHouse.** `GoodsInOnePlace`, `AuctionsSaved` (what bidders see is what the
newest rows have), `ImplementsLedger`, and live `AuctionIsSettled`.

**Matchmaking.** `PoolsSound`: nobody is selected twice, out of turn or above the
room, and nobody who fits is passed over. `FillFair`, `MatchFair`: the sides are as
even as the code promises without leaving out anybody who could play, and a match
that can start does.

**BattlegroundQueue.** `InvitedExact`: the invited counters are the players asked,
on their way or inside. `TeamsFit`: they are never more of a team than
`MaxPlayersPerTeam`, however places were given away; this one is proved and not part
of the run, where no side has more players than there are places. `SlotsAgree`: queue,
player and battleground tell the same.
`OfflineListed`: the head of the offline list can always be removed. `AskedIsTimed`:
whoever is asked has the event of his invitation still to come, even when the
battleground has ended (the fifth case in the comment of `BGQueueRemoveEvent`).

**GroupLoot.** `RollsSound`, `WonByTheRightOne`, `EverybodyIsAsked`, and live
`RollEnds`.

Typing is proved (`TypeCorrect`) or a conjunct of one of these invariants.

## 5. Fairness

`LoginQueue`: weak fairness of the world thread alone; clients and operators owe
nothing. `ClosedIsDeleted` and `StopCompletes` assume in their statement that
`addSessQueue` is drained again and again: the loop of `UpdateSessions` has no
bound on it, so clients that connect faster than they are admitted could keep
it there. `MapUpdater`: weak fairness of each thread, that is, the operating
system schedules it and `Map::Update` returns. `SessionPackets`: weak fairness
of the update loop, strong fairness of the answer of the login query, which
can be taken only between two updates and comes from a database worker.
`AuctionHouse`: weak fairness of `Update` (its timer expires again and again), of
the startup and of the database worker. `GroupLoot`: weak fairness of the timer
of each corpse, which `Creature::Update` counts down as long as the corpse lies
there. `BattlegroundQueue`, for `LeftBehind` alone: weak fairness of arrivals (a client
that does not answer is logged out, which finishes its teleports, `Server/WorldSession.cpp:396`) and of
the steps that close and delete a battleground, which `BattlegroundMgr::Update`
takes on every tick; strong fairness of the events of a player, because they are
run by the map he is on and he may keep changing maps. `Trade` and `Mailbox` have
no liveness: players owe nothing.

Assumed besides: a client answers a roll once, in the window it was shown;
every character has an account of its own (`HandleSendMail` and the auction
handlers treat characters of one account differently); a mail carries at most
one item; transactions do not fail.

## 6. Findings

Each of the two has a run.

1. `AuctionHouse/AuctionHouseMgr.cpp:816`: at startup the auctions that ended in the
   meantime are settled before the auction items are loaded
   (`World/World.cpp:1662`), so the mails are sent without the item, which then
   has no place in any row (`AuctionStartup`).
2. `Battlegrounds/BattlegroundQueue.cpp:349`: a player on a loading screen when his
   group is invited is skipped (line 453) and not counted; when he leaves the queue
   the counter is lowered all the same, wraps at 0, and the battleground is never
   deleted (`LeftBehind`).

Places met while modelling where a comment and the code disagree, without a run
of their own; the models do what the code does:

- `Server/WorldSession.cpp:274`: `deletePacket` is cleared for a packet that is put
  back and never set again, though line 239 says "Delete packet after processing by
  default"; packets handled later in the same update leak.
- `Handlers/TradeHandler.cpp:339`: an acceptance survives the failed check of the
  player's own items, though line 350 says the trade "will fail anyway later on the
  same check"; the partner may accept next.
- `Groups/Group.cpp:712`: disbanding a group, and a winner who is offline, leave an
  item blocked without a roll; it is shown as "roll is ongoing" until the corpse is
  gone.
- `Battlegrounds/BattlegroundQueue.cpp:591`: premade groups are to be filled up "to
  size of bigger group", but the smaller size is taken, so nobody is ever added.
- `Battlegrounds/BattlegroundQueue.cpp:453`: skipping a player "should not happen", as
  the offline leave the queue; a loading screen makes it happen. The queue holds him
  as invited, he is never asked, and no event takes him out.
- `Server/WorldSession.cpp:476`: a logout frees a place without an update of the
  queue, which is called when a "player / group is removed".

Met while modelling, against no text of the repository, and therefore without a
run: an offline winner of an auction is looked up by the account, for which
`LogTrade` must be on, else the item is lost; `AuctionHouseObject::Update` reads an
auction it has deleted; the daily return of mails races the listing of a mailbox
(section 4); staff pass the login queue but are counted in the limit; any
`STATUS_AUTHED` packet but one clears `m_playerRecentlyLogout`
(`Server/WorldSession.cpp:327`); the constructor of `TradeData` leaves its slots
uninitialised (`Entities/Player/Player.h:1100`); `difftime` gets its arguments in
the wrong order (`World/World.cpp:313`).

## 7. Proofs

All proofs are checked by TLAPS for every value of the constants that satisfies
the named assumptions of the module.

**`LoginQueue_proofs`**: `Invariant`, `TypeCorrect`, `QueueIsSound` and
`PlacesHandedOn`. The inductive invariant adds to the type that each list has
distinct entries (`Distinct`), that incoming sessions are allocated and not
registered (`Incoming`), that waiting ones are registered under their account
(`Enlisted`), and that an account the loop has yet to visit is registered
(`TodoSound`). `QueueSound` alone is not convenient to carry because it speaks of
pairs of positions; with sets of members, deleting a session, popping the head
and erasing from the middle reduce to lemmas on lists (`EraseProperties`,
`TailProperties`, `AppendProperties`, `RemovalProperties`). `PlacesHandedOn` then
needs counting: `CountProperties` (how the size of the map changes) and
`RemovalCounts` (when `RemoveQueuedPlayer` shortens the list, and by how much).

The second part of the module has `NobodyOvertakes`, `LimitIsKept` and
`WaitingFlagged`. For the order, `EraseOrder` and `TailOrder` say that what
`RemoveQueuedPlayer` does to the list keeps the order of those who stay, so that
whoever leaves it by being admitted was before them (`RemovalOrder`); a new client
joins at the end or, by `CapacityUsed`, is exempt. For the limit, the served
sessions are registered and, by `WaitingFlagged`, not in the list, so `ServedCount`
bounds them by the size of the map less that of the list, which is the number
`RemoveQueuedPlayer` and `AddSession_` compare with the limit; `AdmitsIfRoom` says
what a comparison lets through and `RemoveKeepsLimit` that the second call for a
session already out of the list lets nobody in above the limit.

The third part, `NoTraceOfWaiting`, is the flag and the timer of a session at the
moment it is admitted or closed. It needs `Trace`: a session object that is not
registered yet is as its constructor left it, with the timer full, and one that
waits has been given its timer anew; an admitted one carries `m_inQueue` no longer.

**`MapUpdater_proofs`**: `Invariant`, `TypeCorrect`, `CounterIsExact`,
`MapsAreQuiet`. The invariant is `TypeOK /\ HandHeld /\ MutexHeld /\ PendingCounts
/\ BarrierHolds`: the barrier follows from the test `pending = 0` only if the
counter is exact, and the counter is exact only if at most one thread is
between counting and queueing, which the mutex ensures.

Its second part is `PoolIsBarrier`, the refinement of `UpdateBarrier`, with
`MapsInPlace`, the invariant it needs. `InOnePlace`: a map of this tick is in the loop
of the world thread, in the queue or in the work of one thread, and in one of
them only. `Loops`: what a loop has yet to schedule are children of what its thread
updates. `Untouched`: no instance is queued or in work before its base map has
begun. `Closed`: nothing is scheduled after the shutdown began. With them each
step of a thread is one step of the barrier or a stutter; refusing a request is
`Skip`, the test in `Wait` that succeeds is `Close`. The proof relies on
`InstanceAssumption`, that each instance belongs to one base map and is none itself.

**`SessionPackets_proofs`**: `Invariant`, `PacketsAreSound`. `PacketsSound` is inductive
with `Received`, that only packets the network thread has handed over are anywhere,
so that the next one is new; the branches of the switch reduce to what they do to
the queue, the packet in hand and the deleted ones.

`RightCharacter` (`ForTheRightCharacter`: no packet sent for one character is handled
for another) is about the order of packets, which the code does not keep
when it puts packets back, so its invariant says what is kept: characters
are sent for in growing order (`CharsGrow`), logins are for new ones
(`LoginsAreNew`), the packets that clear `m_playerRecentlyLogout` are never put back
and stay in order (`AuthedInOrder`), and while the flag is set whatever would clear it
stands behind every packet of the character that logged out (`ClearedAfter`,
`LoyalOrDropped`). `Around` and `Before` are the positions of a packet in hand and
in the queue; one lemma per way the queue changes (`TakeShrinks`, `StandShrinks`,
`DiscardShrinks`, `RequeueOrder`, `ArrivalOrder`) says what becomes of them.

**`Trade_proofs`**: `Invariant`, `TypeCorrect`, `TradesComeInPairs`,
`ItemsHaveOneOwner`, `InventoriesFit`, `AcceptancesKeepTerms`, `BoundItemsAreKept`.
`OneOwner` is not inductive: a login or a crash takes inventories from the rows.
`Backed` adds that what a player holds in memory is in its row (no item comes to
life but by a trade, and a trade saves both sides in one transaction) and that rows
fit the inventory. Of the two action properties, `AcceptancesKeepTerms` needs that
trades are paired, as whoever changes an offer clears the acceptances of both sides,
and `BoundItemsAreKept` that inventories and rows are disjoint. `TradingMakesNoMoney`
is about sums over all players: a step changes one or two of the summands
(`SumStep`, `SumPair`), those of a trade by opposite amounts.

**`Mailbox_proofs`**: `ItemsAreInOnePlace`, `MemoryIsSaved`, `GoodsAreInOnePlace` and
`AuctionsAreSaved`, for any number of characters, items, mails, auctions, crashes
and queued transactions. `MailIInv` says of memory
that ids are new and items held once (`Memory`), and of the database that every
prefix of the queue of transactions, executed, leaves rows that agree with each
other (`AllRowsOK`) and that executing all of it gives what memory has (`ReadBack`).
This is needed because memory runs ahead of the database: `OnePlace` speaks of the
rows of now, each `Execute` makes the next prefix the present, and a crash
makes the present the future. `NotListed` and `Boxes` are about mailboxes that were
not loaded yet: what is queued for them in the database and what is in memory
must not name one item twice. `PursesSaved` follows from `ReadBack`. Both theorems
have the hypothesis `~DailyRun`, the constant that lets the daily return of old
mails happen while the server runs: with it `OnePlace` is false, which is the
race of section 4.

The action properties of `Mailbox` are `MailMakesNoMoney`, `PaidOnDelivery` and
`NothingLostInMail`, from one invariant more. `MailIInv` says what each version of the rows
looks like, and not how one version becomes the next, yet an `Execute` is a
step between two of them that were fixed when they were queued. So `PostIInv` adds
`Chain`, that of any two consecutive versions the second has no more money and
pays whoever sent cash on delivery what it takes the item for (`Fair`). A
transaction is `Fair` when its handler commits it because of what memory agrees
with: a box shows no more money, and no other price or sender, than the newest rows
(`HonestBoxes`), and mails are letters between two different characters
(`LetterRows`), which is why the payment can be told from the receiver's own
purse. `LetterRows` also has that items only disappear from one version to later ones,
so that an item of the newest rows is one of the rows a query reads. `MailIInv` alone is
not enough for any of the three. Whether an item is lost is decided when a
transaction is queued, which `Lossless` says of each handler and `StepsKeepPost`
of each step. The statements for old mails at startup are any number, executed one
by one; `OldMailsHonest` is the induction over them (`Tidied` what each of the rows looks
like, `Onward` what one becomes, `StillThere` that only mails brought back
already lose their items). The hypothesis is again `~DailyRun`.

The auction house needs no hypothesis for `GoodsAreInOnePlace`. Its invariant
`AuctionIInv` is `MailIInv` with `AllOnSale` (in every version of the rows no two
auctions share an id or an item, and their items exist and are in no inventory and no
mail) and `House` (`Housed`: the same of the auctions in memory, and an auction in
memory and one of the newest rows with the same id or item have both, as `Matching`
says; while the server is down, this of the auctions of every version, because
any of them may be what the startup reads). `AuctionsAreSaved` adds `InStep`,
memory is the newest rows. It has the hypothesis `~EndsWhileDown`: without it
the startup queues the settlement of the auctions that ended in the meantime and then
loads the auctions from rows in which these may still be.
What a session does to mails and inventories only moves
goods between those (`Moved`), so the steps of `Mailbox` keep the auctions' part of the
invariant without being looked into again. An update settles any number of
auctions, one transaction each; `SettledExists` turns the recursive function `Settle`
into a sequence of steps of `SettleOne`, `SettleOK` is the induction over the
ids, `CommitAllKeepsMails` takes its transactions into the queue, and
`SettlementKeeps` serves both `Update` and the startup.

**`Ledger_proofs`**: `HouseKeepsLedger`, that `AuctionHouse` implements `Ledger`:
whatever crashes and whatever waits in the queue, each transaction the database executes
is one step of the ledger or none. The ledger is read off the executed rows, where
`Execute` is the only step that changes anything, and what it executes was decided
when the transaction was queued. So the invariant `LedgerIInv` adds to `AuctionIInv` and `InStep`

- `Books`: of any two consecutive versions of the rows the second is the first after
  one step of the ledger, or the same to it (`Booked`). With it `Execute` is a step of the
  ledger, and a crash, which only drops versions, is a stutter;
- `PlainRows`: in every version each item has a place and nothing is sent cash on
  delivery, an auction without a bidder has no bid and nobody bids on his own, and all
  funds and deposits together are no more than the money there was at the
  beginning (`Thrifty`);
- `InRows`: mails in memory are rows of the newest version, with the same money. It is why
  `TakeItem` and `TakeMoney`, which act on memory, move between purse, inventory and mail of
  one character what the rows say is there, a move the ledger does not see.

`Thrifty` is what bounds money: a purse that is full takes less than it is paid
(`Player::ModifyMoney`), and that nobody ever has more than fits needs the money of all
characters, which a sale and a refund move and a cut reduces (`BookedIsThrifty`). Each
handler is shown to be `Booked` by what it does to mails and auctions: `OneLetter`
says what one mail adds to one character's money and items, `AuctionEnds` what the
end of an auction takes out of stakes and deposits, and `OfferIsBooked`, `PurchaseIsBooked`
and `ReturnIsBooked` make them a step. An update queues any number of transactions at
once; `SettleEntries` is the induction over the auctions it settles, each of which
starts from the rows the one before has left.

The theorem has three hypotheses, all true of the run `AuctionHouse`. `~EndsWhileDown`: with
it false the startup settles an auction and loads it again (section 6).
`LogTrade`: with it false a winner who is offline gets no mail, and the item is lost (section 6).
`PurseIsLarge`: the money of all characters at the beginning fits into one purse; without
it money is lost at the limit, which the ledger does not allow. Of the assumptions on
constants, `OfferAssumption` says that no character is an offer of the ledger, so that
`OnOffer` can tell them apart, and `PlayerAssumption` that there are finitely many
characters, over which sums are taken.

**Induction.** The theorems of the library that take an operator as a
parameter cannot be used by the provers here, but its facts on well-founded orderings of
sets can. `NumberInduction` and `FiniteInduction` are induction for a set of numbers or of
finite subsets; with the first, sums over finite sets are sums over an
enumeration (`SumIsIter`), which gives `SumInt`, `SumStep`, `SumOut`, `SumAdd`,
`SumAtMost`, `SumSame`, `SumPair`, and, for the money of characters that is in mails,
that a sum is the sum of its parts whatever way it is divided (`SumParts`, `SumInto`),
with `NumberedFinite`: a set of things numbered up to a bound is finite. A fold of the
community modules is the value, at the set of all positions, of a function on sets of
positions that satisfies an equation; `FoldExists` says that there is such a function and
`FoldStays` that what every step keeps in a set stays in it. With them the loops of a model
written as folds can be proved about. `Mailbox_proofs`, `Trade_proofs` and
`BattlegroundQueue_proofs` each begin with those of these lemmas they use.

**`GroupLoot_proofs`**: `Invariant`, `RollsAreSound`, `TheRightOneWins`,
`NobodyIsPassedOver`, for any number of members, corpses and items. The inductive
invariant adds to `RollsSound` that each roll agrees with the windows of the
clients (`WindowsMatch`), that nobody has seen a corpse nobody opened (`Unseen`),
and that a disbanded group has no rolls (`Disbanded`). Single rolls come first:
`Exact(r)` says that the totals are the sizes of the sets of voters, and
`NewRollExact`, `WithVoteExact` and `WithoutExact` that every way to change a roll
keeps it. `AllVotedFacts` turns totals that reach the number of players into
votes of everybody (three disjoint sets that fill a finite one), and
`OutcomeFacts` totals into the right winner. The two action properties then
follow from the state before the step.

**`BattlegroundQueue_proofs`**: `Invariant`, `InvitedAreCounted`,
`TeamsNeverOverfull`, `SlotsTell`, `OfflineAreListed`, `InvitationsEnd` and, of the
matchmaking, `SelectedHaveRoom`, for any number of players, parties, battlegrounds and
pending events. The properties are not inductive one by one. `IInv` has `OneGroup` (nobody is in two
groups, everybody waits with his team), `Waiter` (what the slot, the place and the
events of a waiting player are: while he is not invited there is room for one
more event, and while he is asked the event of this invitation is among his),
`Whereabouts` and `MembersIn` (place, slot, battleground id and membership agree),
`Listed`, and two about the takers of a place (`TakersOf`: asked, on the way, or
inside): the counters are their numbers (`Exact`), and who has a slot is one
(`SlotsTaken`). Each action then adds or removes takers, and `OneLess` and
`TwoCounts` say what that does to the numbers; `Wrap` is larger than all players
together (`BoundsAssumption`), so counters that are numbers of players never wrap.

The update of the queue fills battlegrounds and starts matches one after the
other inside of one step. So the invariant is stated as `Good` of any queue,
slots and battlegrounds, `Sound` carries it from one state of the update to
the next (`InviteStep`, `BgOpened`, `SameGroups`), and `FoldStays` carries it through the
loop over the battlegrounds with free places (`FillAll`). Of the selections the
proof needs that a pool holds waiting groups of the queue and that there is room for
the players of the pool (`SelectedHaveRoom`). The pools are built by folds that add
groups one at a time (`AddGroup` refuses one for which there is no room), drop them
again and compare the sides; `Fitting(Q, m)` is the set of pools of groups of `Q`
with at most `m` players, and every operation of a loop stays in it
(`AddGroupsSelects`, `KickedGroup`, `RoundSelects`, `BalanceSelects`). That nobody is
passed over and that the sides come out even are properties of `MCMatchmaking`,
checked by TLC.

That no team is too large (`TeamsFit`) rests on both halves. `FInv` is `IInv` with
`Fit`: no counter of the invited passes `MaxPlayersPerTeam`. An invitation raises a
counter by the players found in a pool, and the free places it was filled from are
what the counter left of the team (`InviteStep`, `FreeFacts`). All other actions
lower a counter by one or leave it (`CountersFall`), and a counter at zero would run
to the largest `uint32`. That it does not is no matter of `Fit`: the counter is exact
after the step (`Exact`), so it is at most the number of players and not `Wrap - 1`
(`FallsFit`). Only when all members of a battleground are removed at once is the
argument about the takers instead (`BgCloseFits`): who takes a place then took it before.
With `Exact` the takers of each team are as many as its counter (`FitIsTeams`).

`Moved` says that an update gives slots of existing battlegrounds only, which is what
a new battleground with the id of a deleted one relies on.

Only model-checked: the liveness properties and everything that rests on fairness,
as liveness and `ENABLED` are beyond the prover used here; and of the selections of
`Matchmaking` what is more than their room: that groups are taken once and in turn and
nobody who fits is passed over (`PoolsSound`), and how even the sides are (`FillFair`,
`MatchFair`).

## 8. What is not modelled

- In `LoginQueue`: the daily and weekly timers and the configuration of World;
  sessions that connect between `KickAll` and the end of the network; the
  account-level checks of the handshake.
- In `MapUpdater`: the mode without map threads (a plain loop), the creation of
  maps during a tick (`BaseMap` is constant within a run) and the content of
  `Map::Update`.
- In `SessionPackets`: the content of packets and handlers other than their
  effect on the session; the order of packets of one character, which the code
  does not keep when it puts packets back.
- In `Trade`: stacks (an item is moved whole), the effect of the spells cast at
  the end of a trade, the reasons why two players may not trade (a free choice).
  A transaction that was committed counts as written; the delay is part of
  `Mailbox` and `AuctionHouse`.
- In `CharacterDatabase`: several worker threads, transactions that fail, other
  databases.
- In `Mailbox`: several items in a mail, stacks, mails without item and money,
  guild and game master mails, delivery delays (a mail may be taken late).
- In `AuctionHouse`: searching and listing, stacks, the three houses (their
  auctions do not meet), the deposit and cut as formulas of the item.
- In `GroupLoot`: master and round robin loot, invitations, subgroups of raids,
  ready checks, items below the threshold, map threads that overlap.
- In `BattlegroundQueue`: several waiting events of one player (section 3),
  arenas and ratings, the random battleground, more than one
  queue of a player, brackets, deserters and levels (free choices they would only
  narrow), what happens in a match, teleports that are refused, and handlers that
  overlap on several map threads. A queue update may come before the deletion of
  an empty battleground, which allows more than the order of `BattlegroundMgr::Update`.
- Spells, combat, AI, movement, scripts, events: numeric rules and content of
  single threads, with state spaces driven by data rather than by interleaving.
- The authentication server: a separate process made of cryptographic steps.

## 9. Plan

1. Done: sessions and queue, map threads, packets, trade, mail, auctions and the
   database below them, group rolls, battlegrounds; theorems about all of them, of the
   selections of `Matchmaking` that there is room for whoever is selected.
2. Model next: LFG proposals, role checks and boots; `SocketSession` (references,
   ping after close, the idle timer); several database workers; map creation
   during a tick; instance binds and resets; a smaller state for invitations, so that
   an event of an older one can meet a newer one (the fourth case of its comment).
3. Prove next: the rest of `PoolsSound`, which needs what a fold over the queue does to its
   order; `HouseKeepsLedger` with a purse that may be full, for a ledger in which money can
   be lost.

---------------------------- MODULE AuctionHouse ----------------------------
(***************************************************************************)
(* An auction house (src/src/server/game/AuctionHouse/AuctionHouseMgr.cpp  *)
(* and Handlers/AuctionHouseHandler.cpp) with the mailboxes it sends goods *)
(* and money to, the database and its restarts.                            *)
(*                                                                         *)
(* Auctions live in memory (AuctionsMap), their items in mAitems, and both *)
(* in the database, to which every handler commits one transaction.  The   *)
(* world thread settles the auctions that a synchronous query finds to be  *)
(* over; the server settles those that ended while it was down before it   *)
(* loads the others.  Packets and timers are handled one at a time.        *)
(*                                                                         *)
(* Every character has an account of its own.  Characters send no mail to  *)
(* each other here and no mail gets old: see Mailbox.                      *)
(***************************************************************************)
EXTENDS Mailbox

CONSTANTS
    MaxAuctions,    \* bound: auctions at a time
    Sellers,        \* bound: characters that auction items
    StartBids,      \* what sellers ask at least
    Buyouts,        \* what sellers sell for at once, 0 if they do not
    Prices,         \* what bidders offer
    Deposit,        \* GetAuctionDeposit
    CutPercent,     \* cutPercent of AuctionHouse.dbc, with the configured rate
    LogTrade,       \* BOOLEAN: GM.LogTrade
    EndsWhileDown,  \* BOOLEAN: the server may be down with auctions to settle
    MaxCrashes      \* bound: crashes

ASSUME AuctionAssumption ==
    /\ StartBids \cup Prices \subseteq Nat \ {0} /\ Buyouts \subseteq Nat
    /\ Deposit \in Nat /\ CutPercent \in 0..100
    /\ MaxAuctions \in Nat /\ MaxCrashes \in Nat

\* No character is an offer of the ledger.
ASSUME OfferAssumption ==
    \A p \in Player : p \notin [seller : Player, bidder : Player \cup {Nobody}, bid : Nat]

VARIABLES
    auctions,       \* AuctionsMap: the auctions in memory
    aitems,         \* the keys of mAitems
    ended,          \* the ids of auctions whose expire_time is near or past
    phase,          \* how far the server has started
    crashes         \* how often it crashed

auctionVars == <<auctions, aitems, ended, phase, crashes>>
vars == <<auctionVars, mailVars>>

AuctionId == 1..MaxAuctions

AuctionEntry == [id : AuctionId, item : Item, owner : Player, startbid : StartBids,
                 buyout : Buyouts, bidder : Player \cup {Nobody}, bid : Nat]

TypeOK ==
    /\ MailTypeOK
    /\ \A d \in Versions : d.auctions \subseteq AuctionEntry
    /\ auctions \subseteq AuctionEntry
    /\ aitems \subseteq Item
    /\ ended \subseteq AuctionId
    /\ phase \in {"down", "items", "auctions", "up"}
    /\ phase # "up" => online = {}
    /\ crashes \in 0..MaxCrashes

Init ==
    /\ MailInit
    /\ auctions = {} /\ aitems = {} /\ ended = {}
    /\ phase = "up"
    /\ crashes = 0

-----------------------------------------------------------------------------
(* The mails of an auction. *)

\* GetAuctionCut, of which the client shows the owner the same amount, and
\* GetAuctionOutBid.
AuctionCut(a) == (a.bid * CutPercent) \div 100
OutBid(a) == IF (a.bid * 5) \div 100 = 0 THEN 1 ELSE (a.bid * 5) \div 100

AuctionMail(to, item, amount) ==
    IF item = NoItem /\ amount = 0 THEN <<>>
    ELSE <<[Letter(Nobody, to, item, amount)[1] EXCEPT !.kind = "MAIL_AUCTION"]>>

\* SendAuctionExpiredMail: the item to its owner, if it is in mAitems.
ExpiredMail(a, known) ==
    IF a.item \in known THEN AuctionMail(a.owner, a.item, 0) ELSE <<>>

\* SendAuctionSuccessfulMail: the money to the owner.
SuccessfulMail(a) == AuctionMail(a.owner, NoItem, a.bid + Deposit - AuctionCut(a))

\* SendAuctionWonMail: the item to the bidder, who is online or has an account
\* number, which is looked up for the log of GMs' trades only.
WonMail(a, known) ==
    IF a.item \in known /\ (a.bidder \in online \/ LogTrade)
    THEN AuctionMail(a.bidder, a.item, 0) ELSE <<>>

\* SendAuctionOutbiddedMail and SendAuctionCancelledToBidderMail: the bid back.
RefundMail(a) == IF a.bidder = Nobody THEN <<>> ELSE AuctionMail(a.bidder, NoItem, a.bid)

\* What is sent when an auction is over.
SettlementMails(a, known) ==
    IF a.bidder = Nobody THEN ExpiredMail(a, known)
    ELSE SuccessfulMail(a) \o WonMail(a, known)

\* Mutant: the row stays.
KeepAuction(d, id) == d

DeleteAuction(d, id) == [d EXCEPT !.auctions = {a \in @ : a.id # id}]

-----------------------------------------------------------------------------
(* The handlers. *)

\* Ids no auction has (GenerateAuctionID).
FreeAuctionIds ==
    AuctionId \ ({a.id : a \in auctions} \cup UNION {{a.id : a \in d.auctions} : d \in Versions})

\* HandleAuctionSellItem.
SellItem(p, i, startbid, buyout) ==
    LET gold == Paid(money[p], Deposit)
        a == [id |-> Min(FreeAuctionIds), item |-> i, owner |-> p, startbid |-> startbid,
              buyout |-> buyout, bidder |-> Nobody, bid |-> 0]
        moved == DeleteFromInventoryDB(Latest, i)
    IN  /\ p \in Sellers
        /\ i \notin aitems
        /\ i \in inv[p]
        /\ HasEnoughMoney(p, Deposit)
        /\ FreeAuctionIds # {}
        /\ aitems' = aitems \cup {i}
        /\ auctions' = auctions \cup {a}
        /\ ended' = ended \ {a.id}
        /\ money' = [money EXCEPT ![p] = gold]
        /\ inv' = [inv EXCEPT ![p] = @ \ {i}]
        /\ Commit(SaveInventoryAndGold([moved EXCEPT !.auctions = @ \cup {a}],
                                       p, inv[p] \ {i}, gold), p)
        /\ UNCHANGED <<online, loaded, box, phase, crashes>>

\* The offers HandleAuctionPlaceBid accepts.
MayBid(p, a, price) ==
    /\ a.owner # p
    /\ price > a.bid /\ price >= a.startbid
    /\ (a.buyout = 0 \/ price < a.buyout) => price >= a.bid + OutBid(a)
    /\ HasEnoughMoney(p, price)

BuysOut(a, price) == a.buyout # 0 /\ price >= a.buyout

\* What p pays for a bid of this sum: its own last bid is taken into account.
Due(p, a, sum) == IF a.bidder = p THEN sum - a.bid ELSE sum

\* Mutant: the last bidder loses its bid.
NoRefund(p, a) == <<>>

\* The last bidder gets its money back, if it is another one.
Outbid(p, a) == IF a.bidder = p THEN <<>> ELSE RefundMail(a)

\* Mutant: the bid is not written.
UpdateBidder(d, a) ==
    [d EXCEPT !.auctions = {IF r.id = a.id THEN [r EXCEPT !.bidder = a.bidder] ELSE r : r \in @}]

\* The UPDATE of a row, which has no effect if there is no such row.
UpdateAuction(d, a) ==
    [d EXCEPT !.auctions = {IF r.id = a.id THEN [r EXCEPT !.bidder = a.bidder, !.bid = a.bid]
                            ELSE r : r \in @}]

\* HandleAuctionPlaceBid, below the buyout price.
PlaceBid(p, a, price) ==
    LET gold == Paid(money[p], Due(p, a, price))
        new == [a EXCEPT !.bidder = p, !.bid = price]
        d == UpdateAuction(InsertMails(Latest, Outbid(p, a)), new)
    IN  /\ MayBid(p, a, price) /\ ~BuysOut(a, price)
        /\ RoomFor(Outbid(p, a))
        /\ money' = [money EXCEPT ![p] = gold]
        /\ auctions' = (auctions \ {a}) \cup {new}
        /\ box' = Delivered(box, Outbid(p, a))
        /\ Commit(SaveInventoryAndGold(d, p, inv[p], gold), p)
        /\ UNCHANGED <<online, inv, loaded, aitems, ended, phase, crashes>>

\* HandleAuctionPlaceBid at or above the buyout price.
Buyout(p, a, price) ==
    LET gold == Paid(money[p], Due(p, a, a.buyout))
        new == [a EXCEPT !.bidder = p, !.bid = a.buyout]
        mails == Outbid(p, a) \o SuccessfulMail(new) \o WonMail(new, aitems)
        d == DeleteAuction(InsertMails(Latest, mails), a.id)
    IN  /\ MayBid(p, a, price) /\ BuysOut(a, price)
        /\ RoomFor(mails)
        /\ money' = [money EXCEPT ![p] = gold]
        /\ auctions' = auctions \ {a}
        /\ aitems' = aitems \ {a.item}
        /\ box' = Delivered(box, mails)
        /\ Commit(SaveInventoryAndGold(d, p, inv[p], gold), p)
        /\ UNCHANGED <<online, inv, loaded, ended, phase, crashes>>

\* HandleAuctionRemoveItem: the owner pays the cut of the bid it turns down.
RemoveItem(p, a) ==
    LET cut == IF a.bidder = Nobody THEN 0 ELSE AuctionCut(a)
        gold == Paid(money[p], cut)
        mails == RefundMail(a) \o AuctionMail(p, a.item, 0)
        d == SaveInventoryAndGold(InsertMails(Latest, mails), p, inv[p], gold)
    IN  /\ a.owner = p
        /\ a.item \in aitems
        /\ HasEnoughMoney(p, cut)
        /\ RoomFor(mails)
        /\ money' = [money EXCEPT ![p] = gold]
        /\ auctions' = auctions \ {a}
        /\ aitems' = aitems \ {a.item}
        /\ box' = Delivered(box, mails)
        /\ Commit(DeleteAuction(d, a.id), p)
        /\ UNCHANGED <<online, inv, loaded, ended, phase, crashes>>

-----------------------------------------------------------------------------
(* Auctions that are over. *)

\* Time passes; nothing happens at that moment.
End(id) ==
    /\ id \notin ended
    /\ phase # "down" \/ EndsWhileDown
    /\ \E a \in auctions \cup db.auctions : a.id = id
    /\ ended' = ended \cup {id}
    /\ UNCHANGED <<mailVars, auctions, aitems, phase, crashes>>

\* One more auction is settled: the mails so far, and the rows after each of
\* the transactions so far, which started from d.
SettleOne(d, known, before, a) ==
    LET mails == before.mails \o SettlementMails(a, known)
    IN  [mails |-> mails,
         rows |-> Append(before.rows,
                         DeleteAuction(InsertMails(Last(<<d>> \o before.rows), mails), a.id))]

\* The mails and the rows after each of these auctions is settled in a
\* transaction of its own, starting from d, in the order of their ids.
Settle(d, over, known) ==
    LET settled[n \in 0..MaxAuctions] ==
            IF n = 0 THEN [mails |-> <<>>, rows |-> <<>>]
            ELSE LET before == settled[n - 1]
                     auction == {a \in over : a.id = n}
                 IN  IF auction = {} THEN before
                     ELSE SettleOne(d, known, before, CHOOSE a \in auction : TRUE)
    IN  settled[MaxAuctions]

\* Mutant: auctions without a bid are passed over.
OverWithBid ==
    {a \in auctions : /\ a.id \in ended /\ a.bidder # Nobody
                      /\ \E r \in db.auctions : r.id = a.id}

\* The auctions that Update finds: by the executed rows, in memory.
Over == {a \in auctions : a.id \in ended /\ \E r \in db.auctions : r.id = a.id}

\* AuctionHouseObject::Update: the rows that are over name the auctions, those
\* in memory are settled.  RemoveAuction deletes the auction that is then asked
\* for its item: what is read may be another number, and the item stays.
Update ==
    LET settled == Settle(Latest, Over, aitems)
    IN  /\ phase = "up"
        /\ Over # {}
        /\ RoomFor(settled.mails)
        /\ auctions' = auctions \ Over
        /\ \E read \in SUBSET {a.item : a \in Over} : aitems' = aitems \ read
        /\ box' = Delivered(box, settled.mails)
        /\ CommitAll(settled.rows, {})
        /\ UNCHANGED <<online, money, inv, loaded, ended, phase, crashes>>

-----------------------------------------------------------------------------
(* Starting and crashing. *)

\* DeleteExpiredAuctionsAtStartup: no item is in mAitems yet.
DeleteExpiredAuctionsAtStartup ==
    LET over == {a \in db.auctions : a.id \in ended /\ a.item \in db.items}
        settled == Settle(Latest, over, {})
    IN  /\ phase = "down"
        /\ phase' = "items"
        /\ RoomFor(settled.mails)
        /\ CommitAll(settled.rows, Player)
        /\ UNCHANGED <<memoryVars, auctions, aitems, ended, crashes>>

LoadAuctionItems ==
    /\ phase = "items"
    /\ phase' = "auctions"
    /\ aitems' = {a.item : a \in db.auctions} \cap db.items
    /\ UNCHANGED <<mailVars, auctions, ended, crashes>>

\* LoadAuctions: rows whose item is not known are deleted.
LoadAuctions ==
    LET rows == {a \in db.auctions : a.item \in db.items}
        unknown == {a \in rows : a.item \notin aitems}
    IN  /\ phase = "auctions"
        /\ phase' = "up"
        /\ auctions' = rows \ unknown
        /\ IF unknown = {} THEN UNCHANGED dbVars
           ELSE CommitAll(<<[Latest EXCEPT !.auctions = @ \ unknown]>>, Player)
        /\ UNCHANGED <<memoryVars, aitems, ended, crashes>>

AuctionCrash ==
    /\ crashes < MaxCrashes
    /\ crashes' = crashes + 1
    /\ EndsWhileDown \/ ~\E a \in db.auctions : a.id \in ended
    /\ Crash
    /\ auctions' = {} /\ aitems' = {}
    /\ phase' = "down"
    /\ UNCHANGED ended

-----------------------------------------------------------------------------
(* The specification. *)

BidNext ==
    \E p \in online :
        \/ \E i \in inv[p], startbid \in StartBids, buyout \in Buyouts :
              SellItem(p, i, startbid, buyout)
        \/ \E a \in auctions : RemoveItem(p, a)
        \/ \E a \in auctions, price \in Prices : PlaceBid(p, a, price) \/ Buyout(p, a, price)

StartupNext == DeleteExpiredAuctionsAtStartup \/ LoadAuctionItems \/ LoadAuctions

Next ==
    \/ phase = "up" /\ SessionNext /\ UNCHANGED auctionVars
    \/ BidNext
    \/ \E id \in AuctionId : End(id)
    \/ Update
    \/ StartupNext
    \/ WorkerNext /\ UNCHANGED auctionVars
    \/ AuctionCrash

\* The world thread goes on: the timer of Update expires again and again, and
\* the server gets started.
WorldFairness == WF_vars(Update) /\ WF_vars(StartupNext)

\* The worker thread of the database goes on.
WorkerFairness == WF_vars(WorkerNext /\ UNCHANGED auctionVars)

Spec == Init /\ [][Next]_vars /\ WorldFairness /\ WorkerFairness

-----------------------------------------------------------------------------
(* Properties. *)

\* Where the rows have an item, and where its object is in memory.
Places(d, i) == MailPlaces(d, i) \cup {[auction |-> a.id] : a \in {a \in d.auctions : a.item = i}}
ObjectPlaces(i) ==
    MemoryPlaces(i) \cup {[auction |-> a.id] : a \in {a \in auctions : a.item = i}}

\* An item is never in two of the inventories, mailboxes and auctions.
GoodsInOnePlace ==
    /\ TypeOK
    /\ \A i \in Item : /\ AtMostOne(ObjectPlaces(i))
                       /\ \A d \in Versions : AtMostOne(Places(d, i))

\* No transaction leaves an item without a place: what is taken from the seller
\* is always with somebody.
NothingLost == \A i \in Item : \A d \in Versions : i \in d.items => Places(d, i) # {}

\* The auctions bidders see are the ones the newest rows have, with the same
\* bids, and their items are at hand.
AuctionsSaved ==
    phase = "up" => /\ auctions = Latest.auctions
                    /\ \A a \in auctions : a.item \in aitems

\* An auction that is over gets settled: its row does not stay for ever.
AuctionIsSettled ==
    \A id \in AuctionId :
        (id \in ended /\ \E a \in db.auctions : a.id = id)
            ~> (\A a \in db.auctions : a.id # id)

\* An item on offer.
OfferOf(a) == [seller |-> a.owner, bidder |-> a.bidder, bid |-> a.bid]

\* Rows as a ledger: who holds each item, what everybody owns.
Holder(d, i) ==
    CHOOSE h \in Player \cup {OfferOf(a) : a \in {a \in d.auctions : a.item = i}} :
        h \in Player => i \in d.inv[h] \/ \E m \in d.mails : m.item = i /\ m.to = h

Bids(d, p) == {a \in d.auctions : a.bidder = p}
Funds(d, p) == Worth(d, p) + SumFunctionOnSet([a \in d.auctions |-> a.bid], Bids(d, p))

L == INSTANCE Ledger WITH
        holder <- [i \in Item |-> Holder(db, i)],
        funds <- [p \in Player |-> Funds(db, p)]

\* Whatever crashes, every transaction the database executes is one step of the
\* ledger: items change hands at the price that was bid, and only then.
ImplementsLedger == L!LedgerSpec
=============================================================================

------------------------------- MODULE Mailbox -------------------------------
(***************************************************************************)
(* Mail between characters (src/src/server/game/Handlers/MailHandler.cpp,  *)
(* Mails/Mail.cpp, _LoadMail and _SaveMail of Player.cpp and               *)
(* ObjectMgr::ReturnOrDeleteOldMails).                                     *)
(*                                                                         *)
(* A mail exists as a row and, once its receiver has listed the mailbox in *)
(* this session, as an object in memory too, which is written back later.  *)
(* The list is read with a synchronous query, from rows the queue of the   *)
(* database may be about to change.  All mail packets are handled by the   *)
(* world thread, one at a time.                                            *)
(*                                                                         *)
(* A mail carries at most one item.  The delivery delay and the expiry are *)
(* left to chance: a mail may be taken late or never, and may be too old.  *)
(* A mail with neither item nor money in it is left out.                   *)
(***************************************************************************)
EXTENDS CharacterDatabase

CONSTANTS
    NoItem,         \* a mail without an item
    MaxMails,       \* bound: mails at a time
    StartMoney,     \* the purse of each character at the beginning
    MaxMoney,       \* MAX_MONEY_AMOUNT
    Postage,        \* the price of a mail, 30
    Amounts,        \* the sums that are sent or demanded
    DailyRun        \* BOOLEAN: ReturnOrDeleteOldMails also runs once a day

ASSUME NoItemAssumption == NoItem \notin Item
ASSUME MoneyAssumption == MaxMoney \in Nat /\ StartMoney \in 0..MaxMoney
ASSUME MailsAssumption == MaxMails \in Nat
ASSUME PriceAssumption == Postage \in Nat /\ Amounts \subseteq Nat

VARIABLES
    online,         \* characters in the world
    money,          \* [Player -> 0..MaxMoney]: purses in memory
    inv,            \* [Player -> SUBSET Item]: inventories in memory
    loaded,         \* characters with _mailsLoaded
    box             \* [Player -> SUBSET Mail]: _mail, in memory

memoryVars == <<online, money, inv, loaded, box>>
mailVars == <<memoryVars, dbVars>>

MailId == 1..MaxMails

Mail == [id : MailId, from : Player \cup {Nobody}, to : Player,
         item : Item \cup {NoItem}, money : Nat, cod : Nat,
         kind : {"MAIL_NORMAL", "MAIL_AUCTION"},
         checked : {"none", "returned", "codPayment"},
         state : {"unchanged", "changed", "deleted"}]

\* The rows of the characters, the items and the mails; rows of mails are
\* always "unchanged".
MailRows(d) ==
    /\ d.money \in [Player -> 0..MaxMoney]
    /\ d.inv \in [Player -> SUBSET Item]
    /\ d.items \subseteq Item
    /\ d.mails \subseteq Mail
    /\ \A m \in d.mails : m.state = "unchanged"
    /\ \A m, n \in d.mails : m.id = n.id => m = n

MailTypeOK ==
    /\ \A d \in Versions : MailRows(d)
    /\ loaded \subseteq online /\ online \subseteq Player
    /\ money \in [Player -> 0..MaxMoney]
    /\ inv \in [Player -> SUBSET Item]
    /\ box \in [Player -> SUBSET Mail]
    /\ \A p \in Player : /\ p \notin online => money[p] = 0 /\ inv[p] = {}
                         /\ p \notin loaded => box[p] = {}

-----------------------------------------------------------------------------
(* Money and mails. *)

\* Player::ModifyMoney with what is paid and with what is received.
Paid(gold, amount) == IF gold > amount THEN gold - amount ELSE 0
Received(gold, amount) == IF gold < MaxMoney - amount THEN gold + amount ELSE MaxMoney

HasEnoughMoney(p, amount) == money[p] >= amount

\* Ids no mail has, as GenerateMailID hands them out.
UsedIds ==
    UNION ({{m.id : m \in d.mails} : d \in Versions} \cup {{m.id : m \in box[p]} : p \in Player})

FreeIds == SetToSeq(MailId \ UsedIds)

RoomFor(drafts) == Len(drafts) <= Len(FreeIds)

\* A draft, which has no id yet; one without an item or money is not sent here.
Letter(from, to, item, amount) ==
    IF item = NoItem /\ amount = 0 THEN <<>>
    ELSE <<[id |-> 0, from |-> from, to |-> to, item |-> item, money |-> amount, cod |-> 0,
            kind |-> "MAIL_NORMAL", checked |-> "none", state |-> "unchanged"]>>

\* MailDraft::SendMailTo for each draft of a sequence: the mails it makes...
Sent(drafts) ==
    {[drafts[k] EXCEPT !.id = FreeIds[k]] : k \in DOMAIN drafts \cap DOMAIN FreeIds}

\* ... their rows...
InsertMails(d, drafts) == [d EXCEPT !.mails = @ \cup Sent(drafts)]

\* ... and their objects, for receivers whose mails are loaded.
Delivered(boxes, drafts) ==
    [p \in Player |-> IF p \in loaded
                      THEN boxes[p] \cup {m \in Sent(drafts) : m.to = p}
                      ELSE boxes[p]]

DeleteMail(d, id) == [d EXCEPT !.mails = {m \in @ : m.id # id}]

IsEmpty(m) == m.item = NoItem /\ m.money = 0

\* Mutants: the item stays attached; the money stays in the mail.
UpdateKeepsItem(row, mails) ==
    LET changed == {m \in mails : m.id = row.id /\ m.state = "changed"}
    IN  IF changed = {} THEN row
        ELSE LET m == CHOOSE m \in changed : TRUE
             IN  [row EXCEPT !.money = m.money, !.cod = m.cod, !.checked = m.checked]

UpdateKeepsMoney(row, mails) ==
    LET changed == {m \in mails : m.id = row.id /\ m.state = "changed"}
    IN  IF changed = {} THEN row
        ELSE LET m == CHOOSE m \in changed : TRUE
             IN  [row EXCEPT !.cod = m.cod, !.checked = m.checked,
                             !.item = IF m.item = NoItem THEN NoItem ELSE @]

\* The row of a mail after the UPDATE of _SaveMail, which names only some of
\* its columns, and the DELETE of the items that were taken.
UpdateRow(row, mails) ==
    LET changed == {m \in mails : m.id = row.id /\ m.state = "changed"}
    IN  IF changed = {} THEN row
        ELSE LET m == CHOOSE m \in changed : TRUE
             IN  [row EXCEPT !.money = m.money, !.cod = m.cod, !.checked = m.checked,
                             !.item = IF m.item = NoItem THEN NoItem ELSE @]

\* Player::_SaveMail, on the rows and in memory.
SaveMail(d, mails) ==
    LET doomed == {m \in mails : m.state = "deleted"}
        kept == {m \in d.mails : m.id \notin {n.id : n \in doomed}}
    IN  [d EXCEPT !.items = @ \ {m.item : m \in doomed},
                  !.mails = {m \in {UpdateRow(r, mails) : r \in kept} : ~IsEmpty(m)}]

Cleaned(mails) ==
    {[m EXCEPT !.state = "unchanged"] :
        m \in {n \in mails : n.state # "deleted" /\ ~IsEmpty(n)}}

-----------------------------------------------------------------------------
(* The session of a character. *)

\* Player::LoadFromDB, once the queries queued for it have been answered; an
\* item without its row in item_instance is not found.
Login(p) ==
    /\ p \notin online
    /\ Written(p)
    /\ online' = online \cup {p}
    /\ money' = [money EXCEPT ![p] = db.money[p]]
    /\ inv' = [inv EXCEPT ![p] = db.inv[p] \cap db.items]
    /\ UNCHANGED <<loaded, box, dbVars>>

\* Player::SaveToDB: inventory, money and mails in one transaction.
Saved(p) == SaveMail(SaveInventoryAndGold(Latest, p, inv[p], money[p]), box[p])

\* The periodic save of Player::Update.
Save(p) ==
    /\ p \in online
    /\ Commit(Saved(p), p)
    /\ box' = [box EXCEPT ![p] = Cleaned(@)]
    /\ UNCHANGED <<online, money, inv, loaded>>

Logout(p) ==
    /\ p \in online
    /\ Commit(Saved(p), p)
    /\ online' = online \ {p}
    /\ loaded' = loaded \ {p}
    /\ money' = [money EXCEPT ![p] = 0]
    /\ inv' = [inv EXCEPT ![p] = {}]
    /\ box' = [box EXCEPT ![p] = {}]

\* HandleGetMailList for the first time: _LoadMail reads the executed rows.
GetMailList(p) ==
    /\ p \in online \ loaded
    /\ loaded' = loaded \cup {p}
    /\ box' = [box EXCEPT ![p] =
                  {m \in {[n EXCEPT !.item = IF @ \in db.items THEN @ ELSE NoItem] :
                              n \in {n \in db.mails : n.to = p}} : ~IsEmpty(m)}]
    /\ UNCHANGED <<online, money, inv, dbVars>>

\* The mails of p with one of them replaced.
Changed(p, m, new) == (box[p] \ {m}) \cup {new}

\* Mutant: the sender gets nothing.
NoPayment(p, m) == <<>>

\* What TakeItem pays to the sender of a mail sent cash on delivery.
CashOnDelivery(p, m) ==
    IF m.cod = 0 THEN <<>>
    ELSE <<[Letter(p, m.from, NoItem, m.cod)[1] EXCEPT !.checked = "codPayment"]>>

\* HandleMailTakeItem.
TakeItem(p, m) ==
    LET payment == CashOnDelivery(p, m)
        mails == Changed(p, m, [m EXCEPT !.item = NoItem, !.cod = 0, !.state = "changed"])
        gold == Paid(money[p], m.cod)
        items == inv[p] \cup {m.item}
    IN  /\ m.state # "deleted"
        /\ m.item # NoItem
        /\ HasEnoughMoney(p, m.cod)
        /\ RoomFor(payment)
        /\ money' = [money EXCEPT ![p] = gold]
        /\ inv' = [inv EXCEPT ![p] = items]
        /\ box' = Delivered([box EXCEPT ![p] = Cleaned(mails)], payment)
        /\ Commit(SaveMail(SaveInventoryAndGold(InsertMails(Latest, payment), p, items, gold),
                           mails), p)
        /\ UNCHANGED <<online, loaded>>

\* HandleMailTakeMoney: money and mails are saved, the inventory is not.
TakeMoney(p, m) ==
    LET mails == Changed(p, m, [m EXCEPT !.money = 0, !.state = "changed"])
        gold == Received(money[p], m.money)
    IN  /\ m.state # "deleted"
        /\ m.money > 0
        /\ money' = [money EXCEPT ![p] = gold]
        /\ box' = [box EXCEPT ![p] = Cleaned(mails)]
        /\ Commit(SaveMail([Latest EXCEPT !.money[p] = gold], mails), p)
        /\ UNCHANGED <<online, inv, loaded>>

-----------------------------------------------------------------------------
(* Mail between characters. *)

\* HandleSendMail: money, an item, or an item to be paid for.
SendMail(p, q, i, amount, cod) ==
    LET draft == [k \in DOMAIN Letter(p, q, i, amount) |->
                     [Letter(p, q, i, amount)[k] EXCEPT !.cod = cod]]
        gold == Paid(money[p], Postage + amount)
        items == inv[p] \ {i}
    IN  /\ p \in online /\ p # q
        /\ HasEnoughMoney(p, Postage + amount)
        /\ i \in inv[p] \cup {NoItem}
        /\ draft # <<>> /\ (cod > 0 => i # NoItem /\ amount = 0)
        /\ RoomFor(draft)
        /\ money' = [money EXCEPT ![p] = gold]
        /\ inv' = [inv EXCEPT ![p] = items]
        /\ box' = Delivered(box, draft)
        /\ Commit(SaveInventoryAndGold(InsertMails(DeleteFromInventoryDB(Latest, i), draft),
                                       p, items, gold), p)
        /\ UNCHANGED <<online, loaded>>

\* HandleMailReturnToSender: the old mail is deleted and a new one sent; the
\* client offers it for mails of other characters only.
ReturnToSender(p, m) ==
    LET draft == [k \in DOMAIN Letter(p, m.from, m.item, m.money) |->
                     [Letter(p, m.from, m.item, m.money)[k] EXCEPT !.checked = "returned"]]
    IN  /\ m.state # "deleted"
        /\ m.kind = "MAIL_NORMAL"
        /\ RoomFor(draft)
        /\ box' = Delivered([box EXCEPT ![p] = @ \ {m}], draft)
        /\ Commit(InsertMails(DeleteMail(Latest, m.id), draft), p)
        /\ UNCHANGED <<online, money, inv, loaded>>

\* HandleMailDelete and HandleMailMarkAsRead only mark the mail; the next
\* _SaveMail writes it.
MarkMail(p, m, state) ==
    /\ state = "deleted" => m.cod = 0
    /\ box' = [box EXCEPT ![p] = Changed(p, m, [m EXCEPT !.state = state])]
    /\ UNCHANGED <<online, money, inv, loaded, dbVars>>

HandleMailDelete(p, m) == MarkMail(p, m, "deleted")
HandleMailMarkAsRead(p, m) == MarkMail(p, m, "changed")

\* Mutant: no mail is returned.
OldMailGoes(d, m) ==
    LET gone == IF m.item = NoItem THEN <<>> ELSE <<DeleteItem(d, m.item)>>
    IN  Append(gone, DeleteMail(Last(<<d>> \o gone), m.id))

\* One old mail in ReturnOrDeleteOldMails, read as m: returned if a character
\* sent it and it has an item it has not brought back already, else deleted.
\* The rows after each of the statements, which are executed one by one.
OldMail(d, m) ==
    IF m.item # NoItem /\ m.kind = "MAIL_NORMAL" /\ m.checked = "none"
    THEN <<[d EXCEPT !.mails = {IF r.id = m.id
                                THEN [r EXCEPT !.from = m.to, !.to = m.from, !.cod = 0,
                                               !.checked = "returned"]
                                ELSE r : r \in @}]>>
    ELSE LET gone == IF m.item = NoItem THEN <<>> ELSE <<DeleteItem(d, m.item)>>
         IN  Append(gone, DeleteMail(Last(<<d>> \o gone), m.id))

\* The rows after all statements for the old mails, one after the other.
OldMails(old) ==
    LET rows[n \in 0..MaxMails] ==
            IF n = 0 THEN <<>>
            ELSE LET before == rows[n - 1]
                     mail == {m \in old : m.id = n}
                 IN  IF mail = {} THEN before
                     ELSE before \o OldMail(Last(<<Latest>> \o before), CHOOSE m \in mail : TRUE)
    IN  rows[MaxMails]

\* ReturnOrDeleteOldMails for the old mails: at startup, before anybody is
\* online, or once a day, except for receivers who have listed their mails.
ReturnOrDeleteOldMails(old) ==
    LET startup == online = {} /\ writes = <<>>
    IN  /\ startup \/ (DailyRun /\ Len(writes) < MaxWrites)
        /\ CommitAll(OldMails({m \in old : m.to \notin loaded}), IF startup THEN Player ELSE {})
        /\ UNCHANGED memoryVars

\* The process dies and is started again.
Crash ==
    /\ LoseQueue
    /\ online' = {} /\ loaded' = {}
    /\ money' = [p \in Player |-> 0]
    /\ inv' = [p \in Player |-> {}]
    /\ box' = [p \in Player |-> {}]

-----------------------------------------------------------------------------
(* The specification. *)

Nothing == [p \in Player |-> {}]

\* Everybody is offline and has a purse; the items are in inventories.
MailInit ==
    /\ online = {} /\ loaded = {}
    /\ money = [p \in Player |-> 0]
    /\ inv = Nothing
    /\ box = Nothing
    /\ writes = <<>>
    /\ \E owner \in [Item -> Player] :
          db = [money |-> [p \in Player |-> StartMoney],
                inv |-> [p \in Player |-> {i \in Item : owner[i] = p}],
                items |-> Item, mails |-> {}, auctions |-> {}]

\* The session of a character, and the mails that are addressed to it.
SessionNext ==
    \E p \in Player :
        \/ Login(p) \/ Logout(p) \/ GetMailList(p)
        \/ \E m \in box[p] : TakeItem(p, m) \/ TakeMoney(p, m)

PostNext ==
    \/ \E p, q \in Player, i \in Item \cup {NoItem}, amount, cod \in Amounts :
          SendMail(p, q, i, amount, cod)
    \/ \E p \in Player : Save(p)
    \/ \E p \in Player : \E m \in box[p] :
          ReturnToSender(p, m) \/ HandleMailDelete(p, m) \/ HandleMailMarkAsRead(p, m)
    \/ \E old \in (SUBSET db.mails) \ {{}} : ReturnOrDeleteOldMails(old)

WorkerNext == ExecuteNext /\ UNCHANGED memoryVars

MailNext == SessionNext \/ PostNext \/ WorkerNext \/ Crash

MailSpec == MailInit /\ [][MailNext]_mailVars

-----------------------------------------------------------------------------
(* Properties. *)

\* Where an item is, in the rows: one place for each row that refers to it.
MailPlaces(d, i) ==
    {[bag |-> p] : p \in {p \in Player : i \in d.inv[p]}}
    \cup {[mail |-> m.id] : m \in {m \in d.mails : m.item = i}}

\* Where the object of an item is, in memory.
MemoryPlaces(i) ==
    {[bag |-> p] : p \in {p \in Player : i \in inv[p]}}
    \cup {[mail |-> p] : p \in {p \in Player : \E m \in box[p] : m.item = i}}

AtMostOne(S) == \A x, y \in S : x = y

\* An item is never in two places: not in memory, where two characters could
\* use it, and not in the rows any crash may leave behind.
OnePlace ==
    /\ MailTypeOK
    /\ \A i \in Item : /\ AtMostOne(MemoryPlaces(i))
                       /\ \A d \in Versions : AtMostOne(MailPlaces(d, i))

\* What a character owns, in the rows: its purse and the money it is sent.
Worth(d, p) ==
    d.money[p] + SumFunctionOnSet([m \in d.mails |-> m.money], {m \in d.mails : m.to = p})

Total(d) == SumFunction([p \in Player |-> Worth(d, p)])

\* No transaction makes money, whatever transactions a crash dropped before.
NoMoneyFromMail == [][Total(db') <= Total(db)]_mailVars

\* What a handler changed in memory it also saved: purse and inventory of who
\* is online are those of the newest rows, so that a crash takes back whole
\* transactions only.
PursesSaved ==
    \A p \in online : money[p] = Latest.money[p] /\ inv[p] = Latest.inv[p]

\* An item sent cash on delivery gets into the receiver's inventory only in a
\* transaction that pays the sender.
CodIsPaid ==
    [][\A m \in db.mails :
          (m.cod > 0 /\ m.item \in db'.inv[m.to])
             => Worth(db', m.from) >= Worth(db, m.from) + m.cod]_mailVars

\* An item keeps a place in the rows, unless it is in a mail its receiver has
\* thrown away, or in a returned one that is old when the server starts.
NoItemLost ==
    [][\A i \in Latest.items :
          (/\ Len(writes') > Len(writes)
           /\ MailPlaces(Latest, i) # {}
           /\ i \notin Latest'.items \/ MailPlaces(Latest', i) = {})
          => \/ \E p \in Player : \E m \in box[p] : m.item = i /\ m.state = "deleted"
             \/ /\ online = {}
                /\ \E m \in db.mails : m.item = i /\ m.checked # "none"]_mailVars
=============================================================================

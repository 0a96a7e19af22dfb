---------------------------- MODULE Ledger_proofs ----------------------------
(***************************************************************************)
(* The auction house keeps the ledger: AuctionHouse, seen through the rows *)
(* its transactions leave, does the steps of Ledger and no others.         *)
(*                                                                         *)
(* What a handler queues is shown to be one step of the ledger, whatever   *)
(* waits before it; then the step is taken when the database executes the  *)
(* transaction, and a crash loses the last of them or none.                *)
(***************************************************************************)
EXTENDS Mailbox_proofs

-----------------------------------------------------------------------------
(* Rows as a ledger: who has what, who owns what. *)

\* The money there is at the beginning fits into one purse.
PurseIsLarge == SumFunctionOnSet([p \in Player |-> StartMoney], Player) <= MaxMoney

\* Of the mails S, q has one with the item i.
Mailed(S, q, i) == \E m \in S : m.item = i /\ m.to = q

\* An item in the inventory of q, or in a mail to it.
Has(d, q, i) == i \in d.inv[q] \/ Mailed(d.mails, q, i)

\* The money in the mails to q, with its purse, and in its bids.
Post(S, q) == InMail({m \in S : m.to = q})

Cash(d, q) == d.money[q] + Post(d.mails, q)

BidIn == [a \in AuctionEntry |-> a.bid]

DepositIn == [a \in AuctionEntry |-> Deposit]

\* The money of q in its bids, and the deposits that were paid.
Stake(A, q) == SumFunctionOnSet(BidIn, {a \in A : a.bidder = q})

Deposits(A) == SumFunctionOnSet(DepositIn, A)

\* Auctions with ids of their own.
Separate(A) == A \subseteq AuctionEntry /\ \A a, b \in A : a.id = b.id => a = b

\* What an auction is worth to q while it runs.
StakeOf(a, q) == IF a.bidder = q THEN a.bid ELSE 0

\* Rows in which every item has a place and nothing is sent cash on delivery.
Plain(d) ==
    /\ d.items = Item
    /\ \A i \in Item : (\E q \in Player : Has(d, q, i)) \/ \E a \in d.auctions : a.item = i
    /\ \A m \in d.mails : m.cod = 0
    /\ \A a \in d.auctions : a.bidder # a.owner /\ (a.bidder = Nobody => a.bid = 0)

\* What AuctionIInv says of the rows, and with it that every item has a place.
Fine(d) == RowsOK(d) /\ OnSale(d.auctions, d)

Good(d) == Fine(d) /\ Plain(d)

LEMMA AuctionsAreFew ==
    ASSUME NEW A, Separate(A)
    PROVE  /\ IsFiniteSet(A) /\ Deposits(A) \in Nat /\ \A q : Stake(A, q) \in Nat
           /\ \A a \in A : BidIn[a] = a.bid /\ a.bid \in Nat /\ DepositIn[a] = Deposit /\ Deposit \in Nat
<1> DEFINE key == [a \in A |-> a.id]
<1>1. \A a \in A : /\ key[a] \in 1..MaxAuctions /\ BidIn[a] = a.bid /\ a.bid \in Nat
                   /\ DepositIn[a] = Deposit /\ Deposit \in Nat
  BY AuctionAssumption DEF Separate, AuctionEntry, AuctionId, BidIn, DepositIn
<1>2. \A a, b \in A : key[a] = key[b] => a = b
  BY DEF Separate
<1> HIDE DEF key
<1>3. IsFiniteSet(A)
  BY <1>1, <1>2, AuctionAssumption, NumberedFinite
<1>4. \A q : {a \in A : a.bidder = q} \in SUBSET A
  OBVIOUS
<1>5. \A R \in SUBSET A : SumFunctionOnSet(BidIn, R) \in Nat
  BY <1>1, <1>3, SumPart
<1>6. \A q : Stake(A, q) \in Nat
  BY <1>4, <1>5 DEF Stake
<1>7. SumFunctionOnSet(DepositIn, A) \in Nat
  BY <1>1, <1>3, SumPart
<1> QED BY <1>1, <1>3, <1>6, <1>7 DEF Deposits

\* One auction more.
LEMMA OneAuctionMore ==
    ASSUME NEW A, NEW a, a \notin A, Separate(A \cup {a})
    PROVE  /\ \A q : Stake(A \cup {a}, q) = Stake(A, q) + StakeOf(a, q)
           /\ Deposits(A \cup {a}) = Deposits(A) + Deposit
           /\ Separate(A)
<1> DEFINE B == A \cup {a}
<1>1. Separate(A) /\ Separate(B) /\ a \in B /\ A \subseteq B
  BY DEF Separate
<1>2. /\ IsFiniteSet(A) /\ Deposits(A) \in Nat /\ \A q : Stake(A, q) \in Nat
  BY <1>1, AuctionsAreFew
<1>3. \A b \in B : BidIn[b] = b.bid /\ b.bid \in Nat /\ DepositIn[b] = Deposit /\ Deposit \in Nat
  BY <1>1, AuctionsAreFew
<1>4. Deposits(B) = Deposits(A) + Deposit
  <2>1. SumFunctionOnSet(DepositIn, A \cup {a}) = DepositIn[a] + SumFunctionOnSet(DepositIn, A)
    <3>1. \A b \in A \cup {a} : DepositIn[b] \in Int
      BY <1>3
    <3> QED BY <1>2, <3>1, SumAdd
  <2> QED BY <1>1, <1>2, <1>3, <2>1 DEF Deposits
<1>5. ASSUME NEW q PROVE Stake(B, q) = Stake(A, q) + StakeOf(a, q)
  <2> DEFINE R == {b \in A : b.bidder = q}
             T == {b \in B : b.bidder = q}
  <2>1. CASE a.bidder = q
    <3>1. T = R \cup {a} /\ R \in SUBSET A /\ IsFiniteSet(R)
      BY <1>2, <2>1, FS_Subset
    <3>2. a \notin R /\ \A b \in R \cup {a} : BidIn[b] \in Int
      BY <1>3
    <3> HIDE DEF R, T
    <3>3. SumFunctionOnSet(BidIn, R \cup {a}) = BidIn[a] + SumFunctionOnSet(BidIn, R)
      BY <3>1, <3>2, SumAdd
    <3>4. Stake(B, q) = SumFunctionOnSet(BidIn, T) /\ Stake(A, q) = SumFunctionOnSet(BidIn, R)
      BY DEF Stake, R, T
    <3> QED BY <1>1, <1>2, <1>3, <2>1, <3>1, <3>3, <3>4 DEF StakeOf
  <2>2. CASE a.bidder # q
    <3>1. T = R
      BY <2>2
    <3> HIDE DEF R, T
    <3>2. Stake(B, q) = SumFunctionOnSet(BidIn, T) /\ Stake(A, q) = SumFunctionOnSet(BidIn, R)
      BY DEF Stake, R, T
    <3> QED BY <1>2, <2>2, <3>1, <3>2 DEF StakeOf
  <2> QED BY <2>1, <2>2
<1> QED BY <1>1, <1>4, <1>5

\* What everybody owns.
LEMMA FundsAre ==
    ASSUME NEW d, RowsOK(d), Separate(d.auctions), NEW q \in Player
    PROVE  /\ Funds(d, q) = Cash(d, q) + Stake(d.auctions, q)
           /\ Cash(d, q) = d.money[q] + Post(d.mails, q) /\ Stake(d.auctions, q) \in Nat
           /\ d.money[q] \in Nat /\ Post(d.mails, q) \in Nat
           /\ Funds(d, q) \in Nat /\ Cash(d, q) \in Nat
<1>1. /\ Worth(d, q) = d.money[q] + Post(d.mails, q) /\ Post(d.mails, q) \in Nat
      /\ d.money[q] \in Nat
  BY TotalIs DEF Post
<1> DEFINE f == [a \in d.auctions |-> a.bid]
           R == Bids(d, q)
<1>2. /\ IsFiniteSet(d.auctions) /\ Stake(d.auctions, q) \in Nat
      /\ \A a \in d.auctions : BidIn[a] = a.bid /\ a.bid \in Nat
  BY AuctionsAreFew
<1>3. R \in SUBSET d.auctions /\ R = {a \in d.auctions : a.bidder = q}
  BY DEF Bids
<1>4. \A a \in R : f[a] \in Int /\ f[a] = BidIn[a]
  BY <1>2, <1>3
<1>5. IsFiniteSet(R)
  BY <1>2, <1>3, FS_Subset
<1>6. Funds(d, q) = Worth(d, q) + SumFunctionOnSet(f, R)
  BY DEF Funds
<1>7. Stake(d.auctions, q) = SumFunctionOnSet(BidIn, R)
  BY <1>3 DEF Stake
<1> HIDE DEF f, R
<1>8. SumFunctionOnSet(f, R) = SumFunctionOnSet(BidIn, R)
  BY <1>4, <1>5, SumSame
<1> QED BY <1>1, <1>2, <1>6, <1>7, <1>8 DEF Cash

\* Who holds an item: the one who has it, or else it is on offer.
LEMMA HolderIs ==
    ASSUME NEW d, Fine(d), NEW i \in Item
    PROVE  /\ \A q \in Player : Has(d, q, i) => Holder(d, i) = q
           /\ \A a \in d.auctions : a.item = i =>
                 /\ Holder(d, i) = OfferOf(a) /\ Holder(d, i) \notin Player
                 /\ \A q \in Player : ~Has(d, q, i)
                 /\ \A b \in d.auctions : b.item = i => b = a
<1> DEFINE O == {OfferOf(a) : a \in {a \in d.auctions : a.item = i}}
           P(h) == h \in Player => i \in d.inv[h] \/ \E m \in d.mails : m.item = i /\ m.to = h
<1>1. Holder(d, i) = CHOOSE h \in Player \cup O : P(h)
  BY DEF Holder
<1>2. RowsSound(d) /\ i # NoItem /\ \A m \in d.mails : m.to \in Player
  BY NoItemAssumption, RowsFields DEF Fine, RowsOK, Mail
<1>3. \A a \in d.auctions : a.item = i => ~Placed(d, i) /\ a \in AuctionEntry
  BY DEF Fine, OnSale
<1>4. \A a, b \in d.auctions : a.item = b.item => a = b
  BY DEF Fine, OnSale
<1>5. \A q \in Player : Has(d, q, i) => Placed(d, i)
  BY DEF Has, Mailed, Placed
<1>6. \A h \in Player : P(h) <=> Has(d, h, i)
  BY DEF Has, Mailed
<1>7. ASSUME NEW q \in Player, Has(d, q, i)
      PROVE  Holder(d, i) = q
  <2>1. O = {}
    BY <1>3, <1>5, <1>7
  <2>2. \A p \in Player : Has(d, p, i) => p = q
    BY <1>2, <1>7 DEF Has, Mailed, RowsSound
  <2> HIDE DEF P, O
  <2>3. \A h \in Player \cup O : P(h) <=> h = q
    BY <1>6, <1>7, <2>1, <2>2
  <2>4. q \in Player \cup O
    OBVIOUS
  <2> QED BY <1>1, <2>3, <2>4
<1>8. ASSUME NEW a \in d.auctions, a.item = i
      PROVE  /\ Holder(d, i) = OfferOf(a) /\ Holder(d, i) \notin Player
             /\ \A q \in Player : ~Has(d, q, i)
  <2>1. \A q \in Player : ~Has(d, q, i)
    BY <1>3, <1>5, <1>8
  <2>2. OfferOf(a) \notin Player
    <3>1. a \in AuctionEntry
      BY <1>3, <1>8
    <3>2. OfferOf(a) \in [seller : Player, bidder : Player \cup {Nobody}, bid : Nat]
      BY <3>1 DEF OfferOf, AuctionEntry
    <3> QED BY <3>2, OfferAssumption
  <2>3. O = {OfferOf(a)}
    BY <1>4, <1>8
  <2> HIDE DEF O
  <2>4. \A h \in Player \cup O : P(h) <=> h = OfferOf(a)
    <3>1. P(OfferOf(a))
      BY <2>2
    <3> HIDE DEF P
    <3> QED BY <1>6, <2>1, <2>3, <3>1
  <2>5. OfferOf(a) \in Player \cup O
    BY <2>3
  <2> HIDE DEF P
  <2> QED BY <1>1, <2>1, <2>2, <2>4, <2>5
<1> QED BY <1>4, <1>7, <1>8

\* An item nothing was done with.
LEMMA HolderStays ==
    ASSUME NEW d, Good(d), NEW e, Fine(e), NEW j \in Item,
           \A q \in Player : Has(e, q, j) <=> Has(d, q, j),
           \A a : a.item = j => (a \in e.auctions <=> a \in d.auctions)
    PROVE  Holder(e, j) = Holder(d, j)
<1>1. CASE \E q \in Player : Has(d, q, j)
  BY <1>1, HolderIs DEF Good
<1>2. CASE \E a \in d.auctions : a.item = j
  BY <1>2, HolderIs DEF Good
<1> QED BY <1>1, <1>2 DEF Good, Plain

-----------------------------------------------------------------------------
(* What one transaction may do, in terms of the ledger. *)

\* Cut, in terms of this module.
CutOf(bid) == (bid * CutPercent) \div 100

\* All items but i stay where they are.
Elsewhere(d, e, i) == \A j \in Item : j # i => Holder(e, j) = Holder(d, j)

\* A transaction the ledger does not notice.
SameBooks(d, e) ==
    /\ \A j \in Item : Holder(e, j) = Holder(d, j)
    /\ \A q \in Player : Funds(e, q) = Funds(d, q)
    /\ Deposits(e.auctions) = Deposits(d.auctions)

\* An Offer of the ledger.
NewOffer(d, e) ==
    \E p \in Player, i \in Item :
        /\ Holder(d, i) = p /\ Funds(d, p) >= Deposit
        /\ Holder(e, i) = [seller |-> p, bidder |-> Nobody, bid |-> 0] /\ Elsewhere(d, e, i)
        /\ \A q \in Player : Funds(e, q) = Funds(d, q) - (IF q = p THEN Deposit ELSE 0)
        /\ Deposits(e.auctions) = Deposits(d.auctions) + Deposit

\* A Bid.
NewBid(d, e) ==
    \E a \in d.auctions, p \in Player, sum \in Nat :
        /\ p # a.owner /\ a.bid < sum /\ sum <= Funds(d, p)
        /\ Holder(e, a.item) = OfferOf(Raised(a, p, sum)) /\ Elsewhere(d, e, a.item)
        /\ \A q \in Player : Funds(e, q) = Funds(d, q)
        /\ Deposits(e.auctions) = Deposits(d.auctions)

\* The price is the standing bid of p, or a higher one it can afford.
Affordable(d, p, a, price) ==
    /\ p # a.owner
    /\ \/ p = a.bidder /\ price = a.bid
       \/ a.bid < price /\ price <= Funds(d, p)

\* What a sale is worth to q.
Proceeds(q, a, price) == IF q = a.owner THEN price + Deposit - CutOf(price) ELSE 0

\* A Sell or a BuyOut.
Purchase(d, e) ==
    \E a \in d.auctions, p \in Player, price \in Nat :
        /\ Affordable(d, p, a, price)
        /\ Holder(e, a.item) = p /\ Elsewhere(d, e, a.item)
        /\ \A q \in Player :
              Funds(e, q) = Funds(d, q) - (IF q = p THEN price ELSE 0) + Proceeds(q, a, price)
        /\ Deposits(e.auctions) = Deposits(d.auctions) - Deposit

\* A Withdraw.
Return(d, e) ==
    \E a \in d.auctions :
        /\ Holder(e, a.item) = a.owner /\ Elsewhere(d, e, a.item)
        /\ \A q \in Player : Funds(e, q) = Funds(d, q) - (IF q = a.owner THEN CutOf(a.bid) ELSE 0)
        /\ Deposits(e.auctions) = Deposits(d.auctions) - Deposit

Booked(d, e) ==
    SameBooks(d, e) \/ NewOffer(d, e) \/ NewBid(d, e) \/ Purchase(d, e) \/ Return(d, e)

\* The next rows, as far as they are known to be right.
After(d, e) == Good(d) /\ Fine(e) /\ e.items = d.items /\ \A m \in e.mails : m.cod = 0

\* Of the items, h gets i.
Gets(d, e, h, i) ==
    \A q \in Player, j \in Item : Has(e, q, j) <=> Has(d, q, j) \/ (q = h /\ j = i)

LEMMA FineIsSeparate ==
    ASSUME NEW d, Fine(d)
    PROVE  RowsOK(d) /\ Separate(d.auctions)
BY DEF Fine, OnSale, Separate

\* The same goods and the same money in the same auctions.
LEMMA SameIsBooked ==
    ASSUME NEW d, NEW e, After(d, e),
           e.auctions = d.auctions, \A q \in Player, j \in Item : Has(e, q, j) <=> Has(d, q, j),
           \A q \in Player : Cash(e, q) = Cash(d, q)
    PROVE  Plain(e) /\ SameBooks(d, e)
<1>0. Good(d) /\ Fine(d) /\ Plain(d) /\ Fine(e) /\ e.items = d.items /\ \A m \in e.mails : m.cod = 0
  BY DEF After, Good
<1>1. Plain(e)
  BY <1>0 DEF Plain
<1>2. \A j \in Item : Holder(e, j) = Holder(d, j)
  BY <1>0, HolderStays
<1>3. RowsOK(d) /\ RowsOK(e) /\ Separate(d.auctions) /\ Separate(e.auctions)
  BY <1>0, FineIsSeparate
<1>4. \A q \in Player : Funds(e, q) = Funds(d, q)
  BY <1>3, FundsAre
<1> QED BY <1>1, <1>2, <1>4 DEF SameBooks

LEMMA OfferIsBooked ==
    ASSUME NEW d, NEW e, After(d, e),
           NEW a, e.auctions = d.auctions \cup {a}, a \notin d.auctions,
           NEW p \in Player, NEW i \in Item, a.item = i, OfferOf(a) = [seller |-> p, bidder |-> Nobody, bid |-> 0],
           Has(d, p, i), Funds(d, p) >= Deposit,
           \A q \in Player, j \in Item : Has(e, q, j) <=> Has(d, q, j) /\ j # i,
           \A q \in Player : Cash(e, q) = Cash(d, q) - (IF q = p THEN Deposit ELSE 0)
    PROVE  Plain(e) /\ NewOffer(d, e)
<1>0. Good(d) /\ Fine(d) /\ Plain(d) /\ Fine(e) /\ e.items = d.items /\ \A m \in e.mails : m.cod = 0
  BY DEF After, Good
<1>1. a.owner = p /\ a.bidder = Nobody /\ a.bid = 0 /\ \A q \in Player : StakeOf(a, q) = 0
  BY NobodyAssumption DEF OfferOf, StakeOf
<1>2. Plain(e)
  BY <1>0, <1>1, NobodyAssumption DEF Plain
<1>3. Holder(d, i) = p
  BY <1>0, HolderIs
<1>4. Holder(e, i) = OfferOf(a)
  BY <1>0, HolderIs
<1>5. Elsewhere(d, e, i)
  <2>1. \A j \in Item : j # i => Holder(e, j) = Holder(d, j)
    BY <1>0, HolderStays
  <2> QED BY <2>1 DEF Elsewhere
<1>6. RowsOK(d) /\ RowsOK(e) /\ Separate(d.auctions) /\ Separate(e.auctions)
  BY <1>0, FineIsSeparate
<1>7. /\ \A q : Stake(e.auctions, q) = Stake(d.auctions, q) + StakeOf(a, q)
      /\ Deposits(e.auctions) = Deposits(d.auctions) + Deposit
  BY <1>6, OneAuctionMore
<1>8. ASSUME NEW q \in Player
      PROVE  Funds(e, q) = Funds(d, q) - (IF q = p THEN Deposit ELSE 0)
  <2>1. Stake(e.auctions, q) = Stake(d.auctions, q) /\ Stake(d.auctions, q) \in Nat
    <3>1. Stake(d.auctions, q) \in Nat
      BY <1>6, FundsAre
    <3>2. Stake(e.auctions, q) = Stake(d.auctions, q) + 0
      BY <1>1, <1>7
    <3> QED BY <3>1, <3>2
  <2>2. Funds(e, q) = Cash(e, q) + Stake(e.auctions, q) /\ Cash(e, q) \in Nat
    BY <1>6, FundsAre
  <2>3. Funds(d, q) = Cash(d, q) + Stake(d.auctions, q) /\ Cash(d, q) \in Nat
    BY <1>6, FundsAre
  <2> QED BY <2>1, <2>2, <2>3, AuctionAssumption
<1>9. Holder(e, i) = [seller |-> p, bidder |-> Nobody, bid |-> 0]
  BY <1>4
<1> QED BY <1>2, <1>3, <1>5, <1>7, <1>8, <1>9 DEF NewOffer

\* The auctions are B and a before, and B and perhaps another one after.
LEMMA BidIsBooked ==
    ASSUME NEW d, NEW e, After(d, e),
           NEW a, NEW p \in Player, NEW sum \in Nat, p # a.owner, a.bid < sum, sum <= Funds(d, p),
           NEW B, d.auctions = B \cup {a}, a \notin B, e.auctions = B \cup {Raised(a, p, sum)},
           \A q \in Player, j \in Item : Has(e, q, j) <=> Has(d, q, j),
           \A q \in Player : Cash(e, q) = Cash(d, q) + StakeOf(a, q) - (IF q = p THEN sum ELSE 0)
    PROVE  Plain(e) /\ NewBid(d, e)
<1>0. Good(d) /\ Fine(d) /\ Plain(d) /\ Fine(e) /\ e.items = d.items /\ \A m \in e.mails : m.cod = 0
  BY DEF After, Good
<1> DEFINE new == Raised(a, p, sum)
<1>1. RowsOK(d) /\ RowsOK(e) /\ Separate(d.auctions) /\ Separate(e.auctions)
  BY <1>0, FineIsSeparate
<1>2. a \in AuctionEntry /\ a.item \in Item /\ a.bid \in Nat
  BY <1>1 DEF Separate, AuctionEntry
<1>3. /\ new \in AuctionEntry /\ new.bid = sum /\ new.bidder = p
      /\ new.id = a.id /\ new.item = a.item /\ new.owner = a.owner
  BY <1>2, RaisedEntry DEF Raised, AuctionEntry
<1>4. e.auctions = B \cup {new}
  OBVIOUS
<1>5. OfferOf(new) = OfferOf(Raised(a, p, sum))
  OBVIOUS
<1> HIDE DEF new
<1>6. new \notin B
  BY <1>1, <1>3 DEF Separate
<1>7. Plain(e)
  BY <1>0, <1>3, <1>4, NobodyAssumption DEF Plain
<1>8. Holder(e, a.item) = OfferOf(new)
  BY <1>0, <1>2, <1>3, <1>4, HolderIs
<1>9. Elsewhere(d, e, a.item)
  <2>1. \A j \in Item : j # a.item => Holder(e, j) = Holder(d, j)
    BY <1>0, <1>3, <1>4, HolderStays
  <2> QED BY <2>1 DEF Elsewhere
<1>10. /\ \A q : Stake(d.auctions, q) = Stake(B, q) + StakeOf(a, q)
       /\ Deposits(d.auctions) = Deposits(B) + Deposit /\ Separate(B)
  BY <1>1, OneAuctionMore
<1>11. /\ \A q : Stake(e.auctions, q) = Stake(B, q) + StakeOf(new, q)
       /\ Deposits(e.auctions) = Deposits(B) + Deposit
  BY <1>1, <1>4, <1>6, OneAuctionMore
<1>12. ASSUME NEW q \in Player
       PROVE  Funds(e, q) = Funds(d, q)
  <2>1. StakeOf(new, q) = IF q = p THEN sum ELSE 0
    BY <1>3 DEF StakeOf
  <2>2. Funds(e, q) = Cash(e, q) + Stake(e.auctions, q) /\ Cash(e, q) \in Nat
    BY <1>1, FundsAre
  <2>3. Funds(d, q) = Cash(d, q) + Stake(d.auctions, q) /\ Cash(d, q) \in Nat
    BY <1>1, FundsAre
  <2>4. Stake(B, q) \in Nat /\ StakeOf(a, q) \in Nat
    BY <1>2, <1>10, AuctionsAreFew DEF StakeOf
  <2>5. Stake(d.auctions, q) = Stake(B, q) + StakeOf(a, q)
    BY <1>10
  <2>6. Stake(e.auctions, q) = Stake(B, q) + (IF q = p THEN sum ELSE 0)
    BY <1>11, <2>1
  <2>7. Cash(e, q) = Cash(d, q) + StakeOf(a, q) - (IF q = p THEN sum ELSE 0)
    OBVIOUS
  <2> QED BY ONLY sum \in Nat, <2>2, <2>3, <2>4, <2>5, <2>6, <2>7
<1>13. Deposits(e.auctions) = Deposits(d.auctions) /\ a \in d.auctions
  BY <1>10, <1>11
<1> QED BY <1>5, <1>7, <1>8, <1>9, <1>12, <1>13 DEF NewBid

\* An auction ends, and h has its item: the others are B.
Ending(d, e, a, B, h) ==
    /\ After(d, e)
    /\ d.auctions = B \cup {a} /\ a \notin B /\ e.auctions = B
    /\ h \in Player /\ Gets(d, e, h, a.item)

\* What follows from it.
Ended(d, e, a, B, h) ==
    /\ Plain(e) /\ Holder(e, a.item) = h /\ Elsewhere(d, e, a.item)
    /\ \A q \in Player : /\ Funds(d, q) = Cash(d, q) + Stake(B, q) + StakeOf(a, q)
                         /\ Funds(e, q) = Cash(e, q) + Stake(B, q)
                         /\ Stake(B, q) \in Nat /\ StakeOf(a, q) \in Nat
                         /\ Cash(d, q) \in Nat /\ Cash(e, q) \in Nat
    /\ Deposits(e.auctions) = Deposits(d.auctions) - Deposit
    /\ a \in AuctionEntry /\ a.bid \in Nat /\ a.bidder # a.owner

LEMMA AuctionEnds ==
    ASSUME NEW d, NEW e, NEW a, NEW B, NEW h, Ending(d, e, a, B, h)
    PROVE  Ended(d, e, a, B, h)
<1>e. /\ After(d, e) /\ d.auctions = B \cup {a} /\ a \notin B /\ e.auctions = B
      /\ h \in Player /\ Gets(d, e, h, a.item)
  BY DEF Ending
<1>0. Good(d) /\ Fine(d) /\ Plain(d) /\ Fine(e) /\ e.items = d.items /\ \A m \in e.mails : m.cod = 0
  BY <1>e DEF After, Good
<1>1. RowsOK(d) /\ RowsOK(e) /\ Separate(d.auctions) /\ Separate(e.auctions)
  BY <1>0, FineIsSeparate
<1>2. a \in AuctionEntry /\ a.item \in Item /\ a.bid \in Nat /\ a \in d.auctions
  BY <1>1, <1>e DEF Separate, AuctionEntry
<1>3. Plain(e) /\ a.bidder # a.owner
  BY <1>0, <1>2, <1>e DEF Plain, Gets
<1>4. Holder(e, a.item) = h
  BY <1>0, <1>2, <1>e, HolderIs DEF Gets
<1>5. Elsewhere(d, e, a.item)
  <2>1. \A j \in Item : j # a.item => Holder(e, j) = Holder(d, j)
    BY <1>0, <1>e, HolderStays DEF Gets
  <2> QED BY <2>1 DEF Elsewhere
<1>6. /\ \A q : Stake(d.auctions, q) = Stake(B, q) + StakeOf(a, q)
      /\ Deposits(d.auctions) = Deposits(B) + Deposit /\ Separate(B)
  BY <1>1, <1>e, OneAuctionMore
<1>7. ASSUME NEW q \in Player
      PROVE  /\ Funds(d, q) = Cash(d, q) + Stake(B, q) + StakeOf(a, q)
             /\ Funds(e, q) = Cash(e, q) + Stake(B, q)
             /\ Stake(B, q) \in Nat /\ StakeOf(a, q) \in Nat
             /\ Cash(d, q) \in Nat /\ Cash(e, q) \in Nat
  <2>1. Funds(e, q) = Cash(e, q) + Stake(e.auctions, q) /\ Cash(e, q) \in Nat
    BY <1>1, FundsAre
  <2>2. Funds(d, q) = Cash(d, q) + Stake(d.auctions, q) /\ Cash(d, q) \in Nat
    BY <1>1, FundsAre
  <2>3. Stake(B, q) \in Nat /\ StakeOf(a, q) \in Nat
    BY <1>2, <1>6, AuctionsAreFew DEF StakeOf
  <2>4. Stake(d.auctions, q) = Stake(B, q) + StakeOf(a, q) /\ e.auctions = B
    BY <1>6, <1>e
  <2> QED BY ONLY <2>1, <2>2, <2>3, <2>4
<1>8. Deposits(e.auctions) = Deposits(d.auctions) - Deposit
  <2>1. Deposits(B) \in Nat /\ Deposit \in Nat
    BY <1>6, AuctionsAreFew, AuctionAssumption
  <2> QED BY <1>6, <1>e, <2>1
<1> QED BY <1>2, <1>3, <1>4, <1>5, <1>7, <1>8 DEF Ended

LEMMA PurchaseIsBooked ==
    ASSUME NEW d, NEW e, NEW a, NEW B, NEW p, Ending(d, e, a, B, p),
           NEW price \in Nat, Affordable(d, p, a, price),
           \A q \in Player : Cash(e, q) = Cash(d, q) + StakeOf(a, q)
                                 - (IF q = p THEN price ELSE 0) + Proceeds(q, a, price)
    PROVE  Plain(e) /\ Purchase(d, e)
<1>1. /\ Plain(e) /\ Holder(e, a.item) = p /\ Elsewhere(d, e, a.item)
      /\ \A q \in Player : /\ Funds(d, q) = Cash(d, q) + Stake(B, q) + StakeOf(a, q)
                           /\ Funds(e, q) = Cash(e, q) + Stake(B, q)
                           /\ Stake(B, q) \in Nat /\ StakeOf(a, q) \in Nat
                           /\ Cash(d, q) \in Nat /\ Cash(e, q) \in Nat
      /\ Deposits(e.auctions) = Deposits(d.auctions) - Deposit
  BY AuctionEnds DEF Ended
<1>2. ASSUME NEW q \in Player
      PROVE  Funds(e, q) = Funds(d, q) - (IF q = p THEN price ELSE 0) + Proceeds(q, a, price)
  <2>1. Proceeds(q, a, price) \in Int
    <3>1. CutOf(price) \in Int
      <4>1. price * CutPercent \in Int
        BY AuctionAssumption
      <4> QED BY <4>1 DEF CutOf
    <3> QED BY <3>1, AuctionAssumption DEF Proceeds
  <2>2. Cash(e, q) = Cash(d, q) + StakeOf(a, q) - (IF q = p THEN price ELSE 0) + Proceeds(q, a, price)
    OBVIOUS
  <2> DEFINE x == IF q = p THEN price ELSE 0
  <2>3. x \in Int /\ Cash(e, q) = Cash(d, q) + StakeOf(a, q) - x + Proceeds(q, a, price)
    BY <2>2
  <2> HIDE DEF x
  <2>4. Funds(e, q) = Funds(d, q) - x + Proceeds(q, a, price)
    BY <1>1, <2>1, <2>3
  <2> QED BY <2>4 DEF x
<1>3. a \in d.auctions /\ p \in Player
  BY DEF Ending
<1> QED BY <1>1, <1>2, <1>3 DEF Purchase

LEMMA ReturnIsBooked ==
    ASSUME NEW d, NEW e, NEW a, NEW B, Ending(d, e, a, B, a.owner),
           \A q \in Player : Cash(e, q) = Cash(d, q) + StakeOf(a, q)
                                 - (IF q = a.owner THEN CutOf(a.bid) ELSE 0)
    PROVE  Plain(e) /\ Return(d, e)
<1>1. /\ Plain(e) /\ Holder(e, a.item) = a.owner /\ Elsewhere(d, e, a.item)
      /\ \A q \in Player : /\ Funds(d, q) = Cash(d, q) + Stake(B, q) + StakeOf(a, q)
                           /\ Funds(e, q) = Cash(e, q) + Stake(B, q)
                           /\ Stake(B, q) \in Nat /\ StakeOf(a, q) \in Nat
                           /\ Cash(d, q) \in Nat /\ Cash(e, q) \in Nat
      /\ Deposits(e.auctions) = Deposits(d.auctions) - Deposit
      /\ a \in AuctionEntry
  BY AuctionEnds DEF Ended
<1>2. ASSUME NEW q \in Player
      PROVE  Funds(e, q) = Funds(d, q) - (IF q = a.owner THEN CutOf(a.bid) ELSE 0)
  <2> DEFINE x == IF q = a.owner THEN CutOf(a.bid) ELSE 0
  <2>1. CutOf(a.bid) \in Int
    BY <1>1, CutIsLess DEF CutOf, AuctionCut
  <2>2. x \in Int /\ Cash(e, q) = Cash(d, q) + StakeOf(a, q) - x
    BY <2>1
  <2> HIDE DEF x
  <2>3. Funds(e, q) = Funds(d, q) - x
    BY <1>1, <2>2
  <2> QED BY <2>3 DEF x
<1>3. a \in d.auctions /\ a.owner \in Player
  BY DEF Ending
<1> QED BY <1>1, <1>2, <1>3 DEF Return

-----------------------------------------------------------------------------
(* Nobody gets rich: all funds and deposits together. *)

FundsOf(d) == [q \in Player |-> Funds(d, q)]

\* All money there is, and that there is no more of it than at the beginning.
Estate(d) == SumFunctionOnSet(FundsOf(d), Player) + Deposits(d.auctions)

Thrifty(d) == Estate(d) <= SumFunctionOnSet([p \in Player |-> StartMoney], Player)

LEMMA FundsAreFine ==
    ASSUME NEW d, Fine(d)
    PROVE  /\ \A q \in Player : FundsOf(d)[q] = Funds(d, q) /\ Funds(d, q) \in Nat
                                /\ Funds(d, q) <= Estate(d)
           /\ SumFunctionOnSet(FundsOf(d), Player) \in Nat /\ Deposits(d.auctions) \in Nat
<1>1. RowsOK(d) /\ Separate(d.auctions)
  BY FineIsSeparate
<1>2. \A q \in Player : FundsOf(d)[q] = Funds(d, q) /\ Funds(d, q) \in Nat
  BY <1>1, FundsAre DEF FundsOf
<1>3. Deposits(d.auctions) \in Nat
  BY <1>1, AuctionsAreFew
<1>4. SumFunctionOnSet(FundsOf(d), Player) \in Nat
  BY <1>2, PlayerAssumption, SumPart
<1>5. ASSUME NEW q \in Player
      PROVE  Funds(d, q) <= SumFunctionOnSet(FundsOf(d), Player)
  <2> DEFINE R == Player \ {q}
  <2>1. SumFunctionOnSet(FundsOf(d), Player) = FundsOf(d)[q] + SumFunctionOnSet(FundsOf(d), R)
    <3>1. \A x \in Player : FundsOf(d)[x] \in Int
      BY <1>2
    <3> QED BY <3>1, PlayerAssumption, SumOut
  <2>2. R \in SUBSET Player /\ \A x \in Player : FundsOf(d)[x] \in Nat
    BY <1>2
  <2> HIDE DEF R
  <2>3. SumFunctionOnSet(FundsOf(d), R) \in Nat
    BY <2>2, PlayerAssumption, SumPart
  <2> QED BY <1>2, <2>1, <2>3
<1> QED BY <1>2, <1>3, <1>4, <1>5 DEF Estate

LEMMA CutOfPrice ==
    ASSUME NEW price \in Nat
    PROVE  CutOf(price) \in Nat
<1>1. CutPercent \in Nat
  BY AuctionAssumption
<1>2. price * CutPercent \in Nat
  BY <1>1
<1> QED BY <1>2 DEF CutOf

LEMMA BookedIsThrifty ==
    ASSUME NEW d, Good(d), Thrifty(d), NEW e, Fine(e), Booked(d, e)
    PROVE  Thrifty(e)
<1> DEFINE f == FundsOf(d)
           g == FundsOf(e)
           F == SumFunctionOnSet(f, Player)
           D == SumFunctionOnSet(g, Player)
<1>1. /\ \A q \in Player : /\ f[q] = Funds(d, q) /\ g[q] = Funds(e, q)
                           /\ f[q] \in Int /\ g[q] \in Int
      /\ F \in Nat /\ D \in Nat
      /\ Deposits(d.auctions) \in Nat /\ Deposits(e.auctions) \in Nat /\ Deposit \in Nat
  BY FundsAreFine, AuctionAssumption DEF Good
<1>2. \A a \in d.auctions : a.owner \in Player /\ a.bidder # a.owner /\ a.bid \in Nat
  BY DEF Good, Plain, Fine, OnSale, AuctionEntry
<1> HIDE DEF f, g
<1>3. ASSUME \A q \in Player : Funds(e, q) = Funds(d, q)
      PROVE  D = F
  BY <1>1, <1>3, PlayerAssumption, SumSame
<1>4. ASSUME NEW p \in Player, NEW x \in Int,
             \A q \in Player : Funds(e, q) = Funds(d, q) - (IF q = p THEN x ELSE 0)
      PROVE  D = F - x
  <2>1. \A q \in Player \ {p} : f[q] = g[q]
    BY <1>1, <1>4
  <2>2. D = F + (g[p] - f[p])
    BY <1>1, <2>1, PlayerAssumption, SumChange
  <2>3. g[p] = f[p] - x
    BY <1>1, <1>4
  <2> QED BY <1>1, <2>2, <2>3
<1>5. F + Deposits(d.auctions) = Estate(d) /\ D + Deposits(e.auctions) = Estate(e)
  BY DEF Estate, f, g
<1>6. Estate(e) <= Estate(d)
  <2>1. CASE SameBooks(d, e)
    BY <1>1, <1>3, <1>5, <2>1 DEF SameBooks
  <2>2. CASE NewOffer(d, e)
    <3>1. PICK p \in Player : \A q \in Player : Funds(e, q) = Funds(d, q) - (IF q = p THEN Deposit ELSE 0)
      BY <2>2 DEF NewOffer
    <3>2. D = F - Deposit
      BY <1>1, <1>4, <3>1
    <3>3. Deposits(e.auctions) = Deposits(d.auctions) + Deposit
      BY <2>2 DEF NewOffer
    <3> QED BY <1>1, <1>5, <3>2, <3>3
  <2>3. CASE NewBid(d, e)
    BY <1>1, <1>3, <1>5, <2>3 DEF NewBid
  <2>4. CASE Purchase(d, e)
    <3>1. PICK a \in d.auctions, p \in Player, price \in Nat :
             /\ Affordable(d, p, a, price)
             /\ \A q \in Player :
                   Funds(e, q) = Funds(d, q) - (IF q = p THEN price ELSE 0) + Proceeds(q, a, price)
             /\ Deposits(e.auctions) = Deposits(d.auctions) - Deposit
      BY <2>4 DEF Purchase
    <3>2. p # a.owner /\ a.owner \in Player
      BY <1>2, <3>1 DEF Affordable
    <3>3. CutOf(price) \in Nat
      BY CutOfPrice
    <3>4. g[p] = f[p] - price /\ g[a.owner] = f[a.owner] + (price + Deposit - CutOf(price))
      BY <1>1, <3>1, <3>2, <3>3 DEF Proceeds
    <3>5. \A q \in Player \ {p, a.owner} : f[q] = g[q]
      BY <1>1, <3>1 DEF Proceeds
    <3>6. D = F + (g[p] - f[p]) + (g[a.owner] - f[a.owner])
      BY <1>1, <3>2, <3>5, PlayerAssumption, SumTwo
    <3>7. D = F + Deposit - CutOf(price)
      BY <1>1, <3>2, <3>3, <3>4, <3>6
    <3> QED BY <1>1, <1>5, <3>1, <3>3, <3>7
  <2>5. CASE Return(d, e)
    <3>1. PICK a \in d.auctions :
             /\ \A q \in Player : Funds(e, q) = Funds(d, q) - (IF q = a.owner THEN CutOf(a.bid) ELSE 0)
             /\ Deposits(e.auctions) = Deposits(d.auctions) - Deposit
      BY <2>5 DEF Return
    <3>2. CutOf(a.bid) \in Nat /\ a.owner \in Player
      BY <1>2, CutOfPrice
    <3>3. D = F - CutOf(a.bid)
      BY <1>4, <3>1, <3>2
    <3> QED BY <1>1, <1>5, <3>1, <3>2, <3>3
  <2> QED BY <2>1, <2>2, <2>3, <2>4, <2>5 DEF Booked
<1>7. SumFunctionOnSet([p \in Player |-> StartMoney], Player) \in Int /\ Estate(e) \in Int /\ Estate(d) \in Int
  <2> DEFINE z == [p \in Player |-> StartMoney]
  <2>1. \A p \in Player : z[p] \in Int
    BY MoneyAssumption
  <2> HIDE DEF z
  <2>2. SumFunctionOnSet(z, Player) \in Int
    BY <2>1, PlayerAssumption, SumInt
  <2> QED BY <1>1, <1>5, <2>2 DEF z
<1> QED BY <1>6, <1>7 DEF Thrifty

-----------------------------------------------------------------------------
(* What a transaction may do is a step of the ledger. *)

LEMMA BookedIsStep ==
    ASSUME Good(db), NEW e, e = db', Fine(e), Booked(db, e)
    PROVE  [L!LedgerNext]_(L!ledgerVars)
<1> DEFINE h == [i \in Item |-> Holder(db, i)]
           k == [i \in Item |-> Holder(e, i)]
           f == [p \in Player |-> Funds(db, p)]
           g == [p \in Player |-> Funds(e, p)]
<1>1. /\ \A i \in Item : h[i] = Holder(db, i) /\ k[i] = Holder(e, i)
      /\ h = [i \in Item |-> h[i]] /\ k = [i \in Item |-> k[i]]
      /\ f = [i \in Player |-> f[i]] /\ g = [i \in Player |-> g[i]]
      /\ \A q \in Player : f[q] = Funds(db, q) /\ g[q] = Funds(e, q)
  OBVIOUS
<1>2. \A q \in Player : f[q] \in Nat
  BY FundsAreFine DEF Good
<1>3. Fine(db) /\ Plain(db) /\ Deposit \in Nat
  BY AuctionAssumption DEF Good
<1>4. \A a \in db.auctions :
          /\ a \in AuctionEntry /\ a.item \in Item /\ a.owner \in Player /\ a.bid \in Nat
          /\ a.bidder # a.owner
          /\ h[a.item] = OfferOf(a) /\ h[a.item] \notin Player
  <2>1. \A a \in db.auctions : a \in AuctionEntry /\ a.item \in Item
    BY <1>3 DEF Fine, OnSale, AuctionEntry
  <2>2. \A a \in db.auctions : Holder(db, a.item) = OfferOf(a) /\ Holder(db, a.item) \notin Player
    BY <1>3, <2>1, HolderIs
  <2> QED BY <1>1, <1>3, <2>1, <2>2 DEF AuctionEntry, Plain
<1>5. \A b : L!Cut(b) = CutOf(b)
  BY DEF L!Cut, CutOf
<1>6. /\ h = [i \in Item |-> Holder(db, i)] /\ k = [i \in Item |-> Holder(db', i)]
      /\ f = [p \in Player |-> Funds(db, p)] /\ g = [p \in Player |-> Funds(db', p)]
  OBVIOUS
<1> HIDE DEF h, k, f, g
<1>7. ASSUME NEW i \in Item, Elsewhere(db, e, i)
      PROVE  k = [h EXCEPT ![i] = k[i]]
  <2>1. \A j \in Item : j # i => k[j] = h[j]
    BY <1>1, <1>7 DEF Elsewhere
  <2> QED BY <1>1, <2>1, ChangeOne
<1>8. CASE SameBooks(db, e)
  <2>1. h = k /\ f = g
    BY <1>1, <1>8 DEF SameBooks
  <2> QED BY <1>6, <2>1 DEF L!ledgerVars
<1>9. CASE NewOffer(db, e)
  <2>1. PICK p \in Player, i \in Item :
        /\ Holder(db, i) = p /\ Funds(db, p) >= Deposit
        /\ Holder(e, i) = [seller |-> p, bidder |-> Nobody, bid |-> 0] /\ Elsewhere(db, e, i)
        /\ \A q \in Player : Funds(e, q) = Funds(db, q) - (IF q = p THEN Deposit ELSE 0)
    BY <1>9 DEF NewOffer
  <2>2. h[i] = p /\ f[p] >= Deposit
    BY <1>1, <2>1
  <2>3. k = [h EXCEPT ![i] = [seller |-> p, bidder |-> Nobody, bid |-> 0]]
    BY <1>1, <1>7, <2>1
  <2>4. g = [f EXCEPT ![p] = @ - Deposit]
    <3>1. \A q \in Player : g[q] = IF q = p THEN f[q] - Deposit ELSE f[q]
      BY <1>1, <1>2, <2>1
    <3> QED BY <1>1, <3>1
  <2>5. L!Offer(i)
    BY <1>6, <2>2, <2>3, <2>4 DEF L!Offer, L!OnOffer
  <2> QED BY <2>5 DEF L!LedgerNext
<1>10. CASE NewBid(db, e)
  <2>1. PICK a \in db.auctions, p \in Player, sum \in Nat :
        /\ p # a.owner /\ a.bid < sum /\ sum <= Funds(db, p)
        /\ Holder(e, a.item) = OfferOf(Raised(a, p, sum)) /\ Elsewhere(db, e, a.item)
        /\ \A q \in Player : Funds(e, q) = Funds(db, q)
    BY <1>10 DEF NewBid
  <2> DEFINE i == a.item
  <2>2. i \in Item /\ h[i] \notin Player /\ h[i].seller # p /\ h[i].bid = a.bid /\ h[i] = OfferOf(a)
    BY <1>4, <2>1 DEF OfferOf
  <2>3. g = f
    BY <1>1, <2>1
  <2>4. sum \in (h[i].bid + 1)..f[p]
    BY <1>1, <1>2, <1>4, <2>1, <2>2
  <2>5. k = [h EXCEPT ![i].bidder = p, ![i].bid = sum]
    <3>1. k[i] = [[h[i] EXCEPT !.bidder = p] EXCEPT !.bid = sum]
      <4>1. a \in AuctionEntry
        BY <1>4
      <4>2. OfferOf(Raised(a, p, sum)) = [[OfferOf(a) EXCEPT !.bidder = p] EXCEPT !.bid = sum]
        <5>1. OfferOf(Raised(a, p, sum)) = [seller |-> a.owner, bidder |-> p, bid |-> sum]
          BY <4>1 DEF OfferOf, Raised, AuctionEntry
        <5>2. [OfferOf(a) EXCEPT !.bidder = p] = [seller |-> a.owner, bidder |-> p, bid |-> a.bid]
          BY DEF OfferOf
        <5>3. [[seller |-> a.owner, bidder |-> p, bid |-> a.bid] EXCEPT !.bid = sum]
                  = [seller |-> a.owner, bidder |-> p, bid |-> sum]
          OBVIOUS
        <5> QED BY <5>1, <5>2, <5>3
      <4> QED BY <1>1, <2>1, <2>2, <4>2
    <3>2. k = [h EXCEPT ![i] = k[i]]
      BY <1>7, <2>1, <2>2
    <3> HIDE DEF i
    <3> QED BY <1>1, <2>2, <3>1, <3>2
  <2> HIDE DEF i
  <2>6. L!Bid(i, p)
    BY <1>6, <2>2, <2>3, <2>4, <2>5 DEF L!Bid, L!OnOffer
  <2> QED BY <2>2, <2>6 DEF L!LedgerNext
<1>11. CASE Purchase(db, e)
  <2>1. PICK a \in db.auctions, p \in Player, price \in Nat :
        /\ Affordable(db, p, a, price)
        /\ Holder(e, a.item) = p /\ Elsewhere(db, e, a.item)
        /\ \A q \in Player :
              Funds(e, q) = Funds(db, q) - (IF q = p THEN price ELSE 0) + Proceeds(q, a, price)
    BY <1>11 DEF Purchase
  <2> DEFINE i == a.item
             s == a.owner
  <2>2. /\ i \in Item /\ h[i] \notin Player /\ h[i].seller = s /\ h[i].bid = a.bid
        /\ h[i].bidder = a.bidder /\ s \in Player /\ p # s
    <3>1. i \in Item /\ h[i] \notin Player /\ h[i] = OfferOf(a) /\ s \in Player /\ p # s
      BY <1>4, <2>1 DEF Affordable
    <3> HIDE DEF i
    <3> QED BY <3>1 DEF OfferOf
  <2>3. k = [h EXCEPT ![i] = p]
    BY <1>1, <1>7, <2>1, <2>2
  <2>4. g = [f EXCEPT ![p] = @ - price, ![s] = @ + price + Deposit - L!Cut(price)]
    <3>1. CutOf(price) \in Nat
      BY CutOfPrice
    <3>2. \A q \in Player : g[q] = IF q = s THEN f[s] + price + Deposit - CutOf(price)
                                   ELSE IF q = p THEN f[q] - price ELSE f[q]
      <4>1. ASSUME NEW q \in Player
            PROVE  g[q] = f[q] - (IF q = p THEN price ELSE 0) + Proceeds(q, a, price)
        BY <1>1, <2>1
      <4> QED BY <1>2, <1>3, <2>2, <3>1, <4>1 DEF Proceeds
    <3> HIDE DEF s
    <3> QED BY <1>1, <1>5, <2>2, <3>2
  <2> HIDE DEF i, s
  <2>5. L!Sale(i, p, price)
    BY <1>6, <2>2, <2>3, <2>4 DEF L!Sale
  <2>6. CASE p = a.bidder /\ price = a.bid
    <3>1. L!Sell(i)
      BY <1>6, <2>2, <2>5, <2>6, NobodyAssumption DEF L!Sell, L!OnOffer
    <3> QED BY <2>2, <3>1 DEF L!LedgerNext
  <2>7. CASE a.bid < price /\ price <= Funds(db, p)
    <3>1. price \in (h[i].bid + 1)..f[p]
      BY <1>1, <1>2, <1>4, <2>1, <2>2, <2>7
    <3>2. L!BuyOut(i, p)
      BY <1>6, <2>2, <2>5, <3>1 DEF L!BuyOut, L!OnOffer
    <3> QED BY <2>2, <3>2 DEF L!LedgerNext
  <2> QED BY <2>1, <2>6, <2>7 DEF Affordable
<1>12. CASE Return(db, e)
  <2>1. PICK a \in db.auctions :
        /\ Holder(e, a.item) = a.owner /\ Elsewhere(db, e, a.item)
        /\ \A q \in Player : Funds(e, q) = Funds(db, q) - (IF q = a.owner THEN CutOf(a.bid) ELSE 0)
    BY <1>12 DEF Return
  <2> DEFINE i == a.item
             s == a.owner
  <2>2. /\ i \in Item /\ h[i] \notin Player /\ h[i].seller = s /\ h[i].bid = a.bid
        /\ s \in Player
    <3>1. i \in Item /\ h[i] \notin Player /\ h[i] = OfferOf(a) /\ s \in Player
      BY <1>4, <2>1
    <3> HIDE DEF i
    <3> QED BY <3>1 DEF OfferOf
  <2>3. k = [h EXCEPT ![i] = s]
    BY <1>1, <1>7, <2>1, <2>2
  <2>4. g = [f EXCEPT ![s] = @ - L!Cut(a.bid)]
    <3>1. CutOf(a.bid) \in Nat
      BY <1>4, CutOfPrice
    <3>2. \A q \in Player : g[q] = IF q = s THEN f[s] - CutOf(a.bid) ELSE f[q]
      BY <1>1, <1>2, <2>1, <3>1
    <3> HIDE DEF s
    <3> QED BY <1>1, <1>5, <2>2, <3>2
  <2> HIDE DEF i, s
  <2>5. L!Withdraw(i)
    BY <1>6, <2>2, <2>3, <2>4 DEF L!Withdraw, L!OnOffer
  <2> QED BY <2>2, <2>5 DEF L!LedgerNext
<1> QED BY <1>8, <1>9, <1>10, <1>11, <1>12 DEF Booked

-----------------------------------------------------------------------------
(* The mails of a transaction, one after the other. *)

\* From the mails S to the mails T, to is sent the item i and the sum x.
Adds(S, T, to, i, x) ==
    \A q \in Player : /\ Post(T, q) = Post(S, q) + (IF q = to THEN x ELSE 0)
                      /\ \A j \in Item : Mailed(T, q, j) <=> Mailed(S, q, j) \/ (q = to /\ j = i)

\* Mails with ids of their own that are in use.
Known(M) == M \subseteq Mail /\ OneEach(M) /\ \A m \in M : m.id \in UsedIds

LEMMA PostIsNat ==
    ASSUME NEW S, S \subseteq Mail, OneEach(S)
    PROVE  \A q : Post(S, q) \in Nat
<1>1. ASSUME NEW q PROVE Post(S, q) \in Nat
  <2>1. {m \in S : m.to = q} \in SUBSET S
    OBVIOUS
  <2>2. \A R \in SUBSET S : InMail(R) \in Nat
    BY MailMoney
  <2> QED BY <2>1, <2>2 DEF Post
<1> QED BY <1>1

\* One mail more, to one receiver.
LEMMA OnePostMore ==
    ASSUME NEW S, NEW m \in Mail, m \notin S, S \cup {m} \subseteq Mail, OneEach(S \cup {m})
    PROVE  Adds(S, S \cup {m}, m.to, m.item, m.money)
<1> DEFINE T == S \cup {m}
<1>1. S \subseteq Mail /\ OneEach(S) /\ m.money \in Nat
  BY DEF OneEach, Mail
<1>2. ASSUME NEW q \in Player
      PROVE  Post(T, q) = Post(S, q) + (IF q = m.to THEN m.money ELSE 0)
  <2> DEFINE R == {n \in S : n.to = q}
             Q == {n \in T : n.to = q}
  <2>1. R \subseteq Mail /\ OneEach(R) /\ m \notin R
    BY <1>1 DEF OneEach
  <2>2. Q = IF q = m.to THEN R \cup {m} ELSE R
    OBVIOUS
  <2>3. Post(S, q) = InMail(R) /\ Post(T, q) = InMail(Q)
    BY DEF Post
  <2> HIDE DEF R, Q
  <2>4. InMail(R) \in Nat
    BY <2>1, MailMoney
  <2>5. InMail(R \cup {m}) = InMail(R) + m.money
    BY <2>1, OneMailMore
  <2> QED BY <1>1, <2>2, <2>3, <2>4, <2>5
<1>3. \A q \in Player, j \in Item : Mailed(T, q, j) <=> Mailed(S, q, j) \/ (q = m.to /\ j = m.item)
  BY DEF Mailed
<1> QED BY <1>2, <1>3 DEF Adds

LEMMA AuctionLetter ==
    ASSUME NEW to \in Player, NEW i \in Item \cup {NoItem}, NEW x \in Nat
    PROVE  \/ i = NoItem /\ x = 0 /\ AuctionMail(to, i, x) = <<>>
           \/ \E n \in Draft : /\ AuctionMail(to, i, x) = <<n>>
                               /\ n.to = to /\ n.item = i /\ n.money = x /\ n.cod = 0
<1> DEFINE l == [id |-> 0, from |-> Nobody, to |-> to, item |-> i, money |-> x, cod |-> 0,
                 kind |-> "MAIL_NORMAL", checked |-> "none", state |-> "unchanged"]
           n == [l EXCEPT !.kind = "MAIL_AUCTION"]
<1>1. l \in Draft /\ l.item = i /\ l.money = x /\ l.cod = 0 /\ l.to = to
  BY DEF Draft
<1>2. CASE i = NoItem /\ x = 0
  BY <1>2 DEF AuctionMail
<1>3. CASE ~(i = NoItem /\ x = 0)
  <2>1. Letter(Nobody, to, i, x) = <<l>>
    BY <1>3 DEF Letter
  <2>2. AuctionMail(to, i, x) = <<n>>
    BY <1>3, <2>1 DEF AuctionMail
  <2> HIDE DEF l
  <2>3. n \in Draft /\ n.item = i /\ n.money = x /\ n.cod = 0 /\ n.to = to
    BY <1>1 DEF Draft
  <2> QED BY <2>2, <2>3
<1> QED BY <1>2, <1>3

\* One draft more.
LEMMA OneDraftMore ==
    ASSUME NEW s \in Seq(Draft), NEW n \in Draft, RoomFor(Append(s, n))
    PROVE  /\ RoomFor(s)
           /\ \E m \in Mail : /\ m \notin Sent(s) /\ Sent(Append(s, n)) = Sent(s) \cup {m}
                              /\ m.to = n.to /\ m.item = n.item /\ m.money = n.money /\ m.cod = n.cod
<1> DEFINE u == Append(s, n)
           l == Len(s) + 1
           m == [n EXCEPT !.id = FreeIds[l]]
           c == Cardinality(MailId \ UsedIds)
<1>1. /\ c \in Nat /\ FreeIds \in [1..c -> MailId \ UsedIds] /\ IsInjective(FreeIds)
  BY FreeIdsAreFree
<1>2. /\ Len(s) \in Nat /\ u \in Seq(Draft) /\ Len(u) = l /\ u[l] = n
      /\ \A k \in 1..Len(s) : u[k] = s[k]
  BY AppendProperties, LenProperties
<1>3. DOMAIN s = 1..Len(s) /\ DOMAIN u = 1..l
  BY <1>2, LenProperties
<1>4. FreeIds \in Seq(MailId \ UsedIds) /\ Len(FreeIds) = c
  <2> DEFINE S == MailId \ UsedIds
  <2>1. FreeIds \in [1..c -> S]
    BY <1>1
  <2> HIDE DEF S, c
  <2>2. FreeIds \in Seq(S)
    BY <1>1, <2>1, IsASeq
  <2>3. Len(FreeIds) \in Nat /\ DOMAIN FreeIds = 1..Len(FreeIds) /\ DOMAIN FreeIds = 1..c
    BY <2>1, <2>2, LenProperties
  <2> QED BY <1>1, <2>2, <2>3 DEF S
<1>5. l <= c
  BY <1>2, <1>4 DEF RoomFor
<1>6. RoomFor(s)
  BY <1>1, <1>2, <1>4, <1>5 DEF RoomFor
<1> HIDE DEF u, c
<1>7. DOMAIN FreeIds = 1..c /\ l \in DOMAIN FreeIds /\ FreeIds[l] \in MailId
  BY <1>1, <1>2, <1>5
<1>8. /\ m \in Mail /\ m.id = FreeIds[l]
      /\ m.to = n.to /\ m.item = n.item /\ m.money = n.money /\ m.cod = n.cod
  BY <1>7 DEF Draft, Mail
<1>9. Sent(u) = Sent(s) \cup {m}
  <2>1. ASSUME NEW x \in Sent(s) PROVE x \in Sent(u)
    BY <1>2, <1>3, <1>7 DEF Sent
  <2>2. m \in Sent(u)
    BY <1>2, <1>3, <1>7 DEF Sent
  <2>3. ASSUME NEW x \in Sent(u) PROVE x \in Sent(s) \cup {m}
    <3>1. PICK k \in DOMAIN u \cap DOMAIN FreeIds : x = [u[k] EXCEPT !.id = FreeIds[k]]
      BY DEF Sent
    <3>2. CASE k = l
      BY <1>2, <3>1, <3>2
    <3>3. CASE k # l
      <4>1. k \in DOMAIN s \cap DOMAIN FreeIds
        BY <1>2, <1>3, <3>1, <3>3
      <4> QED BY <1>2, <1>3, <3>1, <4>1 DEF Sent
    <3> QED BY <3>2, <3>3
  <2> QED BY <2>1, <2>2, <2>3
<1>10. m \notin Sent(s)
  <2>1. ASSUME NEW x \in Sent(s) PROVE x.id # FreeIds[l]
    <3>1. PICK k \in 1..Len(s) : k \in DOMAIN FreeIds /\ x.id = FreeIds[k]
      BY SentDrafts
    <3>2. k # l
      BY <1>2, <3>1
    <3> QED BY <1>1, <1>7, <3>1, <3>2 DEF IsInjective
  <2> QED BY <1>8, <2>1
<1> HIDE DEF m
<1>11. Sent(Append(s, n)) = Sent(s) \cup {m}
  BY <1>9 DEF u
<1> QED BY <1>6, <1>8, <1>10, <1>11

\* The letters so far, and one more.
LEMMA OneLetter ==
    ASSUME NEW M, Known(M), NEW s, NEW G, Notices(s, G), NEW to \in Player,
           NEW i \in Item \cup {NoItem}, NEW x \in Nat, RoomFor(s \o AuctionMail(to, i, x))
    PROVE  Adds(M \cup Sent(s), M \cup Sent(s \o AuctionMail(to, i, x)), to, i, x) /\ RoomFor(s)
<1> DEFINE S == M \cup Sent(s)
<1>1. s \in Seq(Draft) /\ M \subseteq Mail /\ OneEach(M) /\ \A m \in M : m.id \in UsedIds
  BY DEF Notices, Known
<1>2. CASE i = NoItem /\ x = 0 /\ AuctionMail(to, i, x) = <<>>
  <2>1. s \o AuctionMail(to, i, x) = s
    BY <1>1, <1>2, ConcatEmptySeq
  <2>2. S \subseteq Mail /\ OneEach(S)
    BY <1>1, SentDrafts DEF Fresh, OneEach
  <2> HIDE DEF S
  <2>3. \A q : Post(S, q) \in Nat
    BY <2>2, PostIsNat
  <2>4. Adds(S, S, to, i, x)
    BY <1>2, <2>3, NoItemAssumption DEF Adds
  <2> QED BY <2>1, <2>4 DEF S
<1>3. CASE \E n \in Draft : /\ AuctionMail(to, i, x) = <<n>>
                            /\ n.to = to /\ n.item = i /\ n.money = x /\ n.cod = 0
  <2>1. PICK n \in Draft : /\ AuctionMail(to, i, x) = <<n>>
                           /\ n.to = to /\ n.item = i /\ n.money = x /\ n.cod = 0
    BY <1>3
  <2>2. s \o AuctionMail(to, i, x) = Append(s, n)
    BY <1>1, <2>1, AppendIsConcat
  <2>3. RoomFor(Append(s, n)) /\ Append(s, n) \in Seq(Draft)
    BY <1>1, <2>2, AppendProperties
  <2>4. RoomFor(s)
    BY <1>1, <2>3, OneDraftMore
  <2>5. PICK m \in Mail : /\ m \notin Sent(s) /\ Sent(Append(s, n)) = Sent(s) \cup {m}
                          /\ m.to = n.to /\ m.item = n.item /\ m.money = n.money /\ m.cod = n.cod
    BY <1>1, <2>3, OneDraftMore
  <2>6. Fresh(Sent(s) \cup {m})
    BY <2>3, <2>5, SentDrafts
  <2>7. S \cup {m} \subseteq Mail /\ OneEach(S \cup {m}) /\ m \notin S
    BY <1>1, <2>5, <2>6 DEF Fresh, OneEach
  <2>8. M \cup Sent(s \o AuctionMail(to, i, x)) = S \cup {m}
    BY <2>2, <2>5
  <2> HIDE DEF S
  <2>9. Adds(S, S \cup {m}, m.to, m.item, m.money)
    BY <2>7, OnePostMore
  <2>10. Adds(S, S \cup {m}, to, i, x)
    BY <2>1, <2>5, <2>9
  <2> QED BY <2>4, <2>8, <2>10 DEF S
<1> QED BY <1>2, <1>3, AuctionLetter

\* No notice is sent cash on delivery.
LEMMA NoticesAreFree ==
    ASSUME NEW s, NEW G, Notices(s, G)
    PROVE  \A n \in Sent(s) : n.cod = 0
<1>1. ASSUME NEW n \in Sent(s) PROVE n.cod = 0
  <2>1. PICK k \in 1..Len(s) : Copy(n, s[k])
    BY SentDrafts DEF Notices
  <2> QED BY <2>1 DEF Notices, Notice, Copy
<1> QED BY <1>1

-----------------------------------------------------------------------------
(* The invariant, and what a handler has to show. *)

\* All versions of the rows.
PlainRows == \A d \in Versions : Plain(d) /\ Thrifty(d)

\* Here a mail in memory is its row, and the newest rows have it.
InRows == \A p \in Player : box[p] \subseteq Latest.mails

\* Every transaction that waits is a step of the ledger.
Books == \A j \in 1..Len(writes) : Booked(State(j - 1), State(j))

\* The inductive invariant.
LedgerIInv == AuctionIInv /\ InStep /\ PlainRows /\ InRows /\ Books

LEMMA GoodVersions ==
    ASSUME LedgerIInv
    PROVE  /\ \A d \in Versions : Good(d) /\ Thrifty(d) /\ RowsOK(d)
           /\ Latest \in Versions /\ db \in Versions /\ Good(Latest) /\ Thrifty(Latest)
           /\ RowsOK(Latest) /\ Known(Latest.mails)
<1>1. MailIInv /\ DatabaseOK /\ AllOnSale /\ PlainRows
  BY DEF LedgerIInv, AuctionIInv, MailIInv
<1>2. /\ Latest \in Versions /\ db \in Versions /\ \A d \in Versions : RowsOK(d)
      /\ RowsOK(Latest) /\ \A x \in Latest.mails : x.id \in UsedIds
  BY <1>1, LatestRows DEF DatabaseOK, AllRowsOK, Versions
<1>3. \A d \in Versions : Good(d) /\ Thrifty(d)
  BY <1>1, <1>2 DEF Good, Fine, AllOnSale, PlainRows
<1>4. Latest.mails \subseteq Mail /\ OneEach(Latest.mails)
  BY <1>2, RowsFields DEF OneEach
<1> QED BY <1>2, <1>3, <1>4 DEF Known

LEMMA FineNext ==
    ASSUME AuctionIInv, AuctionIInv', NEW p, NEW r, Commit(r, p)
    PROVE  Fine(r) /\ Latest' = r /\ Versions' = Versions \cup {r} /\ db' = db
<1>1. Latest' = r /\ Versions' = Versions \cup {r}
  BY OneMore DEF AuctionIInv, MailIInv, DatabaseOK
<1>2. r \in Versions'
  BY <1>1
<1>3. (\A d \in Versions : RowsOK(d))' /\ (\A d \in Versions : OnSale(d.auctions, d))'
  BY DEF AuctionIInv, MailIInv, DatabaseOK, AllRowsOK, AllOnSale
<1>4. RowsOK(r)
  BY <1>2, <1>3
<1>5. OnSale(r.auctions, r)
  BY <1>2, <1>3
<1>6. db' = db
  BY DEF Commit, CommitAll
<1> QED BY <1>1, <1>4, <1>5, <1>6 DEF Fine

LEMMA BookedCommit ==
    ASSUME LedgerIInv, NEW p, NEW r, Commit(r, p), AuctionIInv', InStep',
           Plain(r), Booked(Latest, r), \A q \in Player : box'[q] \subseteq r.mails
    PROVE  LedgerIInv' /\ db' = db
<1>1. Queued /\ AuctionIInv
  BY DEF LedgerIInv, AuctionIInv, MailIInv, DatabaseOK
<1>2. /\ Len(writes') = Len(writes) + 1
      /\ \A j \in 0..Len(writes) : State(j)' = State(j)
      /\ Queued'
  BY <1>1, OneMore
<1>3. Fine(r) /\ Latest' = r /\ Versions' = Versions \cup {r} /\ db' = db
  BY <1>1, FineNext
<1>4. Len(writes) \in Nat /\ Latest = State(Len(writes))
  BY <1>1, QueueRows
<1>5. State(Len(writes))' = r
  BY <1>2, <1>3, QueueRowsNext
<1>6. Books'
  <2> SUFFICES ASSUME NEW j \in 1..Len(writes')
               PROVE  Booked(State(j - 1)', State(j)')
    BY DEF Books
  <2>1. CASE j = Len(writes')
    <3>1. j - 1 = Len(writes) /\ j - 1 \in 0..Len(writes)
      BY <1>2, <1>4, <2>1
    <3>2. State(j - 1)' = Latest
      BY <1>2, <1>4, <3>1
    <3>3. State(j)' = r
      BY <1>5, <2>1
    <3> QED BY <3>2, <3>3
  <2>2. CASE j # Len(writes')
    <3>1. j \in 1..Len(writes) /\ j \in 0..Len(writes) /\ j - 1 \in 0..Len(writes)
      BY <1>2, <1>4, <2>2
    <3>2. Booked(State(j - 1), State(j))
      BY <3>1 DEF LedgerIInv, Books
    <3>3. State(j - 1)' = State(j - 1) /\ State(j)' = State(j)
      BY <1>2, <3>1
    <3> QED BY <3>2, <3>3
  <2> QED BY <2>1, <2>2
<1>7. Thrifty(r)
  BY <1>3, GoodVersions, BookedIsThrifty
<1>8. PlainRows'
  <2>1. \A d \in Versions' : Plain(d) /\ Thrifty(d)
    BY <1>3, <1>7 DEF LedgerIInv, PlainRows
  <2> QED BY <2>1 DEF PlainRows, Plain, Thrifty, Estate, FundsOf
<1>9. InRows'
  BY <1>3 DEF InRows
<1> QED BY <1>3, <1>6, <1>8, <1>9 DEF LedgerIInv

-----------------------------------------------------------------------------
(* Bids, and auctions that are taken back. *)

\* After the transaction of a bid: the rows, and what they are worth.
Dealing(r, p, s, gold) ==
    /\ Known(Latest.mails) /\ Good(Latest) /\ Fine(r)
    /\ r.mails = Latest.mails \cup Sent(s) /\ RoomFor(s)
    /\ After(Latest, r)
    /\ \A q \in Player : box'[q] \subseteq r.mails
    /\ p \in Player /\ money[p] = Latest.money[p] /\ money[p] \in Nat
    /\ \A q \in Player : Cash(r, q) = (IF q = p THEN gold ELSE Latest.money[q]) + Post(r.mails, q)
    /\ \A q \in Player, j \in Item : Has(r, q, j) <=> j \in Latest.inv[q] \/ Mailed(r.mails, q, j)

LEMMA DealtRows ==
    ASSUME LedgerIInv, NEW p \in online, NEW s, NEW G, Notices(s, G), RoomFor(s), NEW gold,
           NEW r, Commit(r, p), Bidden(r, p, gold, s), AuctionIInv', box' = Delivered(box, s)
    PROVE  Dealing(r, p, s, gold)
<1>1. AuctionIInv /\ Known(Latest.mails) /\ Good(Latest) /\ RowsOK(Latest) /\ InRows
  BY GoodVersions DEF LedgerIInv
<1>2. Fine(r)
  BY <1>1, FineNext
<1>3. /\ RowsOK(r) /\ r.items = Latest.items /\ r.mails = Latest.mails \cup Sent(s)
      /\ r.money[p] = gold /\ \A q \in Player \ {p} : r.money[q] = Latest.money[q]
      /\ \A q \in Player : r.inv[q] = Latest.inv[q]
  BY DEF Bidden
<1>4. \A m \in r.mails : m.cod = 0
  BY <1>1, <1>3, NoticesAreFree DEF Good, Plain
<1>5. After(Latest, r)
  BY <1>1, <1>2, <1>3, <1>4 DEF After
<1>6. p \in Player /\ money[p] = Latest.money[p] /\ money[p] \in Nat
  BY <1>1, MoneyAssumption DEF AuctionIInv, MailIInv, Memory, PursesSaved
<1>7. \A q \in Player : box'[q] \subseteq r.mails
  <2>1. \A q \in Player : box'[q] \subseteq box[q] \cup Sent(s)
    BY DEF Delivered
  <2> QED BY <1>1, <1>3, <2>1 DEF InRows
<1>8. \A q \in Player : Cash(r, q) = (IF q = p THEN gold ELSE Latest.money[q]) + Post(r.mails, q)
  BY <1>3 DEF Cash
<1>9. \A q \in Player, j \in Item : Has(r, q, j) <=> j \in Latest.inv[q] \/ Mailed(r.mails, q, j)
  BY <1>3 DEF Has
<1> QED BY <1>1, <1>2, <1>3, <1>5, <1>6, <1>7, <1>8, <1>9 DEF Dealing

\* The first mail of a transaction.
LEMMA FirstLetter ==
    ASSUME NEW M, Known(M), NEW to \in Player, NEW i \in Item \cup {NoItem}, NEW x \in Nat,
           RoomFor(AuctionMail(to, i, x))
    PROVE  Adds(M, M \cup Sent(AuctionMail(to, i, x)), to, i, x)
<1>1. <<>> \o AuctionMail(to, i, x) = AuctionMail(to, i, x)
  <2>1. AuctionMail(to, i, x) \in Seq(Draft)
    BY OneNotice DEF Notices
  <2> QED BY <2>1, ConcatEmptySeq
<1>2. Notices(<<>>, {}) /\ M \cup Sent(<<>>) = M
  BY NoNotices, NoDrafts
<1>3. Adds(M \cup Sent(<<>>), M \cup Sent(<<>> \o AuctionMail(to, i, x)), to, i, x)
  BY <1>1, <1>2, OneLetter
<1> QED BY <1>1, <1>2, <1>3

\* What the last bidder gets back, next to what p pays.
RefundTo(a, p) == IF a.bidder \in {p, Nobody} THEN p ELSE a.bidder

Refund(a, p) == IF a.bidder \in {p, Nobody} THEN 0 ELSE a.bid

LEMMA OutbidIs ==
    ASSUME NEW a \in AuctionEntry, NEW p \in Player, NEW sum \in Nat, a.bid <= sum
    PROVE  /\ Outbid(p, a) = AuctionMail(RefundTo(a, p), NoItem, Refund(a, p))
           /\ RefundTo(a, p) \in Player /\ Refund(a, p) \in Nat /\ Due(p, a, sum) \in Nat
           /\ Due(p, a, sum) <= sum
           /\ \A q \in Player : (IF q = RefundTo(a, p) THEN Refund(a, p) ELSE 0)
                                    - (IF q = p THEN Due(p, a, sum) ELSE 0)
                                = StakeOf(a, q) - (IF q = p THEN sum ELSE 0)
<1>1. a.bid \in Nat /\ a.bidder \in Player \cup {Nobody} /\ p # Nobody
  BY NobodyAssumption DEF AuctionEntry
<1>2. Outbid(p, a) = AuctionMail(RefundTo(a, p), NoItem, Refund(a, p))
  <2>1. AuctionMail(p, NoItem, 0) = <<>>
    BY DEF AuctionMail
  <2> QED BY <1>1, <2>1 DEF Outbid, RefundMail, RefundTo, Refund
<1>3. RefundTo(a, p) \in Player /\ Refund(a, p) \in Nat
  BY <1>1 DEF RefundTo, Refund
<1>4. Due(p, a, sum) \in Nat /\ Due(p, a, sum) <= sum
  BY <1>1 DEF Due
<1>5. ASSUME NEW q \in Player
      PROVE  (IF q = RefundTo(a, p) THEN Refund(a, p) ELSE 0) - (IF q = p THEN Due(p, a, sum) ELSE 0)
             = StakeOf(a, q) - (IF q = p THEN sum ELSE 0)
  <2>1. CASE a.bidder = p
    BY <1>1, <2>1 DEF RefundTo, Refund, Due, StakeOf
  <2>2. CASE a.bidder = Nobody
    BY <1>1, <2>2, NobodyAssumption DEF RefundTo, Refund, Due, StakeOf
  <2>3. CASE a.bidder \notin {p, Nobody}
    BY <1>1, <2>3 DEF RefundTo, Refund, Due, StakeOf
  <2> QED BY <2>1, <2>2, <2>3
<1> QED BY <1>2, <1>3, <1>4, <1>5

\* In step, the auctions in memory are those of the newest rows.
LEMMA RunningAuctions ==
    ASSUME LedgerIInv, NEW p \in online
    PROVE  /\ AuctionIInv /\ phase = "up" /\ auctions = Latest.auctions /\ p \in Player
           /\ \A a \in auctions : /\ a \in AuctionEntry /\ a.item \in Item /\ a.item \in aitems
                                  /\ a.owner \in Player /\ a.bid \in Nat /\ a.bidder # a.owner
                                  /\ (a.bidder = Nobody => a.bid = 0)
           /\ money[p] = Latest.money[p] /\ money[p] \in Nat /\ money[p] <= Funds(Latest, p)
<1>1. AuctionIInv /\ phase = "up" /\ auctions = Latest.auctions /\ p \in Player
      /\ \A a \in auctions : a \in AuctionEntry /\ a.item \in aitems
  BY BidFacts DEF LedgerIInv, InStep
<1>2. Good(Latest) /\ Plain(Latest)
  BY GoodVersions DEF Good
<1>3. \A a \in auctions : /\ a.item \in Item /\ a.owner \in Player /\ a.bid \in Nat /\ a.bidder # a.owner
                          /\ (a.bidder = Nobody => a.bid = 0)
  BY <1>1, <1>2 DEF AuctionEntry, Plain
<1>4. money[p] = Latest.money[p] /\ money[p] \in Nat
  BY <1>1, MoneyAssumption DEF AuctionIInv, MailIInv, Memory, PursesSaved
<1>5. money[p] <= Funds(Latest, p)
  <2>1. RowsOK(Latest) /\ Separate(Latest.auctions)
    BY <1>2, FineIsSeparate DEF Good
  <2>2. /\ Funds(Latest, p) = Cash(Latest, p) + Stake(Latest.auctions, p)
        /\ Cash(Latest, p) = Latest.money[p] + Post(Latest.mails, p) /\ Stake(Latest.auctions, p) \in Nat
        /\ Post(Latest.mails, p) \in Nat
    BY <1>1, <2>1, FundsAre
  <2> QED BY <1>4, <2>2
<1> QED BY <1>1, <1>3, <1>4, <1>5

LEMMA PlaceBidBooked ==
    ASSUME LedgerIInv, NEW p \in online, NEW a \in auctions, NEW price \in Prices,
           PlaceBid(p, a, price)
    PROVE  LedgerIInv' /\ db' = db
<1> DEFINE s == Outbid(p, a)
           due == Due(p, a, price)
           gold == Paid(money[p], due)
           M == Latest.mails
           to == RefundTo(a, p)
           x == Refund(a, p)
           d == Latest
           B == auctions \ {a}
<1>1. /\ AuctionIInv /\ phase = "up" /\ auctions = d.auctions /\ p \in Player
      /\ a \in AuctionEntry /\ a.item \in Item /\ a.bid \in Nat
      /\ money[p] = d.money[p] /\ money[p] \in Nat /\ money[p] <= Funds(d, p)
  BY RunningAuctions
<1>2. AuctionIInv' /\ InStep' /\ Dealt(p, s, gold, RaisedBids(a, p, price))
  BY <1>1, PlaceBidKeeps DEF LedgerIInv
<1>3. PICK r : Commit(r, p) /\ Bidden(r, p, gold, s) /\ r.auctions = RaisedBids(a, p, price)
  BY <1>2 DEF Dealt
<1>4. /\ price \in Nat /\ a.bid < price /\ p # a.owner /\ money[p] >= price
      /\ RoomFor(s) /\ box' = Delivered(box, s)
  <2>1. price \in Nat
    BY AuctionAssumption
  <2> QED BY <1>1, <2>1 DEF PlaceBid, MayBid, HasEnoughMoney
<1>5. Notices(s, {})
  BY <1>1, AuctionMails, NoNotices DEF Outbid
<1>6. Dealing(r, p, s, gold)
  BY <1>2, <1>3, <1>4, <1>5, DealtRows
<1>7. /\ s = AuctionMail(to, NoItem, x) /\ to \in Player /\ x \in Nat
      /\ due \in Nat /\ due <= price
      /\ \A q \in Player : (IF q = to THEN x ELSE 0) - (IF q = p THEN due ELSE 0)
                           = StakeOf(a, q) - (IF q = p THEN price ELSE 0)
  BY <1>1, <1>4, OutbidIs
<1>8. Adds(M, M \cup Sent(s), to, NoItem, x)
  <2>1. Known(M) /\ RoomFor(AuctionMail(to, NoItem, x))
    BY <1>4, <1>6, <1>7 DEF Dealing
  <2> HIDE DEF to, x, M, s
  <2>2. Adds(M, M \cup Sent(AuctionMail(to, NoItem, x)), to, NoItem, x)
    BY <1>7, <2>1, FirstLetter
  <2> QED BY <1>7, <2>2
<1>9. gold = money[p] - due
  BY <1>1, <1>4, <1>7 DEF Paid
<1> HIDE DEF to, x, gold, s, due, d, M, B
<1>10. r.mails = M \cup Sent(s) /\ After(d, r) /\ Good(d)
  BY <1>6 DEF Dealing, M, d
<1>11. RowsOK(d) /\ Separate(d.auctions)
  BY <1>10, FineIsSeparate DEF Good
<1>12. ASSUME NEW q \in Player
       PROVE  Cash(r, q) = Cash(d, q) + StakeOf(a, q) - (IF q = p THEN price ELSE 0)
  <2>1. Cash(r, q) = (IF q = p THEN gold ELSE d.money[q]) + Post(r.mails, q)
    BY <1>6 DEF Dealing, d
  <2>2. Cash(d, q) = d.money[q] + Post(M, q) /\ d.money[q] \in Nat /\ Post(M, q) \in Nat
    BY <1>11, FundsAre DEF M, d
  <2>3. Post(r.mails, q) = Post(M, q) + (IF q = to THEN x ELSE 0)
    BY <1>8, <1>10 DEF Adds
  <2>4. (IF q = to THEN x ELSE 0) - (IF q = p THEN due ELSE 0)
             = StakeOf(a, q) - (IF q = p THEN price ELSE 0)
    BY <1>7
  <2>5. StakeOf(a, q) \in Nat
    BY <1>1 DEF StakeOf
  <2> QED BY <1>1, <1>4, <1>7, <1>9, <2>1, <2>2, <2>3, <2>4, <2>5
<1>13. \A q \in Player, j \in Item : Has(r, q, j) <=> Has(d, q, j)
  <2>1. \A q \in Player, j \in Item : Has(r, q, j) <=> j \in d.inv[q] \/ Mailed(r.mails, q, j)
    BY <1>6 DEF Dealing, d
  <2>2. \A q \in Player, j \in Item : Mailed(r.mails, q, j) <=> Mailed(M, q, j)
    BY <1>8, <1>10, NoItemAssumption DEF Adds
  <2> QED BY <2>1, <2>2 DEF Has, M, d
<1>14. /\ d.auctions = B \cup {a} /\ a \notin B
       /\ r.auctions = B \cup {Raised(a, p, price)}
  <2>1. \A y \in d.auctions : y.id = a.id => y = a
    BY <1>1, <1>11 DEF Separate
  <2>2. r.auctions = {IF y.id = a.id THEN Raised(y, p, price) ELSE y : y \in d.auctions}
    BY <1>3 DEF RaisedBids, d
  <2> QED BY <1>1, <2>1, <2>2 DEF B
<1>15. price <= Funds(d, p)
  <2>1. Funds(d, p) \in Nat
    BY <1>1, <1>11, FundsAre
  <2> QED BY <1>1, <1>4, <2>1
<1>16. Plain(r) /\ NewBid(d, r)
  BY <1>1, <1>4, <1>10, <1>12, <1>13, <1>14, <1>15, BidIsBooked
<1>17. Booked(Latest, r) /\ \A q \in Player : box'[q] \subseteq r.mails
  BY <1>6, <1>16 DEF Booked, Dealing, d
<1> QED BY <1>2, <1>3, <1>16, <1>17, BookedCommit

\* Rows whose auctions lack a, in the order of the ids.
LEMMA OthersAre ==
    ASSUME NEW a \in Latest.auctions, Separate(Latest.auctions)
    PROVE  Latest.auctions = Others(a) \cup {a} /\ a \notin Others(a)
BY DEF Others, Separate

LEMMA BuyoutBooked ==
    ASSUME LedgerIInv, NEW p \in online, NEW a \in auctions, NEW price \in Prices,
           Buyout(p, a, price)
    PROVE  LedgerIInv' /\ db' = db
<1> DEFINE sum == a.buyout
           s1 == Outbid(p, a)
           new == Raised(a, p, sum)
           s2 == s1 \o SuccessfulMail(new)
           s3 == s2 \o WonMail(new, aitems)
           due == Due(p, a, sum)
           gold == Paid(money[p], due)
           M == Latest.mails
           to == RefundTo(a, p)
           x == Refund(a, p)
           y == sum + Deposit - CutOf(sum)
           d == Latest
           B == Others(a)
           none == {}
<1>1. /\ AuctionIInv /\ phase = "up" /\ auctions = d.auctions /\ p \in Player
      /\ a \in AuctionEntry /\ a.item \in Item /\ a.item \in aitems /\ a.bid \in Nat /\ a.owner \in Player
      /\ money[p] = d.money[p] /\ money[p] \in Nat /\ money[p] <= Funds(d, p)
  BY RunningAuctions
<1>2. AuctionIInv' /\ InStep' /\ Dealt(p, s3, gold, B)
  <2>1. s3 = BuyoutMails(p, a)
    BY Zenon DEF BuyoutMails
  <2>2. AuctionIInv' /\ InStep' /\ Dealt(p, BuyoutMails(p, a), gold, B)
    BY <1>1, BuyoutKeeps DEF LedgerIInv
  <2> HIDE DEF s3
  <2> QED BY <2>1, <2>2
<1>3. PICK r : Commit(r, p) /\ Bidden(r, p, gold, s3) /\ r.auctions = B
  BY <1>2 DEF Dealt
<1>4. /\ sum \in Nat /\ a.bid < sum /\ p # a.owner /\ money[p] >= sum
      /\ RoomFor(s3) /\ box' = Delivered(box, s3)
  <2>1. price \in Nat /\ sum \in Nat
    BY <1>1, AuctionAssumption DEF AuctionEntry
  <2>2. a.buyout # 0 => a.bid < a.buyout
    BY <1>1, BidFacts DEF OnSale
  <2>3. p # a.owner /\ money[p] >= price /\ price >= sum /\ sum # 0
    BY DEF Buyout, MayBid, HasEnoughMoney, BuysOut
  <2>4. new = [a EXCEPT !.bidder = p, !.bid = a.buyout]
    BY DEF Raised
  <2>5. RoomFor(s3) /\ box' = Delivered(box, s3)
    BY <2>4 DEF Buyout
  <2> HIDE DEF s3, new
  <2> QED BY <1>1, <2>1, <2>2, <2>3, <2>5
<1>5. /\ new \in AuctionEntry /\ new.item = a.item /\ new.bidder = p /\ new.bid = sum
      /\ new.owner = a.owner
  BY <1>1, <1>4, RaisedEntry DEF Raised, AuctionEntry
<1>6. /\ SuccessfulMail(new) = AuctionMail(a.owner, NoItem, y)
      /\ WonMail(new, aitems) = AuctionMail(p, a.item, 0)
      /\ y \in Nat
  <2>1. AuctionCut(new) = CutOf(sum)
    BY <1>5 DEF AuctionCut, CutOf
  <2> HIDE DEF new
  <2>2. new.bid + Deposit - AuctionCut(new) \in Nat
    BY <1>5, CutIsLess
  <2>3. y = new.bid + Deposit - AuctionCut(new)
    BY <1>5, <2>1
  <2>4. SuccessfulMail(new) = AuctionMail(a.owner, NoItem, y)
    BY <1>5, <2>3 DEF SuccessfulMail
  <2>5. WonMail(new, aitems) = AuctionMail(p, a.item, 0)
    BY <1>1, <1>5 DEF WonMail
  <2> QED BY <2>2, <2>3, <2>4, <2>5
<1>7. Notices(s1, none) /\ Notices(s2, none) /\ Notices(s3, {a.item})
  <2>1. Notices(Outbid(p, a), none)
    BY <1>1, AuctionMails, NoNotices DEF Outbid
  <2> DEFINE G == {a.item}
  <2>2. Notices(SuccessfulMail(new), none) /\ Notices(WonMail(new, aitems), G)
    <3> HIDE DEF new
    <3> QED BY <1>1, <1>5, AuctionMails, NobodyAssumption
  <2>3. \A H : none \cup H = H
    OBVIOUS
  <2>4. (\A i \in none : i \notin none) /\ (\A i \in none : i \notin G)
    OBVIOUS
  <2> HIDE DEF none, G, new
  <2>5. Notices(s2, none)
    BY <2>1, <2>2, <2>3, <2>4, MoreNotices
  <2> HIDE DEF s2
  <2>6. Notices(s3, none \cup G)
    BY <2>2, <2>4, <2>5, MoreNotices
  <2> QED BY <2>1, <2>3, <2>5, <2>6 DEF s1, G
<1>8. Dealing(r, p, s3, gold)
  <2> HIDE DEF s3, gold
  <2> QED BY <1>2, <1>3, <1>4, <1>7, DealtRows
<1>9. /\ s1 = AuctionMail(to, NoItem, x) /\ to \in Player /\ x \in Nat
      /\ due \in Nat /\ due <= sum
      /\ \A q \in Player : (IF q = to THEN x ELSE 0) - (IF q = p THEN due ELSE 0)
                           = StakeOf(a, q) - (IF q = p THEN sum ELSE 0)
  BY <1>1, <1>4, OutbidIs
<1>10. gold = money[p] - due
  BY <1>1, <1>4, <1>9 DEF Paid
<1>11. s2 = s1 \o AuctionMail(a.owner, NoItem, y) /\ s3 = s2 \o AuctionMail(p, a.item, 0)
  BY <1>6
<1> DEFINE S1 == M \cup Sent(s1)
           S2 == M \cup Sent(s2)
           S3 == M \cup Sent(s3)
<1> HIDE DEF to, x, y, gold, s1, s2, s3, due, d, B, new, sum
<1>12. Known(M)
  BY <1>8 DEF Dealing
<1> HIDE DEF M
<1>13. Adds(S2, S3, p, a.item, 0) /\ RoomFor(s2)
  BY <1>1, <1>4, <1>7, <1>11, <1>12, OneLetter
<1>14. Adds(S1, S2, a.owner, NoItem, y) /\ RoomFor(s1)
  BY <1>1, <1>6, <1>7, <1>11, <1>12, <1>13, OneLetter
<1>15. Adds(M, S1, to, NoItem, x)
  BY <1>9, <1>12, <1>14, FirstLetter
<1> HIDE DEF S1, S2, S3
<1>16. r.mails = S3 /\ After(d, r) /\ Good(d) /\ M = d.mails
  BY <1>8 DEF Dealing, M, d, S3
<1>17. RowsOK(d) /\ Separate(d.auctions)
  BY <1>16, FineIsSeparate DEF Good
<1>18. ASSUME NEW q \in Player
       PROVE  Cash(r, q) = Cash(d, q) + StakeOf(a, q) - (IF q = p THEN sum ELSE 0) + Proceeds(q, a, sum)
  <2> DEFINE z == IF q = p THEN sum ELSE 0
             u == IF q = to THEN x ELSE 0
             v == IF q = p THEN due ELSE 0
             w == IF q = a.owner THEN y ELSE 0
  <2>1. Cash(r, q) = (IF q = p THEN gold ELSE d.money[q]) + Post(S3, q)
    BY <1>8, <1>16 DEF Dealing, d
  <2>2. Cash(d, q) = d.money[q] + Post(M, q) /\ d.money[q] \in Nat /\ Post(M, q) \in Nat
    BY <1>16, <1>17, FundsAre
  <2>3. /\ Post(S1, q) = Post(M, q) + u
        /\ Post(S2, q) = Post(S1, q) + w
        /\ Post(S3, q) = Post(S2, q) + (IF q = p THEN 0 ELSE 0)
    BY <1>13, <1>14, <1>15 DEF Adds
  <2>4. u - v = StakeOf(a, q) - z
    BY <1>9
  <2>5. StakeOf(a, q) \in Nat
    BY <1>1 DEF StakeOf
  <2>6. Proceeds(q, a, sum) = w
    BY DEF Proceeds, y
  <2>7. u \in Nat /\ v \in Nat /\ w \in Nat /\ z \in Nat
    BY <1>4, <1>6, <1>9
  <2>8. Cash(r, q) = d.money[q] - v + Post(S3, q)
    BY <1>1, <1>9, <1>10, <2>1, <2>2
  <2>9. Cash(d, q) + StakeOf(a, q) - z + w = Cash(r, q)
    <3> HIDE DEF u, v, w, z
    <3>1. Post(S3, q) = Post(M, q) + u + w
      BY <2>2, <2>3, <2>7
    <3> QED BY <2>2, <2>4, <2>5, <2>7, <2>8, <3>1
  <2> QED BY <2>6, <2>9
<1>19. Gets(d, r, p, a.item)
  <2>1. \A q \in Player, j \in Item : Has(r, q, j) <=> j \in d.inv[q] \/ Mailed(S3, q, j)
    BY <1>8, <1>16 DEF Dealing, d
  <2>2. ASSUME NEW q \in Player, NEW j \in Item
        PROVE  Mailed(S3, q, j) <=> Mailed(M, q, j) \/ (q = p /\ j = a.item)
    <3>1. j # NoItem
      BY NoItemAssumption
    <3>2. Mailed(S1, q, j) <=> Mailed(M, q, j)
      BY <1>15, <3>1 DEF Adds
    <3>3. Mailed(S2, q, j) <=> Mailed(S1, q, j)
      BY <1>14, <3>1 DEF Adds
    <3>4. Mailed(S3, q, j) <=> Mailed(S2, q, j) \/ (q = p /\ j = a.item)
      BY <1>13 DEF Adds
    <3> QED BY <3>2, <3>3, <3>4
  <2> QED BY <1>16, <2>1, <2>2 DEF Has, Gets
<1>20. d.auctions = B \cup {a} /\ a \notin B
  <2>1. a \in Latest.auctions /\ Separate(Latest.auctions)
    BY <1>1, <1>17 DEF d
  <2> QED BY <2>1, OthersAre DEF d, B
<1>21. Ending(d, r, a, B, p)
  BY <1>1, <1>3, <1>16, <1>19, <1>20 DEF Ending
<1>22. Affordable(d, p, a, sum)
  <2>1. Funds(d, p) \in Nat
    BY <1>1, <1>17, FundsAre
  <2> QED BY <1>1, <1>4, <2>1 DEF Affordable
<1>23. Plain(r) /\ Purchase(d, r)
  BY <1>4, <1>18, <1>21, <1>22, PurchaseIsBooked
<1>24. Booked(Latest, r) /\ \A q \in Player : box'[q] \subseteq r.mails
  BY <1>8, <1>23 DEF Booked, Dealing, d
<1> QED BY <1>2, <1>3, <1>23, <1>24, BookedCommit

LEMMA RemoveItemBooked ==
    ASSUME LedgerIInv, NEW p \in online, NEW a \in auctions, RemoveItem(p, a)
    PROVE  LedgerIInv' /\ db' = db
<1> DEFINE s1 == RefundMail(a)
           s2 == s1 \o AuctionMail(p, a.item, 0)
           cut == CutOwed(a)
           gold == Paid(money[p], cut)
           M == Latest.mails
           to == RefundTo(a, p)
           x == Refund(a, p)
           d == Latest
           B == Others(a)
           none == {}
<1>1. /\ AuctionIInv /\ phase = "up" /\ auctions = d.auctions /\ p \in Player
      /\ a \in AuctionEntry /\ a.item \in Item /\ a.bid \in Nat
      /\ a.bidder # a.owner /\ (a.bidder = Nobody => a.bid = 0)
      /\ money[p] = d.money[p] /\ money[p] \in Nat
  BY RunningAuctions
<1>2. AuctionIInv' /\ InStep' /\ Dealt(p, s2, gold, B)
  BY <1>1, RemoveItemKeeps DEF LedgerIInv
<1>3. PICK r : Commit(r, p) /\ Bidden(r, p, gold, s2) /\ r.auctions = B
  BY <1>2 DEF Dealt
<1>4. /\ a.owner = p /\ money[p] >= cut
      /\ RoomFor(s2) /\ box' = Delivered(box, s2)
  BY DEF RemoveItem, HasEnoughMoney, CutOwed
<1>5. cut = CutOf(a.bid) /\ cut \in Nat
  <2>1. CutOf(0) = 0
    <3>1. 0 * CutPercent = 0
      BY AuctionAssumption
    <3> QED BY <3>1 DEF CutOf
  <2>2. AuctionCut(a) = CutOf(a.bid)
    BY DEF AuctionCut, CutOf
  <2>3. CutOf(a.bid) \in Nat
    BY <1>1, CutOfPrice
  <2> QED BY <1>1, <2>1, <2>2, <2>3 DEF CutOwed
<1>6. Notices(s1, none) /\ Notices(s2, {a.item})
  <2> DEFINE G == {a.item}
  <2>1. Notices(RefundMail(a), none)
    BY <1>1, AuctionMails
  <2>2. Notices(AuctionMail(p, a.item, 0), G)
    BY <1>1, OneNotice
  <2>3. none \cup G = G /\ \A i \in none : i \notin G
    OBVIOUS
  <2> HIDE DEF none, G
  <2>4. Notices(RefundMail(a) \o AuctionMail(p, a.item, 0), none \cup G)
    BY <2>1, <2>2, <2>3, MoreNotices
  <2> QED BY <2>1, <2>3, <2>4 DEF G
<1>7. Dealing(r, p, s2, gold)
  <2> HIDE DEF s2, gold
  <2> QED BY <1>2, <1>3, <1>4, <1>6, DealtRows
<1>8. /\ s1 = AuctionMail(to, NoItem, x) /\ to \in Player /\ x \in Nat
      /\ \A q \in Player : (IF q = to THEN x ELSE 0) = StakeOf(a, q)
  <2>1. Outbid(p, a) = RefundMail(a) /\ Due(p, a, a.bid) = a.bid
    BY <1>1, <1>4 DEF Outbid, Due
  <2>2. /\ Outbid(p, a) = AuctionMail(to, NoItem, x) /\ to \in Player /\ x \in Nat
    BY <1>1, OutbidIs
  <2>3. ASSUME NEW q \in Player PROVE (IF q = to THEN x ELSE 0) = StakeOf(a, q)
    <3>1. a.bidder # p
      BY <1>1, <1>4
    <3> QED BY <1>1, <3>1, NobodyAssumption DEF StakeOf, RefundTo, Refund
  <2> QED BY <2>1, <2>2, <2>3
<1>9. gold = money[p] - cut
  BY <1>1, <1>4, <1>5 DEF Paid
<1> DEFINE S1 == M \cup Sent(s1)
           S2 == M \cup Sent(s2)
<1>10. s2 = s1 \o AuctionMail(p, a.item, 0)
  OBVIOUS
<1> HIDE DEF to, x, gold, s1, s2, cut, d, B
<1>11. Known(M)
  BY <1>7 DEF Dealing
<1> HIDE DEF M
<1>12. Adds(S1, S2, p, a.item, 0) /\ RoomFor(s1)
  BY <1>1, <1>4, <1>6, <1>10, <1>11, OneLetter
<1>13. Adds(M, S1, to, NoItem, x)
  BY <1>8, <1>11, <1>12, FirstLetter
<1> HIDE DEF S1, S2
<1>14. r.mails = S2 /\ After(d, r) /\ Good(d) /\ M = d.mails
  BY <1>7 DEF Dealing, M, d, S2
<1>15. RowsOK(d) /\ Separate(d.auctions)
  BY <1>14, FineIsSeparate DEF Good
<1>16. ASSUME NEW q \in Player
       PROVE  Cash(r, q) = Cash(d, q) + StakeOf(a, q) - (IF q = a.owner THEN CutOf(a.bid) ELSE 0)
  <2>1. Cash(r, q) = (IF q = p THEN gold ELSE d.money[q]) + Post(S2, q)
    BY <1>7, <1>14 DEF Dealing, d
  <2>2. Cash(d, q) = d.money[q] + Post(M, q) /\ d.money[q] \in Nat /\ Post(M, q) \in Nat
    BY <1>14, <1>15, FundsAre
  <2>3. /\ Post(S1, q) = Post(M, q) + (IF q = to THEN x ELSE 0)
        /\ Post(S2, q) = Post(S1, q) + (IF q = p THEN 0 ELSE 0)
    BY <1>12, <1>13 DEF Adds
  <2>4. StakeOf(a, q) \in Nat
    BY <1>1 DEF StakeOf
  <2>5. Post(S2, q) = Post(M, q) + StakeOf(a, q)
    BY <1>8, <2>2, <2>3, <2>4
  <2> QED BY <1>1, <1>4, <1>5, <1>9, <2>1, <2>2, <2>4, <2>5
<1>17. Gets(d, r, a.owner, a.item)
  <2>1. \A q \in Player, j \in Item : Has(r, q, j) <=> j \in d.inv[q] \/ Mailed(S2, q, j)
    BY <1>7, <1>14 DEF Dealing, d
  <2>2. ASSUME NEW q \in Player, NEW j \in Item
        PROVE  Mailed(S2, q, j) <=> Mailed(M, q, j) \/ (q = p /\ j = a.item)
    <3>1. j # NoItem
      BY NoItemAssumption
    <3>2. Mailed(S1, q, j) <=> Mailed(M, q, j)
      BY <1>13, <3>1 DEF Adds
    <3>3. Mailed(S2, q, j) <=> Mailed(S1, q, j) \/ (q = p /\ j = a.item)
      BY <1>12 DEF Adds
    <3> QED BY <3>2, <3>3
  <2> QED BY <1>4, <1>14, <2>1, <2>2 DEF Has, Gets
<1>18. d.auctions = B \cup {a} /\ a \notin B
  <2>1. a \in Latest.auctions /\ Separate(Latest.auctions)
    BY <1>1, <1>15 DEF d
  <2> QED BY <2>1, OthersAre DEF d, B
<1>19. Ending(d, r, a, B, a.owner)
  BY <1>1, <1>3, <1>4, <1>14, <1>17, <1>18 DEF Ending
<1>20. Plain(r) /\ Return(d, r)
  BY <1>16, <1>19, ReturnIsBooked
<1>21. Booked(Latest, r) /\ \A q \in Player : box'[q] \subseteq r.mails
  BY <1>7, <1>20 DEF Booked, Dealing, d
<1> QED BY <1>2, <1>3, <1>20, <1>21, BookedCommit

LEMMA SellItemBooked ==
    ASSUME LedgerIInv, NEW p \in online, NEW i \in inv[p], NEW startbid \in StartBids,
           NEW buyout \in Buyouts, SellItem(p, i, startbid, buyout)
    PROVE  LedgerIInv' /\ db' = db
<1> DEFINE gold == Paid(money[p], Deposit)
           d == Latest
<1>1. /\ AuctionIInv /\ p \in Player
      /\ money[p] = d.money[p] /\ money[p] \in Nat /\ money[p] <= Funds(d, p)
  BY RunningAuctions
<1>2. AuctionIInv' /\ InStep' /\ Offered(p, i, gold)
  BY <1>1, SellItemKeeps DEF LedgerIInv
<1>3. money[p] >= Deposit /\ Deposit \in Nat /\ box' = box
  BY AuctionAssumption DEF SellItem, HasEnoughMoney
<1>4. gold = money[p] - Deposit
  BY <1>1, <1>3 DEF Paid
<1> HIDE DEF gold
<1>5. PICK a \in AuctionEntry :
         /\ a.item = i /\ OfferOf(a) = [seller |-> p, bidder |-> Nobody, bid |-> 0]
         /\ a \notin Latest.auctions /\ Commit(SoldRows(p, i, gold, a), p)
  BY <1>2 DEF Offered
<1> DEFINE r == SoldRows(p, i, gold, a)
<1>6. /\ r.auctions = Latest.auctions \cup {a}
      /\ r.items = Latest.items /\ r.mails = Latest.mails /\ r.money[p] = gold
      /\ \A q \in Player \ {p} : r.money[q] = Latest.money[q]
      /\ \A q \in Player : r.inv[q] = Latest.inv[q] \ {i}
      /\ ~Placed(r, i) /\ i \in Latest.items
  <2>1. Sells(p, i, gold)
    BY <1>2 DEF Offered
  <2> QED BY <2>1, SoldRowsOK
<1>7. Commit(r, p)
  BY <1>5
<1> HIDE DEF r
<1>8. Fine(r) /\ Good(d) /\ RowsOK(d) /\ Separate(d.auctions) /\ i \in Item /\ i \in d.inv[p]
  <2>1. Fine(r)
    BY <1>1, <1>2, <1>7, FineNext
  <2>2. Good(d) /\ RowsOK(d)
    BY GoodVersions
  <2>3. inv[p] = Latest.inv[p] /\ inv[p] \subseteq Item
    BY <1>1, BidFacts
  <2> QED BY <2>1, <2>2, <2>3, FineIsSeparate DEF Good
<1>9. \A m \in Latest.mails : m.cod = 0
  BY <1>8 DEF Good, Plain
<1>10. After(d, r)
  BY <1>6, <1>8, <1>9 DEF After
<1>11. \A q \in Player, j \in Item : Has(r, q, j) <=> Has(d, q, j) /\ j # i
  <2>1. \A m \in Latest.mails : m.item # i
    BY <1>6 DEF Placed
  <2> QED BY <1>6, <2>1 DEF Has, Mailed
<1>12. ASSUME NEW q \in Player
       PROVE  Cash(r, q) = Cash(d, q) - (IF q = p THEN Deposit ELSE 0)
  <2>1. Cash(r, q) = (IF q = p THEN gold ELSE d.money[q]) + Post(d.mails, q)
    BY <1>6 DEF Cash
  <2>2. Cash(d, q) = d.money[q] + Post(d.mails, q) /\ d.money[q] \in Nat /\ Post(d.mails, q) \in Nat
    BY <1>8, FundsAre
  <2> QED BY <1>1, <1>3, <1>4, <2>1, <2>2
<1>13. Has(d, p, i) /\ Funds(d, p) >= Deposit
  <2>1. Funds(d, p) \in Nat
    BY <1>1, <1>8, FundsAre
  <2> QED BY <1>1, <1>3, <1>8, <2>1 DEF Has
<1>14. r.auctions = d.auctions \cup {a} /\ a \notin d.auctions /\ \A q \in Player : box'[q] \subseteq r.mails
  BY <1>3, <1>5, <1>6 DEF LedgerIInv, InRows
<1> HIDE DEF d
<1>15. Plain(r) /\ NewOffer(d, r)
  BY <1>1, <1>5, <1>8, <1>10, <1>11, <1>12, <1>13, <1>14, OfferIsBooked
<1>16. Booked(Latest, r)
  BY <1>15 DEF Booked, d
<1> QED BY <1>2, <1>7, <1>14, <1>15, <1>16, BookedCommit

LEMMA BidNextBooked ==
    ASSUME LedgerIInv, BidNext
    PROVE  LedgerIInv' /\ db' = db
<1>1. PICK p \in online :
         \/ \E i \in inv[p], startbid \in StartBids, buyout \in Buyouts :
               SellItem(p, i, startbid, buyout)
         \/ \E a \in auctions : RemoveItem(p, a)
         \/ \E a \in auctions, price \in Prices : PlaceBid(p, a, price) \/ Buyout(p, a, price)
  BY DEF BidNext
<1>2. CASE \E i \in inv[p], startbid \in StartBids, buyout \in Buyouts :
              SellItem(p, i, startbid, buyout)
  BY <1>2, SellItemBooked
<1>3. CASE \E a \in auctions : RemoveItem(p, a)
  BY <1>3, RemoveItemBooked
<1>4. CASE \E a \in auctions, price \in Prices : PlaceBid(p, a, price) \/ Buyout(p, a, price)
  BY <1>4, PlaceBidBooked, BuyoutBooked
<1> QED BY <1>1, <1>2, <1>3, <1>4

-----------------------------------------------------------------------------
(* Steps that commit nothing, and steps of the database. *)

LEMMA QuietBooked ==
    ASSUME LedgerIInv, AuctionIInv', InStep', UNCHANGED <<db, writes>>,
           \A q \in Player : box'[q] \subseteq Latest.mails
    PROVE  LedgerIInv' /\ db' = db
<1>1. Latest' = Latest /\ Versions' = Versions
  BY RowsAlone
<1>2. Books'
  <2> SUFFICES ASSUME NEW j \in 1..Len(writes')
               PROVE  Booked(State(j - 1)', State(j)')
    BY DEF Books
  <2>1. State(j - 1)' = State(j - 1) /\ State(j)' = State(j)
    BY DEF State
  <2> QED BY <2>1 DEF LedgerIInv, Books
<1>3. PlainRows'
  <2>1. \A d \in Versions' : Plain(d) /\ Thrifty(d)
    BY <1>1 DEF LedgerIInv, PlainRows
  <2> QED BY <2>1 DEF PlainRows, Plain, Thrifty, Estate, FundsOf
<1>4. InRows'
  BY <1>1 DEF InRows
<1> QED BY <1>2, <1>3, <1>4 DEF LedgerIInv

LEMMA StillBooked ==
    ASSUME LedgerIInv, AuctionIInv', InStep', UNCHANGED <<db, writes, box>>
    PROVE  LedgerIInv' /\ db' = db
<1>1. \A q \in Player : box'[q] \subseteq Latest.mails
  BY DEF LedgerIInv, InRows
<1> QED BY <1>1, QuietBooked

\* Every item has its row, so that the mails are read as they are.
LEMMA GetMailListBooked ==
    ASSUME LedgerIInv, AuctionIInv', InStep', NEW p \in Player, GetMailList(p)
    PROVE  LedgerIInv' /\ db' = db
<1> DEFINE read(n) == [n EXCEPT !.item = IF @ \in db.items THEN @ ELSE NoItem]
           b == {m \in {read(n) : n \in {n \in db.mails : n.to = p}} : ~IsEmpty(m)}
<1>1. /\ p \in online \ loaded /\ box' = [box EXCEPT ![p] = b] /\ UNCHANGED <<db, writes>>
  BY DEF GetMailList, dbVars
<1>2. /\ MailIInv /\ DatabaseOK /\ Good(db) /\ RowsOK(db) /\ db \in Versions
      /\ \A q \in Player : box[q] \subseteq Latest.mails
  BY GoodVersions DEF LedgerIInv, AuctionIInv, MailIInv, InRows
<1>3. Kept(db, Latest, p) /\ db.items = Item
  BY <1>1, <1>2 DEF DatabaseOK, NotListed, Good, Plain
<1>4. \A n \in db.mails : read(n) = n
  <2> TAKE n \in db.mails
  <2>1. n \in Mail /\ n.item \in Item \cup {NoItem}
    BY <1>2, RowsFields DEF Mail
  <2> QED BY <1>3, <2>1 DEF Mail
<1> HIDE DEF read
<1>5. \A m \in b : m \in Latest.mails
  BY <1>3, <1>4 DEF Kept
<1> HIDE DEF b
<1>6. \A q \in Player : box'[q] \subseteq Latest.mails
  <2>1. \A q \in Player : box'[q] = IF q = p THEN b ELSE box[q]
    BY <1>1, <1>2 DEF MailIInv, Memory
  <2> QED BY <1>2, <1>5, <2>1
<1> QED BY <1>1, <1>6, QuietBooked

\* Starting up finds everything as it was left.
LEMMA StartupBooked ==
    ASSUME LedgerIInv, AuctionIInv', InStep', StartupNext
    PROVE  LedgerIInv' /\ db' = db
<1>1. CASE DeleteExpiredAuctionsAtStartup
  <2>1. writes = <<>> /\ writes' = <<>> /\ db' = db /\ box' = box
    BY <1>1 DEF DeleteExpiredAuctionsAtStartup, LedgerIInv, InStep, CommitAll, memoryVars
  <2> QED BY <2>1, StillBooked
<1>2. CASE LoadAuctionItems
  <2>1. UNCHANGED <<db, writes, box>>
    BY <1>2 DEF LoadAuctionItems, mailVars, memoryVars, dbVars
  <2> QED BY <2>1, StillBooked
<1>3. CASE LoadAuctions
  <2>1. \A a \in db.auctions : a.item \in aitems
    BY <1>3 DEF LoadAuctions, LedgerIInv, InStep
  <2>2. UNCHANGED <<db, writes, box>>
    BY <1>3, <2>1 DEF LoadAuctions, memoryVars, dbVars
  <2> QED BY <2>2, StillBooked
<1> QED BY <1>1, <1>2, <1>3 DEF StartupNext

LEMMA ExecuteBooked ==
    ASSUME LedgerIInv, WorkerNext, UNCHANGED auctionVars
    PROVE  LedgerIInv' /\ Booked(db, db') /\ Fine(db')
<1>1. /\ AuctionIInv' /\ InStep' /\ Latest' = Latest /\ Versions' \subseteq Versions
      /\ ExecuteNext /\ box' = box /\ Queued
  BY WorkerInHouse, ExecuteKeeps
     DEF LedgerIInv, AuctionIInv, WorkerNext, memoryVars, MailIInv, DatabaseOK
<1>2. /\ Len(writes) \in Nat /\ Len(writes) > 0 /\ Len(writes') = Len(writes) - 1
      /\ State(0) = db /\ db' = State(1)
      /\ \A j \in 0..Len(writes') : State(j)' = State(j + 1)
  BY <1>1, OneLess
<1>3. Booked(db, db')
  <2>1. 1 \in 1..Len(writes) /\ 1 - 1 = 0
    BY <1>2
  <2>2. Booked(State(0), State(1))
    BY <2>1 DEF LedgerIInv, Books
  <2> QED BY <1>2, <2>2
<1>4. Books'
  <2> SUFFICES ASSUME NEW j \in 1..Len(writes')
               PROVE  Booked(State(j - 1)', State(j)')
    BY DEF Books
  <2>1. /\ j - 1 \in 0..Len(writes') /\ j \in 0..Len(writes') /\ (j - 1) + 1 = j
        /\ j + 1 \in 1..Len(writes) /\ (j + 1) - 1 = j
    BY <1>2
  <2>2. Booked(State(j), State(j + 1))
    BY <2>1 DEF LedgerIInv, Books
  <2>3. State(j - 1)' = State(j) /\ State(j)' = State(j + 1)
    BY <1>2, <2>1
  <2> QED BY <2>2, <2>3
<1>5. PlainRows'
  <2>1. \A d \in Versions' : Plain(d) /\ Thrifty(d)
    BY <1>1 DEF LedgerIInv, PlainRows
  <2> QED BY <2>1 DEF PlainRows, Plain, Thrifty, Estate, FundsOf
<1>6. InRows'
  BY <1>1 DEF LedgerIInv, InRows
<1>7. Fine(db')
  <2>1. db' \in Versions'
    BY DEF Versions
  <2>2. db' \in Versions
    BY <1>1, <2>1
  <2> QED BY <2>2, GoodVersions DEF Good
<1> QED BY <1>1, <1>3, <1>4, <1>5, <1>6, <1>7 DEF LedgerIInv

LEMMA CrashBooked ==
    ASSUME LedgerIInv, AuctionIInv', InStep', Crash
    PROVE  LedgerIInv' /\ db' = db
<1>1. Latest' = db /\ Versions' = {db}
  BY CrashKeeps DEF LedgerIInv, AuctionIInv
<1>2. writes' = <<>> /\ db' = db /\ box' = [p \in Player |-> {}]
  BY DEF Crash, LoseQueue
<1>3. Len(writes') = 0
  BY <1>2, EmptySeq
<1>4. Books'
  BY <1>3 DEF Books
<1>5. PlainRows'
  <2>1. \A d \in Versions' : Plain(d) /\ Thrifty(d)
    BY <1>1, GoodVersions DEF Good
  <2> QED BY <2>1 DEF PlainRows, Plain, Thrifty, Estate, FundsOf
<1>6. InRows'
  BY <1>2 DEF InRows
<1> QED BY <1>2, <1>4, <1>5, <1>6 DEF LedgerIInv

-----------------------------------------------------------------------------
(* What a session saves. *)

LEMMA SessionBooked ==
    ASSUME LedgerIInv, AuctionIInv', InStep', NEW p, NEW r, Commit(r, p),
           r.auctions = Latest.auctions, r.items = Latest.items, \A m \in r.mails : m.cod = 0,
           \A q \in Player, j \in Item : Has(r, q, j) <=> Has(Latest, q, j),
           \A q \in Player : Cash(r, q) = Cash(Latest, q) /\ box'[q] \subseteq r.mails
    PROVE  LedgerIInv' /\ db' = db
<1>1. AuctionIInv /\ Good(Latest)
  BY GoodVersions DEF LedgerIInv
<1>2. Fine(r)
  BY <1>1, FineNext
<1>3. After(Latest, r)
  BY <1>1, <1>2 DEF After
<1>4. Plain(r) /\ SameBooks(Latest, r)
  BY <1>3, SameIsBooked
<1>5. Booked(Latest, r)
  BY <1>4 DEF Booked
<1> QED BY <1>4, <1>5, BookedCommit

\* Mails that nobody has touched are saved as they are...
LEMMA SaveUnchanged ==
    ASSUME NEW d, RowsOK(d), NEW e, Shaped(e), e.mails = d.mails, e.items = d.items,
           NEW b, b \subseteq d.mails
    PROVE  SaveMail(e, b).mails = d.mails /\ SaveMail(e, b).items = d.items
<1>1. \A m \in d.mails : m.state = "unchanged" /\ ~IsEmpty(m)
  BY RowsFields
<1>2. \A x : UpdateRow(x, b) = x
  <2>1. \A m \in b : m.state # "changed"
    BY <1>1
  <2> QED BY <2>1, UntouchedRow
<1> DEFINE doomed == {m \in b : m.state = "deleted"}
           kept == {m \in d.mails : m.id \notin {n.id : n \in doomed}}
           rows == {m \in {UpdateRow(x, b) : x \in kept} : ~IsEmpty(m)}
<1>3. doomed = {}
  BY <1>1
<1>4. kept = d.mails /\ d.items \ {m.item : m \in doomed} = d.items
  BY <1>3
<1>5. rows = d.mails
  BY <1>1, <1>2, <1>4
<1>6. SaveMail(e, b) = [e EXCEPT !.items = d.items \ {m.item : m \in doomed}, !.mails = rows]
  BY DEF SaveMail, Shaped
<1> HIDE DEF rows, doomed
<1> QED BY <1>4, <1>5, <1>6 DEF Shaped

\* What is left of the mails S when y takes the place of m.
Replaced(S, m, y) == (S \ {m}) \cup (IF IsEmpty(y) THEN {} ELSE {y})

\* ... and one that was emptied in part is replaced, in memory too.
LEMMA SaveOne ==
    ASSUME NEW d, RowsOK(d), NEW e, Shaped(e), e.mails = d.mails, e.items = d.items,
           NEW b, b \subseteq d.mails, NEW m \in b,
           NEW new \in Mail, new.id = m.id, new.state = "changed",
           Updated(m, new) = [new EXCEPT !.state = "unchanged"]
    PROVE  LET mails == (b \ {m}) \cup {new}
               y == Updated(m, new)
           IN  /\ SaveMail(e, mails).mails = Replaced(d.mails, m, y)
               /\ SaveMail(e, mails).items = d.items
               /\ Cleaned(mails) \subseteq Replaced(d.mails, m, y)
<1> DEFINE mails == (b \ {m}) \cup {new}
           y == Updated(m, new)
<1>1. /\ \A n \in d.mails : n.state = "unchanged" /\ ~IsEmpty(n) /\ n \in Mail
      /\ \A n, x \in d.mails : n.id = x.id => n = x
  BY RowsFields
<1>2. OneEach(mails)
  BY <1>1 DEF OneEach
<1>3. UpdateRow(m, mails) = y
  BY <1>2, UpdatedRow
<1>4. ASSUME NEW x \in d.mails, x # m PROVE UpdateRow(x, mails) = x
  <2>1. \A n \in mails : n.id = x.id => n.state # "changed"
    BY <1>1, <1>4
  <2> QED BY <2>1, UntouchedRow
<1> HIDE DEF y
<1> DEFINE doomed == {n \in mails : n.state = "deleted"}
           kept == {n \in d.mails : n.id \notin {x.id : x \in doomed}}
           rows == {n \in {UpdateRow(x, mails) : x \in kept} : ~IsEmpty(n)}
<1>5. doomed = {}
  BY <1>1
<1>6. kept = d.mails /\ d.items \ {n.item : n \in doomed} = d.items
  BY <1>5
<1>7. rows = Replaced(d.mails, m, y)
  <2> HIDE DEF mails, kept
  <2>1. \A n \in rows : n \in Replaced(d.mails, m, y)
    BY <1>3, <1>4, <1>6 DEF Replaced
  <2>2. ASSUME NEW n \in Replaced(d.mails, m, y)
        PROVE  n \in rows
    <3>1. CASE n \in d.mails \ {m}
      BY <1>1, <1>4, <1>6, <3>1
    <3>2. CASE n = y /\ ~IsEmpty(y)
      BY <1>3, <1>6, <3>2
    <3> QED BY <3>1, <3>2 DEF Replaced
  <2> QED BY <2>1, <2>2
<1>8. SaveMail(e, mails) = [e EXCEPT !.items = d.items \ {n.item : n \in doomed}, !.mails = rows]
  BY DEF SaveMail, Shaped
<1>9. Cleaned(mails) \subseteq Replaced(d.mails, m, y)
  <2> SUFFICES ASSUME NEW n \in mails, n.state # "deleted", ~IsEmpty(n)
               PROVE  [n EXCEPT !.state = "unchanged"] \in Replaced(d.mails, m, y)
    BY DEF Cleaned
  <2>1. CASE n \in b \ {m}
    <3>1. n \in Mail /\ n.state = "unchanged"
      BY <1>1, <2>1
    <3>2. [n EXCEPT !.state = "unchanged"] = n
      BY <3>1 DEF Mail
    <3> QED BY <2>1, <3>2 DEF Replaced
  <2>2. CASE n = new
    <3>1. y = [new EXCEPT !.state = "unchanged"]
      BY DEF y
    <3>2. IsEmpty(y) <=> IsEmpty(new)
      BY <3>1 DEF IsEmpty, Mail
    <3> QED BY <2>2, <3>1, <3>2 DEF Replaced
  <2> QED BY <2>1, <2>2
<1> HIDE DEF rows, doomed
<1>10. SaveMail(e, mails).mails = Replaced(d.mails, m, y) /\ SaveMail(e, mails).items = d.items
  BY <1>6, <1>7, <1>8 DEF Shaped
<1> QED BY <1>9, <1>10 DEF y

\* The money and the items that are left.
LEMMA ReplacedPost ==
    ASSUME NEW S, S \subseteq Mail, OneEach(S), NEW m \in S, NEW y \in Mail, y.id = m.id, y.to = m.to
    PROVE  LET T == Replaced(S, m, y)
           IN  /\ \A q \in Player : Post(T, q) = Post(S, q) + (IF q = m.to THEN y.money - m.money ELSE 0)
               /\ \A q \in Player, j \in Item :
                     Mailed(T, q, j) <=> Mailed(S \ {m}, q, j) \/ (q = m.to /\ j = y.item)
<1> DEFINE R == S \ {m}
           T == Replaced(S, m, y)
           U == R \cup {y}
<1>1. /\ R \subseteq Mail /\ OneEach(R) /\ m \notin R /\ y \notin R /\ R \cup {m} = S
      /\ U \subseteq Mail /\ OneEach(U)
  BY DEF OneEach
<1> HIDE DEF R
<1>2. Adds(R, R \cup {m}, m.to, m.item, m.money)
  BY <1>1, OnePostMore
<1>3. Adds(R, R \cup {y}, y.to, y.item, y.money)
  BY <1>1, OnePostMore
<1>4. \A q : Post(R, q) \in Nat
  BY <1>1, PostIsNat
<1>5. m.money \in Nat /\ y.money \in Nat
  BY DEF Mail
<1>6. T = IF IsEmpty(y) THEN R ELSE U
  BY DEF Replaced, R
<1>7. ASSUME NEW q \in Player
      PROVE  Post(T, q) = Post(S, q) + (IF q = m.to THEN y.money - m.money ELSE 0)
  <2>1. /\ Post(S, q) = Post(R, q) + (IF q = m.to THEN m.money ELSE 0)
        /\ Post(U, q) = Post(R, q) + (IF q = m.to THEN y.money ELSE 0)
        /\ Post(R, q) \in Nat
    BY <1>1, <1>2, <1>3, <1>4 DEF Adds
  <2>2. IsEmpty(y) => y.money = 0
    BY DEF IsEmpty
  <2>3. Post(T, q) = Post(R, q) + (IF q = m.to THEN y.money ELSE 0)
    BY <1>5, <1>6, <2>1, <2>2
  <2> QED BY ONLY <1>5, <2>1, <2>3
<1>8. ASSUME NEW q \in Player, NEW j \in Item
      PROVE  Mailed(T, q, j) <=> Mailed(R, q, j) \/ (q = m.to /\ j = y.item)
  <2>1. j # NoItem
    BY NoItemAssumption
  <2> QED BY <1>6, <2>1 DEF Mailed, IsEmpty
<1> QED BY <1>7, <1>8 DEF R

LEMMA LogoutBooked ==
    ASSUME LedgerIInv, AuctionIInv', InStep', NEW p \in Player, Logout(p)
    PROVE  LedgerIInv' /\ db' = db
<1> DEFINE e == SaveInventoryAndGold(Latest, p, inv[p], money[p])
           r == Saved(p)
<1>1. p \in online /\ Commit(r, p) /\ box' = [box EXCEPT ![p] = {}]
  BY DEF Logout
<1>2. /\ MailIInv /\ RowsOK(Latest) /\ Good(Latest) /\ AuctionIInv
      /\ \A q \in Player : box[q] \subseteq Latest.mails
  BY GoodVersions DEF LedgerIInv, AuctionIInv, InRows
<1>3. /\ \A q \in Player : r.inv[q] = Latest.inv[q] /\ r.money[q] = Latest.money[q]
      /\ r.auctions = Latest.auctions
  BY <1>1, <1>2, SavedRows DEF GoodsMoved
<1>4. Shaped(e) /\ e.mails = Latest.mails /\ e.items = Latest.items
  BY <1>2, InventoryAlone DEF RowsOK
<1>5. r = SaveMail(e, box[p])
  BY DEF Saved
<1> HIDE DEF e, r
<1>6. r.mails = Latest.mails /\ r.items = Latest.items
  BY <1>2, <1>4, <1>5, SaveUnchanged
<1>7. \A q \in Player : Cash(r, q) = Cash(Latest, q)
  BY <1>3, <1>6 DEF Cash
<1>8. \A q \in Player, j \in Item : Has(r, q, j) <=> Has(Latest, q, j)
  BY <1>3, <1>6 DEF Has
<1>9. \A q \in Player : box'[q] \subseteq r.mails
  <2>1. \A q \in Player : box'[q] = IF q = p THEN {} ELSE box[q]
    BY <1>1, <1>2 DEF MailIInv, Memory
  <2> QED BY <1>2, <1>6, <2>1
<1>10. \A m \in r.mails : m.cod = 0
  BY <1>2, <1>6 DEF Good, Plain
<1> QED BY <1>1, <1>3, <1>6, <1>7, <1>8, <1>9, <1>10, SessionBooked

\* A mail that is listed: its row is the same.
LEMMA ListedMail ==
    ASSUME LedgerIInv, NEW p \in Player, NEW m \in box[p]
    PROVE  /\ MailIInv /\ AuctionIInv /\ RowsOK(Latest) /\ Good(Latest) /\ Latest.mails \subseteq Mail
           /\ OneEach(Latest.mails) /\ \A q \in Player : box[q] \subseteq Latest.mails
           /\ m \in Latest.mails /\ m \in Mail /\ m.to = p /\ m.cod = 0 /\ m.state = "unchanged"
           /\ p \in online /\ money[p] = Latest.money[p] /\ inv[p] = Latest.inv[p]
           /\ money[p] \in 0..MaxMoney /\ Latest.items = Item /\ \A x \in Latest.mails : x.cod = 0
<1>1. /\ MailIInv /\ AuctionIInv /\ RowsOK(Latest) /\ Good(Latest) /\ Known(Latest.mails)
      /\ \A q \in Player : box[q] \subseteq Latest.mails
  BY GoodVersions DEF LedgerIInv, AuctionIInv, InRows
<1>2. m \in Latest.mails
  BY <1>1
<1>3. m.state = "unchanged" /\ m.cod = 0 /\ Latest.items = Item /\ \A x \in Latest.mails : x.cod = 0
  BY <1>1, <1>2, RowsFields DEF Good, Plain
<1>4. /\ p \in online /\ m \in Mail /\ m.to = p
      /\ inv[p] = Latest.inv[p] /\ money[p] = Latest.money[p] /\ money[p] \in 0..MaxMoney
  BY <1>1, BoxFacts
<1> QED BY <1>1, <1>2, <1>3, <1>4 DEF Known

\* All the money there is fits into one purse, so that none of it is cut off.
LEMMA TakeMoneyBooked ==
    ASSUME LedgerIInv, AuctionIInv', InStep', PurseIsLarge,
           NEW p \in Player, NEW m \in box[p], TakeMoney(p, m)
    PROVE  LedgerIInv' /\ db' = db
<1> DEFINE new == [m EXCEPT !.money = 0, !.state = "changed"]
           y == [m EXCEPT !.money = 0]
           mails == Changed(p, m, new)
           gold == Received(money[p], m.money)
           d == Latest
           e == [d EXCEPT !.money[p] = gold]
           r == SaveMail(e, mails)
           T == Replaced(d.mails, m, y)
<1>1. /\ box' = [box EXCEPT ![p] = Cleaned(mails)] /\ Commit(SaveMail([Latest EXCEPT !.money[p] = gold], mails), p)
      /\ m.money > 0
  BY DEF TakeMoney
<1>2. /\ MailIInv /\ AuctionIInv /\ RowsOK(d) /\ Good(d) /\ d.mails \subseteq Mail
      /\ OneEach(d.mails) /\ \A q \in Player : box[q] \subseteq d.mails
      /\ m \in d.mails /\ m \in Mail /\ m.to = p /\ m.cod = 0 /\ m.state = "unchanged"
      /\ money[p] = d.money[p] /\ inv[p] = d.inv[p]
      /\ money[p] \in 0..MaxMoney /\ \A x \in d.mails : x.cod = 0
  BY ListedMail
<1>3. /\ new \in Mail /\ new.id = m.id /\ new.state = "changed"
      /\ Updated(m, new) = y /\ y = [new EXCEPT !.state = "unchanged"]
      /\ y \in Mail /\ y.id = m.id /\ y.to = m.to /\ y.item = m.item /\ y.money = 0 /\ y.cod = 0
      /\ m.money \in Nat
  BY <1>2 DEF Mail, Updated
<1>4. mails = (box[p] \ {m}) \cup {new}
  BY DEF Changed
<1>5. gold \in 0..MaxMoney
  BY <1>2, <1>3, Purses
<1>6. Commit(r, p)
  BY <1>1
<1> HIDE DEF new, y, mails, gold, d
<1>7. /\ RowsOK(e) /\ e.money[p] = gold /\ \A q \in Player \ {p} : e.money[q] = d.money[q]
      /\ e.inv = d.inv /\ e.mails = d.mails /\ e.items = d.items /\ e.auctions = d.auctions
  BY <1>2, <1>5, PurseSaved
<1> HIDE DEF e
<1>8. r.mails = T /\ r.items = d.items /\ Cleaned(mails) \subseteq T
  <2>1. Shaped(e) /\ box[p] \subseteq d.mails /\ Updated(m, new) = [new EXCEPT !.state = "unchanged"]
    BY <1>2, <1>3, <1>7 DEF RowsOK
  <2>2. RowsOK(d) /\ e.mails = d.mails /\ e.items = d.items /\ m \in box[p] /\ new \in Mail
        /\ new.id = m.id /\ new.state = "changed" /\ mails = (box[p] \ {m}) \cup {new}
    BY <1>2, <1>3, <1>4, <1>7
  <2>3. /\ r.mails = Replaced(d.mails, m, Updated(m, new)) /\ r.items = d.items
        /\ Cleaned(mails) \subseteq Replaced(d.mails, m, Updated(m, new))
    BY <2>1, <2>2, SaveOne
  <2> QED BY <1>3, <2>3
<1>r. /\ d.mails \subseteq Mail /\ OneEach(d.mails) /\ m \in d.mails /\ y \in Mail
      /\ y.id = m.id /\ y.to = m.to
  BY <1>2, <1>3
<1>9. r.money = e.money /\ r.inv = e.inv /\ r.auctions = e.auctions
  BY <1>7 DEF SaveMail, RowsOK, Shaped
<1> HIDE DEF r
<1>10. Fine(r) /\ RowsOK(r)
  <2>1. Fine(r)
    BY <1>2, <1>6, FineNext
  <2> QED BY <2>1, FineIsSeparate
<1>11. \A q \in Player : Post(T, q) = Post(d.mails, q) + (IF q = p THEN 0 - m.money ELSE 0)
  <2>1. \A q \in Player : Post(T, q) = Post(d.mails, q) + (IF q = m.to THEN y.money - m.money ELSE 0)
    BY <1>r, ReplacedPost
  <2> QED BY <1>2, <1>3, <2>1
<1>12. \A q \in Player : Post(T, q) \in Nat /\ Post(d.mails, q) \in Nat /\ d.money[q] \in Nat
  <2>1. T \subseteq Mail /\ OneEach(T)
    BY <1>8, <1>10, RowsFields DEF OneEach
  <2>2. \A q \in Player : d.money[q] \in Nat
    BY <1>2, RowsFields, MoneyAssumption
  <2> QED BY <1>2, <2>1, <2>2, PostIsNat
<1>13. gold = d.money[p] + m.money
  <2>1. Thrifty(d) /\ Fine(d)
    BY GoodVersions DEF Good, d
  <2>2. Funds(d, p) <= Estate(d) /\ Funds(d, p) \in Nat
    BY <2>1, FundsAreFine
  <2>3. Estate(d) <= MaxMoney /\ MaxMoney \in Nat /\ Estate(d) \in Nat
    <3>1. Estate(d) \in Nat
      BY <2>1, FundsAreFine DEF Estate
    <3>2. SumFunctionOnSet([q \in Player |-> StartMoney], Player) \in Nat
      BY PlayerAssumption, MoneyAssumption, SumPart
    <3> QED BY <2>1, <3>1, <3>2, MoneyAssumption DEF Thrifty, PurseIsLarge
  <2>4. Funds(d, p) = d.money[p] + Post(d.mails, p) + Stake(d.auctions, p) /\ Stake(d.auctions, p) \in Nat
    <3>1. RowsOK(d) /\ Separate(d.auctions)
      BY <2>1, FineIsSeparate
    <3>2. Funds(d, p) = Cash(d, p) + Stake(d.auctions, p) /\ Stake(d.auctions, p) \in Nat
      BY <3>1, FundsAre
    <3> QED BY <3>2 DEF Cash
  <2>5. Post(T, p) = Post(d.mails, p) + (0 - m.money)
    BY <1>11
  <2>6. Post(T, p) \in Nat /\ Post(d.mails, p) \in Nat /\ d.money[p] \in Nat
    BY <1>12
  <2>7. d.money[p] + m.money <= MaxMoney
    BY <1>3, <2>2, <2>3, <2>4, <2>5, <2>6
  <2> QED BY <1>2, <1>3, <2>3, <2>6, <2>7 DEF Received, gold
<1>14. \A q \in Player : Cash(r, q) = Cash(d, q)
  <2> TAKE q \in Player
  <2>1. Cash(r, q) = r.money[q] + Post(T, q) /\ Cash(d, q) = d.money[q] + Post(d.mails, q)
    BY <1>8 DEF Cash
  <2>2. r.money[q] = d.money[q] + (IF q = p THEN m.money ELSE 0)
    BY <1>7, <1>9, <1>12, <1>13
  <2>3. Post(T, q) = Post(d.mails, q) + (IF q = p THEN 0 - m.money ELSE 0)
    BY <1>11
  <2>4. Post(d.mails, q) \in Nat /\ d.money[q] \in Nat
    BY <1>12
  <2> QED BY ONLY <1>3, <2>1, <2>2, <2>3, <2>4
<1>15. \A q \in Player, j \in Item : Has(r, q, j) <=> Has(d, q, j)
  <2>1. \A q \in Player, j \in Item :
           Mailed(T, q, j) <=> Mailed(d.mails \ {m}, q, j) \/ (q = m.to /\ j = y.item)
    BY <1>r, ReplacedPost
  <2>2. \A q \in Player, j \in Item : Mailed(T, q, j) <=> Mailed(d.mails, q, j)
    BY <1>2, <1>3, <2>1 DEF Mailed
  <2> QED BY <1>7, <1>8, <1>9, <2>2 DEF Has
<1>16. \A x \in r.mails : x.cod = 0
  BY <1>2, <1>3, <1>8 DEF Replaced
<1>17. \A q \in Player : box'[q] \subseteq r.mails
  <2>1. \A q \in Player : box'[q] = IF q = p THEN Cleaned(mails) ELSE box[q]
    BY <1>1, <1>2 DEF MailIInv, Memory
  <2>2. \A q \in Player \ {p} : m \notin box[q]
    BY <1>2 DEF MailIInv, Boxes, BoxOK
  <2> QED BY <1>2, <1>8, <2>1, <2>2 DEF Replaced
<1> QED BY <1>6, <1>7, <1>8, <1>9, <1>14, <1>15, <1>16, <1>17, SessionBooked DEF d

\* The item goes from the mail to the bags of its receiver.
LEMMA TakeItemBooked ==
    ASSUME LedgerIInv, AuctionIInv', InStep', NEW p \in Player, NEW m \in box[p], TakeItem(p, m)
    PROVE  LedgerIInv' /\ db' = db
<1> DEFINE new == [m EXCEPT !.item = NoItem, !.cod = 0, !.state = "changed"]
           y == [m EXCEPT !.item = NoItem, !.cod = 0]
           mails == Changed(p, m, new)
           payment == CashOnDelivery(p, m)
           gold == Paid(money[p], m.cod)
           items == inv[p] \cup {m.item}
           d == Latest
           bags == [q \in Player |-> IF q = p THEN d.inv[q] \cup items ELSE d.inv[q] \ items]
           purses == [d.money EXCEPT ![p] = gold]
           e == SaveInventoryAndGold(d, p, items, gold)
           r == SaveMail(e, mails)
           T == Replaced(d.mails, m, y)
<1>1. /\ box' = Delivered([box EXCEPT ![p] = Cleaned(mails)], payment) /\ m.item # NoItem
      /\ Commit(SaveMail(SaveInventoryAndGold(InsertMails(Latest, payment), p, items, gold), mails), p)
  BY DEF TakeItem
<1>2. /\ MailIInv /\ AuctionIInv /\ RowsOK(d) /\ Good(d) /\ d.mails \subseteq Mail
      /\ OneEach(d.mails) /\ \A q \in Player : box[q] \subseteq d.mails
      /\ m \in d.mails /\ m \in Mail /\ m.to = p /\ m.cod = 0 /\ m.state = "unchanged"
      /\ money[p] = d.money[p] /\ inv[p] = d.inv[p]
      /\ money[p] \in 0..MaxMoney /\ \A x \in d.mails : x.cod = 0
  BY ListedMail
<1>3. /\ new \in Mail /\ new.id = m.id /\ new.state = "changed"
      /\ Updated(m, new) = y /\ y = [new EXCEPT !.state = "unchanged"]
      /\ y \in Mail /\ y.id = m.id /\ y.to = m.to /\ y.item = NoItem /\ y.money = m.money /\ y.cod = 0
      /\ m.money \in Nat
  BY <1>2 DEF Mail, Updated
<1>4. mails = (box[p] \ {m}) \cup {new}
  BY DEF Changed
<1>5. gold = d.money[p] /\ payment = <<>>
  BY <1>2, MoneyAssumption DEF Paid, CashOnDelivery
<1> HIDE DEF new, y, mails, payment
<1>6. Commit(r, p)
  <2>1. InsertMails(d, <<>>) = d
    BY <1>2, NoDrafts DEF InsertMails, RowsOK, Shaped
  <2> HIDE DEF gold, items
  <2> QED BY <1>1, <1>5, <2>1
<1>7. /\ Shaped(e) /\ e.inv = bags /\ e.money = purses
      /\ e.mails = d.mails /\ e.items = d.items /\ e.auctions = d.auctions
  <2>1. e = [d EXCEPT !.inv = bags, !.money = purses]
    BY <1>2 DEF RowsOK, Shaped, SaveInventoryAndGold
  <2>2. Shaped(d)
    BY <1>2 DEF RowsOK
  <2> HIDE DEF bags, purses, e, d
  <2> QED BY <2>1, <2>2 DEF Shaped
<1>8. \A q \in Player : /\ bags[q] = d.inv[q] \cup (IF q = p THEN {m.item} ELSE {})
                        /\ purses[q] = d.money[q]
  <2>1. \A q \in Player : purses[q] = d.money[q]
    BY <1>2, <1>5, RowsFields
  <2>2. \A q \in Player \ {p} : \A i \in d.inv[q] : i \notin inv[p] /\ i # m.item
    BY <1>2 DEF RowsOK, RowsSound
  <2> QED BY <1>2, <2>1, <2>2
<1> HIDE DEF bags, purses, gold, items, d, e
<1>9. /\ r.mails = T /\ r.items = d.items /\ Cleaned(mails) \subseteq T
  <2>1. Shaped(e) /\ box[p] \subseteq d.mails /\ Updated(m, new) = [new EXCEPT !.state = "unchanged"]
    BY <1>2, <1>3, <1>7
  <2>2. RowsOK(d) /\ e.mails = d.mails /\ e.items = d.items /\ m \in box[p] /\ new \in Mail
        /\ new.id = m.id /\ new.state = "changed" /\ mails = (box[p] \ {m}) \cup {new}
    BY <1>2, <1>3, <1>4, <1>7
  <2>3. /\ SaveMail(e, (box[p] \ {m}) \cup {new}).mails = Replaced(d.mails, m, Updated(m, new))
        /\ SaveMail(e, (box[p] \ {m}) \cup {new}).items = d.items
        /\ Cleaned((box[p] \ {m}) \cup {new}) \subseteq Replaced(d.mails, m, Updated(m, new))
    BY <2>1, <2>2, SaveOne
  <2> QED BY <1>3, <1>4, <2>3
<1>10. r.money = e.money /\ r.inv = e.inv /\ r.auctions = e.auctions
  BY <1>7 DEF SaveMail, Shaped
<1> HIDE DEF r
<1>11. /\ d.mails \subseteq Mail /\ OneEach(d.mails) /\ m \in d.mails /\ y \in Mail
       /\ y.id = m.id /\ y.to = m.to
  BY <1>2, <1>3
<1>12. /\ \A q \in Player : Post(T, q) = Post(d.mails, q) + (IF q = m.to THEN y.money - m.money ELSE 0)
       /\ \A q \in Player, j \in Item :
             Mailed(T, q, j) <=> Mailed(d.mails \ {m}, q, j) \/ (q = m.to /\ j = y.item)
  BY <1>11, ReplacedPost
<1>13. \A q \in Player : Cash(r, q) = Cash(d, q)
  <2> TAKE q \in Player
  <2>1. Cash(r, q) = r.money[q] + Post(T, q) /\ Cash(d, q) = d.money[q] + Post(d.mails, q)
    BY <1>9 DEF Cash
  <2>2. Post(d.mails, q) \in Nat
    BY <1>2, PostIsNat
  <2>3. Post(T, q) = Post(d.mails, q) + (IF q = m.to THEN y.money - m.money ELSE 0)
    BY <1>12
  <2>4. Post(T, q) = Post(d.mails, q)
    BY ONLY <1>3, <2>2, <2>3
  <2> QED BY <1>7, <1>8, <1>10, <2>1, <2>4
<1>14. \A q \in Player, j \in Item : Has(r, q, j) <=> Has(d, q, j)
  <2>1. \A q \in Player, j \in Item :
           Mailed(d.mails, q, j) <=> Mailed(d.mails \ {m}, q, j) \/ (q = p /\ j = m.item)
    BY <1>2 DEF Mailed
  <2>2. \A q \in Player, j \in Item : Mailed(T, q, j) <=> Mailed(d.mails \ {m}, q, j)
    BY <1>3, <1>12, NoItemAssumption
  <2>3. \A q \in Player, j \in Item : j \in r.inv[q] <=> j \in d.inv[q] \/ (q = p /\ j = m.item)
    BY <1>7, <1>8, <1>10
  <2>4. r.mails = T
    BY <1>9
  <2> HIDE DEF T
  <2> QED BY <2>1, <2>2, <2>3, <2>4 DEF Has
<1>15. \A x \in r.mails : x.cod = 0
  BY <1>2, <1>3, <1>9 DEF Replaced
<1>16. \A q \in Player : box'[q] \subseteq r.mails
  <2>1. box \in [Player -> SUBSET Mail]
    BY <1>2 DEF MailIInv, Memory
  <2> DEFINE boxes == [box EXCEPT ![p] = Cleaned(mails)]
  <2>2. boxes = [q \in Player |-> boxes[q]] /\ \A q \in Player : boxes[q] = IF q = p THEN Cleaned(mails) ELSE box[q]
    BY <2>1
  <2> HIDE DEF boxes
  <2>3. box' = boxes
    <3>1. box' = Delivered(boxes, <<>>)
      BY <1>1, <1>5 DEF boxes
    <3> QED BY <2>2, <3>1, NothingDelivered
  <2>4. \A q \in Player \ {p} : m \notin box[q]
    BY <1>2 DEF MailIInv, Boxes, BoxOK
  <2> QED BY <1>2, <1>9, <2>2, <2>3, <2>4 DEF Replaced
<1> QED BY <1>6, <1>7, <1>9, <1>10, <1>13, <1>14, <1>15, <1>16, SessionBooked DEF d

LEMMA SessionNextBooked ==
    ASSUME LedgerIInv, AuctionIInv', InStep', PurseIsLarge, SessionNext
    PROVE  LedgerIInv' /\ db' = db
<1>1. PICK p \in Player : \/ Login(p) \/ Logout(p) \/ GetMailList(p)
                          \/ \E m \in box[p] : TakeItem(p, m) \/ TakeMoney(p, m)
  BY DEF SessionNext
<1>2. CASE Login(p)
  <2>1. UNCHANGED <<db, writes, box>>
    BY <1>2 DEF Login, dbVars
  <2> QED BY <2>1, StillBooked
<1>3. CASE Logout(p) \/ GetMailList(p)
  BY <1>3, LogoutBooked, GetMailListBooked
<1>4. CASE \E m \in box[p] : TakeItem(p, m) \/ TakeMoney(p, m)
  BY <1>4, TakeItemBooked, TakeMoneyBooked
<1> QED BY <1>1, <1>2, <1>3, <1>4

-----------------------------------------------------------------------------
(* Auctions that are over, one transaction after the other. *)

\* Nothing but mails and auctions changes.
Resettled(d, s, R, u, Q) ==
    /\ After(SettledRows(d, s, R), SettledRows(d, u, Q))
    /\ \A q \in Player : /\ Cash(SettledRows(d, s, R), q) = d.money[q] + Post(d.mails \cup Sent(s), q)
                         /\ Cash(SettledRows(d, u, Q), q) = d.money[q] + Post(d.mails \cup Sent(u), q)
                         /\ d.money[q] \in Nat /\ Post(d.mails \cup Sent(s), q) \in Nat
    /\ \A q \in Player, j \in Item :
          /\ Has(SettledRows(d, s, R), q, j) <=> j \in d.inv[q] \/ Mailed(d.mails \cup Sent(s), q, j)
          /\ Has(SettledRows(d, u, Q), q, j) <=> j \in d.inv[q] \/ Mailed(d.mails \cup Sent(u), q, j)

LEMMA SettledAfter ==
    ASSUME NEW d, NEW s, NEW R, NEW u, NEW Q, NEW g, Notices(u, g), Sent(s) \subseteq Sent(u),
           Good(SettledRows(d, s, R)), Fine(SettledRows(d, u, Q))
    PROVE  Resettled(d, s, R, u, Q)
<1> DEFINE D == SettledRows(d, s, R)
           E == SettledRows(d, u, Q)
<1>1. /\ D.mails = d.mails \cup Sent(s) /\ E.mails = d.mails \cup Sent(u)
      /\ D.money = d.money /\ E.money = d.money /\ D.inv = d.inv /\ E.inv = d.inv
      /\ D.items = d.items /\ E.items = d.items
  BY DEF SettledRows
<1> HIDE DEF D, E
<1>2. Good(D) /\ Fine(E)
  BY DEF D, E
<1>3. \A m \in E.mails : m.cod = 0
  <2>1. \A n \in Sent(u) : n.cod = 0
    BY NoticesAreFree
  <2> QED BY <1>1, <1>2, <2>1 DEF Good, Plain
<1>4. After(D, E)
  BY <1>1, <1>2, <1>3 DEF After
<1>5. \A q \in Player : /\ Cash(D, q) = d.money[q] + Post(d.mails \cup Sent(s), q)
                        /\ Cash(E, q) = d.money[q] + Post(d.mails \cup Sent(u), q)
                        /\ d.money[q] \in Nat /\ Post(d.mails \cup Sent(s), q) \in Nat
  <2>1. RowsOK(D) /\ Separate(D.auctions)
    BY <1>2, FineIsSeparate DEF Good
  <2>2. \A q \in Player : D.money[q] \in Nat /\ Post(D.mails, q) \in Nat
    BY <2>1, FundsAre
  <2> QED BY <1>1, <2>2 DEF Cash
<1>6. \A q \in Player, j \in Item :
         /\ Has(D, q, j) <=> j \in d.inv[q] \/ Mailed(d.mails \cup Sent(s), q, j)
         /\ Has(E, q, j) <=> j \in d.inv[q] \/ Mailed(d.mails \cup Sent(u), q, j)
  BY <1>1 DEF Has
<1> QED BY <1>4, <1>5, <1>6 DEF D, E, Resettled

\* Nobody wanted it.
LEMMA ExpiredBooked ==
    ASSUME NEW d, Known(d.mails), NEW s, NEW G, Notices(s, G), NEW a \in AuctionEntry,
           a.bidder = Nobody, NEW R, NEW Q, R = Q \cup {a}, a \notin Q, NEW known, a.item \in known,
           NEW u, u = s \o SettlementMails(a, known), RoomFor(u), NEW g, Notices(u, g),
           Sent(s) \subseteq Sent(u),
           Good(SettledRows(d, s, R)), Fine(SettledRows(d, u, Q))
    PROVE  Plain(SettledRows(d, u, Q)) /\ Booked(SettledRows(d, s, R), SettledRows(d, u, Q))
<1> DEFINE D == SettledRows(d, s, R)
           E == SettledRows(d, u, Q)
           M == d.mails
           S == M \cup Sent(s)
           T == M \cup Sent(u)
<1>1. a.owner \in Player /\ a.item \in Item /\ u = s \o AuctionMail(a.owner, a.item, 0)
  BY DEF AuctionEntry, SettlementMails, ExpiredMail
<1>2. Adds(M \cup Sent(s), M \cup Sent(u), a.owner, a.item, 0) /\ RoomFor(s)
  <2>1. RoomFor(s \o AuctionMail(a.owner, a.item, 0))
    BY <1>1
  <2> HIDE DEF M
  <2>2. Known(M)
    BY DEF M
  <2>3. 0 \in Nat /\ a.item \in Item \cup {NoItem}
    BY <1>1
  <2>4. /\ Adds(M \cup Sent(s), M \cup Sent(s \o AuctionMail(a.owner, a.item, 0)), a.owner, a.item, 0)
        /\ RoomFor(s)
    BY <1>1, <2>1, <2>2, <2>3, OneLetter
  <2> QED BY <1>1, <2>4
<1>3. /\ After(D, E)
      /\ \A q \in Player : /\ Cash(D, q) = d.money[q] + Post(S, q)
                           /\ Cash(E, q) = d.money[q] + Post(T, q)
                           /\ d.money[q] \in Nat /\ Post(S, q) \in Nat
      /\ \A q \in Player, j \in Item :
            /\ Has(D, q, j) <=> j \in d.inv[q] \/ Mailed(S, q, j)
            /\ Has(E, q, j) <=> j \in d.inv[q] \/ Mailed(T, q, j)
  <2>1. Resettled(d, s, R, u, Q)
    BY SettledAfter
  <2> QED BY <2>1 DEF Resettled
<1>4. D.auctions = R /\ E.auctions = Q
  BY DEF SettledRows
<1>5. Adds(S, T, a.owner, a.item, 0)
  BY <1>2
<1> HIDE DEF D, E, S, T
<1>6. \A q \in Player : /\ Post(T, q) = Post(S, q) + (IF q = a.owner THEN 0 ELSE 0)
                        /\ \A j \in Item : Mailed(T, q, j) <=> Mailed(S, q, j) \/ (q = a.owner /\ j = a.item)
  BY <1>5 DEF Adds
<1>7. Ending(D, E, a, Q, a.owner)
  <2>1. Gets(D, E, a.owner, a.item)
    BY <1>3, <1>6 DEF Gets
  <2> QED BY <1>1, <1>3, <1>4, <2>1 DEF Ending
<1>8. a.bid = 0 /\ CutOf(a.bid) = 0
  <2>1. Plain(D)
    BY DEF Good, D
  <2>2. a.bid = 0
    BY <1>4, <2>1 DEF Plain
  <2>3. 0 * CutPercent = 0
    BY AuctionAssumption
  <2> QED BY <2>2, <2>3 DEF CutOf
<1>9. \A q \in Player : StakeOf(a, q) = 0
  BY <1>8 DEF StakeOf
<1>10. \A q \in Player : Cash(E, q) = Cash(D, q) + StakeOf(a, q)
                                       - (IF q = a.owner THEN CutOf(a.bid) ELSE 0)
  BY <1>3, <1>6, <1>8, <1>9
<1>11. Plain(E) /\ Return(D, E)
  BY <1>7, <1>10, ReturnIsBooked
<1> QED BY <1>11 DEF Booked, D, E

\* The bidder gets the item for its bid.
LEMMA SoldBooked ==
    ASSUME LogTrade, NEW d, Known(d.mails), NEW s, NEW G, Notices(s, G), NEW a \in AuctionEntry,
           a.bidder # Nobody, NEW R, NEW Q, R = Q \cup {a}, a \notin Q, NEW known, a.item \in known,
           NEW u, u = s \o SettlementMails(a, known), RoomFor(u), NEW g, Notices(u, g),
           Sent(s) \subseteq Sent(u),
           Good(SettledRows(d, s, R)), Fine(SettledRows(d, u, Q))
    PROVE  Plain(SettledRows(d, u, Q)) /\ Booked(SettledRows(d, s, R), SettledRows(d, u, Q))
<1> DEFINE D == SettledRows(d, s, R)
           E == SettledRows(d, u, Q)
           M == d.mails
           S == M \cup Sent(s)
           T == M \cup Sent(u)
           y == a.bid + Deposit - CutOf(a.bid)
           t == s \o SuccessfulMail(a)
           N == M \cup Sent(t)
           o == a.owner
           p == a.bidder
<1>1. /\ o \in Player /\ p \in Player /\ a.item \in Item /\ a.bid \in Nat /\ y \in Nat
      /\ SuccessfulMail(a) = AuctionMail(o, NoItem, y)
      /\ WonMail(a, known) = AuctionMail(p, a.item, 0)
  <2>1. AuctionCut(a) = CutOf(a.bid)
    BY DEF AuctionCut, CutOf
  <2>2. a.bid + Deposit - AuctionCut(a) \in Nat
    BY CutIsLess
  <2>3. SuccessfulMail(a) = AuctionMail(o, NoItem, y)
    BY <2>1 DEF SuccessfulMail
  <2>4. WonMail(a, known) = AuctionMail(p, a.item, 0)
    BY DEF WonMail
  <2> QED BY <2>1, <2>2, <2>3, <2>4 DEF AuctionEntry
<1>2. Notices(t, G) /\ u = t \o WonMail(a, known)
  <2> DEFINE none == {}
             v == SuccessfulMail(a)
             w == WonMail(a, known)
  <2>1. Notices(v, none) /\ Notices(w, {a.item})
    BY AuctionMails
  <2>2. G \cup none = G /\ \A i \in G : i \notin none
    OBVIOUS
  <2>3. u = s \o (v \o w)
    BY DEF SettlementMails
  <2> HIDE DEF none, v, w
  <2>4. Notices(s \o v, G \cup none)
    BY <2>1, <2>2, MoreNotices
  <2>5. s \in Seq(Draft) /\ v \in Seq(Draft) /\ w \in Seq(Draft)
    BY <2>1 DEF Notices
  <2>6. s \o (v \o w) = (s \o v) \o w
    BY <2>5, ConcatAssociative
  <2> QED BY <2>2, <2>3, <2>4, <2>6 DEF v, w
<1>3. u = t \o AuctionMail(p, a.item, 0) /\ t = s \o AuctionMail(o, NoItem, y)
  BY <1>1, <1>2
<1>4. /\ After(D, E)
      /\ \A q \in Player : /\ Cash(D, q) = d.money[q] + Post(S, q)
                           /\ Cash(E, q) = d.money[q] + Post(T, q)
                           /\ d.money[q] \in Nat /\ Post(S, q) \in Nat
      /\ \A q \in Player, j \in Item :
            /\ Has(D, q, j) <=> j \in d.inv[q] \/ Mailed(S, q, j)
            /\ Has(E, q, j) <=> j \in d.inv[q] \/ Mailed(T, q, j)
  <2>1. Resettled(d, s, R, u, Q)
    BY SettledAfter
  <2> QED BY <2>1 DEF Resettled
<1>5. D.auctions = R /\ E.auctions = Q
  BY DEF SettledRows
<1> HIDE DEF D, E, t, y, o, p
<1>6. Known(M)
  OBVIOUS
<1> HIDE DEF M
<1>7. Adds(N, T, p, a.item, 0) /\ RoomFor(t)
  <2>1. RoomFor(t \o AuctionMail(p, a.item, 0)) /\ 0 \in Nat /\ a.item \in Item \cup {NoItem}
    BY <1>1, <1>3
  <2>2. /\ Adds(M \cup Sent(t), M \cup Sent(t \o AuctionMail(p, a.item, 0)), p, a.item, 0)
        /\ RoomFor(t)
    BY <1>1, <1>2, <1>6, <2>1, OneLetter
  <2> QED BY <1>3, <2>2
<1>8. Adds(S, N, o, NoItem, y) /\ RoomFor(s)
  BY <1>1, <1>3, <1>6, <1>7, OneLetter
<1> HIDE DEF S, N, T
<1>9. \A q \in Player : /\ Post(T, q) = Post(N, q) + (IF q = p THEN 0 ELSE 0)
                        /\ Post(N, q) = Post(S, q) + (IF q = o THEN y ELSE 0)
  BY <1>7, <1>8 DEF Adds
<1>10. ASSUME NEW q \in Player, NEW j \in Item
       PROVE  Mailed(T, q, j) <=> Mailed(S, q, j) \/ (q = p /\ j = a.item)
  <2>1. j # NoItem
    BY NoItemAssumption
  <2>2. Mailed(N, q, j) <=> Mailed(S, q, j)
    BY <1>8, <2>1 DEF Adds
  <2>3. Mailed(T, q, j) <=> Mailed(N, q, j) \/ (q = p /\ j = a.item)
    BY <1>7 DEF Adds
  <2> QED BY <2>2, <2>3
<1>11. Ending(D, E, a, Q, p)
  <2>1. Gets(D, E, p, a.item)
    BY <1>4, <1>10 DEF Gets
  <2> QED BY <1>1, <1>4, <1>5, <2>1 DEF Ending
<1>12. ASSUME NEW q \in Player
       PROVE  Cash(E, q) = Cash(D, q) + StakeOf(a, q)
                              - (IF q = p THEN a.bid ELSE 0) + Proceeds(q, a, a.bid)
  <2> DEFINE w == IF q = o THEN y ELSE 0
             z == IF q = p THEN a.bid ELSE 0
  <2>1. StakeOf(a, q) = z /\ Proceeds(q, a, a.bid) = w
    BY DEF StakeOf, Proceeds, y, o, p
  <2>2. z \in Nat /\ w \in Nat
    BY <1>1
  <2>3. /\ Cash(D, q) = d.money[q] + Post(S, q) /\ Cash(E, q) = d.money[q] + Post(T, q)
        /\ d.money[q] \in Nat /\ Post(S, q) \in Nat
    BY <1>4
  <2>4. Post(T, q) = Post(N, q) + (IF q = p THEN 0 ELSE 0) /\ Post(N, q) = Post(S, q) + w
    BY <1>9
  <2> HIDE DEF w
  <2>5. Post(T, q) = Post(S, q) + w
    BY <2>2, <2>3, <2>4
  <2>6. Cash(E, q) = Cash(D, q) + StakeOf(a, q) - z + Proceeds(q, a, a.bid)
    <3> HIDE DEF z
    <3> QED BY ONLY <2>1, <2>2, <2>3, <2>5
  <2> QED BY <2>6
<1>13. Affordable(D, p, a, a.bid)
  <2>1. Plain(D) /\ a \in D.auctions
    BY <1>5 DEF Good, D
  <2>2. a.bidder # a.owner
    BY <2>1 DEF Plain
  <2>3. p = a.bidder
    BY DEF p
  <2> QED BY ONLY <2>2, <2>3 DEF Affordable
<1>14. Plain(E) /\ Purchase(D, E)
  <2>1. a.bid \in Nat
    BY <1>1
  <2> HIDE DEF D, E, p, o, y
  <2> QED BY ONLY <1>11, <1>12, <1>13, <2>1, PurchaseIsBooked
<1> QED BY <1>14 DEF Booked, D, E

-----------------------------------------------------------------------------

\* What one transaction may leave behind.
Entered(d, e) == Plain(e) /\ Thrifty(e) /\ Booked(d, e)

\* The rows after each of the transactions so far, which started from d.
Entries(d, s) ==
    \E T : /\ s \in Seq(T)
           /\ Good(Last(<<d>> \o s)) /\ Thrifty(Last(<<d>> \o s))
           /\ \A k \in 1..Len(s) : Entered(IF k = 1 THEN d ELSE s[k - 1], s[k])

LEMMA RoomForFewer ==
    ASSUME NEW s \in Seq(Draft), NEW t \in Seq(Draft), RoomFor(s \o t)
    PROVE  RoomFor(s)
<1>1. Len(s \o t) = Len(s) + Len(t) /\ Len(s) \in Nat /\ Len(t) \in Nat
  BY ConcatProperties, LenProperties
<1>2. Cardinality(MailId \ UsedIds) \in Nat
  BY FreeIdsAreFree
<1> QED BY <1>1, <1>2 DEF RoomFor

LEMMA EntriesOn ==
    ASSUME NEW d, NEW s, Entries(d, s), NEW r, Good(r), Entered(Last(<<d>> \o s), r)
    PROVE  Entries(d, Append(s, r))
<1> DEFINE e == Last(<<d>> \o s)
           t == Append(s, r)
<1>1. PICK T : /\ s \in Seq(T)
               /\ \A k \in 1..Len(s) : Entered(IF k = 1 THEN d ELSE s[k - 1], s[k])
  BY DEF Entries
<1>2. e = IF Len(s) = 0 THEN d ELSE s[Len(s)]
  BY <1>1, LastOf
<1>3. Entered(e, r)
  OBVIOUS
<1> HIDE DEF e
<1> DEFINE U == T \cup {r}
<1>4. s \in Seq(U) /\ r \in U
  BY <1>1, SeqMonotonic
<1> HIDE DEF U
<1>5. /\ t \in Seq(U) /\ Len(s) \in Nat /\ Len(t) = Len(s) + 1
      /\ \A k \in 1..Len(s) : t[k] = s[k]
      /\ t[Len(s) + 1] = r
  BY <1>4, AppendProperties, LenProperties
<1> HIDE DEF t
<1>6. Last(<<d>> \o t) = r
  <2>1. Last(<<d>> \o t) = IF Len(t) = 0 THEN d ELSE t[Len(t)]
    BY <1>5, LastOf
  <2> QED BY <1>5, <2>1
<1>7. ASSUME NEW k \in 1..Len(t)
      PROVE  Entered(IF k = 1 THEN d ELSE t[k - 1], t[k])
  <2>1. CASE k = Len(s) + 1
    <3>1. (IF k = 1 THEN d ELSE t[k - 1]) = e
      <4>1. k # 1 => k - 1 = Len(s) /\ Len(s) \in 1..Len(s) /\ Len(s) # 0
        BY <1>5, <2>1
      <4>2. k = 1 => Len(s) = 0
        BY <1>5, <2>1
      <4> QED BY <1>2, <1>5, <4>1, <4>2
    <3>2. t[k] = r
      BY <1>5, <2>1
    <3> QED BY <1>3, <3>1, <3>2
  <2>2. CASE k # Len(s) + 1
    <3>1. k \in 1..Len(s) /\ (k # 1 => k - 1 \in 1..Len(s))
      BY <1>5, <2>2
    <3>2. t[k] = s[k] /\ (k # 1 => t[k - 1] = s[k - 1])
      BY <1>5, <3>1
    <3>3. Entered(IF k = 1 THEN d ELSE s[k - 1], s[k])
      BY <1>1, <3>1
    <3> QED BY <3>2, <3>3
  <2> QED BY <2>1, <2>2
<1>8. Thrifty(r)
  BY <1>3 DEF Entered
<1>9. Entries(d, t)
  BY <1>5, <1>6, <1>7, <1>8 DEF Entries
<1> QED BY <1>9 DEF t

\* One more auction is settled.
LEMMA EntriesStep ==
    ASSUME LogTrade, NEW d, NEW over, Settleable(d, over), over \subseteq d.auctions, Known(d.mails),
           NEW known, NEW n \in Nat, NEW acc, SettledOK(d, over, known, n, acc),
           NEW a \in over, a.id = n + 1, a.item \in known, NEW new,
           SettledOK(d, over, known, n + 1, new), SettledWith(d, over, known, n, acc, a, new),
           RoomFor(new.mails), RoomFor(acc.mails) => Entries(d, acc.rows)
    PROVE  Entries(d, new.rows)
<1> DEFINE s == acc.mails
           u == new.mails
           R == Remaining(d, over, n)
           Q == Remaining(d, over, n + 1)
           D == SettledRows(d, s, R)
           E == SettledRows(d, u, Q)
           G == Goods(over, known, n)
           g == Goods(over, known, n + 1)
<1>1. /\ u = s \o SettlementMails(a, known) /\ new.rows = Append(acc.rows, E)
      /\ Between(E, d, u) /\ Q = {x \in R : x.id # a.id}
  BY DEF SettledWith
<1>2. Notices(s, G) /\ Notices(u, g) /\ Last(<<d>> \o acc.rows) = D
  BY DEF SettledOK
<1>3. a \in AuctionEntry /\ a \in d.auctions /\ \A x \in d.auctions : x.id = a.id => x = a
  BY DEF Settleable, OnSale
<1>4. R = Q \cup {a} /\ a \notin Q
  <2>1. R \subseteq d.auctions
    BY DEF Remaining
  <2>2. a \in R
    <3>1. ~(a.id <= n)
      OBVIOUS
    <3>2. \A b \in over : b.id <= n => b.id # a.id
      BY <3>1
    <3> QED BY <1>3, <3>2 DEF Remaining
  <2> HIDE DEF R, Q
  <2> QED BY <1>1, <1>3, <2>1, <2>2
<1>5. Sent(s) \subseteq Sent(u) /\ RoomFor(s)
  <2>1. s \in Seq(Draft)
    BY <1>2 DEF Notices
  <2>2. SettlementMails(a, known) \in Seq(Draft)
    BY <1>3, AuctionMails DEF Notices
  <2>3. RoomFor(u)
    OBVIOUS
  <2> HIDE DEF s, u
  <2> QED BY <1>1, <2>1, <2>2, <2>3, SentMore, RoomForFewer
<1>6. Fine(E)
  BY <1>1 DEF Fine, Between
<1>7. Entries(d, acc.rows) /\ Good(D) /\ Thrifty(D)
  <2>1. Entries(d, acc.rows)
    BY <1>5
  <2> QED BY <1>2, <2>1 DEF Entries
<1>8. RoomFor(u)
  OBVIOUS
<1>9. a \in AuctionEntry /\ a.item \in known /\ Known(d.mails)
  BY <1>3
<1> HIDE DEF s, u, R, Q, D, E, G, g
<1>10. Plain(E) /\ Booked(D, E)
  <2>1. Good(SettledRows(d, s, R)) /\ Fine(SettledRows(d, u, Q))
    BY <1>6, <1>7 DEF D, E
  <2>2. Plain(SettledRows(d, u, Q)) /\ Booked(SettledRows(d, s, R), SettledRows(d, u, Q))
    <3>1. CASE a.bidder = Nobody
      BY ONLY <1>1, <1>2, <1>4, <1>5, <1>8, <1>9, <2>1, <3>1, ExpiredBooked
    <3>2. CASE a.bidder # Nobody
      BY ONLY LogTrade, <1>1, <1>2, <1>4, <1>5, <1>8, <1>9, <2>1, <3>2, SoldBooked
    <3> QED BY <3>1, <3>2
  <2> QED BY <2>2 DEF D, E
<1>11. Good(E) /\ Entered(D, E)
  <2>1. Thrifty(E)
    BY <1>6, <1>7, <1>10, BookedIsThrifty
  <2> QED BY <1>6, <1>10, <2>1 DEF Good, Entered
<1>12. Entries(d, Append(acc.rows, E))
  BY <1>2, <1>7, <1>11, EntriesOn
<1> QED BY <1>1, <1>12

LEMMA SettleEntries ==
    ASSUME LogTrade, NEW d, NEW over, Settleable(d, over), over \subseteq d.auctions, Known(d.mails),
           Good(d), Thrifty(d), NEW known, \A a \in over : a.item \in known,
           RoomFor(Settle(d, over, known).mails)
    PROVE  Entries(d, Settle(d, over, known).rows)
<1> DEFINE f == SettledFrom(d, over, known)
           OK(n) == RoomFor(f[n].mails) => Entries(d, f[n].rows)
           N == {n \in Nat : n \in 0..MaxAuctions => OK(n)}
<1>1. \A n \in 0..MaxAuctions : f[n] = SettledBody(d, over, known, f, n)
  BY SettledBodies
<1>2. \A n \in 0..MaxAuctions : SettledOK(d, over, known, n, f[n])
  BY SettledSoFar
<1> HIDE DEF f
<1>3. 0 \in N
  <2>1. ASSUME 0 \in 0..MaxAuctions
        PROVE  OK(0)
    <3> DEFINE acc == [mails |-> <<>>, rows |-> <<>>]
    <3>1. f[0] = acc
      BY <1>1, <2>1 DEF SettledBody
    <3>2. acc.rows = <<>>
      OBVIOUS
    <3> HIDE DEF acc
    <3>3. acc.rows \in Seq({}) /\ Len(acc.rows) = 0
      BY <3>2, EmptySeq
    <3>4. Last(<<d>> \o acc.rows) = d
      <4>1. <<d>> \o <<>> = <<d>>
        OBVIOUS
      <4> QED BY <3>2, <4>1 DEF Last
    <3>5. Entries(d, acc.rows)
      <4>1. \A k \in 1..Len(acc.rows) : Entered(IF k = 1 THEN d ELSE acc.rows[k - 1], acc.rows[k])
        BY <3>3
      <4> QED BY <3>3, <3>4, <4>1 DEF Entries
    <3> QED BY <3>1, <3>5
  <2> HIDE DEF OK
  <2> QED BY <2>1
<1>4. ASSUME NEW n \in Nat, n \in N
      PROVE  n + 1 \in N
  <2>1. ASSUME n + 1 \in 0..MaxAuctions
        PROVE  OK(n + 1)
    <3> DEFINE acc == f[n]
               new == f[n + 1]
               auction == {a \in over : a.id = n + 1}
    <3>1. n \in 0..MaxAuctions /\ n + 1 # 0 /\ (n + 1) - 1 = n
      BY <2>1, AuctionAssumption
    <3>2. RoomFor(acc.mails) => Entries(d, acc.rows)
      BY <1>4, <3>1
    <3>3. SettledOK(d, over, known, n, acc) /\ SettledOK(d, over, known, n + 1, new)
      BY <1>2, <2>1, <3>1
    <3>4. new = IF auction = {} THEN acc
                ELSE SettleOne(d, known, acc, CHOOSE a \in auction : TRUE)
      <4>1. f[n + 1] = SettledBody(d, over, known, f, n + 1)
        BY <1>1, <2>1
      <4> QED BY <3>1, <4>1 DEF SettledBody
    <3> HIDE DEF acc, new
    <3>5. RoomFor(new.mails) => Entries(d, new.rows)
      <4>1. CASE auction = {}
        BY <3>2, <3>4, <4>1
      <4>2. CASE auction # {}
        <5> DEFINE a == CHOOSE a \in auction : TRUE
        <5>1. a \in over /\ a.id = n + 1 /\ a.item \in known
          BY <4>2
        <5> HIDE DEF a, auction
        <5>2. new = SettleOne(d, known, acc, a)
          BY <3>4, <4>2 DEF a
        <5>3. SettledWith(d, over, known, n, acc, a, new)
          BY <3>3, <5>1, <5>2, SettleStep
        <5> QED BY <3>2, <3>3, <5>1, <5>3, EntriesStep
      <4> QED BY <4>1, <4>2
    <3> QED BY <3>5 DEF new
  <2> HIDE DEF OK
  <2> QED BY <2>1
<1> HIDE DEF N
<1>5. MaxAuctions \in N /\ MaxAuctions \in 0..MaxAuctions
  BY <1>3, <1>4, NumberInduction, AuctionAssumption
<1>6. RoomFor(f[MaxAuctions].mails) => Entries(d, f[MaxAuctions].rows)
  BY <1>5 DEF N
<1>7. Settle(d, over, known) = f[MaxAuctions]
  BY SettleIs DEF f
<1> QED BY <1>6, <1>7

\* The house settles what is over.
LEMMA UpdateBooked ==
    ASSUME LogTrade, LedgerIInv, AuctionIInv', InStep', Update
    PROVE  LedgerIInv' /\ db' = db
<1> DEFINE acc == Settle(Latest, Over, aitems)
           rows == acc.rows
           s == acc.mails
           d == Latest
           A == Remaining(d, Over, MaxAuctions)
           r == SettledRows(d, s, A)
<1>1. /\ phase = "up" /\ box' = Delivered(box, s) /\ CommitAll(rows, {}) /\ RoomFor(s)
      /\ UNCHANGED <<online, money, inv, loaded, ended, phase, crashes>>
  BY DEF Update
<1>2. /\ AuctionIInv /\ MailIInv /\ DatabaseOK /\ Queued /\ Good(d) /\ Thrifty(d) /\ Known(d.mails)
      /\ RowsOK(d) /\ Housed(auctions, d) /\ OnSale(d.auctions, d)
  BY <1>1, GoodVersions DEF LedgerIInv, AuctionIInv, MailIInv, DatabaseOK, House, Good, Fine
<1>3. /\ Over \subseteq d.auctions /\ \A a \in Over : a.item \in aitems
      /\ Settleable(d, Over)
  <2>1. auctions = d.auctions /\ \A a \in auctions : a.item \in aitems
    BY <1>1 DEF LedgerIInv, InStep
  <2>2. Over \subseteq auctions
    BY DEF Over
  <2> HIDE DEF d
  <2>3. Housed(Over, d)
    BY <1>2, <2>2 DEF Housed, OnSale
  <2> QED BY <1>2, <2>1, <2>2, <2>3 DEF Settleable, Known
<1>4. Entries(d, rows)
  BY <1>1, <1>2, <1>3, SettleEntries
<1> HIDE DEF acc
<1>5. Latest' = r
  <2>1. acc = Settle(Latest, Over, aitems)
    BY DEF acc
  <2> QED BY <1>1, <1>2, <1>3, <2>1, SettlementKeeps
<1>6. r.mails = d.mails \cup Sent(s)
  BY DEF SettledRows
<1>7. InRows'
  <2>1. \A q \in Player : box'[q] \subseteq box[q] \cup Sent(s)
    BY <1>1 DEF Delivered
  <2> HIDE DEF r, s
  <2> QED BY <1>5, <1>6, <2>1 DEF LedgerIInv, InRows
<1> HIDE DEF rows, s, r, A
<1>8. PICK T : /\ rows \in Seq(T)
               /\ \A k \in 1..Len(rows) : Entered(IF k = 1 THEN d ELSE rows[k - 1], rows[k])
  BY <1>4 DEF Entries
<1>9. Len(rows) \in Nat /\ Len(writes) \in Nat /\ d = State(Len(writes))
  BY <1>2, <1>8, LenProperties, QueueRows
<1>10. /\ Len(writes') = Len(writes) + Len(rows)
       /\ \A j \in 0..Len(writes) : State(j)' = State(j)
       /\ \A j \in 0..Len(writes') :
             j \notin 0..Len(writes) => j - Len(writes) \in 1..Len(rows)
                                        /\ State(j)' = rows[j - Len(writes)]
       /\ Versions' = Versions \cup {rows[k] : k \in 1..Len(rows)}
  BY <1>1, <1>2, <1>8, ManyMore
<1>11. Books'
  <2> SUFFICES ASSUME NEW j \in 1..Len(writes')
               PROVE  Booked(State(j - 1)', State(j)')
    BY DEF Books
  <2>1. CASE j \in 0..Len(writes)
    <3>1. j \in 1..Len(writes) /\ j - 1 \in 0..Len(writes)
      BY <1>9, <2>1
    <3>2. Booked(State(j - 1), State(j))
      BY <3>1 DEF LedgerIInv, Books
    <3>3. State(j - 1)' = State(j - 1) /\ State(j)' = State(j)
      BY <1>10, <2>1, <3>1
    <3> QED BY <3>2, <3>3
  <2>2. CASE j \notin 0..Len(writes)
    <3> DEFINE k == j - Len(writes)
    <3>1. j \in 0..Len(writes') /\ j - 1 \in 0..Len(writes')
      BY <1>9, <1>10
    <3>2. k \in 1..Len(rows) /\ State(j)' = rows[k]
      BY <1>10, <2>2, <3>1
    <3>3. State(j - 1)' = IF k = 1 THEN d ELSE rows[k - 1]
      <4>1. CASE k = 1
        <5>1. j - 1 = Len(writes) /\ j - 1 \in 0..Len(writes)
          BY <1>9, <4>1
        <5> QED BY <1>9, <1>10, <4>1, <5>1
      <4>2. CASE k # 1
        <5>1. j - 1 \notin 0..Len(writes) /\ (j - 1) - Len(writes) = k - 1
          BY <1>9, <3>2, <4>2
        <5> QED BY <1>10, <3>1, <4>2, <5>1
      <4> QED BY <4>1, <4>2
    <3>4. Booked(IF k = 1 THEN d ELSE rows[k - 1], rows[k])
      BY <1>8, <3>2 DEF Entered
    <3> QED BY <3>2, <3>3, <3>4
  <2> QED BY <2>1, <2>2
<1>12. PlainRows'
  <2>1. \A e \in Versions' : Plain(e) /\ Thrifty(e)
    BY <1>8, <1>10 DEF LedgerIInv, PlainRows, Entered
  <2> QED BY <2>1 DEF PlainRows, Plain, Thrifty, Estate, FundsOf
<1>13. db' = db
  BY <1>1 DEF CommitAll
<1> QED BY <1>7, <1>11, <1>12, <1>13 DEF LedgerIInv

-----------------------------------------------------------------------------
(* The auction house keeps the ledger. *)

LEMMA InitBooked ==
    ASSUME Init
    PROVE  LedgerIInv /\ L!LedgerInit
<1>1. PICK owner \in [Item -> Player] :
         db = [money |-> [p \in Player |-> StartMoney],
               inv |-> [p \in Player |-> {i \in Item : owner[i] = p}],
               items |-> Item, mails |-> {}, auctions |-> {}]
  BY DEF Init, MailInit
<1>2. /\ db.money = [p \in Player |-> StartMoney]
      /\ db.inv = [p \in Player |-> {i \in Item : owner[i] = p}]
      /\ db.items = Item /\ db.mails = {} /\ db.auctions = {}
  BY <1>1
<1>3. AuctionIInv /\ InStep /\ writes = <<>> /\ box = [p \in Player |-> {}]
  BY InitInHouse DEF Init, MailInit, Nothing
<1>4. Latest = db /\ Versions = {db} /\ Len(writes) = 0
  BY <1>3, EmptySeq DEF Latest, Versions
<1>5. Fine(db) /\ RowsOK(db) /\ Separate(db.auctions)
  BY <1>3, <1>4, FineIsSeparate DEF AuctionIInv, MailIInv, DatabaseOK, AllRowsOK, AllOnSale, Fine
<1>6. \A q \in Player, i \in Item : Has(db, q, i) <=> owner[i] = q
  BY <1>2 DEF Has, Mailed
<1>7. Plain(db)
  BY <1>2, <1>6 DEF Plain
<1>8. \A i \in Item : Holder(db, i) = owner[i]
  BY <1>5, <1>6, HolderIs
<1>9. \A q \in Player : Funds(db, q) = StartMoney
  <2> TAKE q \in Player
  <2> DEFINE mails == {m \in db.mails : m.to = q}
             bids == {a \in db.auctions : a.bidder = q}
             none == {}
  <2>1. mails = none /\ bids = none
    BY <1>2
  <2>2. InMail(none) = 0 /\ SumFunctionOnSet(BidIn, none) = 0
    BY SumEmpty DEF InMail
  <2>3. Post(db.mails, q) = InMail(mails) /\ Stake(db.auctions, q) = SumFunctionOnSet(BidIn, bids)
    BY DEF Post, Stake
  <2> HIDE DEF mails, bids, none
  <2>4. Post(db.mails, q) = 0 /\ Stake(db.auctions, q) = 0
    BY <2>1, <2>2, <2>3
  <2>5. db.money[q] = StartMoney
    BY <1>2
  <2>6. Funds(db, q) = db.money[q] + Post(db.mails, q) + Stake(db.auctions, q)
    BY <1>5, FundsAre
  <2> QED BY <2>4, <2>5, <2>6, MoneyAssumption
<1>10. Thrifty(db)
  <2> DEFINE all == [p \in Player |-> StartMoney]
  <2>1. FundsOf(db) = all
    BY <1>9 DEF FundsOf
  <2>2. Deposits(db.auctions) = 0
    <3> DEFINE none == {}
    <3>1. db.auctions = none /\ SumFunctionOnSet(DepositIn, none) = 0
      BY <1>2, SumEmpty
    <3> HIDE DEF none
    <3> QED BY <3>1 DEF Deposits
  <2>3. SumFunctionOnSet(all, Player) \in Int
    <3>1. \A p \in Player : all[p] \in Int
      BY MoneyAssumption
    <3> HIDE DEF all
    <3> QED BY <3>1, PlayerAssumption, SumInt
  <2>4. Estate(db) = SumFunctionOnSet(all, Player) + 0
    <3> HIDE DEF all
    <3> QED BY <2>1, <2>2 DEF Estate
  <2>5. Estate(db) <= SumFunctionOnSet(all, Player)
    <3> HIDE DEF all
    <3> QED BY <2>3, <2>4
  <2> QED BY <2>5 DEF Thrifty
<1>11. PlainRows /\ InRows /\ Books
  <2>1. PlainRows
    BY <1>4, <1>7, <1>10 DEF PlainRows
  <2>2. InRows
    BY <1>3 DEF InRows
  <2>3. Books
    BY <1>4 DEF Books
  <2> QED BY <2>1, <2>2, <2>3
<1>12. L!LedgerInit
  <2>1. [i \in Item |-> Holder(db, i)] \in [Item -> Player]
    BY <1>8
  <2>2. [p \in Player |-> Funds(db, p)] = [p \in Player |-> StartMoney]
    BY <1>9
  <2> QED BY <2>1, <2>2 DEF L!LedgerInit
<1> QED BY <1>3, <1>11, <1>12 DEF LedgerIInv

\* A step leaves the executed rows alone, or the database executes a transaction.
LEMMA StepsAreBooked ==
    ASSUME ~EndsWhileDown, LogTrade, PurseIsLarge, LedgerIInv, [Next]_vars
    PROVE  /\ LedgerIInv'
           /\ db' = db \/ (Booked(db, db') /\ Fine(db'))
<1>1. AuctionIInv' /\ InStep'
  BY StepsKeepHouse DEF LedgerIInv
<1>2. ASSUME phase = "up" /\ SessionNext /\ UNCHANGED auctionVars PROVE LedgerIInv' /\ db' = db
  BY <1>1, <1>2, SessionNextBooked
<1>3. ASSUME BidNext PROVE LedgerIInv' /\ db' = db
  BY <1>3, BidNextBooked
<1>4. ASSUME \E id \in AuctionId : End(id) PROVE LedgerIInv' /\ db' = db
  <2>1. UNCHANGED <<db, writes, box>>
    BY <1>4 DEF End, mailVars, memoryVars, dbVars
  <2> QED BY <1>1, <2>1, StillBooked
<1>5. ASSUME Update PROVE LedgerIInv' /\ db' = db
  BY <1>1, <1>5, UpdateBooked
<1>6. ASSUME StartupNext PROVE LedgerIInv' /\ db' = db
  BY <1>1, <1>6, StartupBooked
<1>7. ASSUME WorkerNext, UNCHANGED auctionVars
      PROVE  LedgerIInv' /\ Booked(db, db') /\ Fine(db')
  BY <1>7, ExecuteBooked
<1>8. ASSUME AuctionCrash PROVE LedgerIInv' /\ db' = db
  BY <1>1, <1>8, CrashBooked DEF AuctionCrash
<1>9. ASSUME UNCHANGED vars PROVE LedgerIInv' /\ db' = db
  <2>1. UNCHANGED <<db, writes, box>>
    BY <1>9 DEF vars, mailVars, memoryVars, dbVars
  <2> QED BY <1>1, <2>1, StillBooked
<1> QED BY <1>2, <1>3, <1>4, <1>5, <1>6, <1>7, <1>8, <1>9 DEF Next

LEMMA StepsOfTheLedger ==
    ASSUME ~EndsWhileDown, LogTrade, PurseIsLarge, LedgerIInv, [Next]_vars
    PROVE  [L!LedgerNext]_(L!ledgerVars)
<1>1. CASE db' = db
  <2>1. [i \in Item |-> Holder(db', i)] = [i \in Item |-> Holder(db, i)]
        /\ [p \in Player |-> Funds(db', p)] = [p \in Player |-> Funds(db, p)]
    BY <1>1
  <2> QED BY <2>1 DEF L!ledgerVars
<1>2. CASE Booked(db, db') /\ Fine(db')
  <2>1. Good(db)
    BY GoodVersions
  <2> QED BY <1>2, <2>1, BookedIsStep
<1> QED BY <1>1, <1>2, StepsAreBooked

\* Whatever crashes, every transaction the database executes is one step of the
\* ledger: an item changes hands in the step that pays the price that was bid
\* for it.  It is supposed that no auction ends while the server is down, that a
\* winner's account is looked up, and that no purse can get full.
THEOREM HouseKeepsLedger ==
    ASSUME ~EndsWhileDown, LogTrade, PurseIsLarge PROVE Spec => ImplementsLedger
<1>1. Init => LedgerIInv /\ L!LedgerInit
  BY InitBooked
<1>2. LedgerIInv /\ [Next]_vars => LedgerIInv' /\ [L!LedgerNext]_(L!ledgerVars)
  BY StepsAreBooked, StepsOfTheLedger
<1> QED
  BY <1>1, <1>2, PTL DEF Spec, ImplementsLedger, L!LedgerSpec
=============================================================================

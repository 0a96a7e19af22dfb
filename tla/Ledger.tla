------------------------------- MODULE Ledger -------------------------------
(***************************************************************************)
(* What an auction house promises: every item is held by somebody or is on *)
(* offer, everybody's funds (purse, money in the mail and standing bids)   *)
(* change only when a deposit, a sale or the turning down of a bid is due, *)
(* and an item goes to the bidder in the same step in which it is paid.    *)
(***************************************************************************)
EXTENDS Naturals

CONSTANTS Player, Item, Nobody, Deposit, CutPercent, StartMoney

VARIABLES
    holder,         \* [Item -> Player or offer]
    funds           \* [Player -> Nat]

ledgerVars == <<holder, funds>>

Cut(bid) == (bid * CutPercent) \div 100

OnOffer(i) == holder[i] \notin Player

LedgerInit ==
    /\ holder \in [Item -> Player]
    /\ funds = [p \in Player |-> StartMoney]

\* The owner offers an item, and pays a deposit.
Offer(i) ==
    LET p == holder[i]
    IN  /\ ~OnOffer(i)
        /\ funds[p] >= Deposit
        /\ holder' = [holder EXCEPT ![i] = [seller |-> p, bidder |-> Nobody, bid |-> 0]]
        /\ funds' = [funds EXCEPT ![p] = @ - Deposit]

\* A higher bid, covered by the funds of the bidder.
Bid(i, p) ==
    /\ OnOffer(i)
    /\ p # holder[i].seller
    /\ \E b \in (holder[i].bid + 1)..funds[p] :
          holder' = [holder EXCEPT ![i].bidder = p, ![i].bid = b]
    /\ funds' = funds

\* p gets the item for this price and the seller the price, the deposit and
\* not the cut.
Sale(i, p, price) ==
    LET s == holder[i].seller
    IN  /\ holder' = [holder EXCEPT ![i] = p]
        /\ funds' = [funds EXCEPT ![p] = @ - price, ![s] = @ + price + Deposit - Cut(price)]

\* The highest bidder gets the item in the end...
Sell(i) ==
    /\ OnOffer(i)
    /\ holder[i].bidder # Nobody
    /\ Sale(i, holder[i].bidder, holder[i].bid)

\* ... or somebody buys it at once.
BuyOut(i, p) ==
    /\ OnOffer(i)
    /\ p # holder[i].seller
    /\ \E price \in (holder[i].bid + 1)..funds[p] : Sale(i, p, price)

\* Nobody bids, or the seller changes its mind, which costs the cut.
Withdraw(i) ==
    LET o == holder[i]
    IN  /\ OnOffer(i)
        /\ holder' = [holder EXCEPT ![i] = o.seller]
        /\ funds' = [funds EXCEPT ![o.seller] = @ - Cut(o.bid)]

LedgerNext ==
    \E i \in Item :
        \/ Offer(i) \/ Sell(i) \/ Withdraw(i)
        \/ \E p \in Player : Bid(i, p) \/ BuyOut(i, p)

LedgerSpec == LedgerInit /\ [][LedgerNext]_ledgerVars
=============================================================================

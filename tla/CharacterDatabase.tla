-------------------------- MODULE CharacterDatabase --------------------------
(***************************************************************************)
(* The character database and the pool of connections in front of it       *)
(* (src/src/server/shared/Database), as the economy uses them.             *)
(*                                                                         *)
(* CommitTransaction and Execute put their statements at the end of one    *)
(* queue and return; a worker thread takes them off in order and runs each *)
(* transaction as a whole, so that there is always one newest state of the *)
(* rows: the one after everything queued.  Query, on the other hand, is    *)
(* answered on a connection of its own from what has been executed so far. *)
(* A crash loses the queue.                                                *)
(*                                                                         *)
(* A queued transaction is represented by the rows as they are after it,   *)
(* which is right for one worker thread (CharacterDatabase.WorkerThreads   *)
(* is 1 unless configured otherwise) and transactions that do not fail.    *)
(***************************************************************************)
EXTENDS Naturals, FiniteSets, SequencesExt

CONSTANTS
    Player,         \* characters
    Item,           \* item objects; stacks are not merged
    Nobody,         \* no character
    MaxWrites       \* bound: no session commits if so many transactions wait

ASSUME PlayerAssumption == IsFiniteSet(Player)
ASSUME NobodyAssumption == Nobody \notin Player
ASSUME WritesAssumption == MaxWrites \in Nat

VARIABLES
    db,             \* the rows, as executed
    writes          \* the queue: [rows, by], by the characters whose next
                    \* login comes after it for certain

dbVars == <<db, writes>>

\* The rows once the queue is empty.
Latest == IF writes = <<>> THEN db ELSE Last(writes).rows

\* Every state of the rows a crash may leave behind, now or later.
Versions == {db} \cup {writes[k].rows : k \in DOMAIN writes}

\* Commits, one after the other, the transactions that lead to these rows.
CommitAll(rows, by) ==
    /\ writes' = writes \o [k \in DOMAIN rows |-> [rows |-> rows[k], by |-> by]]
    /\ db' = db

\* What a handler of the session of p commits.
Commit(rows, p) == Len(writes) < MaxWrites /\ CommitAll(<<rows>>, {p})

\* DatabaseWorker::svc: the oldest transaction is executed.
ExecuteNext ==
    /\ writes # <<>>
    /\ db' = Head(writes).rows
    /\ writes' = Tail(writes)

\* The queries of a login are queued too: what the character wrote in its
\* last session, and what was written at startup, is executed before them.
Written(p) == \A k \in DOMAIN writes : p \notin writes[k].by

LoseQueue == writes' = <<>> /\ db' = db

-----------------------------------------------------------------------------
(* Statements, as functions on the rows: inventories are keyed by the item.*)

DeleteFromInventoryDB(d, i) == [d EXCEPT !.inv = [p \in Player |-> @[p] \ {i}]]

\* Mutant: the money is not saved.
SaveInventoryOnly(d, p, items, gold) ==
    [d EXCEPT !.inv = [q \in Player |-> IF q = p THEN @[q] \cup items ELSE @[q] \ items]]

\* REPLACE INTO character_inventory for the items a character holds, and the
\* UPDATE of its money.
SaveInventoryAndGold(d, p, items, gold) ==
    [d EXCEPT !.inv = [q \in Player |-> IF q = p THEN @[q] \cup items ELSE @[q] \ items],
              !.money[p] = gold]

DeleteItem(d, i) == [d EXCEPT !.items = @ \ {i}]
=============================================================================

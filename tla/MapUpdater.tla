----------------------------- MODULE MapUpdater -----------------------------
(***************************************************************************)
(* The pool of map threads: class MapUpdater, its DelayExecutor, and the   *)
(* two places that use it, MapManager::Update on the world thread and      *)
(* MapInstanced::Update on the map threads themselves                      *)
(* (src/src/server/game/Maps, src/src/server/shared/Threading).            *)
(*                                                                         *)
(* The world thread schedules every base map and sleeps until the counter  *)
(* pending_requests is 0.  A map thread that updates an instanceable map   *)
(* schedules its instance copies in turn, so the counter grows while the   *)
(* world thread already waits.  MapUpdater::m_mutex guards the counter; it *)
(* is held across the hand-over to the executor's queue, from which map    *)
(* threads take requests without it.                                       *)
(***************************************************************************)
EXTENDS Naturals, Sequences, FiniteSets

CONSTANTS
    Worker,         \* the map threads (MapUpdate.Threads)
    World,          \* the world thread
    BaseMap,        \* the maps of MapManager::i_maps
    Instance,       \* the instance copies of all of them
    InstancesOf,    \* [BaseMap -> SUBSET Instance]: MapInstanced::m_InstancedMaps
    QueueBound,     \* requests the ACE queue holds below its high water mark
    NoThread,       \* nobody holds m_mutex
    NoMap           \* a thread has no map in hand

Map == BaseMap \cup Instance
Thread == Worker \cup {World}

ASSUME WorkerAssumption == IsFiniteSet(Worker) /\ Worker # {} /\ World \notin Worker
ASSUME ThreadAssumption == NoThread \notin Thread
ASSUME MapAssumption == IsFiniteSet(Map) /\ NoMap \notin Map
\* Every instance copy is in the m_InstancedMaps of one base map.
ASSUME InstanceAssumption ==
    /\ BaseMap \cap Instance = {}
    /\ InstancesOf \in [BaseMap -> SUBSET Instance]
    /\ \A i \in Instance : \E m \in BaseMap : i \in InstancesOf[m]
    /\ \A m, n \in BaseMap : m # n => InstancesOf[m] \cap InstancesOf[n] = {}
ASSUME QueueAssumption == QueueBound \in Nat \ {0}

\* The instance copies an update of m goes through.
Children(m) == IF m \in BaseMap THEN InstancesOf[m] ELSE {}

VARIABLES
    pc,             \* [Thread -> STRING]: where each thread is
    todo,           \* [Thread -> SUBSET Map]: maps the thread's loop has yet to schedule
    hand,           \* [Thread -> Map or NoMap]: the map schedule_update is called with
    updates,        \* [Worker -> Map or NoMap]: the map whose Update the worker runs
    pending,        \* pending_requests
    mutex,          \* the thread that holds m_mutex
    requests,       \* Seq(Map): the queue of the executor
    open,           \* the queue is active, and so is the executor
    unloading       \* MapManager::UnloadAll was called

vars == <<pc, todo, hand, updates, pending, mutex, requests, open, unloading>>

WorldPc  == {"serial", "schedule", "enqueue", "wait", "asleep", "delayed",
             "deactivate", "join", "unloaded"}
WorkerPc == {"idle", "updating", "enqueue", "finishing", "exited"}

TypeOK ==
    /\ pc \in [Thread -> WorldPc \cup WorkerPc]
    /\ pc[World] \in WorldPc
    /\ \A w \in Worker : pc[w] \in WorkerPc
    /\ todo \in [Thread -> SUBSET Map]
    /\ hand \in [Thread -> Map \cup {NoMap}]
    /\ updates \in [Worker -> Map \cup {NoMap}]
    /\ pending \in Nat
    /\ mutex \in Thread \cup {NoThread}
    /\ requests \in Seq(Map)
    /\ open \in BOOLEAN
    /\ unloading \in BOOLEAN

Init ==
    /\ pc = [t \in Thread |-> IF t = World THEN "serial" ELSE "idle"]
    /\ todo = [t \in Thread |-> {}]
    /\ hand = [t \in Thread |-> NoMap]
    /\ updates = [w \in Worker |-> NoMap]
    /\ pending = 0
    /\ mutex = NoThread
    /\ requests = <<>>
    /\ open = TRUE
    /\ unloading = FALSE

Goto(t, label) == pc' = [pc EXCEPT ![t] = label]

-----------------------------------------------------------------------------
(* MapUpdater::schedule_update, by the world thread in its loop over i_maps *)
(* or by a map thread in its loop over m_InstancedMaps.                     *)

Loop(t) == IF t = World THEN "schedule" ELSE "updating"

\* The mutex is taken and the request counted before it can be seen.
ScheduleUpdate(t, m) ==
    /\ pc[t] = Loop(t)
    /\ m \in todo[t]
    /\ mutex = NoThread
    /\ mutex' = t
    /\ pending' = pending + 1
    /\ hand' = [hand EXCEPT ![t] = m]
    /\ Goto(t, "enqueue")
    /\ UNCHANGED <<todo, updates, requests, open, unloading>>

\* DelayExecutor::execute enqueues without waiting; when the queue is full the
\* request is deleted and taken back from the counter.
Execute(t) ==
    /\ pc[t] = "enqueue"
    /\ IF Len(requests) < QueueBound
       THEN requests' = Append(requests, hand[t]) /\ pending' = pending
       ELSE requests' = requests /\ pending' = pending - 1
    /\ mutex' = NoThread
    /\ todo' = [todo EXCEPT ![t] = @ \ {hand[t]}]
    /\ hand' = [hand EXCEPT ![t] = NoMap]
    /\ Goto(t, Loop(t))
    /\ UNCHANGED <<updates, open, unloading>>

-----------------------------------------------------------------------------
(* The world thread. *)

\* MapManager::Update, when its timer has passed.
Update ==
    /\ pc[World] = "serial"
    /\ todo' = [todo EXCEPT ![World] = BaseMap]
    /\ Goto(World, "schedule")
    /\ UNCHANGED <<hand, updates, pending, mutex, requests, open, unloading>>

\* The end of the loop over i_maps; MapUpdater::wait is called.
EndSchedule ==
    /\ pc[World] = "schedule"
    /\ todo[World] = {}
    /\ Goto(World, "wait")
    /\ UNCHANGED <<todo, hand, updates, pending, mutex, requests, open, unloading>>

\* Mutant: the queue is tested, not the counter.
WaitForQueue ==
    /\ pc[World] = "wait"
    /\ mutex = NoThread
    /\ Goto(World, IF requests # <<>> THEN "asleep"
                   ELSE IF unloading THEN "deactivate" ELSE "delayed")
    /\ UNCHANGED <<todo, hand, updates, pending, mutex, requests, open, unloading>>

\* MapUpdater::wait: one test of the condition under m_mutex; sleeping on the
\* condition variable gives the mutex up.
Wait ==
    /\ pc[World] = "wait"
    /\ mutex = NoThread
    /\ Goto(World, IF pending > 0 THEN "asleep"
                   ELSE IF unloading THEN "deactivate" ELSE "delayed")
    /\ UNCHANGED <<todo, hand, updates, pending, mutex, requests, open, unloading>>

\* Mutant: a wake-up is taken for the end of the requests.
WakeupIsEnough ==
    /\ pc[World] = "asleep"
    /\ Goto(World, IF unloading THEN "deactivate" ELSE "delayed")
    /\ UNCHANGED <<todo, hand, updates, pending, mutex, requests, open, unloading>>

\* A condition variable may wake up without a signal.
SpuriousWakeup ==
    /\ pc[World] = "asleep"
    /\ Goto(World, "wait")
    /\ UNCHANGED <<todo, hand, updates, pending, mutex, requests, open, unloading>>

\* Map::DelayedUpdate of every map, then the rest of the tick.
DelayedUpdate ==
    /\ pc[World] = "delayed"
    /\ Goto(World, "serial")
    /\ UNCHANGED <<todo, hand, updates, pending, mutex, requests, open, unloading>>

\* MapManager::UnloadAll deletes the maps, then calls MapUpdater::deactivate,
\* which waits first.
UnloadAll ==
    /\ pc[World] = "serial"
    /\ unloading' = TRUE
    /\ Goto(World, "wait")
    /\ UNCHANGED <<todo, hand, updates, pending, mutex, requests, open>>

\* Mutant: the queue stays open.
JoinOnly ==
    /\ pc[World] = "deactivate"
    /\ Goto(World, "join")
    /\ UNCHANGED <<todo, hand, updates, pending, mutex, requests, open, unloading>>

\* DelayExecutor::deactivate closes the queue ...
Deactivate ==
    /\ pc[World] = "deactivate"
    /\ open' = FALSE
    /\ Goto(World, "join")
    /\ UNCHANGED <<todo, hand, updates, pending, mutex, requests, unloading>>

\* ... and joins the threads.
Join ==
    /\ pc[World] = "join"
    /\ \A w \in Worker : pc[w] = "exited"
    /\ Goto(World, "unloaded")
    /\ UNCHANGED <<todo, hand, updates, pending, mutex, requests, open, unloading>>

-----------------------------------------------------------------------------
(* A map thread: DelayExecutor::svc. *)

\* A request is dequeued and called.  The loop over the instance copies of
\* the map destroys the ones that can be unloaded and schedules the others.
Dequeue(w) ==
    /\ pc[w] = "idle"
    /\ open
    /\ requests # <<>>
    /\ requests' = Tail(requests)
    /\ updates' = [updates EXCEPT ![w] = Head(requests)]
    /\ \E kept \in SUBSET Children(Head(requests)) : todo' = [todo EXCEPT ![w] = kept]
    /\ Goto(w, "updating")
    /\ UNCHANGED <<hand, pending, mutex, open, unloading>>

\* Map::Update returns.
EndUpdate(w) ==
    /\ pc[w] = "updating"
    /\ todo[w] = {}
    /\ updates' = [updates EXCEPT ![w] = NoMap]
    /\ Goto(w, "finishing")
    /\ UNCHANGED <<todo, hand, pending, mutex, requests, open, unloading>>

\* Mutant: nobody is woken up.
FinishedSilently(w) ==
    /\ pc[w] = "finishing"
    /\ mutex = NoThread
    /\ pending' = IF pending = 0 THEN 0 ELSE pending - 1
    /\ Goto(w, "idle")
    /\ UNCHANGED <<todo, hand, updates, mutex, requests, open, unloading>>

\* MapUpdater::update_finished: the counter, then a broadcast.
UpdateFinished(w) ==
    /\ pc[w] = "finishing"
    /\ mutex = NoThread
    /\ IF pending = 0
       THEN pending' = pending /\ Goto(w, "idle")
       ELSE /\ pending' = pending - 1
            /\ pc' = [pc EXCEPT ![w] = "idle",
                                ![World] = IF @ = "asleep" THEN "wait" ELSE @]
    /\ UNCHANGED <<todo, hand, updates, mutex, requests, open, unloading>>

\* dequeue fails on a closed queue, even if requests are left in it.
Exit(w) ==
    /\ pc[w] = "idle"
    /\ ~open
    /\ Goto(w, "exited")
    /\ UNCHANGED <<todo, hand, updates, pending, mutex, requests, open, unloading>>

-----------------------------------------------------------------------------
Schedule(t) == Execute(t) \/ \E m \in Map : ScheduleUpdate(t, m)

WorldNext ==
    \/ Schedule(World)
    \/ Update \/ EndSchedule \/ Wait \/ DelayedUpdate
    \/ UnloadAll \/ Deactivate \/ Join

WorkerNext(w) ==
    \/ Schedule(w)
    \/ Dequeue(w) \/ EndUpdate(w) \/ UpdateFinished(w) \/ Exit(w)

Next == WorldNext \/ SpuriousWakeup \/ \E w \in Worker : WorkerNext(w)

Spec == Init /\ [][Next]_vars

\* Every thread is scheduled and every Map::Update returns.
FairSpec == Spec /\ WF_vars(WorldNext) /\ \A w \in Worker : WF_vars(WorkerNext(w))

-----------------------------------------------------------------------------
(* Safety. *)

Busy == {w \in Worker : pc[w] \in {"updating", "enqueue", "finishing"}}
Handing == {t \in Thread : pc[t] = "enqueue"}

\* The phases of the world thread in which maps, sessions and all managers are
\* used without locks.
Serial == pc[World] \in {"serial", "delayed", "deactivate", "join", "unloaded"}

\* pending_requests counts exactly the requests in the queue, those being
\* worked on, and the one being handed over: it never falls short, so the
\* branch of update_finished that logs "BUG, report to devs" is never taken.
PendingCounts == pending = Len(requests) + Cardinality(Busy) + Cardinality(Handing)

\* The barrier: while the world thread works on its own no map thread updates a
\* map, schedules one, or will find one in the queue.
BarrierHolds == Serial => requests = <<>> /\ Busy = {}

\* At most one thread is between counting a request and handing it over.
MutexHeld == \A t \in Thread : pc[t] = "enqueue" <=> mutex = t

\* The maps whose requests wait, and the maps that are being updated.
Queued == {requests[i] : i \in DOMAIN requests}
Running == {updates[w] : w \in Worker} \ {NoMap}

-----------------------------------------------------------------------------
(* Refinement. *)

Handed == {hand[t] : t \in Thread} \ {NoMap}

\* Base maps the loop of the world thread has not reached are due too.
DueMaps == todo[World] \cup Handed \cup Queued

\* Instances that were neither scheduled nor unloaded yet.
Fresh == (UNION {Children(m) : m \in DueMaps})
         \cup ((UNION {todo[w] : w \in Worker}) \ Handed)

DoneMaps == IF Serial \/ unloading THEN {} ELSE Map \ (DueMaps \cup Running \cup Fresh)

Barrier == INSTANCE UpdateBarrier WITH
    serial <- Serial \/ unloading, due <- DueMaps, running <- Running, done <- DoneMaps

\* The map threads implement the barrier.
ImplementsBarrier == Barrier!BSpec

-----------------------------------------------------------------------------
(* Liveness. *)

\* Every tick of the maps ends: no wake-up is lost and no thread waits for a
\* mutex or a request for ever.
TickEnds == pc[World] = "schedule" ~> pc[World] = "delayed"

\* A shutdown joins all the map threads.
UnloadEnds == unloading ~> pc[World] = "unloaded"
=============================================================================

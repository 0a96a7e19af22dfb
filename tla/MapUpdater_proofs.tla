-------------------------- MODULE MapUpdater_proofs --------------------------
(***************************************************************************)
(* Proofs about MapUpdater, for any number of map threads, maps, instances *)
(* and any bound of the queue: the counter of pending requests is exact,   *)
(* and it makes the barrier; MapUpdater implements UpdateBarrier.          *)
(***************************************************************************)
EXTENDS MapUpdater, FiniteSetTheorems, TLAPS

\* A thread that hands a request over has a map to hand over.
HandHeld == \A t \in Thread : pc[t] = "enqueue" => hand[t] \in Map

\* The counter is exact only because at most one thread is between counting a
\* request and queueing it (MutexHeld), and the barrier follows from the
\* counter: this is the inductive invariant.
IInv == TypeOK /\ HandHeld /\ MutexHeld /\ PendingCounts /\ BarrierHolds

LEMMA Outside ==
    /\ World \in Thread /\ World \notin Worker /\ NoThread \notin Thread
    /\ NoMap \notin Map
    /\ \A w \in Worker : w \in Thread /\ w # World
    /\ IsFiniteSet(Worker) /\ IsFiniteSet(Thread) /\ QueueBound \in Nat
<1>1. IsFiniteSet(Thread)
  BY WorkerAssumption, FS_AddElement DEF Thread
<1> QED
  BY <1>1, WorkerAssumption, ThreadAssumption, MapAssumption, QueueAssumption DEF Thread

\* Busy and Handing are finite, so that they can be counted.
LEMMA Finite ==
    /\ IsFiniteSet(Busy) /\ IsFiniteSet(Handing)
    /\ Cardinality(Busy) \in Nat /\ Cardinality(Handing) \in Nat
    /\ Cardinality(Busy) = 0 <=> Busy = {}
    /\ Cardinality(Handing) = 0 <=> Handing = {}
<1>1. IsFiniteSet(Busy) /\ IsFiniteSet(Handing)
  BY Outside, FS_Subset DEF Busy, Handing
<1> QED
  BY <1>1, FS_CardinalityType, FS_EmptySet

LEMMA InitInv == Init => IInv
<1> SUFFICES ASSUME Init PROVE IInv
  OBVIOUS
<1> USE Outside
<1>1. TypeOK
  <2>1. pc \in [Thread -> WorldPc \cup WorkerPc] /\ pc[World] \in WorldPc
        /\ \A w \in Worker : pc[w] \in WorkerPc
    BY DEF Init, WorldPc, WorkerPc
  <2>2. /\ todo \in [Thread -> SUBSET Map]
        /\ hand \in [Thread -> Map \cup {NoMap}]
        /\ updates \in [Worker -> Map \cup {NoMap}]
        /\ requests \in Seq(Map)
    BY DEF Init
  <2>3. pending \in Nat /\ mutex \in Thread \cup {NoThread} /\ open \in BOOLEAN
        /\ unloading \in BOOLEAN
    BY DEF Init
  <2> QED
    BY <2>1, <2>2, <2>3 DEF TypeOK
<1>2. Busy = {} /\ Handing = {}
  BY DEF Init, Busy, Handing
<1>3. PendingCounts
  BY <1>2, FS_EmptySet DEF Init, PendingCounts
<1>4. MutexHeld /\ BarrierHolds /\ HandHeld
  BY <1>2 DEF Init, MutexHeld, BarrierHolds, HandHeld
<1> QED
  BY <1>1, <1>3, <1>4 DEF IInv

\* One thread moves from one label to another: which sets it enters or leaves.
LEMMA Moves ==
    ASSUME TypeOK, NEW t \in Thread, NEW label, pc' = [pc EXCEPT ![t] = label]
    PROVE  /\ Handing' = IF label = "enqueue" THEN Handing \cup {t} ELSE Handing \ {t}
           /\ t = World => Busy' = Busy
           /\ t \in Worker => Busy' = IF label \in {"updating", "enqueue", "finishing"}
                                      THEN Busy \cup {t} ELSE Busy \ {t}
  BY Outside DEF TypeOK, Handing, Busy

LEMMA WorkerStarts ==
    ASSUME TypeOK, NEW w \in Worker, pc' = [pc EXCEPT ![w] = "updating"]
    PROVE  Busy' = Busy \cup {w} /\ Handing' = Handing \ {w}
  BY Outside DEF TypeOK, Handing, Busy

\* The counter is raised when the mutex is taken.
LEMMA ScheduleUpdateInv ==
    ASSUME IInv, NEW t \in Thread, NEW m \in Map, ScheduleUpdate(t, m)
    PROVE  IInv'
<1> USE Outside
<1> USE DEF IInv
<1>1. /\ pc[t] = Loop(t) /\ mutex = NoThread /\ mutex' = t
      /\ pending' = pending + 1 /\ hand' = [hand EXCEPT ![t] = m]
      /\ pc' = [pc EXCEPT ![t] = "enqueue"]
      /\ UNCHANGED <<todo, updates, requests, open, unloading>>
  BY DEF ScheduleUpdate, Goto
<1>2. TypeOK'
  BY <1>1 DEF TypeOK, WorldPc, WorkerPc
<1>3. HandHeld' /\ MutexHeld'
  BY <1>1 DEF TypeOK, HandHeld, MutexHeld, Loop
<1>4. Handing = {}
  BY <1>1 DEF MutexHeld, Handing
<1>5. Handing' = {t} /\ Busy' = Busy
  <2>1. Handing' = {t}
    BY <1>1, <1>4, Moves
  <2>2. t = World => Busy' = Busy
    BY <1>1, Moves
  <2>3. t \in Worker => t \in Busy /\ Busy' = Busy \cup {t}
    BY <1>1, Moves DEF Busy, Loop
  <2> QED
    BY <2>1, <2>2, <2>3 DEF Thread
<1>6. PendingCounts'
  <2>1. Cardinality(Handing) = 0 /\ Cardinality(Handing') = 1
    BY <1>4, <1>5, FS_EmptySet, FS_Singleton
  <2>2. Len(requests) \in Nat /\ Cardinality(Busy) \in Nat
    BY Finite DEF TypeOK
  <2> QED
    BY <1>1, <1>5, <2>1, <2>2 DEF PendingCounts
<1>7. BarrierHolds'
  <2>1. ~Serial
    <3>1. CASE t = World
      BY <1>1, <3>1 DEF Loop, Serial
    <3>2. CASE t # World
      <4>1. t \in Busy
        BY <1>1, <3>2 DEF Loop, Busy, Thread
      <4> QED
        BY <4>1 DEF BarrierHolds
    <3> QED
      BY <3>1, <3>2
  <2>2. ~Serial'
    BY <1>1, <2>1 DEF TypeOK, Serial
  <2> QED
    BY <2>2 DEF BarrierHolds
<1> QED
  BY <1>2, <1>3, <1>6, <1>7

\* The request goes into the queue, or is taken back from the counter.
LEMMA ExecuteInv ==
    ASSUME IInv, NEW t \in Thread, Execute(t)
    PROVE  IInv'
<1> USE Outside
<1> USE DEF IInv
<1>1. /\ pc[t] = "enqueue" /\ mutex' = NoThread
      /\ todo' = [todo EXCEPT ![t] = @ \ {hand[t]}]
      /\ hand' = [hand EXCEPT ![t] = NoMap]
      /\ pc' = [pc EXCEPT ![t] = Loop(t)]
      /\ UNCHANGED <<updates, open, unloading>>
  BY DEF Execute, Goto
<1>2. \/ requests' = Append(requests, hand[t]) /\ pending' = pending
      \/ requests' = requests /\ pending' = pending - 1
  BY DEF Execute
<1>3. hand[t] \in Map /\ mutex = t
  BY <1>1 DEF HandHeld, MutexHeld
<1>4. Handing = {t}
  BY <1>1, <1>3 DEF MutexHeld, Handing
<1>5. Handing' = {} /\ Busy' = Busy
  <2>1. Handing' = {}
    <3>1. Loop(t) # "enqueue"
      BY DEF Loop
    <3>2. Handing' = Handing \ {t}
      BY <1>1, <3>1, Moves
    <3> QED
      BY <1>4, <3>2
  <2>2. t = World => Busy' = Busy
    BY <1>1, Moves
  <2>3. t \in Worker => t \in Busy /\ Busy' = Busy \cup {t}
    BY <1>1, Moves DEF Busy, Loop
  <2> QED
    BY <2>1, <2>2, <2>3 DEF Thread
<1>6. requests \in Seq(Map) /\ Len(requests) \in Nat
      /\ requests' \in Seq(Map)
      /\ pending' - Len(requests') = pending - Len(requests) - 1
  BY <1>2, <1>3 DEF TypeOK
<1>7. pending = Len(requests) + Cardinality(Busy) + 1
  BY <1>4, FS_Singleton, Finite DEF PendingCounts
<1>8. PendingCounts' /\ pending' \in Nat
  <2>1. Cardinality(Handing') = 0 /\ Cardinality(Busy') = Cardinality(Busy)
    BY <1>5, FS_EmptySet
  <2>2. Cardinality(Busy) \in Nat /\ Len(requests') \in Nat /\ pending' \in Int
    BY <1>2, <1>6, Finite DEF TypeOK
  <2>3. pending' = Len(requests') + Cardinality(Busy)
    BY <1>6, <1>7, <2>2
  <2> QED
    BY <2>1, <2>2, <2>3 DEF PendingCounts
<1>9. TypeOK'
  BY <1>1, <1>6, <1>8 DEF TypeOK, Loop, WorldPc, WorkerPc
<1>10. HandHeld' /\ MutexHeld'
  BY <1>1, <1>3 DEF TypeOK, HandHeld, MutexHeld, Loop
<1>11. BarrierHolds'
  <2>1. ~Serial
    <3>1. CASE t = World
      BY <1>1, <3>1 DEF Serial
    <3>2. CASE t # World
      <4>1. t \in Busy
        BY <1>1, <3>2 DEF Busy, Thread
      <4> QED
        BY <4>1 DEF BarrierHolds
    <3> QED
      BY <3>1, <3>2
  <2>2. ~Serial'
    BY <1>1, <2>1 DEF TypeOK, Serial, Loop
  <2> QED
    BY <2>2 DEF BarrierHolds
<1> QED
  BY <1>8, <1>9, <1>10, <1>11

\* The steps of the world thread that touch neither the counter nor the queue;
\* it works on its own only when it has seen the counter at 0.
LEMMA WorldInv ==
    ASSUME IInv,
           \/ Update \/ EndSchedule \/ Wait \/ SpuriousWakeup \/ DelayedUpdate
           \/ UnloadAll \/ Deactivate \/ Join
    PROVE  IInv'
<1> USE Outside
<1> USE DEF IInv
<1>1. PICK label \in WorldPc \ {"enqueue"} : pc' = [pc EXCEPT ![World] = label]
  BY DEF Update, EndSchedule, Wait, SpuriousWakeup, DelayedUpdate, UnloadAll,
         Deactivate, Join, Goto, WorldPc
<1>2. pc[World] # "enqueue"
  BY DEF Update, EndSchedule, Wait, SpuriousWakeup, DelayedUpdate, UnloadAll,
         Deactivate, Join
<1>3. /\ UNCHANGED <<hand, updates, pending, mutex, requests>>
      /\ todo' = todo \/ todo' = [todo EXCEPT ![World] = BaseMap]
      /\ open' \in BOOLEAN /\ unloading' \in BOOLEAN
  BY DEF Update, EndSchedule, Wait, SpuriousWakeup, DelayedUpdate, UnloadAll,
         Deactivate, Join, TypeOK
<1>4. Busy' = Busy /\ Handing' = Handing
  <2>1. Handing' = Handing \ {World} /\ Busy' = Busy
    BY <1>1, Moves
  <2> QED
    BY <1>2, <2>1 DEF Handing
<1>5. TypeOK'
  BY <1>1, <1>3 DEF TypeOK, Map
<1>6. PendingCounts'
  BY <1>3, <1>4 DEF PendingCounts
<1>7. HandHeld' /\ MutexHeld'
  BY <1>1, <1>2, <1>3 DEF TypeOK, HandHeld, MutexHeld
<1>8. BarrierHolds'
  <2>1. CASE Wait /\ pending = 0
    <3>1. Len(requests) \in Nat /\ Len(requests) + Cardinality(Busy) + Cardinality(Handing) = 0
      BY <2>1 DEF PendingCounts, TypeOK
    <3>2. Len(requests) = 0 /\ Busy = {}
      BY <3>1, Finite
    <3> QED
      BY <1>3, <1>4, <3>2 DEF BarrierHolds, TypeOK
  <2>2. CASE Wait /\ pending > 0
    BY <2>2 DEF Wait, Goto, BarrierHolds, Serial, TypeOK
  <2>3. CASE Update \/ EndSchedule \/ SpuriousWakeup \/ UnloadAll
    BY <2>3 DEF Update, EndSchedule, SpuriousWakeup, UnloadAll, Goto, BarrierHolds,
                Serial, TypeOK
  <2>4. CASE DelayedUpdate \/ Deactivate \/ Join
    <3>1. Serial
      BY <2>4 DEF DelayedUpdate, Deactivate, Join, Serial
    <3> QED
      BY <1>3, <1>4, <3>1 DEF BarrierHolds
  <2> QED
    BY <2>1, <2>2, <2>3, <2>4 DEF TypeOK
<1> QED
  BY <1>5, <1>6, <1>7, <1>8

\* A request leaves the queue for a worker that was idle.
LEMMA DequeueInv ==
    ASSUME IInv, NEW w \in Worker, Dequeue(w)
    PROVE  IInv'
<1> USE Outside
<1> USE DEF IInv
<1>1. /\ pc[w] = "idle" /\ requests # <<>> /\ requests' = Tail(requests)
      /\ updates' = [updates EXCEPT ![w] = Head(requests)]
      /\ pc' = [pc EXCEPT ![w] = "updating"]
      /\ UNCHANGED <<hand, pending, mutex, open, unloading>>
  BY DEF Dequeue, Goto
<1>2. /\ Head(requests) \in Map /\ requests' \in Seq(Map) /\ Len(requests) \in Nat
      /\ Len(requests') = Len(requests) - 1
  BY <1>1 DEF TypeOK
<1>3. todo' \in [Thread -> SUBSET Map]
  <2>1. Children(Head(requests)) \subseteq Map
    BY <1>2, InstanceAssumption DEF Children, Map
  <2>2. PICK kept \in SUBSET Children(Head(requests)) : todo' = [todo EXCEPT ![w] = kept]
    BY DEF Dequeue
  <2> QED
    BY <2>1, <2>2 DEF TypeOK
<1>4. TypeOK'
  BY <1>1, <1>2, <1>3 DEF TypeOK, WorkerPc
<1>5. w \notin Busy /\ Busy' = Busy \cup {w} /\ Handing' = Handing
  <2>1. Busy' = Busy \cup {w} /\ Handing' = Handing \ {w}
    BY <1>1, WorkerStarts
  <2> QED
    BY <1>1, <2>1 DEF Busy, Handing
<1>6. Cardinality(Busy') = Cardinality(Busy) + 1
  BY <1>5, Finite, FS_AddElement
<1>7. PendingCounts'
  BY <1>1, <1>2, <1>5, <1>6, Finite DEF PendingCounts, TypeOK
<1>8. HandHeld' /\ MutexHeld'
  BY <1>1 DEF TypeOK, HandHeld, MutexHeld
<1>9. BarrierHolds'
  <2>1. ~Serial
    BY <1>1 DEF BarrierHolds
  <2>2. ~Serial'
    BY <1>1, <2>1 DEF Serial, TypeOK
  <2> QED
    BY <2>2 DEF BarrierHolds
<1> QED
  BY <1>4, <1>7, <1>8, <1>9

LEMMA EndUpdateInv ==
    ASSUME IInv, NEW w \in Worker, EndUpdate(w)
    PROVE  IInv'
<1> USE Outside
<1> USE DEF IInv
<1>1. /\ pc[w] = "updating" /\ pc' = [pc EXCEPT ![w] = "finishing"]
      /\ updates' = [updates EXCEPT ![w] = NoMap]
      /\ UNCHANGED <<todo, hand, pending, mutex, requests, open, unloading>>
  BY DEF EndUpdate, Goto
<1>2. Busy' = Busy /\ Handing' = Handing
  <2>1. Busy' = Busy \cup {w}
    BY <1>1, Moves
  <2>2. Handing' = Handing \ {w}
    BY <1>1, Moves
  <2> QED
    BY <1>1, <2>1, <2>2 DEF Busy, Handing
<1>3. TypeOK'
  BY <1>1 DEF TypeOK, WorkerPc
<1>4. PendingCounts' /\ BarrierHolds'
  <2>1. Serial' <=> Serial
    BY <1>1 DEF Serial, TypeOK
  <2> QED
    BY <1>1, <1>2, <2>1 DEF PendingCounts, BarrierHolds
<1>5. HandHeld' /\ MutexHeld'
  BY <1>1 DEF TypeOK, HandHeld, MutexHeld
<1> QED
  BY <1>3, <1>4, <1>5

\* The counter is lowered by a worker that was counted, so it never was 0.
LEMMA UpdateFinishedInv ==
    ASSUME IInv, NEW w \in Worker, UpdateFinished(w)
    PROVE  IInv'
<1> USE Outside
<1> USE DEF IInv
<1>1. w \in Busy /\ pc[w] = "finishing"
  BY DEF UpdateFinished, Busy
<1>2. Cardinality(Busy) # 0 /\ pending > 0
  <2>1. Len(requests) \in Nat
    BY DEF TypeOK
  <2> QED
    BY <1>1, <2>1, Finite DEF PendingCounts
<1>3. /\ pending' = pending - 1
      /\ pc' = [pc EXCEPT ![w] = "idle",
                          ![World] = IF @ = "asleep" THEN "wait" ELSE @]
      /\ UNCHANGED <<todo, hand, updates, mutex, requests, open, unloading>>
  BY <1>2 DEF UpdateFinished
<1>4. /\ pc'[w] = "idle" /\ \A v \in Worker \ {w} : pc'[v] = pc[v]
      /\ pc'[World] = IF pc[World] = "asleep" THEN "wait" ELSE pc[World]
  BY <1>3 DEF TypeOK, Thread
<1>5. Busy' = Busy \ {w}
  BY <1>4 DEF Busy
<1>6. \A t \in Thread : pc'[t] = "enqueue" <=> pc[t] = "enqueue"
  BY <1>1, <1>4 DEF Thread
<1>7. Handing' = Handing
  BY <1>6 DEF Handing
<1>8. TypeOK'
  BY <1>2, <1>3, <1>4 DEF TypeOK, WorkerPc, WorldPc
<1>9. PendingCounts'
  <2>1. Cardinality(Busy') = Cardinality(Busy) - 1
    BY <1>1, <1>5, Finite, FS_RemoveElement
  <2>2. Len(requests) \in Nat
    BY DEF TypeOK
  <2> QED
    BY <1>3, <1>7, <2>1, <2>2, Finite DEF PendingCounts
<1>10. HandHeld' /\ MutexHeld'
  BY <1>3, <1>6 DEF HandHeld, MutexHeld
<1>11. BarrierHolds'
  BY <1>1, <1>4 DEF BarrierHolds, Serial
<1> QED
  BY <1>8, <1>9, <1>10, <1>11

LEMMA ExitInv ==
    ASSUME IInv, NEW w \in Worker, Exit(w)
    PROVE  IInv'
<1> USE Outside
<1> USE DEF IInv
<1>1. /\ pc[w] = "idle" /\ pc' = [pc EXCEPT ![w] = "exited"]
      /\ UNCHANGED <<todo, hand, updates, pending, mutex, requests, open, unloading>>
  BY DEF Exit, Goto
<1>2. Busy' = Busy /\ Handing' = Handing
  <2>1. Busy' = Busy \ {w}
    BY <1>1, Moves
  <2>2. Handing' = Handing
    BY <1>1 DEF Handing, TypeOK
  <2> QED
    BY <1>1, <2>1, <2>2 DEF Busy, Handing
<1>3. TypeOK'
  BY <1>1 DEF TypeOK, WorkerPc
<1>4. PendingCounts' /\ BarrierHolds'
  <2>1. Serial' <=> Serial
    BY <1>1 DEF Serial, TypeOK
  <2> QED
    BY <1>1, <1>2, <2>1 DEF PendingCounts, BarrierHolds
<1>5. HandHeld' /\ MutexHeld'
  BY <1>1 DEF TypeOK, HandHeld, MutexHeld
<1> QED
  BY <1>3, <1>4, <1>5

\* The invariant holds in every reachable state.
THEOREM Invariant == Spec => []IInv
<1>1. Init => IInv
  BY InitInv
<1>2. IInv /\ [Next]_vars => IInv'
  <2> SUFFICES ASSUME IInv, [Next]_vars PROVE IInv'
    OBVIOUS
  <2>1. ASSUME NEW t \in Thread, Schedule(t) PROVE IInv'
    BY <2>1, ScheduleUpdateInv, ExecuteInv DEF Schedule
  <2>2. CASE WorldNext
    BY <2>1, <2>2, WorldInv, Outside DEF WorldNext
  <2>3. CASE SpuriousWakeup
    BY <2>3, WorldInv
  <2>4. ASSUME NEW w \in Worker, WorkerNext(w) PROVE IInv'
    BY <2>1, <2>4, DequeueInv, EndUpdateInv, UpdateFinishedInv, ExitInv, Outside
    DEF WorkerNext
  <2>5. CASE UNCHANGED vars
    <3>1. Busy' = Busy /\ Handing' = Handing
      BY <2>5 DEF vars, Busy, Handing
    <3> QED
      BY <2>5, <3>1
      DEF vars, IInv, TypeOK, HandHeld, MutexHeld, PendingCounts, BarrierHolds, Serial
  <2> QED
    BY <2>2, <2>3, <2>4, <2>5 DEF Next
<1> QED
  BY <1>1, <1>2, PTL DEF Spec

\* Every variable keeps its type; the counter never falls below 0.
THEOREM TypeCorrect == Spec => []TypeOK
<1>1. IInv => TypeOK
  BY DEF IInv
<1> QED
  BY <1>1, Invariant, PTL

\* pending_requests is exact whatever the threads do: the "BUG" branch of
\* MapUpdater::update_finished is dead.
THEOREM CounterIsExact == Spec => []PendingCounts
<1>1. IInv => PendingCounts
  BY DEF IInv
<1> QED
  BY <1>1, Invariant, PTL

\* While the world thread works on its own, no map thread updates a map or
\* will find a request, for any number of map threads and instances.
THEOREM MapsAreQuiet == Spec => []BarrierHolds
<1>1. IInv => BarrierHolds
  BY DEF IInv
<1> QED
  BY <1>1, Invariant, PTL

-----------------------------------------------------------------------------
(* The refinement: whatever the threads do, a tick updates every map at most *)
(* once, an instance only on behalf of its base map, and ends when nothing   *)
(* is left.                                                                  *)

\* What the loops over i_maps and m_InstancedMaps still have to schedule.
Loops ==
    /\ todo[World] \subseteq BaseMap
    /\ todo[World] # {} => pc[World] \in {"schedule", "enqueue"}
    /\ \A w \in Worker : /\ todo[w] \subseteq Children(updates[w])
                         /\ updates[w] # NoMap <=> pc[w] \in {"updating", "enqueue"}
    /\ \A t \in Thread : IF pc[t] = "enqueue" THEN hand[t] \in todo[t]
                                              ELSE hand[t] = NoMap

\* A map is waiting to be scheduled, in the queue or in work, in one place only.
InOnePlace ==
    /\ \A i, j \in DOMAIN requests : requests[i] = requests[j] => i = j
    /\ \A v, w \in Worker : updates[v] = updates[w] /\ updates[v] # NoMap => v = w
    /\ todo[World] \cap (Queued \cup Running) = {}
    /\ Queued \cap Running = {}

\* No thread has touched the instances that a loop has yet to schedule, or whose
\* base map has yet to be updated.
Untouched ==
    /\ \A w \in Worker : todo[w] \cap (Queued \cup Running) = {}
    /\ \A m \in todo[World] \cup Queued : Children(m) \cap (Queued \cup Running) = {}

\* After UnloadAll the world thread schedules nothing more.
Closed ==
    unloading => /\ pc[World] \in {"wait", "asleep", "deactivate", "join", "unloaded"}
                 /\ requests = <<>> /\ Busy = {}

Places == Loops /\ InOnePlace /\ Untouched /\ Closed

\* An instance belongs to one base map and is none itself.
LEMMA Family ==
    /\ Children(NoMap) = {}
    /\ \A m \in Map : Children(m) \subseteq Instance
    /\ \A m \in Instance : m \notin BaseMap /\ Children(m) = {}
    /\ \A m, n, i : i \in Children(m) /\ i \in Children(n) => m = n
    /\ \A i \in Instance : \E m \in BaseMap : i \in Children(m)
    /\ \A m : Children(m) # {} => m \in BaseMap
  BY InstanceAssumption, MapAssumption DEF Children, Map

LEMMA PlacesInit == Init => Places
<1> SUFFICES ASSUME Init PROVE Places
  OBVIOUS
<1> USE Outside
<1>1. Queued = {} /\ Running = {} /\ Busy = {}
  BY DEF Init, Queued, Running, Busy
<1> QED
  BY <1>1 DEF Init, Places, Loops, InOnePlace, Untouched, Closed

\* What a thread that hands a map over, or goes through its instances, holds.
LEMMA InHand ==
    ASSUME IInv, Places
    PROVE  /\ mutex = NoThread => Handed = {}
           /\ \A t \in Thread : pc[t] = "enqueue" =>
                  /\ Handed = {hand[t]} /\ hand[t] \in Map /\ hand[t] \in todo[t]
                  /\ hand[t] \notin Queued /\ hand[t] \notin Running
                  /\ \A v \in Thread \ {t} : hand[t] \notin todo[v]
<1> USE Outside
<1>1. mutex = NoThread => Handed = {}
  BY DEF IInv, MutexHeld, Places, Loops, Handed
<1>2. ASSUME NEW t \in Thread, pc[t] = "enqueue"
      PROVE  /\ hand[t] \in Map /\ hand[t] \in todo[t] /\ Handed = {hand[t]}
             /\ hand[t] \notin Queued /\ hand[t] \notin Running
  <2>1. hand[t] \in Map /\ hand[t] \in todo[t] /\ hand[t] # NoMap
    BY <1>2 DEF IInv, HandHeld, Places, Loops
  <2>2. \A v \in Thread \ {t} : hand[v] = NoMap
    BY <1>2 DEF IInv, MutexHeld, Places, Loops
  <2>3. Handed = {hand[t]}
    BY <2>1, <2>2 DEF Handed
  <2>4. hand[t] \notin Queued /\ hand[t] \notin Running
    BY <2>1 DEF Places, InOnePlace, Untouched, Thread
  <2> QED
    BY <2>1, <2>3, <2>4
<1>3. ASSUME NEW t \in Thread, NEW v \in Thread, t # v, pc[t] = "enqueue"
      PROVE  hand[t] \notin todo[v]
  <2>1. hand[t] \in todo[t] /\ hand[t] \in Map
    BY <1>2, <1>3
  <2>2. \A w \in Worker : /\ todo[w] \subseteq Children(updates[w])
                          /\ updates[w] \in Map \cup {NoMap}
    BY DEF Places, Loops, IInv, TypeOK
  <2>3. \A w \in Worker : todo[w] \subseteq Instance
    BY <2>2, Family
  <2>4. CASE t = World \/ v = World
    BY <2>1, <2>3, <2>4, <1>3, Family DEF Places, Loops, Thread
  <2>5. CASE t \in Worker /\ v \in Worker
    <3>1. SUFFICES ASSUME hand[t] \in todo[v] PROVE FALSE
      OBVIOUS
    <3>2. updates[t] = updates[v] /\ updates[t] # NoMap
      BY <2>1, <2>2, <2>5, <3>1, Family
    <3> QED
      BY <3>2, <2>5, <1>3 DEF Places, InOnePlace
  <2> QED
    BY <2>4, <2>5 DEF Thread
<1> QED
  BY <1>1, <1>2, <1>3

-----------------------------------------------------------------------------
(* The steps keep maps in one place.                                         *)

\* The request and its mutex.
LEMMA ScheduleUpdatePlaces ==
    ASSUME IInv, Places, NEW t \in Thread, NEW m \in Map, ScheduleUpdate(t, m)
    PROVE  Places'
<1> USE Outside
<1>1. /\ pc[t] = Loop(t) /\ m \in todo[t]
      /\ hand' = [hand EXCEPT ![t] = m] /\ pc' = [pc EXCEPT ![t] = "enqueue"]
      /\ UNCHANGED <<todo, updates, requests, unloading>>
  BY DEF ScheduleUpdate, Goto
<1>2. pc[t] \in {"schedule", "updating"} /\ (t = World <=> pc[t] = "schedule")
  BY <1>1 DEF Loop
<1>3. Loops'
  BY <1>1, <1>2 DEF IInv, TypeOK, Places, Loops, Thread
<1>4. Queued' = Queued /\ Running' = Running
  BY <1>1 DEF Queued, Running
<1>5. InOnePlace' /\ Untouched'
  BY <1>1, <1>4 DEF Places, InOnePlace, Untouched
<1>6. Closed'
  <2>1. ~unloading
    BY <1>1, <1>2 DEF Places, Closed, Busy, Thread
  <2> QED
    BY <1>1, <2>1 DEF Closed
<1> QED
  BY <1>3, <1>5, <1>6 DEF Places

\* Where the queue ends up after one more request.
LEMMA Appended ==
    ASSUME requests \in Seq(Map), NEW m \in Map, m \notin Queued,
           requests' = Append(requests, m)
    PROVE  /\ Queued' = Queued \cup {m}
           /\ (\A i, j \in DOMAIN requests : requests[i] = requests[j] => i = j)
              => \A i, j \in DOMAIN requests' : requests'[i] = requests'[j] => i = j
  BY DEF Queued

LEMMA Dequeued ==
    ASSUME requests \in Seq(Map), requests # <<>>, requests' = Tail(requests),
           \A i, j \in DOMAIN requests : requests[i] = requests[j] => i = j
    PROVE  /\ Head(requests) \in Queued /\ Queued' = Queued \ {Head(requests)}
           /\ \A i, j \in DOMAIN requests' : requests'[i] = requests'[j] => i = j
<1>1. /\ Len(requests) \in Nat /\ Len(requests) > 0 /\ DOMAIN requests = 1..Len(requests)
      /\ DOMAIN requests' = 1..(Len(requests) - 1)
      /\ \A i \in DOMAIN requests' : requests'[i] = requests[i + 1]
      /\ Head(requests) = requests[1]
  OBVIOUS
<1>2. \A i \in DOMAIN requests' : i + 1 \in DOMAIN requests /\ i + 1 # 1
  BY <1>1
<1>3. \A i \in DOMAIN requests \ {1} : i - 1 \in DOMAIN requests' /\ (i - 1) + 1 = i
  BY <1>1
<1>4. 1 \in DOMAIN requests
  BY <1>1
<1>5. Queued' = Queued \ {Head(requests)}
  <2>1. ASSUME NEW i \in DOMAIN requests'
        PROVE  requests'[i] \in Queued /\ requests'[i] # Head(requests)
    BY <1>1, <1>2, <1>4 DEF Queued
  <2>2. ASSUME NEW i \in DOMAIN requests, requests[i] # Head(requests)
        PROVE  requests[i] \in Queued'
    <3>1. i - 1 \in DOMAIN requests' /\ requests'[i - 1] = requests[i]
      BY <1>1, <1>3, <2>2
    <3> QED
      BY <3>1 DEF Queued
  <2>3. \A m \in Queued' : \E i \in DOMAIN requests' : m = requests'[i]
    BY DEF Queued
  <2>4. \A m \in Queued : \E i \in DOMAIN requests : m = requests[i]
    BY DEF Queued
  <2> QED
    BY <2>1, <2>2, <2>3, <2>4
<1>6. \A i, j \in DOMAIN requests' : requests'[i] = requests'[j] => i = j
  BY <1>1, <1>2
<1> QED
  BY <1>1, <1>4, <1>5, <1>6 DEF Queued

\* The hand-over, whether the queue takes the request or not.
LEMMA ExecutePlaces ==
    ASSUME IInv, Places, NEW t \in Thread, Execute(t)
    PROVE  Places'
<1> USE Outside
<1> DEFINE h == hand[t]
<1>1. /\ pc[t] = "enqueue"
      /\ todo' = [todo EXCEPT ![t] = @ \ {h}]
      /\ hand' = [hand EXCEPT ![t] = NoMap] /\ pc' = [pc EXCEPT ![t] = Loop(t)]
      /\ UNCHANGED <<updates, unloading>>
      /\ requests' = Append(requests, h) \/ requests' = requests
  BY DEF Execute, Goto
<1>2. /\ h \in Map /\ h \in todo[t] /\ h \notin Queued /\ h \notin Running
      /\ \A v \in Thread \ {t} : h \notin todo[v]
  BY <1>1, InHand
<1>3. /\ \A v \in Thread : todo'[v] = todo[v] \ {h}
      /\ Running' = Running
  BY <1>1, <1>2 DEF IInv, TypeOK, Running
<1>4. /\ Queued' \subseteq Queued \cup {h}
      /\ \A i, j \in DOMAIN requests' : requests'[i] = requests'[j] => i = j
  <2>1. CASE requests' = requests
    BY <2>1 DEF Queued, Places, InOnePlace
  <2>2. CASE requests' = Append(requests, h)
    BY <2>2, <1>2, Appended DEF IInv, TypeOK, Places, InOnePlace
  <2> QED
    BY <1>1, <2>1, <2>2
<1> HIDE DEF h
<1>5. Loops'
  <2>1. (todo'[World] # {}) => pc'[World] \in {"schedule", "enqueue"}
    BY <1>1, <1>3 DEF IInv, TypeOK, Places, Loops, Loop
  <2>2. todo'[World] \subseteq BaseMap
        /\ \A w \in Worker : todo'[w] \subseteq Children(updates'[w])
    BY <1>1, <1>3 DEF Places, Loops
  <2>3. \A w \in Worker : updates'[w] # NoMap <=> pc'[w] \in {"updating", "enqueue"}
    BY <1>1 DEF IInv, TypeOK, Places, Loops, Loop
  <2>4. \A v \in Thread : IF pc'[v] = "enqueue" THEN hand'[v] \in todo'[v]
                                                ELSE hand'[v] = NoMap
    <3>1. pc'[t] # "enqueue" /\ hand'[t] = NoMap
      BY <1>1 DEF IInv, TypeOK, Loop
    <3>2. ASSUME NEW v \in Thread \ {t}
          PROVE  pc'[v] = pc[v] /\ hand'[v] = hand[v] /\ todo'[v] = todo[v]
      BY <1>1, <1>2, <1>3 DEF IInv, TypeOK
    <3> QED
      BY <3>1, <3>2 DEF Places, Loops
  <2> QED
    BY <2>1, <2>2, <2>3, <2>4 DEF Loops
<1>6. InOnePlace'
  BY <1>1, <1>2, <1>3, <1>4 DEF Places, InOnePlace
<1>7. h \in todo[World] \/ (Children(h) = {} /\ \E w \in Worker : h \in Children(updates[w])
                                                          /\ updates[w] \in Running)
  <2>1. CASE t = World
    BY <1>2, <2>1 DEF Places, Loops
  <2>2. CASE t \in Worker
    <3>1. h \in Children(updates[t]) /\ updates[t] # NoMap /\ updates[t] \in Running
      BY <1>1, <1>2, <2>2 DEF Places, Loops, Running
    <3>2. updates[t] \in Map
      BY <2>2, <3>1 DEF IInv, TypeOK
    <3> QED
      BY <2>2, <3>1, <3>2, Family
  <2> QED
    BY <2>1, <2>2 DEF Thread
<1>8. Untouched'
  <2>1. \A w \in Worker : todo'[w] \cap (Queued' \cup Running') = {}
    BY <1>3, <1>4 DEF Places, Untouched, Thread
  <2>2. ASSUME NEW m \in todo'[World] \cup Queued'
        PROVE  Children(m) \cap (Queued' \cup Running') = {}
    <3>1. m \in todo[World] \cup Queued \cup {h}
      BY <1>3, <1>4
    <3>2. m \notin Running /\ m \in Map
      BY <1>2, <3>1 DEF Places, InOnePlace, Queued, IInv, TypeOK
    <3>3. h \notin Children(m)
      BY <1>7, <3>2, Family DEF Places, Loops
    <3>4. Children(m) \cap (Queued \cup Running) = {}
      BY <1>7, <3>1 DEF Places, Untouched
    <3> QED
      BY <1>3, <1>4, <3>3, <3>4
  <2> QED
    BY <2>1, <2>2 DEF Untouched
<1>9. Closed'
  <2>1. ~unloading
    BY <1>1 DEF Places, Closed, Busy, Thread
  <2> QED
    BY <1>1, <2>1 DEF Closed
<1> QED
  BY <1>5, <1>6, <1>8, <1>9 DEF Places

\* What a step of a worker does to the map in hand of the others: nothing.
LEMMA DequeuePlaces ==
    ASSUME IInv, Places, NEW w \in Worker, Dequeue(w)
    PROVE  Places'
<1> USE Outside
<1> DEFINE m == Head(requests)
<1>1. /\ pc[w] = "idle" /\ requests # <<>> /\ requests' = Tail(requests)
      /\ updates' = [updates EXCEPT ![w] = m]
      /\ pc' = [pc EXCEPT ![w] = "updating"]
      /\ UNCHANGED <<hand, unloading>>
  BY DEF Dequeue, Goto
<1>2. /\ m \in Map /\ m \in Queued /\ Queued' = Queued \ {m}
      /\ \A i, j \in DOMAIN requests' : requests'[i] = requests'[j] => i = j
  BY <1>1, Dequeued DEF IInv, TypeOK, Places, InOnePlace
<1>3. PICK kept \in SUBSET Children(m) : todo' = [todo EXCEPT ![w] = kept]
  BY DEF Dequeue
<1> HIDE DEF m
<1>4. updates[w] = NoMap
  BY <1>1 DEF Places, Loops
<1>5. Running' = Running \cup {m} /\ m \notin Running
  BY <1>1, <1>2, <1>4 DEF IInv, TypeOK, Places, InOnePlace, Running
<1>6. /\ todo'[w] = kept /\ \A v \in Thread \ {w} : todo'[v] = todo[v]
      /\ updates'[w] = m /\ \A v \in Worker \ {w} : updates'[v] = updates[v]
      /\ pc'[w] = "updating" /\ \A v \in Thread \ {w} : pc'[v] = pc[v]
  BY <1>1, <1>3 DEF IInv, TypeOK
<1>7. Loops'
  BY <1>1, <1>2, <1>6 DEF Places, Loops
<1>8. InOnePlace'
  <2>1. m \notin todo[World]
    BY <1>2 DEF Places, InOnePlace
  <2>2. \A v \in Worker \ {w} : updates[v] # m
    BY <1>2, <1>5 DEF Running
  <2> QED
    BY <1>2, <1>5, <1>6, <2>1, <2>2 DEF Places, InOnePlace
<1>9. Untouched'
  <2>1. Queued' \cup Running' = Queued \cup Running
    BY <1>2, <1>5
  <2>2. kept \cap (Queued \cup Running) = {}
    BY <1>2, <1>3 DEF Places, Untouched
  <2> QED
    BY <1>2, <1>6, <2>1, <2>2 DEF Places, Untouched
<1>10. Closed'
  BY <1>1 DEF Places, Closed
<1> QED
  BY <1>7, <1>8, <1>9, <1>10 DEF Places

LEMMA EndUpdatePlaces ==
    ASSUME IInv, Places, NEW w \in Worker, EndUpdate(w)
    PROVE  Places'
<1> USE Outside
<1>1. /\ pc[w] = "updating" /\ todo[w] = {}
      /\ updates' = [updates EXCEPT ![w] = NoMap] /\ pc' = [pc EXCEPT ![w] = "finishing"]
      /\ UNCHANGED <<todo, hand, requests, unloading>>
  BY DEF EndUpdate, Goto
<1>2. /\ updates'[w] = NoMap /\ \A v \in Worker \ {w} : updates'[v] = updates[v]
      /\ pc'[w] = "finishing" /\ \A v \in Thread \ {w} : pc'[v] = pc[v]
  BY <1>1 DEF IInv, TypeOK
<1>3. Queued' = Queued /\ Running' \subseteq Running
  BY <1>1, <1>2 DEF Queued, Running
<1>4. Loops'
  BY <1>1, <1>2 DEF Places, Loops
<1>5. InOnePlace' /\ Untouched'
  BY <1>1, <1>2, <1>3 DEF Places, InOnePlace, Untouched
<1>6. ~unloading
  BY <1>1 DEF Places, Closed, Busy
<1> QED
  BY <1>1, <1>4, <1>5, <1>6 DEF Places, Closed

\* Threads that only change their label.
LEMMA LabelPlaces ==
    ASSUME IInv, Places, UNCHANGED <<todo, hand, updates, requests>>,
           \A t \in Thread : pc'[t] = pc[t] \/ (/\ {pc[t], pc'[t]} \cap {"enqueue", "updating"} = {}
                                                /\ todo[t] = {}),
           Closed'
    PROVE  Places'
<1>1. Queued' = Queued /\ Running' = Running
  BY DEF Queued, Running
<1>2. Loops'
  BY Outside DEF Places, Loops
<1> QED
  BY <1>1, <1>2 DEF Places, InOnePlace, Untouched

LEMMA ReturnPlaces ==
    ASSUME IInv, Places, NEW w \in Worker, UpdateFinished(w) \/ Exit(w)
    PROVE  Places'
<1> USE Outside
<1>1. /\ pc[w] \in {"finishing", "idle"} /\ UNCHANGED <<todo, hand, updates, requests, unloading>>
      /\ pc'[w] \in {"idle", "exited"}
      /\ \A v \in Worker \ {w} : pc'[v] = pc[v]
      /\ pc'[World] = pc[World] \/ (pc[World] = "asleep" /\ pc'[World] = "wait")
  BY DEF UpdateFinished, Exit, Goto, IInv, TypeOK
<1>2. todo[w] = {} /\ (pc[World] = "asleep" => todo[World] = {})
  <2>1. updates[w] = NoMap
    BY <1>1 DEF Places, Loops
  <2> QED
    BY <2>1, Family DEF Places, Loops
<1>3. Closed'
  <2>1. Busy' \subseteq Busy
    BY <1>1 DEF Busy
  <2> QED
    BY <1>1, <2>1 DEF Places, Closed
<1> QED
  BY <1>1, <1>2, <1>3, LabelPlaces DEF Thread

LEMMA WorldPlaces ==
    ASSUME IInv, Places,
           \/ Update \/ EndSchedule \/ Wait \/ SpuriousWakeup \/ DelayedUpdate
           \/ UnloadAll \/ Deactivate \/ Join
    PROVE  Places'
<1> USE Outside
<1>1. PICK label \in WorldPc \ {"enqueue"} : pc' = [pc EXCEPT ![World] = label]
  BY DEF Update, EndSchedule, Wait, SpuriousWakeup, DelayedUpdate, UnloadAll,
         Deactivate, Join, Goto, WorldPc
<1>2. /\ UNCHANGED <<hand, updates, requests>>
      /\ pc[World] \notin {"enqueue", "updating"}
      /\ pc[World] # "schedule" \/ todo[World] = {}
      /\ pc'[World] = label /\ \A w \in Worker : pc'[w] = pc[w]
  BY <1>1 DEF Update, EndSchedule, Wait, SpuriousWakeup, DelayedUpdate, UnloadAll,
              Deactivate, Join, IInv, TypeOK
<1>3. Busy' = Busy /\ Queued' = Queued /\ Running' = Running
  BY <1>2 DEF Busy, Queued, Running
<1>4. Serial => requests = <<>> /\ Busy = {} /\ Queued = {} /\ Running = {}
  <2>1. Serial => requests = <<>> /\ Busy = {}
    BY DEF IInv, BarrierHolds
  <2>2. requests = <<>> => Queued = {}
    BY DEF Queued
  <2>3. Busy = {} => Running = {}
    BY DEF Busy, Running, Places, Loops
  <2> QED
    BY <2>1, <2>2, <2>3
<1>5. todo[World] = {}
  BY <1>2 DEF Places, Loops
<1>6. Closed'
  <2>1. CASE Update
    <3>1. ~unloading /\ unloading' = unloading
      BY <2>1 DEF Update, Places, Closed
    <3> QED
      BY <3>1 DEF Closed
  <2>2. CASE UnloadAll
    <3>1. Serial /\ pc'[World] = "wait"
      BY <2>2 DEF UnloadAll, Goto, Serial, IInv, TypeOK
    <3> QED
      BY <1>2, <1>3, <1>4, <3>1 DEF Closed
  <2>3. CASE EndSchedule \/ Wait \/ SpuriousWakeup \/ DelayedUpdate \/ Deactivate \/ Join
    <3>1. unloading' = unloading
      BY <2>3 DEF EndSchedule, Wait, SpuriousWakeup, DelayedUpdate, Deactivate, Join
    <3>2. unloading => pc'[World] \in {"wait", "asleep", "deactivate", "join", "unloaded"}
      BY <2>3 DEF EndSchedule, Wait, SpuriousWakeup, DelayedUpdate, Deactivate, Join,
                  Goto, Places, Closed, IInv, TypeOK
    <3> QED
      BY <1>2, <1>3, <3>1, <3>2 DEF Places, Closed
  <2> QED
    BY <2>1, <2>2, <2>3
<1>7. CASE Update
  <2>1. /\ todo'[World] = BaseMap /\ \A w \in Worker : todo'[w] = todo[w]
        /\ pc'[World] = "schedule" /\ Serial
    BY <1>7 DEF Update, Goto, Serial, IInv, TypeOK
  <2>2. Queued' = {} /\ Running' = {}
    BY <1>3, <1>4, <2>1
  <2>3. Loops'
    BY <1>2, <2>1 DEF Places, Loops, Thread
  <2>4. InOnePlace' /\ Untouched'
    BY <1>2, <2>2 DEF Places, InOnePlace, Untouched
  <2> QED
    BY <1>6, <2>3, <2>4 DEF Places
<1>8. CASE ~Update
  <2>1. todo' = todo
    BY <1>8 DEF EndSchedule, Wait, SpuriousWakeup, DelayedUpdate, UnloadAll, Deactivate, Join
  <2>2. label \notin {"enqueue", "updating"}
    BY DEF WorldPc
  <2> QED
    BY <1>2, <1>5, <1>6, <2>1, <2>2, LabelPlaces DEF Thread
<1> QED
  BY <1>7, <1>8

\* Both invariants hold in every reachable state.
THEOREM MapsInPlace == Spec => [](IInv /\ Places)
<1>1. Init => IInv /\ Places
  BY InitInv, PlacesInit
<1>2. IInv /\ Places /\ [Next]_vars => Places'
  <2> SUFFICES ASSUME IInv, Places, [Next]_vars PROVE Places'
    OBVIOUS
  <2>1. ASSUME NEW t \in Thread, Schedule(t) PROVE Places'
    BY <2>1, ScheduleUpdatePlaces, ExecutePlaces DEF Schedule
  <2>2. CASE WorldNext
    BY <2>1, <2>2, WorldPlaces, Outside DEF WorldNext
  <2>3. CASE SpuriousWakeup
    BY <2>3, WorldPlaces
  <2>4. ASSUME NEW w \in Worker, WorkerNext(w) PROVE Places'
    BY <2>1, <2>4, DequeuePlaces, EndUpdatePlaces, ReturnPlaces, Outside DEF WorkerNext
  <2>5. CASE UNCHANGED vars
    <3>1. Queued' = Queued /\ Running' = Running /\ Busy' = Busy
      BY <2>5 DEF vars, Queued, Running, Busy
    <3> QED
      BY <2>5, <3>1 DEF vars, Places, Loops, InOnePlace, Untouched, Closed
  <2> QED
    BY <2>2, <2>3, <2>4, <2>5 DEF Next
<1> QED
  BY <1>1, <1>2, Invariant, PTL DEF Spec

-----------------------------------------------------------------------------
(* Every step is a step of UpdateBarrier or changes nothing of it.           *)

Alone == Serial \/ unloading

\* The abstract state, as MapUpdater spells it.
Same == UNCHANGED <<Alone, DueMaps, Running, DoneMaps>>

LEMMA SameIsStutter == Same => UNCHANGED Barrier!bvars
  BY DEF Same, Alone, Barrier!bvars

LEMMA BarrierChildren == Barrier!Map = Map /\ \A m : Barrier!Children(m) = Children(m)
  BY DEF Barrier!Map, Map, Barrier!Children, Children

\* What the abstract state says about maps that are due, in work or neither.
LEMMA Due ==
    ASSUME IInv, Places
    PROVE  /\ DueMaps \subseteq Map /\ Running \subseteq Map
           /\ DueMaps \cap Running = {}
           /\ \A w \in Worker : /\ todo[w] \subseteq Instance
                                /\ updates[w] # NoMap => updates[w] \in Running
                                /\ todo[w] # {} => updates[w] # NoMap
           /\ \A i : i \in Fresh <=> \/ \E m \in DueMaps : i \in Children(m)
                                     \/ i \notin Handed /\ \E w \in Worker : i \in todo[w]
           /\ \A m \in DueMaps : \A w \in Worker : Children(m) \cap todo[w] = {}
           /\ Alone => DueMaps = {} /\ Running = {} /\ Fresh = {}
<1> USE Outside
<1>1. \A w \in Worker : /\ todo[w] \subseteq Children(updates[w])
                        /\ updates[w] \in Map \cup {NoMap}
  BY DEF Places, Loops, IInv, TypeOK
<1>2. \A w \in Worker : /\ todo[w] \subseteq Instance
                        /\ updates[w] # NoMap => updates[w] \in Running
                        /\ todo[w] # {} => updates[w] # NoMap
  BY <1>1, Family DEF Running
<1>3. Running \subseteq Map /\ Queued \subseteq Map /\ Handed \subseteq Map
      /\ todo[World] \subseteq Map
  BY DEF Running, Queued, Handed, IInv, TypeOK
<1>4. \A m \in Handed : \E t \in Thread : pc[t] = "enqueue" /\ m = hand[t]
  BY DEF Handed, Places, Loops
<1>5. DueMaps \cap Running = {}
  <2>1. Handed \cap Running = {}
    BY <1>4, InHand
  <2> QED
    BY <2>1 DEF DueMaps, Places, InOnePlace
<1>6. \A i : i \in Fresh <=> \/ \E m \in DueMaps : i \in Children(m)
                             \/ i \notin Handed /\ \E w \in Worker : i \in todo[w]
  BY DEF Fresh
<1>7. \A m \in DueMaps : \A w \in Worker : Children(m) \cap todo[w] = {}
  <2> SUFFICES ASSUME NEW m \in DueMaps, NEW w \in Worker, NEW i,
                      i \in Children(m), i \in todo[w]
               PROVE  FALSE
    OBVIOUS
  <2>1. m = updates[w] /\ updates[w] # NoMap
    BY <1>1, <1>2, Family
  <2> QED
    BY <2>1, <1>2, <1>5
<1>8. Alone => DueMaps = {} /\ Running = {} /\ Fresh = {}
  <2> SUFFICES ASSUME Alone PROVE DueMaps = {} /\ Running = {} /\ Fresh = {}
    OBVIOUS
  <2>1. requests = <<>> /\ Busy = {}
        /\ pc[World] \notin {"schedule", "enqueue"}
    BY DEF Alone, IInv, BarrierHolds, Places, Closed, Serial
  <2>2. \A w \in Worker : pc[w] \notin {"updating", "enqueue"}
    BY <2>1 DEF Busy
  <2>3. Queued = {}
    BY <2>1 DEF Queued
  <2>4. todo[World] = {} /\ \A w \in Worker : updates[w] = NoMap
    BY <2>1, <2>2 DEF Places, Loops
  <2>5. Handed = {}
    BY <1>4, <2>1, <2>2 DEF Thread
  <2>6. Running = {} /\ DueMaps = {}
    BY <2>3, <2>4, <2>5 DEF Running, DueMaps
  <2>7. \A w \in Worker : todo[w] = {}
    BY <1>2, <2>4
  <2>8. Fresh = {}
    BY <1>6, <2>6, <2>7
  <2> QED
    BY <2>6, <2>8
<1> QED
  BY <1>2, <1>3, <1>5, <1>6, <1>7, <1>8 DEF DueMaps

LEMMA BarrierInit == Init => Barrier!BInit
<1> SUFFICES ASSUME Init PROVE Barrier!BInit
  OBVIOUS
<1>1. IInv /\ Places
  BY InitInv, PlacesInit
<1>2. Alone /\ Serial
  BY Outside DEF Init, Alone, Serial
<1>3. DueMaps = {} /\ Running = {} /\ DoneMaps = {}
  BY <1>1, <1>2, Due DEF DoneMaps, Alone
<1> QED
  BY <1>2, <1>3 DEF Barrier!BInit, Alone

\* A map that is handed over is due; asked for by the update of another map, it
\* becomes due.
LEMMA ScheduleUpdateStep ==
    ASSUME IInv, Places, NEW t \in Thread, NEW m \in Map, ScheduleUpdate(t, m)
    PROVE  [Barrier!BNext]_(Barrier!bvars)
<1> USE Outside
<1>1. /\ pc[t] = Loop(t) /\ m \in todo[t] /\ mutex = NoThread
      /\ hand' = [hand EXCEPT ![t] = m] /\ pc' = [pc EXCEPT ![t] = "enqueue"]
      /\ UNCHANGED <<todo, updates, requests, unloading>>
  BY DEF ScheduleUpdate, Goto
<1>2. pc'[t] = "enqueue" /\ hand'[t] = m
  BY <1>1 DEF IInv, TypeOK
<1>3. Handed = {} /\ Handed' = {m}
  <2>1. Handed = {}
    BY <1>1, InHand
  <2>2. \A v \in Thread : hand'[v] = IF v = t THEN m ELSE hand[v]
    BY <1>1 DEF IInv, TypeOK
  <2>3. \A v \in Thread : hand[v] = NoMap
    BY <2>1 DEF Handed
  <2> QED
    BY <2>2, <2>3 DEF Handed
<1>4. Queued' = Queued /\ Running' = Running
  BY <1>1 DEF Queued, Running
<1>5. ~Alone /\ ~Alone'
  <2>1. todo[World] # {} \/ t \in Worker
    BY <1>1 DEF Thread
  <2>2. t \in Worker => t \in Busy
    BY <1>1 DEF Busy, Loop
  <2>3. ~Serial /\ ~unloading
    BY <1>1, <2>1, <2>2 DEF IInv, BarrierHolds, Places, Closed, Loops, Serial
  <2>4. ~Serial'
    BY <1>1, <2>3 DEF Serial, IInv, TypeOK
  <2> QED
    BY <1>1, <2>3, <2>4 DEF Alone
<1>6. DueMaps' = DueMaps \cup {m}
  BY <1>1, <1>3, <1>4 DEF DueMaps
<1>7. \A i : i \in Fresh' <=> \/ \E n \in DueMaps' : i \in Children(n)
                              \/ i # m /\ \E w \in Worker : i \in todo[w]
  BY <1>1, <1>3 DEF Fresh
<1>8. \A i : i \in Fresh <=> \/ \E n \in DueMaps : i \in Children(n)
                             \/ \E w \in Worker : i \in todo[w]
  BY <1>3, Due
<1>9. CASE t = World
  <2>1. m \in DueMaps /\ m \in BaseMap
    BY <1>1, <1>9 DEF DueMaps, Places, Loops
  <2>2. \A w \in Worker : m \notin todo[w]
    BY <2>1, Due, Family
  <2>3. DueMaps' = DueMaps /\ Fresh' = Fresh
    BY <1>6, <1>7, <1>8, <2>1, <2>2
  <2> QED
    BY <1>4, <1>5, <2>3, SameIsStutter DEF Same, DoneMaps, Alone
<1>10. CASE t \in Worker
  <2> DEFINE u == updates[t]
  <2>1. m \in Instance /\ u # NoMap /\ u \in Running /\ u \in Map /\ m \in Children(u)
    BY <1>1, <1>10, Due DEF Places, Loops
  <2> HIDE DEF u
  <2>2. Children(m) = {}
    BY <2>1, Family
  <2>3. m \notin Running /\ m \notin DueMaps /\ m \in Fresh
    BY <1>1, <1>3, <1>8, <1>10, <2>1, Family DEF DueMaps, Places, Untouched, Loops
  <2>4. DueMaps' \cup Fresh' = DueMaps \cup Fresh
    BY <1>6, <1>7, <1>8, <2>2, <2>3
  <2>5. DoneMaps' = DoneMaps /\ m \notin DoneMaps
    BY <1>4, <1>5, <2>3, <2>4 DEF DoneMaps, Alone
  <2>6. Barrier!Spawn(u, m)
    BY <1>4, <1>5, <1>6, <2>1, <2>3, <2>5 DEF Barrier!Spawn, Alone
  <2> QED
    BY <2>1, <2>6, BarrierChildren DEF Barrier!BNext
<1> QED
  BY <1>9, <1>10 DEF Thread

\* The request goes into the queue, where its map stays due, or it is refused
\* and the map and its instances are skipped.
LEMMA ExecuteStep ==
    ASSUME IInv, Places, NEW t \in Thread, Execute(t)
    PROVE  [Barrier!BNext]_(Barrier!bvars)
<1> USE Outside
<1> DEFINE h == hand[t]
<1>1. /\ pc[t] = "enqueue"
      /\ todo' = [todo EXCEPT ![t] = @ \ {h}]
      /\ hand' = [hand EXCEPT ![t] = NoMap] /\ pc' = [pc EXCEPT ![t] = Loop(t)]
      /\ UNCHANGED <<updates, unloading>>
      /\ requests' = Append(requests, h) \/ requests' = requests
  BY DEF Execute, Goto
<1>2. /\ h \in Map /\ h \in todo[t] /\ h \notin Queued /\ h \notin Running
      /\ \A v \in Thread \ {t} : h \notin todo[v]
      /\ Handed = {h}
  BY <1>1, InHand
<1>3. Handed' = {}
  <2>1. \A v \in Thread : hand'[v] = IF v = t THEN NoMap ELSE hand[v]
    BY <1>1 DEF IInv, TypeOK
  <2>2. \A v \in Thread : hand[v] \in {h, NoMap} /\ (v # t => hand[v] = NoMap)
    BY <1>1 DEF IInv, MutexHeld, Places, Loops
  <2> QED
    BY <2>1, <2>2 DEF Handed
<1>4. /\ \A v \in Thread : todo'[v] = todo[v] \ {h}
      /\ Running' = Running
  BY <1>1, <1>2 DEF IInv, TypeOK, Running
<1>5. ~Alone /\ ~Alone'
  <2>1. t \in Worker => t \in Busy
    BY <1>1 DEF Busy
  <2>2. ~Serial /\ ~unloading
    BY <1>1, <2>1 DEF IInv, BarrierHolds, Places, Closed, Serial, Thread
  <2>3. ~Serial'
    BY <1>1, <2>2 DEF Serial, IInv, TypeOK, Loop
  <2> QED
    BY <1>1, <2>2, <2>3 DEF Alone
<1>6. h \in DueMaps
  BY <1>2 DEF DueMaps
<1>7. \A i : i \in Fresh' <=> \/ \E n \in DueMaps' : i \in Children(n)
                              \/ i # h /\ \E w \in Worker : i \in todo[w]
  <2>1. \A i : i \in Fresh' <=> \/ \E n \in DueMaps' : i \in Children(n)
                                \/ i \notin Handed' /\ \E w \in Worker : i \in todo'[w]
    BY DEF Fresh
  <2> QED
    BY <1>3, <1>4, <2>1
<1>8. \A i : i \in Fresh <=> \/ \E n \in DueMaps : i \in Children(n)
                             \/ i # h /\ \E w \in Worker : i \in todo[w]
  BY <1>2, Due
<1>9. CASE requests' = Append(requests, h)
  <2>1. Queued' = Queued \cup {h}
    BY <1>2, <1>9, Appended DEF IInv, TypeOK
  <2>2. DueMaps' = DueMaps
    BY <1>2, <1>3, <1>4, <2>1 DEF DueMaps
  <2>3. Fresh' = Fresh
    BY <1>7, <1>8, <2>2
  <2> QED
    BY <1>4, <1>5, <2>2, <2>3, SameIsStutter DEF Same, DoneMaps, Alone
<1>10. CASE requests' = requests
  <2>1. Queued' = Queued
    BY <1>10 DEF Queued
  <2>2. DueMaps' = DueMaps \ {h}
    BY <1>2, <1>3, <1>4, <2>1 DEF DueMaps
  <2>3. h \notin Fresh'
    <3>1. \A n \in DueMaps' : h \notin Children(n)
      <4>1. CASE t = World
        BY <1>2, <2>2, <4>1, Due, Family DEF Places, Loops
      <4>2. CASE t \in Worker
        <5>1. h \in Children(updates[t]) /\ updates[t] \in Running
          BY <1>2, <4>2, Due DEF Places, Loops
        <5>2. updates[t] \notin DueMaps'
          BY <2>2, <5>1, Due
        <5> QED
          BY <5>1, <5>2, Family
      <4> QED
        BY <4>1, <4>2 DEF Thread
    <3> QED
      BY <1>7, <3>1
  <2>4. Fresh' = Fresh \ Children(h)
    <3>1. \A w \in Worker : Children(h) \cap todo[w] = {}
      BY <1>6, Due
    <3>2. \A i : (\E n \in DueMaps' : i \in Children(n))
                 <=> (\E n \in DueMaps : i \in Children(n)) /\ i \notin Children(h)
      BY <2>2, Family
    <3> QED
      BY <1>7, <1>8, <3>1, <3>2
  <2>5. Children(h) \cap (DueMaps \cup Running) = {} /\ Children(h) \subseteq Map
    <3>1. h \notin BaseMap => Children(h) = {}
      BY Family
    <3>2. h \in BaseMap => t = World
      BY <1>2, Due, Family DEF Thread
    <3>3. CASE t = World
      <4>1. Children(h) \cap (Queued \cup Running) = {}
        BY <1>2, <3>3 DEF Places, Untouched
      <4>2. todo[World] \subseteq BaseMap /\ Children(h) \cap BaseMap = {}
        BY <1>2, Family DEF Places, Loops
      <4>3. h \in BaseMap
        BY <1>2, <3>3, <4>2
      <4>4. Children(h) \cap DueMaps = {}
        BY <1>2, <4>1, <4>2, <4>3 DEF DueMaps
      <4> QED
        BY <1>2, <4>1, <4>4, Family DEF Map
    <3> QED
      BY <1>2, <3>1, <3>2, <3>3, Family
  <2>6. DoneMaps' = DoneMaps \cup {h} \cup Children(h)
    BY <1>2, <1>4, <1>5, <2>2, <2>3, <2>4, <2>5 DEF DoneMaps, Alone
  <2>7. Barrier!Skip(h)
    BY <1>4, <1>5, <1>6, <2>2, <2>6, BarrierChildren DEF Barrier!Skip, Alone
  <2> QED
    BY <1>2, <2>7, BarrierChildren DEF Barrier!BNext
<1> QED
  BY <1>1, <1>9, <1>10

\* A map leaves the queue for a worker, which unloads some of its instances.
LEMMA DequeueStep ==
    ASSUME IInv, Places, NEW w \in Worker, Dequeue(w)
    PROVE  [Barrier!BNext]_(Barrier!bvars)
<1> USE Outside
<1> DEFINE m == Head(requests)
<1>1. /\ pc[w] = "idle" /\ requests # <<>> /\ requests' = Tail(requests)
      /\ updates' = [updates EXCEPT ![w] = m]
      /\ pc' = [pc EXCEPT ![w] = "updating"]
      /\ UNCHANGED <<hand, unloading>>
  BY DEF Dequeue, Goto
<1>2. /\ m \in Map /\ m \in Queued /\ Queued' = Queued \ {m}
  BY <1>1, Dequeued DEF IInv, TypeOK, Places, InOnePlace
<1>3. PICK kept \in SUBSET Children(m) : todo' = [todo EXCEPT ![w] = kept]
  BY DEF Dequeue
<1> HIDE DEF m
<1>4. updates[w] = NoMap /\ todo[w] = {}
  BY <1>1, Family DEF Places, Loops
<1>5. Running' = Running \cup {m}
  BY <1>1, <1>2, <1>4 DEF IInv, TypeOK, Running
<1>6. /\ todo'[w] = kept /\ \A v \in Thread \ {w} : todo'[v] = todo[v]
      /\ Handed' = Handed
  BY <1>1, <1>3 DEF IInv, TypeOK, Handed
<1>7. ~Alone /\ ~Alone'
  <2>1. ~Serial /\ ~unloading
    BY <1>1 DEF IInv, BarrierHolds, Places, Closed
  <2>2. ~Serial'
    BY <1>1, <2>1 DEF Serial, IInv, TypeOK
  <2> QED
    BY <1>1, <2>1, <2>2 DEF Alone
<1>8. \A x \in Handed : x \notin Queued /\ \E t \in Thread : x \in todo[t]
  <2>1. \A x \in Handed : \E t \in Thread : pc[t] = "enqueue" /\ x = hand[t]
    BY DEF Handed, Places, Loops
  <2> QED
    BY <2>1, InHand
<1>9. DueMaps' = DueMaps \ {m} /\ m \in DueMaps
  <2>1. m \notin todo[World] /\ m \notin Handed
    BY <1>2, <1>8 DEF Places, InOnePlace
  <2> QED
    BY <1>2, <1>6, <2>1 DEF DueMaps
<1>10. Children(m) \cap (DueMaps \cup Running) = {} /\ Children(m) \subseteq Map
  <2>1. Children(m) \cap (Queued \cup Running) = {}
    BY <1>2 DEF Places, Untouched
  <2>2. Children(m) \cap todo[World] = {} /\ Children(m) \subseteq Instance
    BY <1>2, Family DEF Places, Loops
  <2>3. \A v \in Thread : Children(m) \cap todo[v] = {}
    BY <1>9, <2>2, Due DEF Thread
  <2>4. Children(m) \cap Handed = {}
    BY <1>8, <2>3
  <2> QED
    BY <2>1, <2>2, <2>4 DEF DueMaps, Map
<1>11. Fresh' = (Fresh \ Children(m)) \cup kept
  <2>1. \A i : i \in Fresh' <=> \/ \E n \in DueMaps' : i \in Children(n)
                                \/ i \notin Handed /\ \E v \in Worker : i \in todo'[v]
    BY <1>6 DEF Fresh
  <2>2. \A i : i \in Fresh <=> \/ \E n \in DueMaps : i \in Children(n)
                               \/ i \notin Handed /\ \E v \in Worker : i \in todo[v]
    BY DEF Fresh
  <2>3. \A i : (\E n \in DueMaps' : i \in Children(n))
               <=> (\E n \in DueMaps : i \in Children(n)) /\ i \notin Children(m)
    BY <1>9, Family
  <2>4. \A i : (\E v \in Worker : i \in todo'[v])
               <=> i \in kept \/ \E v \in Worker : i \in todo[v]
    BY <1>4, <1>6
  <2>5. \A v \in Worker : Children(m) \cap todo[v] = {}
    BY <1>9, Due
  <2>6. kept \cap Handed = {}
    BY <1>3, <1>10 DEF DueMaps
  <2> QED
    BY <1>3, <2>1, <2>2, <2>3, <2>4, <2>5, <2>6
<1>12. DoneMaps' = DoneMaps \cup (Children(m) \ kept)
  <2>1. Children(m) \subseteq Fresh
    BY <1>9, Due
  <2> QED
    BY <1>3, <1>5, <1>7, <1>9, <1>10, <1>11, <2>1 DEF DoneMaps, Alone
<1>13. Barrier!Begin(m, Children(m) \ kept)
  BY <1>5, <1>7, <1>9, <1>12 DEF Barrier!Begin, Alone
<1> QED
  BY <1>2, <1>13, BarrierChildren DEF Barrier!BNext

\* Map::Update returns.
LEMMA EndUpdateStep ==
    ASSUME IInv, Places, NEW w \in Worker, EndUpdate(w)
    PROVE  [Barrier!BNext]_(Barrier!bvars)
<1> USE Outside
<1> DEFINE u == updates[w]
<1>1. /\ pc[w] = "updating" /\ todo[w] = {}
      /\ updates' = [updates EXCEPT ![w] = NoMap] /\ pc' = [pc EXCEPT ![w] = "finishing"]
      /\ UNCHANGED <<todo, hand, requests, unloading>>
  BY DEF EndUpdate, Goto
<1>2. u \in Map /\ u \in Running
  BY <1>1, Due DEF IInv, TypeOK, Places, Loops
<1>3. \A v \in Worker \ {w} : updates[v] # u
  BY <1>1 DEF Places, InOnePlace, Loops
<1>4. Running' = Running \ {u}
  BY <1>1, <1>2, <1>3 DEF IInv, TypeOK, Running
<1> HIDE DEF u
<1>5. DueMaps' = DueMaps /\ Fresh' = Fresh
  BY <1>1 DEF DueMaps, Handed, Queued, Fresh
<1>6. ~Alone /\ ~Alone'
  <2>1. ~Serial /\ ~unloading
    BY <1>1 DEF IInv, BarrierHolds, Places, Closed, Busy
  <2>2. ~Serial'
    BY <1>1, <2>1 DEF Serial, IInv, TypeOK
  <2> QED
    BY <1>1, <2>1, <2>2 DEF Alone
<1>7. u \notin DueMaps
  BY <1>2, Due
<1>8. u \notin Fresh
  <2>1. \A v \in Worker : u \notin todo[v]
    BY <1>2 DEF Places, Untouched
  <2>2. \A n \in todo[World] \cup Queued : u \notin Children(n)
    BY <1>2 DEF Places, Untouched
  <2>3. \A n \in Handed : n \in todo[World] \/ Children(n) = {}
    <3>1. \A n \in Handed : \E t \in Thread : n = hand[t] /\ n \in todo[t]
      BY DEF Handed, Places, Loops
    <3> QED
      BY <3>1, Due, Family DEF Thread
  <2>4. \A n \in DueMaps : u \notin Children(n)
    BY <2>2, <2>3 DEF DueMaps
  <2> QED
    BY <2>1, <2>4, Due
<1>9. DoneMaps' = DoneMaps \cup {u}
  BY <1>2, <1>4, <1>5, <1>6, <1>7, <1>8 DEF DoneMaps, Alone
<1>10. Barrier!Finish(u)
  BY <1>2, <1>4, <1>5, <1>6, <1>9 DEF Barrier!Finish, Alone
<1> QED
  BY <1>2, <1>10, BarrierChildren DEF Barrier!BNext

\* Steps that leave every map where it is and the phase of the tick as it is.
LEMMA SamePlaces ==
    ASSUME UNCHANGED <<todo, hand, updates, requests>>, Alone' = Alone
    PROVE  [Barrier!BNext]_(Barrier!bvars)
<1>1. Same
  BY DEF Same, Alone, DueMaps, Handed, Queued, Running, Fresh, DoneMaps
<1> QED
  BY <1>1, SameIsStutter

LEMMA ReturnStep ==
    ASSUME IInv, Places, NEW w \in Worker, UpdateFinished(w) \/ Exit(w)
    PROVE  [Barrier!BNext]_(Barrier!bvars)
<1>1. /\ UNCHANGED <<todo, hand, updates, requests, unloading>>
      /\ pc'[World] = pc[World] \/ (pc[World] = "asleep" /\ pc'[World] = "wait")
  BY Outside DEF UpdateFinished, Exit, Goto, IInv, TypeOK
<1>2. Alone' = Alone
  BY <1>1 DEF Alone, Serial
<1> QED
  BY <1>1, <1>2, SamePlaces

\* The tick opens when MapManager::Update begins and closes when the counter,
\* seen under the mutex, is 0.
LEMMA WorldStep ==
    ASSUME IInv, Places,
           \/ Update \/ EndSchedule \/ Wait \/ SpuriousWakeup \/ DelayedUpdate
           \/ UnloadAll \/ Deactivate \/ Join
    PROVE  [Barrier!BNext]_(Barrier!bvars)
<1> USE Outside
<1>1. CASE Update
  <2>1. /\ todo' = [todo EXCEPT ![World] = BaseMap] /\ pc[World] = "serial"
        /\ pc' = [pc EXCEPT ![World] = "schedule"]
        /\ UNCHANGED <<hand, updates, requests, unloading>>
    BY <1>1 DEF Update, Goto
  <2>2. ~unloading /\ Alone /\ ~Alone'
    BY <2>1 DEF Places, Closed, Alone, Serial, IInv, TypeOK
  <2>3. DueMaps = {} /\ Running = {} /\ DoneMaps = {}
    BY <2>2, Due DEF DoneMaps, Alone
  <2>4. DueMaps' = BaseMap /\ Running' = {}
    <3>1. Queued' = Queued /\ Handed' = Handed /\ Running' = Running
      BY <2>1 DEF Handed, Queued, Running
    <3>2. Queued = {} /\ Handed = {} /\ todo'[World] = BaseMap
      BY <2>1, <2>3 DEF DueMaps, IInv, TypeOK
    <3> QED
      BY <2>3, <3>1, <3>2 DEF DueMaps
  <2>5. Instance \subseteq Fresh'
    BY <2>4, Family DEF Fresh
  <2>6. DoneMaps' = {}
    BY <2>4, <2>5 DEF DoneMaps, Map
  <2>7. Barrier!Open
    BY <2>2, <2>3, <2>4, <2>6 DEF Barrier!Open, Alone
  <2> QED
    BY <2>7 DEF Barrier!BNext
<1>2. CASE Wait /\ pending = 0 /\ ~unloading
  <2>1. /\ pc[World] = "wait" /\ pc' = [pc EXCEPT ![World] = "delayed"]
        /\ mutex = NoThread
        /\ UNCHANGED <<todo, hand, updates, requests, unloading>>
    BY <1>2 DEF Wait, Goto
  <2>2. ~Alone /\ Alone' /\ IInv' /\ Places'
    BY <1>2, <2>1, WorldInv, WorldPlaces DEF Alone, Serial, IInv, TypeOK
  <2>3. requests = <<>> /\ Busy = {} /\ todo[World] = {} /\ Handed = {}
    <3>1. requests' = <<>> /\ Busy' = {}
      BY <2>1, <2>2 DEF IInv, BarrierHolds, Serial, TypeOK
    <3>2. Busy' = Busy
      BY <2>1 DEF Busy, IInv, TypeOK
    <3> QED
      BY <2>1, <3>1, <3>2, InHand DEF Places, Loops
  <2>4. DueMaps = {} /\ Running = {}
    <3>1. Queued = {}
      BY <2>3 DEF Queued
    <3>2. Running = {}
      BY <2>3 DEF Running, Busy, Places, Loops
    <3> QED
      BY <2>3, <3>1, <3>2 DEF DueMaps
  <2>5. DueMaps' = DueMaps /\ Running' = Running
    BY <2>1 DEF DueMaps, Handed, Queued, Running
  <2>6. DoneMaps' = {}
    BY <2>2 DEF DoneMaps, Alone
  <2>7. Barrier!Close
    BY <2>2, <2>4, <2>5, <2>6 DEF Barrier!Close, Alone
  <2> QED
    BY <2>7 DEF Barrier!BNext
<1>3. CASE UnloadAll
  <2>1. UNCHANGED <<todo, hand, updates, requests>> /\ Alone /\ Alone'
    BY <1>3 DEF UnloadAll, Alone, Serial
  <2> QED
    BY <2>1, SamePlaces DEF Alone
<1>4. CASE EndSchedule \/ SpuriousWakeup \/ DelayedUpdate \/ Deactivate \/ Join
           \/ (Wait /\ ~(pending = 0 /\ ~unloading))
  <2>1. UNCHANGED <<todo, hand, updates, requests, unloading>>
    BY <1>4 DEF EndSchedule, SpuriousWakeup, DelayedUpdate, Deactivate, Join, Wait
  <2>2. Alone' = Alone
    BY <1>4, <2>1 DEF EndSchedule, SpuriousWakeup, DelayedUpdate, Deactivate, Join, Wait,
                      Goto, Alone, Serial, IInv, TypeOK
  <2> QED
    BY <2>1, <2>2, SamePlaces
<1> QED
  BY <1>1, <1>2, <1>3, <1>4

\* The pool implements the barrier: whatever the interleaving of its threads, a
\* tick of MapManager::Update updates each map at most once and by one thread,
\* an instance only after its base map has begun, and the world thread resumes
\* only when no map is left.
THEOREM PoolIsBarrier == Spec => ImplementsBarrier
<1>1. Init => Barrier!BInit
  BY BarrierInit
<1>2. IInv /\ Places /\ [Next]_vars => [Barrier!BNext]_(Barrier!bvars)
  <2> SUFFICES ASSUME IInv, Places, [Next]_vars PROVE [Barrier!BNext]_(Barrier!bvars)
    OBVIOUS
  <2>1. ASSUME NEW t \in Thread, Schedule(t) PROVE [Barrier!BNext]_(Barrier!bvars)
    BY <2>1, ScheduleUpdateStep, ExecuteStep DEF Schedule
  <2>2. CASE WorldNext
    BY <2>1, <2>2, WorldStep, Outside DEF WorldNext
  <2>3. CASE SpuriousWakeup
    BY <2>3, WorldStep
  <2>4. ASSUME NEW w \in Worker, WorkerNext(w) PROVE [Barrier!BNext]_(Barrier!bvars)
    BY <2>1, <2>4, DequeueStep, EndUpdateStep, ReturnStep, Outside DEF WorkerNext
  <2>5. CASE UNCHANGED vars
    <3>1. UNCHANGED <<todo, hand, updates, requests>> /\ Alone' = Alone
      BY <2>5 DEF vars, Alone, Serial
    <3> QED
      BY <3>1, SamePlaces
  <2> QED
    BY <2>2, <2>3, <2>4, <2>5 DEF Next
<1> QED
  BY <1>1, <1>2, MapsInPlace, PTL DEF Spec, ImplementsBarrier, Barrier!BSpec
=============================================================================

--------------------------- MODULE UpdateBarrier ---------------------------
(***************************************************************************)
(* What MapManager::Update promises to the rest of the world thread,       *)
(* whatever the number of map threads: between two serial phases every map *)
(* is updated at most once, no map is updated by two threads, an instance  *)
(* is updated only after the update of its base map has begun, and the     *)
(* serial phase (sessions, DelayedUpdate, transports, battlegrounds, ...)  *)
(* resumes only when no map is being updated and none is left.             *)
(***************************************************************************)
EXTENDS FiniteSets

CONSTANTS
    BaseMap,        \* the maps of MapManager::i_maps
    Instance,       \* the instance copies of all of them
    InstancesOf     \* [BaseMap -> SUBSET Instance]: MapInstanced::m_InstancedMaps

Map == BaseMap \cup Instance

Children(m) == IF m \in BaseMap THEN InstancesOf[m] ELSE {}

VARIABLES
    serial,         \* the world thread runs alone
    due,            \* maps to be updated in this tick
    running,        \* maps being updated
    done            \* maps updated, skipped or unloaded in this tick

bvars == <<serial, due, running, done>>

BInit == serial = TRUE /\ due = {} /\ running = {} /\ done = {}

\* A tick of the maps begins.
Open ==
    /\ serial
    /\ serial' = FALSE
    /\ due' = BaseMap
    /\ UNCHANGED <<running, done>>

\* The update of m begins; it unloads the instances in gone.
Begin(m, gone) ==
    /\ m \in due
    /\ due' = due \ {m}
    /\ running' = running \cup {m}
    /\ done' = done \cup gone
    /\ UNCHANGED serial

\* The update of m asks for the update of its instance i, once.
Spawn(m, i) ==
    /\ m \in running
    /\ i \notin due \cup running \cup done
    /\ due' = due \cup {i}
    /\ UNCHANGED <<serial, running, done>>

Finish(m) ==
    /\ m \in running
    /\ running' = running \ {m}
    /\ done' = done \cup {m}
    /\ UNCHANGED <<serial, due>>

\* m is not updated in this tick, nor are its instances: the request queue was
\* full.
Skip(m) ==
    /\ m \in due
    /\ due' = due \ {m}
    /\ done' = done \cup {m} \cup Children(m)
    /\ UNCHANGED <<serial, running>>

Close ==
    /\ ~serial
    /\ due = {} /\ running = {}
    /\ serial' = TRUE
    /\ done' = {}
    /\ UNCHANGED <<due, running>>

BNext ==
    \/ Open
    \/ \E m \in Map : \/ \E gone \in SUBSET Children(m) : Begin(m, gone)
                      \/ \E i \in Children(m) : Spawn(m, i)
                      \/ Finish(m)
                      \/ Skip(m)
    \/ Close

BSpec == BInit /\ [][BNext]_bvars
=============================================================================

----------------------------- MODULE LoginQueue -----------------------------
(***************************************************************************)
(* The session map and the login queue of class World                      *)
(* (src/src/server/game/World/World.cpp).                                  *)
(*                                                                         *)
(* Network threads authenticate clients and hand new WorldSession objects  *)
(* to the world thread through the locked list addSessQueue.  The world    *)
(* thread runs World::UpdateSessions once per tick: it first drains that   *)
(* list (AddSession_), then updates every session of m_sessions and        *)
(* deletes the ones whose socket is closed.  When the player limit is      *)
(* reached a new session waits in m_QueuedPlayer; every session that       *)
(* leaves may admit the head of that list (RemoveQueuedPlayer).            *)
(*                                                                         *)
(* A session is an object identity: it is deleted and its memory reused,   *)
(* so a stale pointer left in m_QueuedPlayer is visible in the model.      *)
(***************************************************************************)
EXTENDS Naturals, Sequences, FiniteSets

CONSTANTS
    Session,        \* WorldSession objects the heap can hold at once
    Account,        \* account ids
    Staff,          \* the accounts with a security level above SEC_PLAYER
    InitialLimit,   \* PlayerLimit of the configuration file, 0 for none
    Limits,         \* the limits ".server plimit" may set
    TimeOut,        \* SocketTimeOutTime, counted in ticks
    Backlog,        \* bound: new sessions waiting for the world thread at once
    Tolerance,      \* whether DisconnectToleranceInterval is not 0
    NoAccount,      \* the account of an unallocated object
    NoSession       \* what m_sessions holds for an account that is not in it

ASSUME SessionAssumption == IsFiniteSet(Session) /\ NoSession \notin Session
ASSUME AccountAssumption == IsFiniteSet(Account) /\ NoAccount \notin Account
ASSUME StaffAssumption   == Staff \subseteq Account
ASSUME LimitAssumption   == InitialLimit \in Nat /\ Limits \subseteq Nat
ASSUME TimeOutAssumption == TimeOut \in Nat \ {0}
ASSUME BacklogAssumption == Backlog \in Nat \ {0}
ASSUME ToleranceAssumption == Tolerance \in BOOLEAN

VARIABLES
    account,        \* [Session -> Account or NoAccount]: _accountId
    closed,         \* [Session -> BOOLEAN]: the socket of the session is closed
    inQueue,        \* [Session -> BOOLEAN]: m_inQueue
    loading,        \* [Session -> BOOLEAN]: m_playerLoading
    timeOut,        \* [Session -> 0..TimeOut]: m_timeOutTime
    sessions,       \* [Account -> Session or NoSession]: m_sessions
    addSessQueue,   \* Seq(Session): sessions not yet seen by the world thread
    queued,         \* Seq(Session): m_QueuedPlayer
    disconnects,    \* SUBSET Account: the keys of m_disconnects
    playerLimit,    \* m_playerLimit
    phase,          \* where the world thread is in its loop
    todo,           \* accounts the loop of UpdateSessions has yet to visit
    stopping        \* "no", "asked" (m_stopEvent is set) or "kicked" (KickAll ran)

heap  == <<account, closed, inQueue, loading, timeOut>>
world == <<sessions, addSessQueue, queued, disconnects, playerLimit>>
ctl   == <<phase, todo, stopping>>
vars  == <<heap, world, ctl>>

Phases == {"add", "update", "rest", "done"}

TypeOK ==
    /\ account \in [Session -> Account \cup {NoAccount}]
    /\ closed \in [Session -> BOOLEAN]
    /\ inQueue \in [Session -> BOOLEAN]
    /\ loading \in [Session -> BOOLEAN]
    /\ timeOut \in [Session -> 0..TimeOut]
    /\ sessions \in [Account -> Session \cup {NoSession}]
    /\ addSessQueue \in Seq(Session)
    /\ queued \in Seq(Session)
    /\ disconnects \subseteq Account
    /\ playerLimit \in Nat
    /\ phase \in Phases
    /\ todo \subseteq Account
    /\ stopping \in {"no", "asked", "kicked"}

Init ==
    /\ account = [s \in Session |-> NoAccount]
    /\ closed = [s \in Session |-> FALSE]
    /\ inQueue = [s \in Session |-> FALSE]
    /\ loading = [s \in Session |-> FALSE]
    /\ timeOut = [s \in Session |-> TimeOut]
    /\ sessions = [a \in Account |-> NoSession]
    /\ addSessQueue = <<>>
    /\ queued = <<>>
    /\ disconnects = {}
    /\ playerLimit = InitialLimit
    /\ phase = "add"
    /\ todo = {}
    /\ stopping = "no"

-----------------------------------------------------------------------------
(* Counters and the waiting list. *)

Keys(map) == {a \in Account : map[a] # NoSession}

\* GetActiveAndQueuedSessionCount: m_sessions.size().
SessionCount(map) == Cardinality(Keys(map))

Members(q) == {q[i] : i \in DOMAIN q}

Found(q, s) == s \in Members(q)

\* m_QueuedPlayer.erase(iter): the list without its entry for s.
Erase(q, s) ==
    LET i == CHOOSE i \in DOMAIN q : q[i] = s
    IN  [j \in 1 .. Len(q) - 1 |-> IF j < i THEN q[j] ELSE q[j + 1]]

Without(q, s) == IF Found(q, s) THEN Erase(q, s) ELSE q

\* Mutant: the leaving session keeps its place.
LeaverCounted(q, n, s) == n - Len(q)

\* The variable "sessions" of RemoveQueuedPlayer: sessions out of the queue,
\* the leaving one not counted; n is the size of m_sessions.
StillActive(q, n, s) ==
    LET active == n - Len(q)
    IN  IF ~Found(q, s) /\ active > 0 THEN active - 1 ELSE active

\* Mutant: the limit itself passes the test.
RoomAtLimit(q, n, s) == playerLimit = 0 \/ StillActive(q, n, s) <= playerLimit

\* RemoveQueuedPlayer also pops the head of the list when there is room.
HasRoom(q, n, s) == playerLimit = 0 \/ StillActive(q, n, s) < playerLimit

\* Mutant: the newest waiting session is admitted, not the oldest.
LastAdmitted(q, n, s) ==
    LET rest == Without(q, s)
    IN  IF HasRoom(q, n, s) /\ rest # <<>> THEN SubSeq(rest, 1, Len(rest) - 1) ELSE rest

\* The list after RemoveQueuedPlayer(s).
AfterRemoval(q, n, s) ==
    LET rest == Without(q, s)
    IN  IF HasRoom(q, n, s) /\ rest # <<>> THEN Tail(rest) ELSE rest

\* SetInQueue(false) and ResetTimeOutTime() on every session a call took out
\* of the list.
Released(q, r) == Members(q) \ Members(r)

\* Mutant: an admitted session keeps its m_inQueue flag.
FlagKept(x, d, q) == inQueue[x] /\ x # d

StillWaits(x, d, q) == inQueue[x] /\ x # d /\ x \notin Released(queued, q)

\* "delete" of the session d (NoSession for none), after the queue went from
\* queued to q: the fields of an unallocated object are those the constructor
\* gives the next session made of it.
Delete(d, q) ==
    /\ account' = [x \in Session |-> IF x = d THEN NoAccount ELSE account[x]]
    /\ closed'  = [x \in Session |-> x # d /\ closed[x]]
    /\ loading' = [x \in Session |-> x # d /\ loading[x]]
    /\ timeOut' = [x \in Session |-> IF x = d \/ x \in Released(queued, q)
                                     THEN TimeOut ELSE timeOut[x]]

-----------------------------------------------------------------------------
(* Network threads. *)

\* WorldSocket::HandleAuthSession: a client of account a is authenticated, a
\* session object is created for its socket and World::AddSession is called.
Connect(s, a) ==
    /\ account[s] = NoAccount
    /\ Len(addSessQueue) < Backlog
    /\ account' = [account EXCEPT ![s] = a]
    /\ addSessQueue' = Append(addSessQueue, s)
    /\ UNCHANGED <<closed, inQueue, loading, timeOut, sessions, queued,
                   disconnects, playerLimit, ctl>>

\* The peer hangs up, or an error closes the socket.
SocketClose(s) ==
    /\ account[s] # NoAccount
    /\ ~closed[s]
    /\ closed' = [closed EXCEPT ![s] = TRUE]
    /\ UNCHANGED <<account, inQueue, loading, timeOut, world, ctl>>

\* Any packet other than a ping or a keep-alive resets the idle timer.
Receive(s) ==
    /\ account[s] # NoAccount
    /\ ~closed[s]
    /\ timeOut' = [timeOut EXCEPT ![s] = TimeOut]
    /\ UNCHANGED <<account, closed, inQueue, loading, world, ctl>>

-----------------------------------------------------------------------------
(* World thread: draining addSessQueue. *)

\* RemoveSession: whether the session of the account, if any, may be kicked.
MayReplace(old) == old # NoSession => ~loading[old]

\* Mutant: the refused session is put back to be tried again.
RetrySession ==
    /\ phase = "add"
    /\ addSessQueue # <<>>
    /\ ~MayReplace(sessions[account[Head(addSessQueue)]])
    /\ addSessQueue' = Append(Tail(addSessQueue), Head(addSessQueue))
    /\ UNCHANGED <<heap, sessions, queued, disconnects, playerLimit, ctl>>

\* A session of the account is loading a character: the new session is kicked
\* and deleted, the old one stays.
RejectSession ==
    /\ phase = "add"
    /\ addSessQueue # <<>>
    /\ LET s == Head(addSessQueue)
       IN  /\ ~MayReplace(sessions[account[s]])
           /\ Delete(s, queued)
    /\ addSessQueue' = Tail(addSessQueue)
    /\ UNCHANGED <<inQueue, sessions, queued, disconnects, playerLimit, ctl>>

\* Mutant: the old session is deleted but left in the list.
OldStaysQueued(old) == queued

\* The list after the old session of the account, if any, was taken out.
QueueWithoutOld(old) ==
    IF old = NoSession THEN queued
    ELSE AfterRemoval(queued, SessionCount(sessions), old)

\* The variable "Sessions" of AddSession_: the size of m_sessions with the new
\* session in it, minus one unless the old session was found in the queue.
CountedSessions(old, map) ==
    IF old # NoSession /\ Found(queued, old)
    THEN SessionCount(map)
    ELSE SessionCount(map) - 1

\* HasRecentlyDisconnected: a record is compared with the time now, the older
\* time first, so the difference is never positive and no record ever expires.
HasRecentlyDisconnected(a) == Tolerance /\ a \in disconnects

MustQueue(a, old, map) ==
    /\ playerLimit > 0
    /\ CountedSessions(old, map) >= playerLimit
    /\ a \notin Staff
    /\ ~HasRecentlyDisconnected(a)

AddSession ==
    /\ phase = "add"
    /\ addSessQueue # <<>>
    /\ LET s    == Head(addSessQueue)
           a    == account[s]
           old  == sessions[a]
           map  == [sessions EXCEPT ![a] = s]
           rest == QueueWithoutOld(old)
           wait == MustQueue(a, old, map)
       IN  /\ MayReplace(old)
           /\ Delete(old, rest)
           /\ sessions' = map
           /\ queued' = IF wait THEN Append(rest, s) ELSE rest
           /\ inQueue' = [x \in Session |->
                            IF x = s THEN wait ELSE StillWaits(x, old, rest)]
    /\ addSessQueue' = Tail(addSessQueue)
    /\ UNCHANGED <<disconnects, playerLimit, ctl>>

EndAdd ==
    /\ phase = "add"
    /\ addSessQueue = <<>>
    /\ phase' = "update"
    /\ todo' = Keys(sessions)
    /\ UNCHANGED <<heap, world, stopping>>

-----------------------------------------------------------------------------
(* World thread: updating the sessions of m_sessions, in the order of an     *)
(* unordered map.                                                            *)

\* UpdateTimeOutTime with one tick, then IsConnectionIdle.
Elapsed(s) == IF timeOut[s] = 0 THEN 0 ELSE timeOut[s] - 1
IsConnectionIdle(s) == Elapsed(s) = 0 /\ ~inQueue[s]

\* Mutant: a session stays as long as its character is being loaded.
ClosesUnlessLoading(s) == (closed[s] \/ IsConnectionIdle(s)) /\ ~loading[s]

\* Whether WorldSession::Update finds the socket closed at its end.
Closes(s) == closed[s] \/ IsConnectionIdle(s)

\* WorldSession::Update returns true.  A session out of the queue may start
\* to load a character (CMSG_PLAYER_LOGIN) or finish loading it (the query
\* callback); a queued one may not, its STATUS_AUTHED packets are dropped.
UpdateSession(a) ==
    /\ phase = "update"
    /\ a \in todo
    /\ LET s == sessions[a]
       IN  /\ ~Closes(s)
           /\ timeOut' = [timeOut EXCEPT ![s] = Elapsed(s)]
           /\ \E l \in BOOLEAN : /\ l => ~inQueue[s]
                                 /\ loading' = [loading EXCEPT ![s] = l]
    /\ todo' = todo \ {a}
    /\ UNCHANGED <<account, closed, inQueue, world, phase, stopping>>

\* WorldSession::Update returns false: the socket is closed, by the peer or
\* because the connection was idle.  RemoveQueuedPlayer is called twice, the
\* second time when the session is not in the list any more.
RemoveClosed(a) ==
    /\ phase = "update"
    /\ a \in todo
    /\ LET s     == sessions[a]
           n     == SessionCount(sessions)
           once  == AfterRemoval(queued, n, s)
           twice == AfterRemoval(once, n, s)
       IN  /\ Closes(s)
           /\ Delete(s, twice)
           /\ queued' = twice
           /\ inQueue' = [x \in Session |-> StillWaits(x, s, twice)]
           /\ disconnects' = IF Tolerance /\ ~Found(queued, s)
                             THEN disconnects \cup {a} ELSE disconnects
    /\ sessions' = [sessions EXCEPT ![a] = NoSession]
    /\ todo' = todo \ {a}
    /\ UNCHANGED <<addSessQueue, playerLimit, phase, stopping>>

EndUpdate ==
    /\ phase = "update"
    /\ todo = {}
    /\ phase' = IF stopping = "kicked" THEN "done" ELSE "rest"
    /\ UNCHANGED <<heap, world, todo, stopping>>

-----------------------------------------------------------------------------
(* World thread: the rest of the tick and the end of the server.             *)

NextTick ==
    /\ phase = "rest"
    /\ stopping = "no"
    /\ phase' = "add"
    /\ UNCHANGED <<heap, world, todo, stopping>>

\* Mutant: KickAll only kicks the sessions that left the queue.
KickServed ==
    /\ phase = "rest"
    /\ stopping = "asked"
    /\ queued' = <<>>
    /\ closed' = [s \in Session |->
                    closed[s] \/ (s \in Members(sessions) /\ ~inQueue[s])]
    /\ stopping' = "kicked"
    /\ phase' = "add"
    /\ UNCHANGED <<account, inQueue, loading, timeOut, sessions, addSessQueue,
                   disconnects, playerLimit, todo>>

\* After the last tick WorldRunnable::run calls KickAll, which clears the
\* queue but not the m_inQueue flags, and then UpdateSessions once more.
KickAll ==
    /\ phase = "rest"
    /\ stopping = "asked"
    /\ queued' = <<>>
    /\ closed' = [s \in Session |-> closed[s] \/ s \in Members(sessions)]
    /\ stopping' = "kicked"
    /\ phase' = "add"
    /\ UNCHANGED <<account, inQueue, loading, timeOut, sessions, addSessQueue,
                   disconnects, playerLimit, todo>>

\* m_stopEvent: a signal, the console or the end of the shutdown timer.
Stop ==
    /\ stopping = "no"
    /\ stopping' = "asked"
    /\ UNCHANGED <<heap, world, phase, todo>>

\* ".server plimit <n>", typed by a player (during UpdateSessions) or on the
\* console (at the end of the tick): the queue itself is not touched.
SetPlayerAmountLimit(n) ==
    /\ phase \in {"update", "rest"}
    /\ playerLimit' = n
    /\ UNCHANGED <<heap, sessions, addSessQueue, queued, disconnects, ctl>>

\* ".server plimit moderator" and above: every session with a lower security
\* level is kicked, the queue is not touched.
KickAllLess ==
    /\ phase \in {"update", "rest"}
    /\ closed' = [s \in Session |->
                    closed[s] \/ (s \in Members(sessions) /\ account[s] \notin Staff)]
    /\ UNCHANGED <<account, inQueue, loading, timeOut, world, ctl>>

-----------------------------------------------------------------------------
NetworkNext ==
    \E s \in Session : \/ \E a \in Account : Connect(s, a)
                       \/ SocketClose(s)
                       \/ Receive(s)

WorldNext ==
    \/ RejectSession \/ AddSession \/ EndAdd
    \/ \E a \in Account : UpdateSession(a) \/ RemoveClosed(a)
    \/ EndUpdate \/ NextTick \/ KickAll

CommandNext ==
    \/ Stop
    \/ \E n \in Limits : SetPlayerAmountLimit(n)
    \/ KickAllLess

Next == NetworkNext \/ WorldNext \/ CommandNext

Spec == Init /\ [][Next]_vars

\* The world thread is scheduled; clients and operators promise nothing.
FairSpec == Spec /\ WF_vars(WorldNext)

-----------------------------------------------------------------------------
(* What the sessions of m_sessions are. *)

\* The sessions the world thread knows.
Live == {s \in Session : account[s] # NoAccount /\ sessions[account[s]] = s}

\* The ones that passed the queue or never waited.
Served == {s \in Live : ~inQueue[s]}

ActiveCount == SessionCount(sessions) - Len(queued)

\* Sessions the limit cannot hold back.
Exempt(s) == account[s] \in Staff \/ HasRecentlyDisconnected(account[s])

Position(s) == CHOOSE i \in DOMAIN queued : queued[i] = s

-----------------------------------------------------------------------------
(* Safety. *)

\* No pointer to a deleted session survives: m_sessions holds allocated
\* sessions under their own account, addSessQueue and m_QueuedPlayer hold no
\* session twice, the first only sessions m_sessions does not hold yet, the
\* second only sessions it does hold.  Broken, the world thread would use freed
\* memory the next time it walks a list, and uint32(m_sessions.size() -
\* m_QueuedPlayer.size()) would wrap around.
RegisteredSound ==
    \A a \in Account : sessions[a] # NoSession => account[sessions[a]] = a

IncomingSound ==
    \A i, j \in DOMAIN addSessQueue :
        /\ account[addSessQueue[i]] # NoAccount
        /\ sessions[account[addSessQueue[i]]] # addSessQueue[i]
        /\ i # j => addSessQueue[i] # addSessQueue[j]

WaitingSound ==
    \A i, j \in DOMAIN queued :
        /\ account[queued[i]] # NoAccount
        /\ sessions[account[queued[i]]] = queued[i]
        /\ i # j => queued[i] # queued[j]

TodoSound == phase = "update" => \A a \in todo : sessions[a] # NoSession

QueueSound == RegisteredSound /\ IncomingSound /\ WaitingSound /\ TodoSound

\* Who waits is told apart by m_inQueue and loads no character, and waiting
\* leaves no trace: the flag of a live session is TRUE only while it is in the
\* list or after KickAll condemned it, so that nobody stays locked out after it
\* was admitted; and a session that is served and connected has some of its
\* time-out left between updates, even when its timer ran out in the queue.
WaitingLeavesNoTrace ==
    /\ \A s \in Members(queued) : inQueue[s] /\ ~loading[s]
    /\ \A s \in Live : inQueue[s] => s \in Members(queued) \/ closed[s]
    /\ \A s \in Served : ~closed[s] => timeOut[s] > 0

\* Nobody waits while there is room, unless the limit was just changed.
CapacityUsed == queued # <<>> => playerLimit > 0 /\ ActiveCount >= playerLimit

\* No step of the server leaves room unused while sessions wait: whatever the
\* order in which sessions leave, reconnect and join, every place that becomes
\* free is given to the head of the queue in the same step.
PlacesAreHandedOn ==
    [][CapacityUsed /\ playerLimit' = playerLimit => CapacityUsed']_vars

\* The sessions that are served although the limit applies to them never
\* exceed it: RemoveQueuedPlayer, called twice for one session, does not admit
\* one client too many, nor does a reconnection.
Limited == {s \in Served : ~Exempt(s)}
WithinLimit == playerLimit = 0 \/ Cardinality(Limited) <= playerLimit

LimitHolds == [][WithinLimit /\ playerLimit' = playerLimit => WithinLimit']_vars

\* While the queue is not starved by a raised limit nobody overtakes: a client
\* the limit applies to gets served only if everybody who keeps waiting came
\* after it.
NoOvertaking ==
    [][CapacityUsed =>
         \A s \in Served' \ Served, t \in Members(queued) \cap Members(queued') :
             \/ Exempt(s)'
             \/ s \in Members(queued) /\ Position(s) < Position(t)]_vars

-----------------------------------------------------------------------------
(* Liveness. *)

\* Every session handed over by a network thread is registered or refused.
ConnectionIsAnswered ==
    \A s \in Session :
        s \in Members(addSessQueue) ~> s \notin Members(addSessQueue) \/ phase = "done"

\* A session whose socket is closed is deleted, provided that clients do not
\* connect so fast that addSessQueue is never drained.
ClosedIsDeleted ==
    []<>(phase # "add") =>
        \A s \in Session : (s \in Live /\ closed[s]) ~> (s \notin Live \/ phase = "done")

\* A stop that was asked for ends the world thread, and the one call of
\* UpdateSessions after KickAll deletes (and so saves) every session that was
\* there when the stop was asked for, waiting, loading or served.
StopCompletes ==
    []<>(phase # "add") =>
        /\ stopping = "asked" ~> phase = "done"
        /\ \A s \in Session : (stopping = "asked" /\ s \in Live) ~> s \notin Live
=============================================================================

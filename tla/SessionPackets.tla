--------------------------- MODULE SessionPackets ---------------------------
(***************************************************************************)
(* The packets of one client after it passed the login queue:              *)
(* WorldSession::_recvQueue, the loop of WorldSession::Update and the two  *)
(* packet filters (src/src/server/game/Server/WorldSession.cpp).           *)
(*                                                                         *)
(* The network thread appends packets at any time.  In every tick the      *)
(* world thread runs Update with a WorldSessionFilter and then, if the     *)
(* player is in the world, a map thread runs it with a MapSessionFilter;   *)
(* both take packets from the head only.  A packet that needs a player     *)
(* while none is there is put back at the tail, unless the player logged   *)
(* out a moment ago.                                                       *)
(*                                                                         *)
(* The client is a well behaved one: it sends game packets for a character *)
(* from the moment it asked to log it in until it learns of its logout.    *)
(* Packets carry the number of the character they are meant for.           *)
(***************************************************************************)
EXTENDS Naturals, Sequences

CONSTANTS
    Kinds,          \* the kinds of packets the client sends
    MaxPackets,     \* bound: packets sent in all
    MaxLogins       \* bound: characters the client logs in in all

\* status and packetProcessing of an opcode; opcodes with the same status and
\* processing whose handlers do the same to the session are one kind.
Status ==
    [enum   |-> "authed",      \* CMSG_CHAR_ENUM: at the character screen
     data   |-> "authed",      \* CMSG_UPDATE_ACCOUNT_DATA: in the world too
     voice  |-> "authed",      \* CMSG_SET_ACTIVE_VOICE_CHANNEL
     login  |-> "authed",      \* CMSG_PLAYER_LOGIN
     warden |-> "authed",      \* CMSG_WARDEN_DATA, the PROCESS_THREADSAFE one
     game   |-> "loggedin",    \* CMSG_LOGOUT_REQUEST, CMSG_CAST_SPELL, ...
     place  |-> "loggedin",    \* the PROCESS_INPLACE ones
     cancel |-> "either",      \* CMSG_CANCEL_TRADE: logged in or recently logged out
     ack    |-> "transfer"]    \* MSG_MOVE_WORLDPORT_ACK

Processing ==
    [enum |-> "unsafe", data |-> "unsafe", voice |-> "unsafe", login |-> "unsafe",
     warden |-> "safe", game |-> "unsafe", place |-> "inplace", cancel |-> "unsafe",
     ack |-> "unsafe"]

ASSUME KindsAssumption == Kinds \subseteq DOMAIN Status
ASSUME BoundsAssumption == MaxPackets \in Nat /\ MaxLogins \in Nat

Packet == 1..MaxPackets
NoPacket == 0

VARIABLES
    sent,           \* Seq([kind, char]): the packets received, in order; a
                    \* packet is its position here
    recvQueue,      \* Seq(Packet): _recvQueue
    freed,          \* packets that were deleted
    pc,             \* "away", or in Update: "take", "handle", "callbacks"; "gone"
    filter,         \* the filter of this or the next Update: "world" or "map"
    packet,         \* the packet in hand
    firstDelayed,   \* firstDelayedPacket
    deletePacket,   \* the local variable of that name
    player,         \* "none", "loading", "refused", "inworld", "transfer"
    char,           \* the character loaded last, 0 for none
    recently,       \* m_playerRecentlyLogout
    leaving,        \* _logoutTime is set
    complete,       \* SMSG_LOGOUT_COMPLETE was sent and has not arrived yet
    closed,         \* the socket is closed
    screen,         \* the client is at its character screen
    asked           \* characters the client has logged in so far

queue  == <<recvQueue, freed>>
loop   == <<pc, filter, packet, firstDelayed, deletePacket>>
state  == <<player, char, recently, leaving, complete>>
client == <<sent, screen, asked>>
vars   == <<queue, loop, state, closed, client>>

TypeOK ==
    /\ sent \in Seq([kind : Kinds, char : 0..MaxLogins]) /\ Len(sent) <= MaxPackets
    /\ recvQueue \in Seq(Packet)
    /\ freed \subseteq Packet
    /\ pc \in {"away", "take", "handle", "callbacks", "gone"}
    /\ filter \in {"world", "map"}
    /\ packet \in Packet \cup {NoPacket}
    /\ firstDelayed \in Packet \cup {NoPacket}
    /\ player \in {"none", "loading", "refused", "inworld", "transfer"}
    /\ char \in 0..MaxLogins /\ asked \in 0..MaxLogins
    /\ \A b \in {deletePacket, recently, leaving, complete, closed, screen} : b \in BOOLEAN
    /\ pc = "handle" <=> packet # NoPacket

Init ==
    /\ sent = <<>> /\ screen = TRUE /\ asked = 0
    /\ recvQueue = <<>> /\ freed = {}
    /\ pc = "away" /\ filter = "world"
    /\ packet = NoPacket /\ firstDelayed = NoPacket /\ deletePacket = TRUE
    /\ player = "none" /\ char = 0 /\ recently = FALSE /\ leaving = FALSE
    /\ complete = FALSE
    /\ closed = FALSE

Kind(p) == sent[p].kind

-----------------------------------------------------------------------------
(* The client and the network thread. *)

AtScreen == {"enum", "voice", "warden", "login"}
InWorld  == {"data", "voice", "warden", "game", "place", "cancel", "ack"}

\* WorldSocket::ProcessIncoming hands a packet to QueuePacket.
QueuePacket(k) ==
    /\ ~closed /\ pc # "gone"
    /\ Len(sent) < MaxPackets
    /\ k \in IF screen THEN AtScreen ELSE InWorld
    /\ k = "login" => asked < MaxLogins
    /\ LET c == IF k = "login" THEN asked + 1 ELSE asked
       IN  /\ sent' = Append(sent, [kind |-> k, char |-> c])
           /\ asked' = c
    /\ screen' = (screen /\ k # "login")
    /\ recvQueue' = Append(recvQueue, Len(sent'))
    /\ UNCHANGED <<freed, loop, state, closed>>

\* SMSG_LOGOUT_COMPLETE arrives.
ClientSeesLogout ==
    /\ complete
    /\ complete' = FALSE
    /\ screen' = TRUE
    /\ UNCHANGED <<sent, asked, queue, loop, player, char, recently, leaving, closed>>

SocketClose ==
    /\ ~closed
    /\ closed' = TRUE
    /\ UNCHANGED <<queue, loop, state, client>>

-----------------------------------------------------------------------------
(* WorldSession::Update: the loop. *)

\* World::UpdateSessions, or Map::Update for a player in the world.
BeginUpdate ==
    /\ pc = "away"
    /\ filter = "map" => player = "inworld"
    /\ pc' = "take"
    /\ firstDelayed' = NoPacket
    /\ deletePacket' = TRUE
    /\ UNCHANGED <<queue, filter, packet, state, closed, client>>

\* The player is on no map in this tick.
NoMapUpdate ==
    /\ pc = "away"
    /\ filter = "map" /\ player # "inworld"
    /\ filter' = "world"
    /\ UNCHANGED <<queue, pc, packet, firstDelayed, deletePacket, state, closed, client>>

\* Mutant: no filter takes the thread-safe packets of a player in the world.
NoWhere(k) ==
    \/ Processing[k] = "inplace"
    \/ filter = "world" /\ (Processing[k] = "unsafe" \/ player # "inworld")

\* MapSessionFilter::Process and WorldSessionFilter::Process.
Process(k) ==
    \/ Processing[k] = "inplace"
    \/ filter = "world" /\ (Processing[k] = "unsafe" \/ player # "inworld")
    \/ filter = "map" /\ Processing[k] = "safe" /\ player = "inworld"

CanTake ==
    /\ ~closed
    /\ recvQueue # <<>>
    /\ Head(recvQueue) # firstDelayed
    /\ Process(Kind(Head(recvQueue)))

Take ==
    /\ pc = "take"
    /\ CanTake
    /\ packet' = Head(recvQueue)
    /\ recvQueue' = Tail(recvQueue)
    /\ pc' = "handle"
    /\ UNCHANGED <<freed, filter, firstDelayed, deletePacket, state, closed, client>>

EndLoop ==
    /\ pc = "take"
    /\ ~CanTake
    /\ pc' = "callbacks"
    /\ UNCHANGED <<queue, filter, packet, firstDelayed, deletePacket, state, closed, client>>

-----------------------------------------------------------------------------
(* The switch on the status of the opcode. *)

HasPlayer == player \in {"inworld", "transfer"}

\* "delete packet" at the end of an iteration, if deletePacket says so.
Discard ==
    /\ freed' = IF deletePacket THEN freed \cup {packet} ELSE freed
    /\ UNCHANGED <<recvQueue, firstDelayed, deletePacket>>

\* Mutant: the packet is put back and deleted.
RequeueAndDelete ==
    /\ recvQueue' = Append(recvQueue, packet)
    /\ firstDelayed' = IF firstDelayed = NoPacket THEN packet ELSE firstDelayed
    /\ freed' = freed \cup {packet}
    /\ deletePacket' = deletePacket

\* The packet is put back at the tail of the queue.
Requeue ==
    /\ recvQueue' = Append(recvQueue, packet)
    /\ firstDelayed' = IF firstDelayed = NoPacket THEN packet ELSE firstDelayed
    /\ deletePacket' = FALSE
    /\ UNCHANGED freed

\* Whether the handler of the packet in hand is called.
Runs ==
    CASE Status[Kind(packet)] = "loggedin" -> player = "inworld"
      [] Status[Kind(packet)] = "either"   -> HasPlayer \/ recently
      [] Status[Kind(packet)] = "transfer" -> player = "transfer"
      [] Status[Kind(packet)] = "authed"   -> TRUE

Delayed == Status[Kind(packet)] = "loggedin" /\ ~HasPlayer /\ ~recently

Handling ==
    /\ pc = "handle"
    /\ pc' = "take"
    /\ packet' = NoPacket
    /\ UNCHANGED <<filter, client>>

\* Mutant: nothing tells that the player was there a moment ago.
LogoutUnmarked ==
    /\ player' = "none"
    /\ recently' = FALSE
    /\ leaving' = FALSE
    /\ complete' = TRUE
    /\ UNCHANGED char

\* LogoutPlayer, with the flags it leaves behind.
LogoutPlayer ==
    /\ player' = "none"
    /\ recently' = TRUE
    /\ leaving' = FALSE
    /\ complete' = TRUE
    /\ UNCHANGED char

HandleDelayed ==
    /\ Handling /\ Delayed /\ Requeue
    /\ UNCHANGED <<state, closed>>

HandleDropped ==
    /\ Handling /\ ~Delayed /\ ~Runs /\ Discard
    /\ UNCHANGED <<state, closed>>

\* A game packet may ask for a logout, be granted it at once, take the request
\* back, or teleport the player to another map; packets the map threads may
\* handle do none of it.
HandleGame ==
    /\ Handling /\ Runs /\ Discard
    /\ Status[Kind(packet)] = "loggedin"
    /\ \/ UNCHANGED state
       \/ /\ Kind(packet) = "game"
          /\ \/ leaving' \in BOOLEAN /\ UNCHANGED <<player, char, recently, complete>>
             \/ player' = "transfer" /\ UNCHANGED <<char, recently, leaving, complete>>
             \/ LogoutPlayer
    /\ UNCHANGED closed

HandleCancel ==
    /\ Handling /\ Runs /\ Discard
    /\ Status[Kind(packet)] = "either"
    /\ UNCHANGED <<state, closed>>

\* The far teleport ends on the new map, at home again, or in a logout.
HandleWorldportAck ==
    /\ Handling /\ Runs /\ Discard
    /\ Status[Kind(packet)] = "transfer"
    /\ \/ player' \in {"inworld", "transfer"} /\ UNCHANGED <<char, recently, leaving, complete>>
       \/ LogoutPlayer
    /\ UNCHANGED closed

\* m_playerRecentlyLogout when the handler of a STATUS_AUTHED packet is called.
RecentlyAfter(k) == recently /\ k = "voice"

Authed ==
    /\ Handling /\ Discard
    /\ Status[Kind(packet)] = "authed"
    /\ recently' = RecentlyAfter(Kind(packet))
    /\ UNCHANGED <<leaving, complete>>

\* Handlers that leave the session alone, but that Warden may kick it.
HandleAuthed ==
    /\ Authed
    /\ Kind(packet) # "login"
    /\ closed' \in (IF Kind(packet) = "warden" THEN {closed, TRUE} ELSE {closed})
    /\ UNCHANGED <<player, char>>

\* HandlePlayerLoginOpcode: ignored while a player is there or being loaded;
\* the queries may not be prepared, or the character may be refused, which
\* closes the socket and leaves m_playerLoading set with no query on its way.
HandleLogin ==
    /\ Authed
    /\ Kind(packet) = "login"
    /\ IF player = "none"
       THEN /\ player' \in {"none", "loading", "refused"}
            /\ char' = IF player' = "loading" THEN sent[packet].char ELSE char
            /\ closed' = (closed \/ player' = "refused")
       ELSE UNCHANGED <<player, char, closed>>

-----------------------------------------------------------------------------
(* WorldSession::Update: after the loop. *)

\* ProcessQueryCallbacks: the character is loaded, or cannot be.
HandlePlayerLogin ==
    /\ pc = "callbacks"
    /\ player = "loading"
    /\ \/ player' = "inworld" /\ UNCHANGED closed
       \/ player' = "none" /\ closed' = TRUE
    /\ UNCHANGED <<queue, loop, char, recently, leaving, complete, client>>

\* ShouldLogOut: a logout was asked for twenty seconds ago.
TimedLogout ==
    /\ pc = "callbacks" /\ filter = "world"
    /\ leaving /\ HasPlayer
    /\ LogoutPlayer
    /\ UNCHANGED <<queue, loop, closed, client>>

EndUpdate ==
    /\ pc = "callbacks"
    /\ filter = "world" => ~closed
    /\ pc' = "away"
    /\ filter' = IF filter = "world" THEN "map" ELSE "world"
    /\ UNCHANGED <<queue, packet, firstDelayed, deletePacket, state, closed, client>>

\* Update returns false and the session is deleted: the player is logged out
\* and the packets left in the queue are deleted.
DeleteSession ==
    /\ pc = "callbacks" /\ filter = "world"
    /\ closed
    /\ pc' = "gone"
    /\ player' = "none"
    /\ freed' = freed \cup {recvQueue[i] : i \in DOMAIN recvQueue}
    /\ recvQueue' = <<>>
    /\ UNCHANGED <<filter, packet, firstDelayed, deletePacket, char, recently,
                   leaving, complete, closed, client>>

\* A spell, a script or a game master teleports the player.
TeleportTo ==
    /\ pc = "away" /\ player = "inworld"
    /\ player' = "transfer"
    /\ UNCHANGED <<queue, loop, char, recently, leaving, complete, closed, client>>

-----------------------------------------------------------------------------
Handle ==
    \/ HandleDelayed \/ HandleDropped \/ HandleGame \/ HandleCancel
    \/ HandleWorldportAck \/ HandleAuthed \/ HandleLogin

UpdateNext ==
    \/ BeginUpdate \/ NoMapUpdate \/ Take \/ EndLoop \/ Handle
    \/ EndUpdate \/ DeleteSession

ClientNext == (\E k \in Kinds : QueuePacket(k)) \/ ClientSeesLogout \/ SocketClose

Next == UpdateNext \/ HandlePlayerLogin \/ TimedLogout \/ TeleportTo \/ ClientNext

Spec == Init /\ [][Next]_vars

\* The world and map threads run, and the database answers the login queries
\* before the session has been updated for ever.
FairSpec == Spec /\ WF_vars(UpdateNext) /\ SF_vars(HandlePlayerLogin)

-----------------------------------------------------------------------------
(* Safety. *)

Waiting == {recvQueue[i] : i \in DOMAIN recvQueue}

\* No packet that was deleted is touched again: the packets in the queue and
\* the one in hand are all different and none of them was deleted, whatever
\* was put back in this or an earlier update.
PacketsSound ==
    /\ TypeOK
    /\ \A i, j \in DOMAIN recvQueue : recvQueue[i] = recvQueue[j] => i = j
    /\ packet \notin Waiting
    /\ freed \cap (Waiting \cup {packet}) = {}

\* A packet meant for one character is never handled for another one of the
\* account: what a lagging client still sends after a logout is dropped, and
\* what is put back waits for the character it was sent to.  The exception is
\* a client that also sent, for the same character, a STATUS_AUTHED packet that
\* makes the server forget the logout.
Forgetful == {"data", "warden"}

ForTheRightCharacter ==
    pc = "handle" /\ Status[Kind(packet)] = "loggedin" /\ Runs =>
        \/ sent[packet].char = char
        \/ \E p \in 1..Len(sent) : Kind(p) \in Forgetful /\ sent[p].char = sent[packet].char

-----------------------------------------------------------------------------
(* Liveness. *)

\* No packet is refused by both filters for ever, and none is put back for
\* ever: when the client has sent its last packet the queue of an open session
\* runs empty, but for packets sent to a character that could not be loaded.
QueueDrains ==
    <>[](closed \/ \A p \in (Waiting \cup {packet}) \ {NoPacket} :
                        Status[Kind(p)] = "loggedin" /\ player = "none")
=============================================================================

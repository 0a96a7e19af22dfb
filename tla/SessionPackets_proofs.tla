------------------------ MODULE SessionPackets_proofs ------------------------
(***************************************************************************)
(* Proofs about SessionPackets, for any number of packets, kinds of        *)
(* packets and logins: however packets are taken, put back and dropped, no *)
(* deleted packet is in the queue or in hand, none is there twice, and     *)
(* none is handled for another character than it was sent to.              *)
(***************************************************************************)
EXTENDS SessionPackets, TLAPS

\* Packets come from the network thread only, so that the next one is new.
Received == Waiting \cup freed \cup ({packet} \ {NoPacket}) \subseteq 1..Len(sent)

IInv == PacketsSound /\ Received

Distinct(q) == \A i, j \in DOMAIN q : q[i] = q[j] => i = j

LEMMA Appended ==
    ASSUME recvQueue \in Seq(Packet), NEW p \in Packet, p \notin Waiting,
           Distinct(recvQueue), recvQueue' = Append(recvQueue, p)
    PROVE  /\ recvQueue' \in Seq(Packet) /\ Distinct(recvQueue')
           /\ Waiting' = Waiting \cup {p}
  BY DEF Waiting, Distinct

LEMMA Taken ==
    ASSUME recvQueue \in Seq(Packet), recvQueue # <<>>, Distinct(recvQueue),
           recvQueue' = Tail(recvQueue)
    PROVE  /\ recvQueue' \in Seq(Packet) /\ Distinct(recvQueue')
           /\ Head(recvQueue) \in Waiting /\ Waiting' \subseteq Waiting \ {Head(recvQueue)}
<1>1. /\ Len(recvQueue) \in Nat /\ Len(recvQueue) > 0
      /\ DOMAIN recvQueue = 1..Len(recvQueue)
      /\ DOMAIN recvQueue' = 1..(Len(recvQueue) - 1)
      /\ \A i \in DOMAIN recvQueue' : recvQueue'[i] = recvQueue[i + 1]
      /\ Head(recvQueue) = recvQueue[1] /\ recvQueue' \in Seq(Packet)
  OBVIOUS
<1>2. /\ 1 \in DOMAIN recvQueue
      /\ \A i \in DOMAIN recvQueue' : i + 1 \in DOMAIN recvQueue /\ i + 1 # 1
  BY <1>1
<1>3. Distinct(recvQueue')
  BY <1>1, <1>2 DEF Distinct
<1>4. \A i \in DOMAIN recvQueue' : /\ recvQueue'[i] \in Waiting
                                   /\ recvQueue'[i] # Head(recvQueue)
  BY <1>1, <1>2 DEF Waiting, Distinct
<1>5. Waiting' \subseteq Waiting \ {Head(recvQueue)}
  BY <1>4 DEF Waiting
<1> QED
  BY <1>1, <1>2, <1>3, <1>5 DEF Waiting

\* The invariant in the terms of these lemmas.
LEMMA Parts ==
    IInv <=> /\ TypeOK /\ Distinct(recvQueue) /\ packet \notin Waiting
             /\ freed \cap (Waiting \cup {packet}) = {} /\ Received
  BY DEF IInv, PacketsSound, Distinct

LEMMA Outside == NoPacket \notin Packet /\ Packet \subseteq Nat
  BY BoundsAssumption DEF Packet, NoPacket

\* What is in the queue, in hand or deleted was sent.
LEMMA PacketFacts ==
    ASSUME IInv
    PROVE  /\ Waiting \subseteq Packet /\ freed \subseteq Packet
           /\ pc # "handle" => packet = NoPacket
           /\ pc = "handle" =>
                /\ packet \in Packet
                /\ packet \in 1..Len(sent)
                /\ sent[packet] \in [kind : Kinds, char : 0..MaxLogins]
<1>1. Waiting \subseteq Packet
  BY Parts DEF TypeOK, Waiting
<1>2. ASSUME pc = "handle"
      PROVE  packet \in Packet /\ packet \in 1..Len(sent)
  BY <1>2, Parts DEF TypeOK, Received
<1>3. \A p \in 1..Len(sent) : sent[p] \in [kind : Kinds, char : 0..MaxLogins]
  <2> DEFINE S == [kind : Kinds, char : 0..MaxLogins]
  <2>1. sent \in Seq(S)
    BY Parts DEF TypeOK
  <2> HIDE DEF S
  <2>2. \A p \in 1..Len(sent) : sent[p] \in S
    BY <2>1
  <2> QED
    BY <2>2 DEF S
<1> QED
  BY <1>1, <1>2, <1>3, Parts DEF TypeOK

LEMMA InitInv == Init => IInv
<1> SUFFICES ASSUME Init PROVE IInv
  OBVIOUS
<1>1. Waiting = {}
  BY DEF Init, Waiting
<1>2. TypeOK
  <2>1. /\ sent \in Seq([kind : Kinds, char : 0..MaxLogins]) /\ Len(sent) <= MaxPackets
        /\ recvQueue \in Seq(Packet) /\ freed \subseteq Packet
        /\ char \in 0..MaxLogins /\ asked \in 0..MaxLogins
    BY BoundsAssumption DEF Init
  <2> QED
    BY <2>1 DEF Init, TypeOK
<1> QED
  BY <1>1, <1>2, Parts DEF Init, Received, Distinct, NoPacket

\* A packet that arrives has a number no other packet had.
LEMMA QueuePacketInv ==
    ASSUME IInv, NEW k \in Kinds, QueuePacket(k)
    PROVE  IInv'
<1> DEFINE p == Len(sent')
<1>1. PICK c \in 0..MaxLogins : /\ sent' = Append(sent, [kind |-> k, char |-> c])
                                /\ asked' = c
  <2>1. asked \in 0..MaxLogins /\ (k = "login" => asked < MaxLogins)
    BY Parts DEF QueuePacket, TypeOK
  <2> QED
    BY <2>1, BoundsAssumption DEF QueuePacket
<1>2. /\ recvQueue' = Append(recvQueue, p)
      /\ screen' \in BOOLEAN /\ Len(sent) < MaxPackets
      /\ UNCHANGED <<freed, loop, state, closed>>
  BY Parts DEF QueuePacket, TypeOK
<1>3. /\ Len(sent) \in Nat /\ p = Len(sent) + 1 /\ p \in Packet
      /\ sent' \in Seq([kind : Kinds, char : 0..MaxLogins]) /\ Len(sent') <= MaxPackets
  BY <1>1, <1>2, Parts, BoundsAssumption DEF TypeOK, Packet
<1> HIDE DEF p
<1>4. p \notin Waiting /\ p \notin freed /\ p # packet
  BY <1>3, Parts DEF Received, NoPacket
<1>5. recvQueue' \in Seq(Packet) /\ Distinct(recvQueue') /\ Waiting' = Waiting \cup {p}
  BY <1>2, <1>3, <1>4, Parts, Appended DEF TypeOK
<1>6. TypeOK'
  BY <1>1, <1>2, <1>3, <1>5, Parts DEF TypeOK, loop, state
<1>7. Received'
  <2>1. 1..Len(sent') = 1..Len(sent) \cup {p}
    BY <1>3 DEF p
  <2> QED
    BY <1>2, <1>5, <2>1, Parts DEF Received, loop
<1>8. packet' \notin Waiting' /\ freed' \cap (Waiting' \cup {packet'}) = {}
  BY <1>2, <1>4, <1>5, Parts DEF loop
<1> QED
  BY <1>5, <1>6, <1>7, <1>8 DEF IInv, PacketsSound, Distinct

LEMMA TakeInv ==
    ASSUME IInv, Take
    PROVE  IInv'
<1>1. /\ pc = "take" /\ recvQueue # <<>> /\ packet' = Head(recvQueue)
      /\ recvQueue' = Tail(recvQueue) /\ pc' = "handle"
      /\ UNCHANGED <<freed, filter, firstDelayed, deletePacket, state, closed, client>>
  BY DEF Take, CanTake
<1>2. /\ recvQueue' \in Seq(Packet) /\ Distinct(recvQueue') /\ packet' \in Waiting
      /\ Waiting' \subseteq Waiting \ {packet'}
  BY <1>1, Parts, Taken DEF TypeOK
<1>3. packet' \in Packet /\ packet' # NoPacket
  BY <1>2, PacketFacts, Outside
<1>4. TypeOK'
  BY <1>1, <1>2, <1>3, Parts DEF TypeOK, state, client
<1>5. Received'
  BY <1>1, <1>2, Parts DEF Received, client
<1>6. packet' \notin Waiting' /\ freed' \cap (Waiting' \cup {packet'}) = {}
  BY <1>1, <1>2, Parts
<1> QED
  BY <1>2, <1>4, <1>5, <1>6 DEF IInv, PacketsSound, Distinct

\* The packet in hand is put back or deleted, never both, or leaks.
LEMMA HandleInv ==
    ASSUME IInv, Handle
    PROVE  IInv'
<1>1. /\ pc = "handle" /\ pc' = "take" /\ packet' = NoPacket
      /\ UNCHANGED <<filter, client>>
  BY DEF Handle, HandleDelayed, HandleDropped, HandleGame, HandleCancel,
         HandleWorldportAck, HandleAuthed, HandleLogin, Authed, Handling
<1>2. Requeue \/ Discard
  BY DEF Handle, HandleDelayed, HandleDropped, HandleGame, HandleCancel,
         HandleWorldportAck, HandleAuthed, HandleLogin, Authed
<1>3. packet \in Packet /\ packet \in 1..Len(sent)
  BY <1>1, PacketFacts
<1>4. sent[packet] \in [kind : Kinds, char : 0..MaxLogins]
  BY <1>1, PacketFacts
<1>5. /\ player' \in {"none", "loading", "refused", "inworld", "transfer"}
      /\ char' \in 0..MaxLogins
      /\ \A b \in {recently', leaving', complete', closed'} : b \in BOOLEAN
  <2>1. CASE HandleDelayed \/ HandleDropped \/ HandleCancel
    BY <2>1, Parts DEF HandleDelayed, HandleDropped, HandleCancel, state, TypeOK
  <2>2. CASE HandleGame \/ HandleWorldportAck
    BY <2>2, Parts DEF HandleGame, HandleWorldportAck, LogoutPlayer, state, TypeOK
  <2>3. CASE HandleAuthed \/ HandleLogin
    BY <2>3, <1>4, Parts DEF HandleAuthed, HandleLogin, Authed, RecentlyAfter, TypeOK
  <2> QED
    BY <2>1, <2>2, <2>3 DEF Handle
<1>6. CASE Requeue
  <2>1. /\ recvQueue' = Append(recvQueue, packet) /\ freed' = freed
        /\ firstDelayed' \in Packet \cup {NoPacket} /\ deletePacket' \in BOOLEAN
    BY <1>3, <1>6, Parts DEF Requeue, TypeOK
  <2>2. /\ recvQueue' \in Seq(Packet) /\ Distinct(recvQueue')
        /\ Waiting' = Waiting \cup {packet}
    BY <1>3, <2>1, Parts, Appended DEF TypeOK
  <2>3. TypeOK'
    BY <1>1, <1>5, <2>1, <2>2, Parts DEF TypeOK, client, NoPacket
  <2>4. Received' /\ packet' \notin Waiting' /\ freed' \cap (Waiting' \cup {packet'}) = {}
    BY <1>1, <1>3, <2>1, <2>2, Parts, PacketFacts, Outside DEF Received, client
  <2> QED
    BY <2>2, <2>3, <2>4 DEF IInv, PacketsSound, Distinct
<1>7. CASE Discard
  <2>1. /\ freed' \subseteq freed \cup {packet} /\ Waiting' = Waiting
        /\ UNCHANGED <<recvQueue, firstDelayed, deletePacket>>
    BY <1>7 DEF Discard, Waiting
  <2>2. TypeOK'
    BY <1>1, <1>3, <1>5, <2>1, Parts DEF TypeOK, client, NoPacket
  <2>3. Received' /\ packet' \notin Waiting' /\ freed' \cap (Waiting' \cup {packet'}) = {}
    BY <1>1, <1>3, <2>1, Parts, PacketFacts, Outside DEF Received, client
  <2> QED
    BY <2>1, <2>2, <2>3, Parts DEF IInv, PacketsSound, Distinct
<1> QED
  BY <1>2, <1>6, <1>7

LEMMA DeleteSessionInv ==
    ASSUME IInv, DeleteSession
    PROVE  IInv'
<1>1. /\ pc = "callbacks" /\ pc' = "gone" /\ player' = "none"
      /\ freed' = freed \cup Waiting /\ recvQueue' = <<>>
      /\ UNCHANGED <<filter, packet, firstDelayed, deletePacket, char, recently,
                     leaving, complete, closed, client>>
  BY DEF DeleteSession, Waiting
<1>2. Waiting' = {} /\ packet = NoPacket /\ Waiting \subseteq Packet
  BY <1>1, PacketFacts DEF Waiting
<1>3. TypeOK'
  BY <1>1, <1>2, Parts DEF TypeOK, client
<1>4. Received' /\ freed' \cap (Waiting' \cup {packet'}) = {}
  BY <1>1, <1>2, Parts, PacketFacts, Outside DEF Received, client
<1> QED
  BY <1>1, <1>2, <1>3, <1>4 DEF IInv, PacketsSound

\* The other steps leave the packets where they are.
LEMMA OtherInv ==
    ASSUME IInv,
           \/ BeginUpdate \/ NoMapUpdate \/ EndLoop \/ EndUpdate \/ HandlePlayerLogin
           \/ TimedLogout \/ TeleportTo \/ ClientSeesLogout \/ SocketClose
           \/ UNCHANGED vars
    PROVE  IInv'
<1>1. UNCHANGED <<recvQueue, freed, packet, sent>>
  BY DEF BeginUpdate, NoMapUpdate, EndLoop, EndUpdate, HandlePlayerLogin, TimedLogout,
         TeleportTo, ClientSeesLogout, SocketClose, queue, loop, client, vars
<1>2. TypeOK'
  BY Parts DEF BeginUpdate, NoMapUpdate, EndLoop, EndUpdate, HandlePlayerLogin, TimedLogout,
         TeleportTo, ClientSeesLogout, SocketClose, LogoutPlayer, queue, loop, state, client,
         vars, TypeOK
<1> QED
  BY <1>1, <1>2 DEF IInv, PacketsSound, Received, Waiting

\* The invariant holds in every reachable state.
THEOREM Invariant == Spec => []IInv
<1>1. Init => IInv
  BY InitInv
<1>2. IInv /\ [Next]_vars => IInv'
  BY QueuePacketInv, TakeInv, HandleInv, DeleteSessionInv, OtherInv
  DEF Next, UpdateNext, ClientNext
<1> QED
  BY <1>1, <1>2, PTL DEF Spec

\* No packet is used or deleted after it was deleted, and none is queued twice,
\* whatever WorldSession::Update puts back and for however many updates.
THEOREM PacketsAreSound == Spec => []PacketsSound
<1>1. IInv => PacketsSound
  BY DEF IInv
<1> QED
  BY <1>1, Invariant, PTL

-----------------------------------------------------------------------------
(* The order of the packets that are still to be handled.                    *)

Around == Waiting \cup ({packet} \ {NoPacket})

\* The loop gets to x before y.
Before(x, y) ==
    \/ x = packet /\ x # NoPacket /\ y \in Waiting
    \/ \E i, j \in DOMAIN recvQueue : i < j /\ recvQueue[i] = x /\ recvQueue[j] = y

\* A step that puts nothing into the queue.
Shrinks ==
    /\ Around' \subseteq Around
    /\ \A x, y \in Packet : Before(x, y)' <=> Before(x, y) /\ x \in Around'

LEMMA AroundFacts ==
    ASSUME IInv
    PROVE  /\ Around \subseteq Packet /\ Around \subseteq 1..Len(sent)
           /\ pc = "handle" => packet \in Around /\ packet # NoPacket
           /\ \A x, y \in Packet : Before(x, y) => x \in Around /\ y \in Waiting
<1>1. Around \subseteq Packet /\ Around \subseteq 1..Len(sent)
  BY PacketFacts, Parts DEF Around, Received, TypeOK
<1>2. pc = "handle" => packet \in Around /\ packet # NoPacket
  BY Parts DEF Around, TypeOK
<1>3. \A x, y : Before(x, y) => x \in Around /\ y \in Waiting
  BY DEF Before, Around, Waiting
<1> QED
  BY <1>1, <1>2, <1>3

LEMMA StandShrinks ==
    ASSUME IInv, UNCHANGED <<recvQueue, packet>>
    PROVE  Shrinks /\ Around' = Around
<1>1. Around' = Around /\ \A x, y \in Packet : Before(x, y)' <=> Before(x, y)
  BY DEF Around, Before, Waiting
<1> QED
  BY <1>1, AroundFacts DEF Shrinks

LEMMA DiscardShrinks ==
    ASSUME IInv, pc = "handle", recvQueue' = recvQueue, packet' = NoPacket
    PROVE  Shrinks /\ Around' = Waiting /\ Around' = Around \ {packet}
<1>1. Waiting' = Waiting /\ Around' = Waiting
  BY DEF Around, Waiting
<1>2. packet \in Packet /\ packet \notin Waiting /\ Waiting \subseteq Packet
  BY PacketFacts, Parts
<1>3. Around' = Around \ {packet}
  BY <1>1, <1>2 DEF Around
<1>4. ASSUME NEW x \in Packet, NEW y \in Packet
      PROVE  Before(x, y)' <=> Before(x, y) /\ x \in Around'
  <2> DEFINE Q == \E i, j \in DOMAIN recvQueue : i < j /\ recvQueue[i] = x /\ recvQueue[j] = y
  <2>1. Q => x \in Waiting
    BY DEF Waiting
  <2>2. Before(x, y)' <=> Q
    BY Outside DEF Before
  <2>3. Before(x, y) <=> (x = packet /\ y \in Waiting) \/ Q
    BY <1>2, Outside DEF Before
  <2> HIDE DEF Q
  <2> QED
    BY <1>1, <1>2, <2>1, <2>2, <2>3
<1> QED
  BY <1>1, <1>3, <1>4 DEF Shrinks

LEMMA TakeShrinks ==
    ASSUME IInv, Take
    PROVE  Shrinks /\ Around' = Around
<1> DEFINE h == Head(recvQueue)
<1>1. /\ pc = "take" /\ recvQueue # <<>> /\ packet' = h /\ recvQueue' = Tail(recvQueue)
      /\ recvQueue \in Seq(Packet)
  BY Parts DEF Take, CanTake, TypeOK
<1>2. packet = NoPacket
  BY <1>1, PacketFacts
<1>3. /\ Len(recvQueue) \in Nat \ {0} /\ DOMAIN recvQueue = 1..Len(recvQueue)
      /\ h = recvQueue[1] /\ h \in Packet
      /\ DOMAIN recvQueue' = 1..(Len(recvQueue) - 1)
      /\ \A i \in DOMAIN recvQueue' : recvQueue'[i] = recvQueue[i + 1]
  BY <1>1
<1>4. h \in Waiting /\ h # NoPacket
  BY <1>3, Outside DEF Waiting
<1>5. Waiting' = Waiting \ {h}
  <2>1. \A i \in DOMAIN recvQueue' : i + 1 \in DOMAIN recvQueue /\ i + 1 # 1
    BY <1>3
  <2>2. Waiting' \subseteq Waiting \ {h}
    BY <1>1, <1>3, <2>1, Parts DEF Waiting, Distinct
  <2>3. ASSUME NEW i \in DOMAIN recvQueue, i # 1
        PROVE  i - 1 \in DOMAIN recvQueue' /\ recvQueue'[i - 1] = recvQueue[i]
    BY <1>3, <2>3
  <2>4. Waiting \ {h} \subseteq Waiting'
    BY <1>3, <2>3 DEF Waiting
  <2> QED
    BY <2>2, <2>4
<1>6. Around' = Around
  BY <1>1, <1>2, <1>4, <1>5 DEF Around
<1>7. ASSUME NEW x \in Packet, NEW y \in Packet
      PROVE  Before(x, y)' <=> Before(x, y)
  <2> DEFINE Q  == \E i, j \in DOMAIN recvQueue : i < j /\ recvQueue[i] = x /\ recvQueue[j] = y
             R == \E i, j \in DOMAIN recvQueue' : i < j /\ recvQueue'[i] = x /\ recvQueue'[j] = y
  <2>1. Before(x, y) <=> Q
    BY <1>2, Outside DEF Before
  <2>2. Before(x, y)' <=> (x = h /\ y \in Waiting') \/ R
    BY <1>1, <1>4, Outside DEF Before
  <2>3. R => Q
    <3> SUFFICES ASSUME NEW i \in DOMAIN recvQueue', NEW j \in DOMAIN recvQueue', i < j,
                        recvQueue'[i] = x, recvQueue'[j] = y
                 PROVE  Q
      OBVIOUS
    <3>1. i + 1 \in DOMAIN recvQueue /\ j + 1 \in DOMAIN recvQueue /\ i + 1 < j + 1
      BY <1>3
    <3>2. recvQueue[i + 1] = x /\ recvQueue[j + 1] = y
      BY <1>3
    <3> QED
      BY <3>1, <3>2
  <2>4. x = h /\ y \in Waiting' => Q
    <3> SUFFICES ASSUME x = h, NEW j \in DOMAIN recvQueue', recvQueue'[j] = y
                 PROVE  Q
      BY DEF Waiting
    <3>1. 1 \in DOMAIN recvQueue /\ j + 1 \in DOMAIN recvQueue /\ 1 < j + 1
      BY <1>3
    <3>2. recvQueue[1] = x /\ recvQueue[j + 1] = y
      BY <1>3
    <3> QED
      BY <3>1, <3>2
  <2>5. Q => (x = h /\ y \in Waiting') \/ R
    <3> SUFFICES ASSUME NEW i \in DOMAIN recvQueue, NEW j \in DOMAIN recvQueue, i < j,
                        recvQueue[i] = x, recvQueue[j] = y
                 PROVE  (x = h /\ y \in Waiting') \/ R
      OBVIOUS
    <3>1. j - 1 \in DOMAIN recvQueue' /\ recvQueue'[j - 1] = y
      BY <1>3
    <3>2. CASE i = 1
      BY <1>3, <3>1, <3>2 DEF Waiting
    <3>3. CASE i # 1
      <4>1. i - 1 \in DOMAIN recvQueue' /\ recvQueue'[i - 1] = x /\ i - 1 < j - 1
        BY <1>3, <3>3
      <4> QED
        BY <3>1, <4>1
    <3> QED
      BY <3>2, <3>3
  <2> HIDE DEF Q, R
  <2> QED
    BY <2>1, <2>2, <2>3, <2>4, <2>5
<1> QED
  BY <1>6, <1>7, AroundFacts DEF Shrinks

\* A packet that is put at the tail comes after all others.
LEMMA QueueGrows ==
    ASSUME IInv, NEW p \in Packet, p \notin Waiting, recvQueue' = Append(recvQueue, p)
    PROVE  LET InQueue(x, y) == \E i, j \in DOMAIN recvQueue :
                                    i < j /\ recvQueue[i] = x /\ recvQueue[j] = y
           IN  /\ Waiting' = Waiting \cup {p}
               /\ \A x, y \in Packet :
                     InQueue(x, y)' <=> InQueue(x, y) \/ (x \in Waiting /\ y = p)
<1>1. recvQueue \in Seq(Packet)
  BY Parts DEF TypeOK
<1>2. /\ Len(recvQueue) \in Nat /\ DOMAIN recvQueue = 1..Len(recvQueue)
      /\ DOMAIN recvQueue' = 1..(Len(recvQueue) + 1)
      /\ \A i \in DOMAIN recvQueue : recvQueue'[i] = recvQueue[i]
      /\ recvQueue'[Len(recvQueue) + 1] = p
  BY <1>1
<1>3. Waiting' = Waiting \cup {p}
  BY <1>1, Parts, Appended DEF TypeOK
<1> DEFINE n == Len(recvQueue) + 1
<1>4. /\ DOMAIN recvQueue' = DOMAIN recvQueue \cup {n} /\ n \notin DOMAIN recvQueue
      /\ \A i \in DOMAIN recvQueue : i < n /\ ~(n < i)
      /\ ~(n < n)
  BY <1>2
<1>5. recvQueue'[n] = p
  BY <1>2
<1>6. \A i \in DOMAIN recvQueue : recvQueue'[i] = recvQueue[i]
  BY <1>2
<1> HIDE DEF n
<1>7. ASSUME NEW x \in Packet, NEW y \in Packet
      PROVE  (\E i, j \in DOMAIN recvQueue' : i < j /\ recvQueue'[i] = x /\ recvQueue'[j] = y)
             <=> \/ \E i, j \in DOMAIN recvQueue : i < j /\ recvQueue[i] = x /\ recvQueue[j] = y
                 \/ x \in Waiting /\ y = p
  BY <1>4, <1>5, <1>6 DEF Waiting
<1> QED
  BY <1>3, <1>7

LEMMA RequeueOrder ==
    ASSUME IInv, pc = "handle", Requeue, packet' = NoPacket
    PROVE  /\ Around' = Around
           /\ \A x, y \in Packet :
                 Before(x, y)' <=> (Before(x, y) /\ x # packet) \/ (x \in Waiting /\ y = packet)
<1> DEFINE Q(x, y) == \E i, j \in DOMAIN recvQueue : i < j /\ recvQueue[i] = x /\ recvQueue[j] = y
<1>1. /\ packet \in Packet /\ packet \notin Waiting /\ packet # NoPacket
      /\ recvQueue' = Append(recvQueue, packet)
  BY PacketFacts, Parts, Outside DEF Requeue
<1>2. /\ Waiting' = Waiting \cup {packet}
      /\ \A x, y \in Packet : Q(x, y)' <=> Q(x, y) \/ (x \in Waiting /\ y = packet)
  BY <1>1, QueueGrows
<1>3. \A x, y \in Packet : Q(x, y) => x \in Waiting
  BY DEF Waiting
<1>4. \A x, y \in Packet : Before(x, y) <=> (x = packet /\ y \in Waiting) \/ Q(x, y)
  BY <1>1 DEF Before
<1>5. \A x, y \in Packet : Before(x, y)' <=> Q(x, y)'
  BY Outside DEF Before
<1>6. Around' = Around
  BY <1>1, <1>2 DEF Around
<1> HIDE DEF Q
<1>7. ASSUME NEW x \in Packet, NEW y \in Packet
      PROVE  Before(x, y)' <=> (Before(x, y) /\ x # packet) \/ (x \in Waiting /\ y = packet)
  BY <1>1, <1>2, <1>3, <1>4, <1>5
<1> QED
  BY <1>6, <1>7

LEMMA ArrivalOrder ==
    ASSUME IInv, NEW p \in Packet, p \notin Around, recvQueue' = Append(recvQueue, p),
           packet' = packet
    PROVE  /\ Around' = Around \cup {p}
           /\ \A x, y \in Packet :
                 Before(x, y)' <=> Before(x, y) \/ (x \in Around /\ y = p)
<1> DEFINE Q(x, y) == \E i, j \in DOMAIN recvQueue : i < j /\ recvQueue[i] = x /\ recvQueue[j] = y
<1>1. p \notin Waiting /\ p # NoPacket
  BY Outside DEF Around
<1>2. /\ Waiting' = Waiting \cup {p}
      /\ \A x, y \in Packet : Q(x, y)' <=> Q(x, y) \/ (x \in Waiting /\ y = p)
  BY <1>1, QueueGrows
<1>3. \A x, y \in Packet : Before(x, y) <=> (x = packet /\ y \in Waiting) \/ Q(x, y)
  BY Outside DEF Before
<1>4. \A x, y \in Packet : Before(x, y)' <=> (x = packet /\ y \in Waiting') \/ Q(x, y)'
  BY Outside DEF Before
<1>5. Around' = Around \cup {p}
  BY <1>1, <1>2 DEF Around
<1>6. \A x \in Packet : x \in Around <=> x = packet \/ x \in Waiting
  BY Outside DEF Around
<1> HIDE DEF Q
<1>7. ASSUME NEW x \in Packet, NEW y \in Packet
      PROVE  Before(x, y)' <=> Before(x, y) \/ (x \in Around /\ y = p)
  BY <1>2, <1>3, <1>4, <1>6
<1> QED
  BY <1>5, <1>7

-----------------------------------------------------------------------------
(* The invariant behind ForTheRightCharacter. *)

Char(p) == sent[p].char
IsAuthed(p) == p \in Around /\ Status[Kind(p)] = "authed"
IsLogin(p) == p \in Around /\ Kind(p) = "login"

\* No packet sent for c makes the server forget the logout of c.
Remembered(c) == \A p \in 1..Len(sent) : Kind(p) \in Forgetful => Char(p) # c

\* The packets the property is about.
Loyal(p) == p \in Around /\ Status[Kind(p)] = "loggedin" /\ Remembered(Char(p))

\* A client asks for one character after the other.
CharsGrow ==
    /\ \A p \in 1..Len(sent) : Char(p) <= asked
    /\ \A p, r \in 1..Len(sent) :
          Kind(p) = "login" /\ Kind(r) = "login" /\ Char(p) = Char(r) => p = r

\* While a login is on its way nobody is there.
LoginsAreNew ==
    \A l \in Around : IsLogin(l) =>
        Char(l) = asked /\ player = "none" /\ ~screen /\ ~complete

\* The client is back at its screen because the server logged the player out.
ScreenIsEmpty ==
    /\ screen \/ complete => player = "none"
    /\ ~(screen /\ complete)
    /\ complete /\ Remembered(asked) => recently

LoadedIsAsked == player \in {"loading", "inworld", "transfer"} => char = asked

EnumAtScreen == \A p \in Around : Kind(p) = "enum" /\ Char(p) = asked => screen

\* Authed packets are never put back, so those sent before a login come before it.
AuthedInOrder ==
    \A p \in Around : IsAuthed(p) =>
        IF Char(p) = asked
        THEN Kind(p) # "login" => \A l \in Around : IsLogin(l) => ~Before(p, l)
        ELSE Char(p) + 1 = asked /\ \E l \in Around : IsLogin(l) /\ Before(p, l)

\* What clears m_playerRecentlyLogout comes after the packets of the character
\* that was logged out.
ClearedAfter ==
    \A e, p \in Around : Before(e, p) /\ Loyal(p) =>
        /\ Kind(e) = "enum" => Char(p) > Char(e)
        /\ Kind(e) = "login" => Char(p) >= Char(e)

LoyalIsYoung ==
    \A p \in Around : Loyal(p) =>
        \/ Char(p) = asked
        \/ Char(p) + 1 = asked /\ \E l \in Around : IsLogin(l)

\* A packet is for the character that is there or about to be, or is dropped.
LoyalOrDropped ==
    \A p \in Around : Loyal(p) =>
        \/ Char(p) = asked /\ ~screen /\ ~complete
        \/ recently /\ player = "none"

Right ==
    /\ CharsGrow /\ LoginsAreNew /\ ScreenIsEmpty /\ LoadedIsAsked /\ EnumAtScreen
    /\ AuthedInOrder /\ ClearedAfter /\ LoyalIsYoung /\ LoyalOrDropped

LEMMA CharFacts ==
    ASSUME IInv
    PROVE  /\ \A p \in 1..Len(sent) : Kind(p) \in Kinds /\ Char(p) \in Nat
           /\ asked \in Nat
<1> DEFINE S == [kind : Kinds, char : 0..MaxLogins]
<1>1. sent \in Seq(S) /\ asked \in Nat
  BY Parts DEF TypeOK
<1> HIDE DEF S
<1>2. \A p \in 1..Len(sent) : sent[p] \in S
  BY <1>1
<1> QED
  BY <1>1, <1>2 DEF S, Kind, Char

LEMMA StatusFacts ==
    /\ \A k \in DOMAIN Status : Status[k] = "loggedin" <=> k \in {"game", "place"}
    /\ \A k \in DOMAIN Status :
          Status[k] = "authed" <=> k \in {"enum", "data", "voice", "login", "warden"}
  BY DEF Status

LEMMA RightSuffices == IInv /\ Right => ForTheRightCharacter
<1> SUFFICES ASSUME IInv, Right, pc = "handle", Status[Kind(packet)] = "loggedin", Runs,
                    Remembered(Char(packet))
             PROVE  Char(packet) = char
  BY DEF ForTheRightCharacter, Remembered, Char
<1>1. Loyal(packet)
  BY AroundFacts DEF Loyal
<1>2. player = "inworld"
  BY DEF Runs
<1> QED
  BY <1>1, <1>2 DEF Right, LoyalOrDropped, LoadedIsAsked, Loyal

LEMMA InitRight == Init => Right
<1> SUFFICES ASSUME Init PROVE Right
  OBVIOUS
<1>1. Around = {} /\ 1..Len(sent) = {}
  BY DEF Init, Around, Waiting
<1> QED
  BY <1>1 DEF Init, Right, CharsGrow, LoginsAreNew, ScreenIsEmpty, LoadedIsAsked, EnumAtScreen,
     AuthedInOrder, ClearedAfter, LoyalIsYoung, LoyalOrDropped

LEMMA BeforeAround ==
    /\ \A x, y : Before(x, y) => x \in Around /\ y \in Around
    /\ \A x, y : Before(x, y)' => x \in Around' /\ y \in Around'
<1>1. \A x, y : Before(x, y) => x \in Around /\ y \in Around
  BY DEF Before, Around, Waiting
<1>2. \A x, y : Before(x, y)' => x \in Around' /\ y \in Around'
  BY DEF Before, Around, Waiting
<1> QED
  BY <1>1, <1>2

\* Packets that leave take nothing from the order of the others.
LEMMA OrderStays ==
    ASSUME IInv, Right, Shrinks, UNCHANGED <<sent, asked>>
    PROVE  CharsGrow' /\ AuthedInOrder' /\ ClearedAfter'
<1>1. /\ \A p : Kind(p)' = Kind(p) /\ Char(p)' = Char(p)
      /\ \A c : Remembered(c)' <=> Remembered(c)
  BY DEF Kind, Char, Remembered
<1>2. /\ Around' \subseteq Around /\ Around \subseteq Packet
      /\ \A x, y \in Packet : Before(x, y)' <=> Before(x, y) /\ x \in Around'
  BY AroundFacts DEF Shrinks
<1>3. CharsGrow'
  BY <1>1 DEF Right, CharsGrow
<1>4. AuthedInOrder'
  <2> SUFFICES ASSUME NEW p \in Around', IsAuthed(p)'
               PROVE  IF Char(p) = asked
                      THEN Kind(p) # "login" => \A l \in Around' : IsLogin(l)' => ~Before(p, l)'
                      ELSE Char(p) + 1 = asked /\ \E l \in Around' : IsLogin(l)' /\ Before(p, l)'
    BY <1>1 DEF AuthedInOrder
  <2>1. IsAuthed(p) /\ p \in Around
    BY <1>1, <1>2 DEF IsAuthed
  <2>2. CASE Char(p) = asked
    BY <1>1, <1>2, <2>1, <2>2 DEF Right, AuthedInOrder, IsLogin
  <2>3. CASE Char(p) # asked
    <3>1. Char(p) + 1 = asked /\ \E l \in Around : IsLogin(l) /\ Before(p, l)
      BY <2>1, <2>3 DEF Right, AuthedInOrder
    <3>2. \A l \in Around : Before(p, l) => Before(p, l)' /\ l \in Around'
      BY <1>2, <2>1, BeforeAround
    <3> QED
      BY <1>1, <2>3, <3>1, <3>2 DEF IsLogin
  <2> QED
    BY <2>2, <2>3
<1>5. ClearedAfter'
  <2> SUFFICES ASSUME NEW e \in Around', NEW p \in Around', Before(e, p)', Loyal(p)'
               PROVE  /\ Kind(e) = "enum" => Char(p) > Char(e)
                      /\ Kind(e) = "login" => Char(p) >= Char(e)
    BY <1>1 DEF ClearedAfter
  <2>1. Before(e, p) /\ Loyal(p)
    BY <1>1, <1>2 DEF Loyal
  <2> QED
    BY <1>2, <2>1 DEF Right, ClearedAfter
<1> QED
  BY <1>3, <1>4, <1>5

LEMMA PlayerRight ==
    ASSUME IInv, Right, Shrinks, UNCHANGED <<sent, asked, screen>>,
           \A l \in Around : IsLogin(l) => l \in Around',
           \/ UNCHANGED <<player, char, recently, complete>>
           \/ /\ player # "none"
              /\ player' = "none" \/ player \in {"loading", "inworld", "transfer"}
              /\ UNCHANGED <<char, recently, complete>>
           \/ HasPlayer /\ LogoutPlayer
    PROVE  Right'
<1>1. /\ \A p : Kind(p)' = Kind(p) /\ Char(p)' = Char(p)
      /\ \A c : Remembered(c)' <=> Remembered(c)
      /\ Around' \subseteq Around
      /\ \A p : IsLogin(p)' => IsLogin(p)
      /\ \A p : Loyal(p)' => Loyal(p)
  BY DEF Kind, Char, Remembered, Shrinks, IsLogin, Loyal
<1>2. CharsGrow' /\ AuthedInOrder' /\ ClearedAfter'
  BY OrderStays
<1>3. EnumAtScreen' /\ LoyalIsYoung'
  BY <1>1 DEF Right, EnumAtScreen, LoyalIsYoung, IsLogin
<1>4. CASE UNCHANGED <<player, char, recently, complete>>
  <2>1. LoginsAreNew' /\ LoyalOrDropped'
    BY <1>1, <1>4 DEF Right, LoginsAreNew, LoyalOrDropped
  <2>2. ScreenIsEmpty' /\ LoadedIsAsked'
    BY <1>1, <1>4 DEF Right, ScreenIsEmpty, LoadedIsAsked
  <2> QED
    BY <1>2, <1>3, <2>1, <2>2 DEF Right
<1>5. ASSUME player # "none"
      PROVE  /\ ~screen /\ ~complete /\ \A l \in Around : ~IsLogin(l)
             /\ \A p \in Around : Loyal(p) => Char(p) = asked
  BY <1>5 DEF Right, ScreenIsEmpty, LoginsAreNew, LoyalOrDropped
<1>6. CASE /\ player # "none"
           /\ player' = "none" \/ player \in {"loading", "inworld", "transfer"}
           /\ UNCHANGED <<char, recently, complete>>
  <2>1. LoginsAreNew' /\ LoyalOrDropped'
    BY <1>1, <1>5, <1>6 DEF LoginsAreNew, LoyalOrDropped
  <2>2. ScreenIsEmpty' /\ LoadedIsAsked'
    BY <1>1, <1>5, <1>6 DEF Right, ScreenIsEmpty, LoadedIsAsked
  <2> QED
    BY <1>2, <1>3, <2>1, <2>2 DEF Right
<1>7. CASE HasPlayer /\ LogoutPlayer
  <2>1. player # "none" /\ player' = "none" /\ recently' = TRUE /\ complete' = TRUE
    BY <1>7 DEF HasPlayer, LogoutPlayer
  <2>2. LoginsAreNew' /\ LoyalOrDropped'
    BY <1>1, <1>5, <2>1 DEF LoginsAreNew, LoyalOrDropped
  <2>3. ScreenIsEmpty' /\ LoadedIsAsked'
    BY <1>1, <1>5, <2>1 DEF Right, ScreenIsEmpty, LoadedIsAsked
  <2> QED
    BY <1>2, <1>3, <2>2, <2>3 DEF Right
<1> QED
  BY <1>4, <1>6, <1>7

\* The client learns of the logout.
LEMMA SeesLogoutRight ==
    ASSUME IInv, Right, ClientSeesLogout
    PROVE  Right'
<1>1. /\ complete /\ complete' = FALSE /\ screen' = TRUE
      /\ UNCHANGED <<sent, asked, recvQueue, packet, player, char, recently>>
  BY DEF ClientSeesLogout, queue, loop
<1>2. /\ \A p : Kind(p)' = Kind(p) /\ Char(p)' = Char(p)
      /\ \A c : Remembered(c)' <=> Remembered(c)
  BY <1>1 DEF Kind, Char, Remembered
<1>3. Shrinks /\ Around' = Around
  BY <1>1, StandShrinks
<1>4. \A p : (IsLogin(p)' <=> IsLogin(p)) /\ (Loyal(p)' <=> Loyal(p))
  BY <1>2, <1>3 DEF IsLogin, Loyal
<1>5. player = "none" /\ \A l \in Around : ~IsLogin(l)
  BY <1>1 DEF Right, ScreenIsEmpty, LoginsAreNew
<1>6. CharsGrow' /\ AuthedInOrder' /\ ClearedAfter'
  BY <1>1, <1>3, OrderStays
<1>7. LoginsAreNew' /\ LoyalOrDropped'
  BY <1>1, <1>2, <1>3, <1>4, <1>5 DEF Right, LoginsAreNew, LoyalOrDropped
<1>8. ScreenIsEmpty' /\ LoadedIsAsked' /\ EnumAtScreen'
  BY <1>1, <1>2, <1>5 DEF Right, ScreenIsEmpty, LoadedIsAsked, EnumAtScreen
<1>9. LoyalIsYoung'
  BY <1>1, <1>2, <1>3, <1>4 DEF Right, LoyalIsYoung
<1> QED
  BY <1>6, <1>7, <1>8, <1>9 DEF Right

\* A packet put back is for the character that was asked for, if it is loyal.
LEMMA RequeueRight ==
    ASSUME IInv, Right, HandleDelayed
    PROVE  Right'
<1>1. /\ pc = "handle" /\ packet' = NoPacket /\ Requeue /\ Delayed
      /\ UNCHANGED <<sent, asked, screen, player, char, recently, complete>>
  BY DEF HandleDelayed, Handling, state, client
<1>2. /\ \A p : Kind(p)' = Kind(p) /\ Char(p)' = Char(p)
      /\ \A c : Remembered(c)' <=> Remembered(c)
  BY <1>1 DEF Kind, Char, Remembered
<1>3. /\ Around' = Around /\ packet \in Around /\ Around \subseteq Packet
      /\ Around \subseteq 1..Len(sent)
      /\ \A x, y \in Packet :
            Before(x, y)' <=> (Before(x, y) /\ x # packet) \/ (x \in Waiting /\ y = packet)
  BY <1>1, RequeueOrder, AroundFacts
<1>4. \A p : /\ IsLogin(p)' <=> IsLogin(p)
             /\ Loyal(p)' <=> Loyal(p)
             /\ IsAuthed(p)' <=> IsAuthed(p)
  BY <1>2, <1>3 DEF IsLogin, Loyal, IsAuthed
<1>5. /\ Status[Kind(packet)] = "loggedin" /\ ~recently
      /\ ~IsAuthed(packet) /\ ~IsLogin(packet)
  <2>1. Status[Kind(packet)] = "loggedin" /\ ~recently
    BY <1>1 DEF Delayed
  <2>2. Kind(packet) # "login"
    BY <2>1 DEF Status
  <2> QED
    BY <2>1, <2>2 DEF IsAuthed, IsLogin
<1>6. CharsGrow' /\ LoginsAreNew' /\ ScreenIsEmpty' /\ LoadedIsAsked' /\ EnumAtScreen'
      /\ LoyalIsYoung' /\ LoyalOrDropped'
  <2>1. CharsGrow' /\ LoginsAreNew' /\ ScreenIsEmpty'
    BY <1>1, <1>2, <1>3, <1>4 DEF Right, CharsGrow, LoginsAreNew, ScreenIsEmpty
  <2>2. LoadedIsAsked' /\ EnumAtScreen'
    BY <1>1, <1>2, <1>3, <1>4 DEF Right, LoadedIsAsked, EnumAtScreen
  <2>3. LoyalIsYoung' /\ LoyalOrDropped'
    BY <1>1, <1>2, <1>3, <1>4 DEF Right, LoyalIsYoung, LoyalOrDropped
  <2> QED
    BY <2>1, <2>2, <2>3
<1>7. AuthedInOrder'
  <2> SUFFICES ASSUME NEW p \in Around, IsAuthed(p)
               PROVE  IF Char(p) = asked
                      THEN Kind(p) # "login" => \A l \in Around : IsLogin(l) => ~Before(p, l)'
                      ELSE Char(p) + 1 = asked /\ \E l \in Around : IsLogin(l) /\ Before(p, l)'
    BY <1>1, <1>2, <1>3, <1>4 DEF AuthedInOrder
  <2>1. p # packet /\ \A l \in Around : IsLogin(l) => (Before(p, l)' <=> Before(p, l))
    BY <1>3, <1>5
  <2> QED
    BY <2>1 DEF Right, AuthedInOrder
<1>8. ClearedAfter'
  <2> SUFFICES ASSUME NEW e \in Around, NEW p \in Around, Before(e, p)', Loyal(p)
               PROVE  /\ Kind(e) = "enum" => Char(p) > Char(e)
                      /\ Kind(e) = "login" => Char(p) >= Char(e)
    BY <1>2, <1>3, <1>4 DEF ClearedAfter
  <2>1. CASE Before(e, p)
    BY <2>1 DEF Right, ClearedAfter
  <2>2. CASE p = packet
    <3>1. Char(p) = asked /\ ~screen
      BY <1>5 DEF Right, LoyalOrDropped
    <3>2. Char(e) \in Nat /\ asked \in Nat /\ Char(e) <= asked
      BY <1>3, CharFacts DEF Right, CharsGrow
    <3>3. Kind(e) = "enum" => Char(e) # asked
      BY <3>1 DEF Right, EnumAtScreen
    <3> QED
      BY <3>1, <3>2, <3>3
  <2> QED
    BY <1>3, <2>1, <2>2
<1> QED
  BY <1>6, <1>7, <1>8 DEF Right

\* A handler of a STATUS_AUTHED packet finds no loyal packet left for which the
\* logout would have to be remembered.
LEMMA AuthedRight ==
    ASSUME IInv, Right, HandleAuthed
    PROVE  Right'
<1>1. /\ pc = "handle" /\ packet' = NoPacket /\ Discard
      /\ Status[Kind(packet)] = "authed" /\ Kind(packet) # "login"
      /\ recently' = RecentlyAfter(Kind(packet))
      /\ UNCHANGED <<sent, asked, screen, player, char, complete, recvQueue>>
  BY DEF HandleAuthed, Authed, Handling, client, Discard
<1>2. /\ \A p : Kind(p)' = Kind(p) /\ Char(p)' = Char(p)
      /\ \A c : Remembered(c)' <=> Remembered(c)
  BY <1>1 DEF Kind, Char, Remembered
<1>3. /\ Shrinks /\ Around' = Waiting /\ Around' = Around \ {packet}
      /\ packet \in Around /\ Around \subseteq Packet /\ Around \subseteq 1..Len(sent)
      /\ IsAuthed(packet) /\ packet # NoPacket
  BY <1>1, DiscardShrinks, AroundFacts DEF IsAuthed
<1>4. \A p : /\ IsLogin(p)' <=> IsLogin(p)
             /\ Loyal(p)' <=> Loyal(p) /\ p # packet
  BY <1>1, <1>2, <1>3 DEF IsLogin, Loyal
<1>5. \A p \in Around' : Before(packet, p)
  BY <1>3 DEF Before
<1>6. Kind(packet) \in {"enum", "voice"} \cup Forgetful
  <2>1. Kind(packet) \in DOMAIN Status
    BY <1>3, CharFacts, KindsAssumption
  <2> QED
    BY <1>1, <2>1, StatusFacts DEF Forgetful
<1>7. Kind(packet) \in Forgetful => ~Remembered(Char(packet))
  BY <1>3 DEF Remembered
<1>8. /\ \A p \in Around : Char(p) \in Nat /\ Char(p) <= asked
      /\ asked \in Nat
  BY <1>3, CharFacts DEF Right, CharsGrow
<1>9. Char(packet) = asked => \A l \in Around : ~IsLogin(l)
  BY <1>1, <1>3, <1>5 DEF Right, AuthedInOrder, IsLogin
<1>10. Char(packet) # asked => /\ Char(packet) + 1 = asked
                               /\ \E l \in Around : IsLogin(l)
  BY <1>3 DEF Right, AuthedInOrder
<1>11. CharsGrow' /\ AuthedInOrder' /\ ClearedAfter'
  BY <1>1, <1>3, OrderStays
<1>12. LoginsAreNew' /\ LoadedIsAsked' /\ EnumAtScreen'
  BY <1>1, <1>2, <1>3, <1>4 DEF Right, LoginsAreNew, LoadedIsAsked, EnumAtScreen
<1>13. LoyalIsYoung'
  BY <1>1, <1>2, <1>3, <1>4 DEF Right, LoyalIsYoung, IsLogin
<1>14. ScreenIsEmpty'
  <2>1. complete /\ Remembered(asked) => recently'
    <3> SUFFICES ASSUME complete, Remembered(asked) PROVE recently'
      OBVIOUS
    <3>1. recently /\ ~screen /\ \A l \in Around : ~IsLogin(l)
      BY DEF Right, ScreenIsEmpty, LoginsAreNew
    <3>2. Char(packet) = asked
      BY <1>10, <3>1
    <3>3. Kind(packet) = "voice"
      BY <1>3, <1>6, <1>7, <3>1, <3>2 DEF Right, EnumAtScreen
    <3> QED
      BY <1>1, <3>1, <3>3 DEF RecentlyAfter
  <2> QED
    BY <1>1, <1>2, <2>1 DEF Right, ScreenIsEmpty
<1>15. LoyalOrDropped'
  <2> SUFFICES ASSUME NEW p \in Around', Loyal(p)
               PROVE  \/ Char(p) = asked /\ ~screen /\ ~complete
                      \/ recently' /\ player = "none"
    BY <1>1, <1>2, <1>4 DEF LoyalOrDropped
  <2>1. \/ Char(p) = asked /\ ~screen /\ ~complete
        \/ recently /\ player = "none"
    BY <1>3 DEF Right, LoyalOrDropped
  <2>2. CASE Kind(packet) = "voice"
    BY <1>1, <2>1, <2>2 DEF RecentlyAfter
  <2>3. CASE Kind(packet) # "voice"
    <3>1. p \in Around /\ Before(packet, p) /\ Remembered(Char(p))
      BY <1>3, <1>5 DEF Loyal
    <3>2. Kind(packet) = "enum" => Char(p) > Char(packet)
      BY <1>3, <3>1 DEF Right, ClearedAfter
    <3>3. Char(p) # Char(packet)
      BY <1>3, <1>6, <1>7, <1>8, <2>3, <3>1, <3>2
    <3>4. Char(packet) # asked
      <4> SUFFICES ASSUME Char(packet) = asked PROVE FALSE
        OBVIOUS
      <4>1. Char(p) = asked
        BY <1>9, <3>1 DEF Right, LoyalIsYoung
      <4> QED
        BY <3>3, <4>1
    <3>5. Char(p) = asked
      <4>1. Char(p) = asked \/ Char(p) + 1 = asked
        BY <3>1 DEF Right, LoyalIsYoung
      <4> QED
        BY <1>3, <1>8, <1>10, <3>1, <3>3, <3>4, <4>1
    <3>6. ~screen /\ ~complete
      BY <1>10, <3>4 DEF Right, LoginsAreNew
    <3> QED
      BY <3>5, <3>6
  <2> QED
    BY <2>2, <2>3
<1> QED
  BY <1>11, <1>12, <1>13, <1>14, <1>15 DEF Right

\* When a login is handled the packets of the character before are gone.
LEMMA LoginRight ==
    ASSUME IInv, Right, HandleLogin
    PROVE  Right'
<1>1. /\ pc = "handle" /\ packet' = NoPacket /\ Kind(packet) = "login"
      /\ recently' = FALSE
      /\ UNCHANGED <<sent, asked, screen, complete, recvQueue>>
  BY DEF HandleLogin, Authed, Handling, client, Discard, RecentlyAfter
<1>2. /\ \A p : Kind(p)' = Kind(p) /\ Char(p)' = Char(p)
      /\ \A c : Remembered(c)' <=> Remembered(c)
  BY <1>1 DEF Kind, Char, Remembered
<1>3. /\ Shrinks /\ Around' = Waiting /\ Around' = Around \ {packet}
      /\ packet \in Around /\ Around \subseteq Packet /\ Around \subseteq 1..Len(sent)
      /\ packet # NoPacket
  BY <1>1, DiscardShrinks, AroundFacts
<1>4. IsLogin(packet) /\ Char(packet) = asked /\ player = "none" /\ ~screen /\ ~complete
  BY <1>1, <1>3 DEF IsLogin, Right, LoginsAreNew
<1>5. \A l \in Around' : ~IsLogin(l)'
  <2> SUFFICES ASSUME NEW l \in Around', IsLogin(l)' PROVE FALSE
    OBVIOUS
  <2>1. l \in Around /\ IsLogin(l) /\ l # packet
    BY <1>2, <1>3 DEF IsLogin
  <2>2. Char(l) = asked
    BY <2>1 DEF Right, LoginsAreNew
  <2> QED
    BY <1>1, <1>3, <1>4, <2>1, <2>2 DEF Right, CharsGrow, IsLogin
<1>6. \A p \in Around' : Loyal(p)' => Char(p) = asked
  <2> SUFFICES ASSUME NEW p \in Around', Loyal(p)' PROVE Char(p) = asked
    OBVIOUS
  <2>1. p \in Around /\ Loyal(p) /\ Before(packet, p)
    BY <1>2, <1>3 DEF Loyal, Before
  <2>2. Char(p) >= Char(packet)
    BY <1>1, <1>3, <2>1 DEF Right, ClearedAfter
  <2>3. Char(p) <= asked /\ Char(p) \in Nat /\ asked \in Nat
    BY <1>3, <2>1, CharFacts DEF Right, CharsGrow
  <2> QED
    BY <1>4, <2>2, <2>3
<1>7. CharsGrow' /\ AuthedInOrder' /\ ClearedAfter'
  BY <1>1, <1>3, OrderStays
<1>8. LoginsAreNew' /\ ScreenIsEmpty' /\ EnumAtScreen'
  BY <1>1, <1>2, <1>3, <1>4, <1>5 DEF Right, LoginsAreNew, ScreenIsEmpty, EnumAtScreen
<1>9. LoadedIsAsked'
  <2>1. player' \in {"none", "loading", "refused"} /\ (player' = "loading" => char' = Char(packet))
    BY <1>4 DEF HandleLogin, Char
  <2> QED
    BY <1>1, <1>4, <2>1 DEF LoadedIsAsked
<1>10. LoyalIsYoung' /\ LoyalOrDropped'
  BY <1>1, <1>2, <1>4, <1>6 DEF LoyalIsYoung, LoyalOrDropped
<1> QED
  BY <1>7, <1>8, <1>9, <1>10 DEF Right

\* What arrives is for the character the client asked for last.
LEMMA ArrivalRight ==
    ASSUME IInv, Right, NEW k \in Kinds, QueuePacket(k)
    PROVE  Right'
<1>0. PICK n \in Packet, c \in Nat :
          n = Len(sent) + 1 /\ c = IF k = "login" THEN asked + 1 ELSE asked
  <2>1. Len(sent) + 1 \in Packet /\ asked \in Nat
    BY Parts, BoundsAssumption DEF QueuePacket, TypeOK, Packet
  <2> QED
    BY <2>1
<1>1. /\ sent' = Append(sent, [kind |-> k, char |-> c]) /\ asked' = c
      /\ k \in (IF screen THEN AtScreen ELSE InWorld)
      /\ screen' = (screen /\ k # "login") /\ Len(sent) < MaxPackets
      /\ recvQueue' = Append(recvQueue, Len(sent'))
      /\ UNCHANGED <<packet, player, char, recently, complete>>
  BY <1>0 DEF QueuePacket, loop, state
<1>2. /\ Len(sent) \in Nat /\ Len(sent') = n /\ n \notin 1..Len(sent)
      /\ sent'[n] = [kind |-> k, char |-> c]
      /\ \A p \in 1..Len(sent) : sent'[p] = sent[p]
      /\ 1..n = 1..Len(sent) \cup {n}
  <2>1. Len(sent) \in Nat /\ Len(sent') = n
    BY <1>0, <1>1, Parts DEF TypeOK
  <2>2. sent'[n] = [kind |-> k, char |-> c] /\ \A p \in 1..Len(sent) : sent'[p] = sent[p]
    BY <1>0, <1>1, Parts DEF TypeOK
  <2>3. n \notin 1..Len(sent) /\ 1..n = 1..Len(sent) \cup {n}
    BY <1>0, <2>1
  <2> QED
    BY <2>1, <2>2, <2>3
<1>3. /\ Around \subseteq 1..Len(sent) /\ Around \subseteq Packet /\ n \notin Around
      /\ \A p \in 1..Len(sent) : Char(p) \in Nat
      /\ asked \in Nat
  BY <1>2, AroundFacts, CharFacts
<1>4. /\ Kind(n)' = k /\ Char(n)' = c
      /\ \A p \in 1..Len(sent) : Kind(p)' = Kind(p) /\ Char(p)' = Char(p)
  BY <1>2 DEF Kind, Char
<1>5. /\ Around' = Around \cup {n}
      /\ \A x, y \in Packet : Before(x, y)' <=> Before(x, y) \/ (x \in Around /\ y = n)
  BY <1>1, <1>2, <1>3, ArrivalOrder
<1>6. /\ \A d : Remembered(d)' => Remembered(d)
      /\ k \in Forgetful => ~Remembered(c)'
  <2>1. \A p \in 1..Len(sent) : p \in 1..n
    BY <1>2
  <2>2. n \in 1..n
    BY <1>2
  <2>3. \A d : Remembered(d)' => Remembered(d)
    BY <1>2, <1>4, <2>1 DEF Remembered
  <2>4. k \in Forgetful => ~Remembered(c)'
    BY <1>2, <1>4, <2>2 DEF Remembered
  <2> QED
    BY <2>3, <2>4
<1>7. \A p \in Around : /\ IsLogin(p)' <=> IsLogin(p)
                        /\ IsAuthed(p)' <=> IsAuthed(p)
                        /\ Loyal(p)' => Loyal(p)
  BY <1>3, <1>4, <1>5, <1>6 DEF IsLogin, IsAuthed, Loyal
<1>8. /\ Before(n, n)' <=> FALSE
      /\ \A x \in Around : ~Before(n, x)'
      /\ \A x \in Around : Before(x, n)'
      /\ \A x, y \in Around : Before(x, y)' <=> Before(x, y)
  BY <1>2, <1>3, <1>5, BeforeAround
<1>9. \A p \in 1..Len(sent) : Char(p) <= asked
  BY DEF Right, CharsGrow
<1>10. CharsGrow'
  <2>1. \A p \in 1..Len(sent) : Char(p) <= c
    BY <1>0, <1>3, <1>9
  <2>2. k = "login" => \A p \in 1..Len(sent) : Char(p) # c
    BY <1>0, <1>3, <1>9
  <2>3. c <= c
    BY <1>3
  <2>4. \A p \in 1..n : Char(p)' <= asked'
    BY <1>1, <1>2, <1>4, <2>1, <2>3
  <2>5. ASSUME NEW p \in 1..n, NEW r \in 1..n, Kind(p)' = "login", Kind(r)' = "login",
               Char(p)' = Char(r)'
        PROVE  p = r
    <3>1. CASE p = n \/ r = n
      BY <1>2, <1>4, <2>2, <2>5, <3>1
    <3>2. CASE p # n /\ r # n
      BY <1>2, <1>4, <2>5, <3>2 DEF Right, CharsGrow
    <3> QED
      BY <3>1, <3>2
  <2> QED
    BY <1>2, <2>4, <2>5 DEF CharsGrow
<1>11. CASE k = "login"
  <2>1. screen /\ screen' = FALSE /\ c = asked + 1
    BY <1>0, <1>1, <1>11 DEF InWorld
  <2>2. player = "none" /\ ~complete /\ \A l \in Around : ~IsLogin(l)
    BY <2>1 DEF Right, ScreenIsEmpty, LoginsAreNew
  <2>3. IsLogin(n)' /\ ~Loyal(n)'
    BY <1>4, <1>5, <1>11 DEF IsLogin, Loyal, Status
  <2>4. LoginsAreNew' /\ ScreenIsEmpty' /\ LoadedIsAsked'
    BY <1>1, <1>4, <1>5, <1>7, <2>1, <2>2 DEF LoginsAreNew, ScreenIsEmpty, LoadedIsAsked
  <2>5. EnumAtScreen'
    BY <1>1, <1>3, <1>4, <1>5, <1>9, <1>11, <2>1 DEF EnumAtScreen
  <2>6. AuthedInOrder'
    <3>1. ASSUME NEW p \in Around, IsAuthed(p)'
          PROVE  Char(p)' # asked' /\ Char(p)' + 1 = asked' /\ IsLogin(n)' /\ Before(p, n)'
      <4>1. Char(p) = asked
        BY <1>7, <2>2, <3>1 DEF Right, AuthedInOrder
      <4> QED
        BY <1>1, <1>3, <1>4, <1>8, <2>1, <2>3, <4>1
    <3>2. Char(n)' = asked' /\ Kind(n)' = "login"
      BY <1>1, <1>4, <1>11
    <3> QED
      BY <1>5, <3>1, <3>2 DEF AuthedInOrder
  <2>7. ClearedAfter'
    BY <1>3, <1>4, <1>5, <1>7, <1>8, <2>3 DEF Right, ClearedAfter
  <2>8. LoyalIsYoung'
    <3>1. ASSUME NEW p \in Around, Loyal(p)' PROVE Char(p)' + 1 = asked'
      BY <1>1, <1>3, <1>4, <1>7, <2>1, <2>2, <3>1 DEF Right, LoyalIsYoung
    <3> QED
      BY <1>5, <2>3, <3>1 DEF LoyalIsYoung
  <2>9. LoyalOrDropped'
    BY <1>1, <1>5, <1>7, <2>1, <2>3 DEF Right, LoyalOrDropped
  <2> QED
    BY <1>10, <2>4, <2>5, <2>6, <2>7, <2>8, <2>9 DEF Right
<1>12. CASE k # "login"
  <2>1. asked' = asked /\ (screen' <=> screen) /\ Char(n)' = asked
    BY <1>0, <1>1, <1>4, <1>12
  <2>2. ~IsLogin(n)'
    BY <1>4, <1>12 DEF IsLogin
  <2>3. k = "enum" => screen
    BY <1>1 DEF InWorld
  <2>4. Loyal(n)' => ~screen /\ Remembered(asked)'
    <3>1. k \in AtScreen => Status[k] = "authed"
      BY DEF AtScreen, Status
    <3> QED
      BY <1>1, <1>4, <2>1, <3>1 DEF Loyal
  <2>5. LoginsAreNew' /\ ScreenIsEmpty' /\ LoadedIsAsked' /\ EnumAtScreen'
    <3>1. LoginsAreNew'
      BY <1>1, <1>3, <1>4, <1>5, <1>7, <2>1, <2>2 DEF Right, LoginsAreNew
    <3>2. ScreenIsEmpty' /\ LoadedIsAsked'
      BY <1>1, <1>6, <2>1 DEF Right, ScreenIsEmpty, LoadedIsAsked
    <3>3. EnumAtScreen'
      BY <1>3, <1>4, <1>5, <2>1, <2>3 DEF Right, EnumAtScreen
    <3> QED
      BY <3>1, <3>2, <3>3
  <2>6. AuthedInOrder'
    <3>1. ASSUME NEW p \in Around, IsAuthed(p)'
          PROVE  IF Char(p)' = asked'
                 THEN Kind(p)' # "login" => \A l \in Around' : IsLogin(l)' => ~Before(p, l)'
                 ELSE Char(p)' + 1 = asked' /\ \E l \in Around' : IsLogin(l)' /\ Before(p, l)'
      <4>1. IF Char(p) = asked
            THEN Kind(p) # "login" => \A l \in Around : IsLogin(l) => ~Before(p, l)
            ELSE Char(p) + 1 = asked /\ \E l \in Around : IsLogin(l) /\ Before(p, l)
        BY <1>7, <3>1 DEF Right, AuthedInOrder
      <4> QED
        BY <1>3, <1>4, <1>5, <1>7, <1>8, <2>1, <2>2, <4>1
    <3>2. \A l \in Around' : IsLogin(l)' => ~Before(n, l)'
      BY <1>5, <1>8, <2>2
    <3> QED
      BY <1>5, <2>1, <3>1, <3>2 DEF AuthedInOrder
  <2>7. ClearedAfter'
    <3>1. ASSUME NEW e \in Around, NEW p \in Around, Before(e, p)', Loyal(p)'
          PROVE  /\ Kind(e)' = "enum" => Char(p)' > Char(e)'
                 /\ Kind(e)' = "login" => Char(p)' >= Char(e)'
      BY <1>3, <1>4, <1>7, <1>8, <3>1 DEF Right, ClearedAfter
    <3>2. ASSUME NEW e \in Around, Loyal(n)'
          PROVE  /\ Kind(e)' = "enum" => Char(n)' > Char(e)'
                 /\ Kind(e)' = "login" => Char(n)' >= Char(e)'
      <4>1. Kind(e) = "enum" => Char(e) # asked
        BY <2>4, <3>2 DEF Right, EnumAtScreen
      <4> QED
        BY <1>3, <1>4, <1>9, <2>1, <4>1
    <3> QED
      BY <1>5, <1>8, <3>1, <3>2 DEF ClearedAfter
  <2>8. LoyalIsYoung'
    BY <1>3, <1>4, <1>5, <1>7, <2>1 DEF Right, LoyalIsYoung
  <2>9. LoyalOrDropped'
    <3>1. Loyal(n)' => \/ Char(n)' = asked' /\ ~screen' /\ ~complete'
                       \/ recently' /\ player' = "none"
      BY <1>1, <1>6, <2>1, <2>4 DEF Right, ScreenIsEmpty
    <3> QED
      BY <1>1, <1>3, <1>4, <1>5, <1>7, <2>1, <3>1 DEF Right, LoyalOrDropped
  <2> QED
    BY <1>10, <2>5, <2>6, <2>7, <2>8, <2>9 DEF Right
<1> QED
  BY <1>11, <1>12

LEMMA DeleteRight ==
    ASSUME IInv, Right, DeleteSession
    PROVE  Right'
<1>1. /\ pc = "callbacks" /\ recvQueue' = <<>> /\ packet' = packet /\ player' = "none"
      /\ UNCHANGED <<sent, asked, screen, complete, char, recently>>
  BY DEF DeleteSession, client
<1>2. Around' = {}
  BY <1>1, PacketFacts DEF Around, Waiting
<1>3. CharsGrow'
  BY <1>1 DEF Right, CharsGrow, Kind, Char
<1>4. ScreenIsEmpty' /\ LoadedIsAsked'
  BY <1>1 DEF Right, ScreenIsEmpty, LoadedIsAsked, Remembered, Kind, Char
<1> QED
  BY <1>2, <1>3, <1>4 DEF Right, LoginsAreNew, EnumAtScreen, AuthedInOrder, ClearedAfter,
     LoyalIsYoung, LoyalOrDropped

\* The other packets are handled or dropped.
LEMMA HandledRight ==
    ASSUME IInv, Right, HandleDropped \/ HandleGame \/ HandleCancel \/ HandleWorldportAck
    PROVE  Right'
<1>1. /\ pc = "handle" /\ packet' = NoPacket /\ recvQueue' = recvQueue
      /\ UNCHANGED <<sent, asked, screen>>
  BY DEF HandleDropped, HandleGame, HandleCancel, HandleWorldportAck, Handling, client, Discard
<1>2. Shrinks /\ Around' = Around \ {packet}
  BY <1>1, DiscardShrinks
<1>3. Kind(packet) # "login"
  <2> SUFFICES ASSUME Kind(packet) = "login" PROVE FALSE
    OBVIOUS
  <2>1. Status[Kind(packet)] = "authed"
    BY DEF Status
  <2>2. Runs
    BY <2>1 DEF Runs
  <2> QED
    BY <2>1, <2>2 DEF HandleDropped, HandleGame, HandleCancel, HandleWorldportAck
<1>4. \A l \in Around : IsLogin(l) => l \in Around'
  BY <1>2, <1>3 DEF IsLogin
<1>5. \/ UNCHANGED <<player, char, recently, complete>>
      \/ /\ player # "none"
         /\ player' = "none" \/ player \in {"loading", "inworld", "transfer"}
         /\ UNCHANGED <<char, recently, complete>>
      \/ HasPlayer /\ LogoutPlayer
  <2>1. CASE HandleDropped \/ HandleCancel
    BY <2>1 DEF HandleDropped, HandleCancel, state
  <2>2. CASE HandleGame
    <3>1. player = "inworld"
      BY <2>2 DEF HandleGame, Runs
    <3> QED
      BY <2>2, <3>1 DEF HandleGame, HasPlayer, state
  <2>3. CASE HandleWorldportAck
    <3>1. player = "transfer"
      BY <2>3 DEF HandleWorldportAck, Runs
    <3> QED
      BY <2>3, <3>1 DEF HandleWorldportAck, HasPlayer
  <2> QED
    BY <2>1, <2>2, <2>3
<1> QED
  BY <1>1, <1>2, <1>4, <1>5, PlayerRight

LEMMA OtherRight ==
    ASSUME IInv, Right,
           \/ BeginUpdate \/ NoMapUpdate \/ EndLoop \/ EndUpdate \/ HandlePlayerLogin
           \/ TimedLogout \/ TeleportTo \/ SocketClose \/ UNCHANGED vars
    PROVE  Right'
<1>1. UNCHANGED <<recvQueue, packet, sent, asked, screen>>
  BY DEF BeginUpdate, NoMapUpdate, EndLoop, EndUpdate, HandlePlayerLogin, TimedLogout,
         TeleportTo, SocketClose, queue, loop, client, vars
<1>2. Shrinks /\ Around' = Around
  BY <1>1, StandShrinks
<1>3. \/ UNCHANGED <<player, char, recently, complete>>
      \/ /\ player # "none"
         /\ player' = "none" \/ player \in {"loading", "inworld", "transfer"}
         /\ UNCHANGED <<char, recently, complete>>
      \/ HasPlayer /\ LogoutPlayer
  BY DEF BeginUpdate, NoMapUpdate, EndLoop, EndUpdate, HandlePlayerLogin, TimedLogout,
         TeleportTo, SocketClose, state, vars
<1> QED
  BY <1>1, <1>2, <1>3, PlayerRight

LEMMA NextRight == IInv /\ Right /\ [Next]_vars => Right'
<1> SUFFICES ASSUME IInv, Right, [Next]_vars PROVE Right'
  OBVIOUS
<1>1. CASE Take
  <2>1. UNCHANGED <<sent, asked, screen, player, char, recently, complete>>
    BY <1>1 DEF Take, state, client
  <2> QED
    BY <1>1, <2>1, TakeShrinks, PlayerRight
<1>2. CASE Handle
  BY <1>2, RequeueRight, HandledRight, AuthedRight, LoginRight DEF Handle
<1>3. CASE DeleteSession
  BY <1>3, DeleteRight
<1>4. ASSUME NEW k \in Kinds, QueuePacket(k) PROVE Right'
  BY <1>4, ArrivalRight
<1>5. CASE ClientSeesLogout
  BY <1>5, SeesLogoutRight
<1> QED
  BY <1>1, <1>2, <1>3, <1>4, <1>5, OtherRight DEF Next, UpdateNext, ClientNext

\* No packet sent to one character is handled for another, however long it was
\* on its way, put back or overtaken by logouts and logins, unless the client
\* itself made the server forget the logout.
THEOREM RightCharacter == Spec => []ForTheRightCharacter
<1>1. Init => Right
  BY InitRight
<1>2. IInv /\ Right /\ [Next]_vars => Right'
  BY NextRight
<1>3. IInv /\ Right => ForTheRightCharacter
  BY RightSuffices
<1> QED
  BY <1>1, <1>2, <1>3, Invariant, PTL DEF Spec
=============================================================================

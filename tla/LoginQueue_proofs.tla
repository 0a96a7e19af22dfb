-------------------------- MODULE LoginQueue_proofs --------------------------
(***************************************************************************)
(* Proofs about LoginQueue, for any number of sessions and accounts and    *)
(* any limit: the types, the soundness of the session map and of both      *)
(* queues, that no free place is wasted while sessions wait, that nobody   *)
(* overtakes, that the limit holds and that waiting leaves no trace.       *)
(***************************************************************************)
EXTENDS LoginQueue, FiniteSetTheorems, TLAPS

-----------------------------------------------------------------------------
(* The waiting list as a sequence without repetitions. *)

Distinct(q) == \A i, j \in DOMAIN q : i # j => q[i] # q[j]

\* Taking one entry out of a list keeps the others, in order and distinct
\* (m_QueuedPlayer.erase).
LEMMA EraseProperties ==
    ASSUME NEW q \in Seq(Session), NEW s \in Session, Found(q, s)
    PROVE  /\ Erase(q, s) \in Seq(Session)
           /\ Len(Erase(q, s)) = Len(q) - 1
           /\ Members(Erase(q, s)) \subseteq Members(q)
           /\ Distinct(q) => Distinct(Erase(q, s)) /\ s \notin Members(Erase(q, s))
<1> DEFINE i == CHOOSE i \in DOMAIN q : q[i] = s
           r == [j \in 1 .. Len(q) - 1 |-> IF j < i THEN q[j] ELSE q[j + 1]]
<1>1. i \in DOMAIN q /\ q[i] = s
  BY DEF Found, Members
<1>2. /\ Len(q) \in Nat /\ i \in 1 .. Len(q) /\ DOMAIN q = 1 .. Len(q)
      /\ \A j \in 1 .. Len(q) : q[j] \in Session
  BY <1>1
<1>3. Erase(q, s) = r
  BY DEF Erase
<1> HIDE DEF i
<1>4. \A j \in 1 .. Len(q) - 1 : r[j] \in Session
  BY <1>2
<1>5. r \in Seq(Session) /\ Len(r) = Len(q) - 1 /\ DOMAIN r = 1 .. Len(q) - 1
  <2>1. Len(q) - 1 \in Nat
    BY <1>2
  <2>2. r \in [1 .. Len(q) - 1 -> Session]
    BY <1>4
  <2> QED
    BY <2>1, <2>2
<1>6. \A j \in DOMAIN r : \E k \in DOMAIN q : k # i /\ r[j] = q[k]
  BY <1>2, <1>5
<1>7. Members(r) \subseteq Members(q)
  BY <1>6 DEF Members
<1>8. ASSUME Distinct(q)
      PROVE  Distinct(r) /\ s \notin Members(r)
  <2>1. s \notin Members(r)
    BY <1>1, <1>6, <1>8 DEF Members, Distinct
  <2>2. Distinct(r)
    BY <1>2, <1>5, <1>8 DEF Distinct
  <2> QED
    BY <2>1, <2>2
<1> QED
  BY <1>3, <1>5, <1>7, <1>8

\* Tail of a list, for the head that is admitted (pop_front).
LEMMA TailProperties ==
    ASSUME NEW q \in Seq(Session), q # <<>>
    PROVE  /\ Tail(q) \in Seq(Session)
           /\ Len(Tail(q)) = Len(q) - 1
           /\ Members(Tail(q)) \subseteq Members(q)
           /\ Distinct(q) => Distinct(Tail(q)) /\ Head(q) \notin Members(Tail(q))
<1>1. /\ Tail(q) \in Seq(Session) /\ Len(Tail(q)) = Len(q) - 1
      /\ Len(q) \in Nat /\ Len(q) > 0 /\ DOMAIN q = 1 .. Len(q) /\ Head(q) = q[1]
      /\ DOMAIN Tail(q) = 1 .. Len(q) - 1
      /\ \A j \in 1 .. Len(q) - 1 : Tail(q)[j] = q[j + 1]
  OBVIOUS
<1>2. \A j \in DOMAIN Tail(q) : j + 1 \in DOMAIN q /\ j + 1 # 1 /\ Tail(q)[j] = q[j + 1]
  BY <1>1
<1>3. Members(Tail(q)) \subseteq Members(q)
  BY <1>2 DEF Members
<1>4. ASSUME Distinct(q)
      PROVE  Distinct(Tail(q)) /\ Head(q) \notin Members(Tail(q))
  <2>1. Distinct(Tail(q))
    BY <1>1, <1>2, <1>4 DEF Distinct
  <2>2. 1 \in DOMAIN q
    BY <1>1
  <2>3. Head(q) \notin Members(Tail(q))
    BY <1>1, <1>2, <1>4, <2>2 DEF Distinct, Members
  <2> QED
    BY <2>1, <2>3
<1> QED
  BY <1>1, <1>3, <1>4

\* Appending an entry (push_back).
LEMMA AppendProperties ==
    ASSUME NEW q \in Seq(Session), NEW s \in Session
    PROVE  /\ Append(q, s) \in Seq(Session)
           /\ Len(Append(q, s)) = Len(q) + 1
           /\ Append(q, s) # <<>>
           /\ Members(Append(q, s)) = Members(q) \cup {s}
           /\ Distinct(q) /\ s \notin Members(q) => Distinct(Append(q, s))
<1> DEFINE r == Append(q, s)
<1>1. /\ r \in Seq(Session) /\ Len(r) = Len(q) + 1 /\ Len(q) \in Nat
      /\ DOMAIN q = 1 .. Len(q) /\ DOMAIN r = 1 .. Len(q) + 1
      /\ \A j \in 1 .. Len(q) : r[j] = q[j]
      /\ r[Len(q) + 1] = s
  OBVIOUS
<1> HIDE DEF r
<1>2. Members(r) = Members(q) \cup {s}
  BY <1>1 DEF Members
<1>3. ASSUME Distinct(q), s \notin Members(q)
      PROVE  Distinct(r)
  BY <1>1, <1>3 DEF Distinct, Members
<1>4. r # <<>>
  BY <1>1
<1> QED
  BY <1>1, <1>2, <1>3, <1>4 DEF r

\* RemoveQueuedPlayer shortens the list to a distinct part of it without s.
LEMMA RemovalProperties ==
    ASSUME NEW q \in Seq(Session), Distinct(q), NEW s \in Session, NEW n
    PROVE  /\ AfterRemoval(q, n, s) \in Seq(Session)
           /\ Distinct(AfterRemoval(q, n, s))
           /\ Members(AfterRemoval(q, n, s)) \subseteq Members(q) \ {s}
<1> DEFINE rest == Without(q, s)
<1>1. rest \in Seq(Session) /\ Distinct(rest) /\ Members(rest) \subseteq Members(q) \ {s}
  BY EraseProperties DEF Without, Found
<1> HIDE DEF rest
<1>2. rest # <<>> => /\ Tail(rest) \in Seq(Session) /\ Distinct(Tail(rest))
                     /\ Members(Tail(rest)) \subseteq Members(rest)
  BY <1>1, TailProperties
<1>3. AfterRemoval(q, n, s) \in {rest} \cup (IF rest # <<>> THEN {Tail(rest)} ELSE {})
  BY DEF AfterRemoval, rest
<1> QED
  BY <1>1, <1>2, <1>3

-----------------------------------------------------------------------------
(* The inductive invariant: the types, and QueueSound with the queues taken  *)
(* as sets of sessions without repetitions.                                  *)

Incoming == \A s \in Members(addSessQueue) :
                account[s] \in Account /\ sessions[account[s]] # s

Enlisted == \A s \in Members(queued) :
                account[s] \in Account /\ sessions[account[s]] = s

Sound ==
    /\ RegisteredSound /\ TodoSound
    /\ Distinct(addSessQueue) /\ Distinct(queued)
    /\ Incoming /\ Enlisted

IInv == TypeOK /\ Sound

LEMMA NoneOutside == NoSession \notin Session /\ NoAccount \notin Account
  BY SessionAssumption, AccountAssumption

LEMMA SoundImplies == IInv => QueueSound
<1> SUFFICES ASSUME IInv PROVE QueueSound
  OBVIOUS
<1>1. WaitingSound
  BY NoneOutside DEF IInv, Sound, Enlisted, Distinct, Members, WaitingSound
<1>2. IncomingSound
  BY NoneOutside DEF IInv, Sound, Incoming, Distinct, Members, IncomingSound
<1> QED
  BY <1>1, <1>2 DEF IInv, Sound, QueueSound

LEMMA InitSound == Init => IInv
<1> SUFFICES ASSUME Init PROVE IInv
  OBVIOUS
<1>1. TypeOK
  BY LimitAssumption, TimeOutAssumption DEF Init, TypeOK, Phases
<1>2. Members(addSessQueue) = {} /\ Members(queued) = {}
  BY DEF Init, Members
<1>3. Distinct(addSessQueue) /\ Distinct(queued)
  BY DEF Init, Distinct
<1> QED
  BY <1>1, <1>2, <1>3
  DEF IInv, Sound, Init, RegisteredSound, TodoSound, Incoming, Enlisted

\* What the steps of the network threads, the commands and the ends of the
\* phases leave alone is all Sound speaks of.
LEMMA FrameSound ==
    ASSUME IInv, TypeOK',
           UNCHANGED <<account, sessions, addSessQueue>>,
           queued' = queued \/ queued' = <<>>,
           TodoSound'
    PROVE  IInv'
<1>1. Distinct(queued') /\ Members(queued') \subseteq Members(queued)
  BY DEF IInv, Sound, Distinct, Members
<1> QED
  BY <1>1 DEF IInv, Sound, RegisteredSound, Incoming, Enlisted, Distinct, Members

\* A session that appears is in no list: an unallocated object is registered
\* nowhere.
LEMMA ConnectSound ==
    ASSUME IInv, NEW s \in Session, NEW a \in Account, Connect(s, a)
    PROVE  IInv'
<1> USE NoneOutside
<1>1. s \notin Members(addSessQueue) /\ \A x \in Account : sessions[x] # s
  BY DEF IInv, Sound, Incoming, RegisteredSound, Connect
<1>2. /\ addSessQueue' \in Seq(Session)
      /\ Members(addSessQueue') = Members(addSessQueue) \cup {s}
      /\ Distinct(addSessQueue')
  BY <1>1, AppendProperties DEF Connect, IInv, TypeOK, Sound
<1>3. TypeOK'
  BY <1>2 DEF Connect, ctl, TypeOK, IInv
<1>4. RegisteredSound' /\ TodoSound'
  BY <1>1 DEF Connect, ctl, IInv, TypeOK, Sound, RegisteredSound, TodoSound
<1>5. s \notin Members(queued)
  BY DEF IInv, Sound, Enlisted, Connect
<1>6. Distinct(queued') /\ Enlisted'
  BY <1>5 DEF Connect, IInv, TypeOK, Sound, Enlisted, Distinct, Members
<1>7. Incoming'
  BY <1>1, <1>2 DEF Connect, IInv, TypeOK, Sound, Incoming
<1> QED
  BY <1>2, <1>3, <1>4, <1>6, <1>7 DEF IInv, Sound

\* The head of addSessQueue is an allocated session of an account, and it is
\* neither registered nor queued, nor in the rest of the list.
LEMMA HeadFacts ==
    ASSUME IInv, addSessQueue # <<>>
    PROVE  LET s == Head(addSessQueue)
           IN  /\ s \in Session /\ account[s] \in Account
               /\ \A x \in Account : sessions[x] # s
               /\ s \notin Members(queued)
               /\ Tail(addSessQueue) \in Seq(Session) /\ Distinct(Tail(addSessQueue))
               /\ Members(Tail(addSessQueue)) \subseteq Members(addSessQueue) \ {s}
<1> DEFINE s == Head(addSessQueue)
<1>1. s \in Session /\ s \in Members(addSessQueue)
  <2>1. addSessQueue \in Seq(Session)
    BY DEF IInv, TypeOK
  <2>2. 1 \in DOMAIN addSessQueue /\ s = addSessQueue[1] /\ s \in Session
    BY <2>1
  <2> QED
    BY <2>2 DEF Members
<1>2. account[s] \in Account /\ sessions[account[s]] # s
  BY <1>1 DEF IInv, Sound, Incoming
<1>3. \A x \in Account : sessions[x] # s
  BY <1>1, <1>2, NoneOutside DEF IInv, Sound, RegisteredSound
<1>4. s \notin Members(queued)
  BY <1>2 DEF IInv, Sound, Enlisted
<1>5. /\ Tail(addSessQueue) \in Seq(Session) /\ Distinct(Tail(addSessQueue))
      /\ Members(Tail(addSessQueue)) \subseteq Members(addSessQueue) \ {s}
  BY TailProperties DEF IInv, TypeOK, Sound
<1> QED
  BY <1>1, <1>2, <1>3, <1>4, <1>5

\* A deletion keeps the types of the fields it writes.
LEMMA DeleteTypes ==
    ASSUME TypeOK, NEW d, NEW q, Delete(d, q)
    PROVE  /\ account' \in [Session -> Account \cup {NoAccount}]
           /\ closed' \in [Session -> BOOLEAN]
           /\ loading' \in [Session -> BOOLEAN]
           /\ timeOut' \in [Session -> 0..TimeOut]
  BY TimeOutAssumption DEF TypeOK, Delete

LEMMA RejectSound ==
    ASSUME IInv, RejectSession
    PROVE  IInv'
<1> USE NoneOutside
<1> DEFINE s == Head(addSessQueue)
<1>1. /\ s \in Session /\ \A x \in Account : sessions[x] # s
      /\ s \notin Members(queued)
      /\ Tail(addSessQueue) \in Seq(Session) /\ Distinct(Tail(addSessQueue))
      /\ Members(Tail(addSessQueue)) \subseteq Members(addSessQueue) \ {s}
  BY HeadFacts DEF RejectSession
<1>2. /\ Delete(s, queued) /\ addSessQueue' = Tail(addSessQueue)
      /\ UNCHANGED <<inQueue, sessions, queued, disconnects, playerLimit, phase, todo, stopping>>
  BY DEF RejectSession, ctl
<1> HIDE DEF s
<1>3. TypeOK'
  BY <1>1, <1>2, DeleteTypes DEF IInv, TypeOK
<1>4. \A x \in Session : x # s => account'[x] = account[x]
  BY <1>2 DEF Delete
<1>5. RegisteredSound' /\ TodoSound'
  BY <1>1, <1>2, <1>4 DEF IInv, TypeOK, Sound, RegisteredSound, TodoSound
<1>6. Members(queued) \subseteq Session /\ Members(addSessQueue) \subseteq Session
  BY DEF IInv, TypeOK, Members
<1>7. Enlisted' /\ Distinct(queued')
  BY <1>1, <1>2, <1>4, <1>6 DEF IInv, Sound, Enlisted, Distinct, Members
<1>8. Members(addSessQueue') = Members(Tail(addSessQueue)) /\ Distinct(addSessQueue')
  BY <1>1, <1>2 DEF Members, Distinct
<1>9. Incoming'
  BY <1>1, <1>2, <1>4, <1>6, <1>8 DEF IInv, Sound, Incoming
<1> QED
  BY <1>3, <1>5, <1>7, <1>8, <1>9 DEF IInv, Sound

\* The old session of an account is registered; no other session of either
\* list belongs to that account.
LEMMA OldFacts ==
    ASSUME IInv, NEW a \in Account, sessions[a] # NoSession
    PROVE  /\ sessions[a] \in Session /\ account[sessions[a]] = a
           /\ sessions[a] \notin Members(addSessQueue)
           /\ \A x \in Members(queued) : x # sessions[a] => account[x] # a
           /\ \A b \in Account : b # a => sessions[b] # sessions[a]
<1>1. sessions[a] \in Session /\ account[sessions[a]] = a
  BY DEF IInv, TypeOK, Sound, RegisteredSound
<1>2. sessions[a] \notin Members(addSessQueue)
  BY <1>1 DEF IInv, Sound, Incoming
<1>3. \A x \in Members(queued) : x # sessions[a] => account[x] # a
  BY DEF IInv, Sound, Enlisted
<1>4. \A b \in Account : b # a => sessions[b] # sessions[a]
  BY <1>1 DEF IInv, Sound, RegisteredSound
<1> QED
  BY <1>1, <1>2, <1>3, <1>4

\* The list after the old session was taken out of it.
LEMMA QueueWithoutOldFacts ==
    ASSUME IInv, NEW a \in Account
    PROVE  LET rest == QueueWithoutOld(sessions[a])
           IN  /\ rest \in Seq(Session) /\ Distinct(rest)
               /\ Members(rest) \subseteq Members(queued)
               /\ \A x \in Members(rest) : account[x] \in Account /\ account[x] # a
                                           /\ x # sessions[a]
                                           /\ sessions[account[x]] = x
<1>1. queued \in Seq(Session) /\ Distinct(queued) /\ Enlisted
  BY DEF IInv, TypeOK, Sound
<1>2. CASE sessions[a] = NoSession
  <2>1. QueueWithoutOld(sessions[a]) = queued
    BY <1>2 DEF QueueWithoutOld
  <2>2. \A x \in Members(queued) : x \in Session
    BY <1>1 DEF Members
  <2> QED
    BY <1>1, <1>2, <2>1, <2>2, NoneOutside DEF Enlisted
<1>3. CASE sessions[a] # NoSession
  <2>1. QueueWithoutOld(sessions[a]) = AfterRemoval(queued, SessionCount(sessions), sessions[a])
    BY <1>3 DEF QueueWithoutOld
  <2>2. sessions[a] \in Session /\ \A x \in Members(queued) : x # sessions[a] => account[x] # a
    BY <1>3, OldFacts
  <2>3. /\ QueueWithoutOld(sessions[a]) \in Seq(Session)
        /\ Distinct(QueueWithoutOld(sessions[a]))
        /\ Members(QueueWithoutOld(sessions[a])) \subseteq Members(queued) \ {sessions[a]}
    BY <1>1, <2>1, <2>2, RemovalProperties
  <2> QED
    BY <1>1, <2>2, <2>3 DEF Enlisted
<1> QED
  BY <1>2, <1>3

LEMMA AddSound ==
    ASSUME IInv, AddSession
    PROVE  IInv'
<1> USE NoneOutside
<1> DEFINE s == Head(addSessQueue)
           a == account[s]
           old == sessions[a]
           rest == QueueWithoutOld(old)
           wait == MustQueue(a, old, [sessions EXCEPT ![a] = s])
<1>1. /\ s \in Session /\ a \in Account
      /\ \A x \in Account : sessions[x] # s
      /\ s \notin Members(queued)
      /\ Tail(addSessQueue) \in Seq(Session) /\ Distinct(Tail(addSessQueue))
      /\ Members(Tail(addSessQueue)) \subseteq Members(addSessQueue) \ {s}
  BY HeadFacts DEF AddSession
<1>2. /\ Delete(old, rest)
      /\ sessions' = [sessions EXCEPT ![a] = s]
      /\ queued' = IF wait THEN Append(rest, s) ELSE rest
      /\ inQueue' = [x \in Session |-> IF x = s THEN wait ELSE StillWaits(x, old, rest)]
      /\ addSessQueue' = Tail(addSessQueue)
      /\ phase = "add"
      /\ UNCHANGED <<disconnects, playerLimit, phase, todo, stopping>>
  BY DEF AddSession, ctl
<1>3. /\ rest \in Seq(Session) /\ Distinct(rest) /\ Members(rest) \subseteq Members(queued)
      /\ \A x \in Members(rest) : account[x] \in Account /\ account[x] # a
                                  /\ x # old /\ sessions[account[x]] = x
  BY <1>1, QueueWithoutOldFacts
<1>4. wait \in BOOLEAN
  BY DEF MustQueue
<1>5. \A x \in Session : StillWaits(x, old, rest) \in BOOLEAN
  BY DEF StillWaits, IInv, TypeOK
<1>6. /\ old = NoSession \/ old \in Session
      /\ old \notin Members(addSessQueue)
      /\ \A b \in Account : b # a /\ sessions[b] # NoSession => sessions[b] # old
  <2>1. CASE old = NoSession
    <3>1. Members(addSessQueue) \subseteq Session
      BY DEF IInv, TypeOK, Members
    <3> QED
      BY <2>1, <3>1
  <2>2. CASE old # NoSession
    BY <1>1, <2>2, OldFacts
  <2> QED
    BY <2>1, <2>2
<1> HIDE DEF rest, wait
<1>7. /\ queued' \in Seq(Session) /\ Distinct(queued')
      /\ Members(queued') \subseteq Members(rest) \cup {s}
  BY <1>1, <1>2, <1>3, <1>4, AppendProperties
<1>8. \A x \in Session : x # old => account'[x] = account[x]
  BY <1>2 DEF Delete
<1>9. s # old
  BY <1>1
<1>10. TypeOK'
  <2>1. sessions' \in [Account -> Session \cup {NoSession}]
    BY <1>1, <1>2 DEF IInv, TypeOK
  <2>2. inQueue' \in [Session -> BOOLEAN]
    BY <1>2, <1>4, <1>5
  <2> QED
    BY <1>1, <1>2, <1>7, <2>1, <2>2, DeleteTypes DEF IInv, TypeOK
<1>11. RegisteredSound'
  <2> SUFFICES ASSUME NEW b \in Account, sessions'[b] # NoSession
               PROVE  account'[sessions'[b]] = b
    BY DEF RegisteredSound
  <2>1. CASE b = a
    BY <1>1, <1>2, <1>8, <1>9, <2>1 DEF IInv, TypeOK
  <2>2. CASE b # a
    <3>1. sessions'[b] = sessions[b] /\ sessions[b] # old /\ sessions[b] \in Session
      BY <1>1, <1>2, <1>6, <2>2 DEF IInv, TypeOK
    <3> QED
      BY <1>8, <3>1 DEF IInv, Sound, RegisteredSound
  <2> QED
    BY <2>1, <2>2
<1>12. TodoSound'
  BY <1>2 DEF TodoSound
<1>13. Enlisted'
  <2> SUFFICES ASSUME NEW x \in Members(queued')
               PROVE  account'[x] \in Account /\ sessions'[account'[x]] = x
    BY DEF Enlisted, Members
  <2>1. CASE x = s
    BY <1>1, <1>2, <1>8, <1>9, <2>1 DEF IInv, TypeOK
  <2>2. CASE x \in Members(rest)
    <3>1. x \in Session
      BY <1>3, <2>2 DEF Members
    <3> QED
      BY <1>2, <1>3, <1>8, <2>2, <3>1 DEF IInv, TypeOK
  <2> QED
    BY <1>7, <2>1, <2>2
<1>14. Incoming' /\ Distinct(addSessQueue')
  <2>1. Distinct(addSessQueue')
    BY <1>1, <1>2
  <2> SUFFICES ASSUME NEW x \in Members(addSessQueue')
               PROVE  account'[x] \in Account /\ sessions'[account'[x]] # x
    BY <2>1 DEF Incoming, Members
  <2>2. x \in Members(addSessQueue) /\ x # s
    BY <1>1, <1>2
  <2>3. x \in Session /\ x # old
    BY <1>6, <2>2 DEF IInv, TypeOK, Members
  <2> QED
    BY <1>1, <1>2, <1>8, <2>2, <2>3 DEF IInv, TypeOK, Sound, Incoming
<1> QED
  BY <1>7, <1>10, <1>11, <1>12, <1>13, <1>14 DEF IInv, Sound

LEMMA RemoveSound ==
    ASSUME IInv, NEW a \in Account, RemoveClosed(a)
    PROVE  IInv'
<1> USE NoneOutside
<1> DEFINE s == sessions[a]
           once == AfterRemoval(queued, SessionCount(sessions), s)
           twice == AfterRemoval(once, SessionCount(sessions), s)
<1>1. /\ phase = "update" /\ a \in todo
      /\ Delete(s, twice)
      /\ queued' = twice
      /\ inQueue' = [x \in Session |-> StillWaits(x, s, twice)]
      /\ disconnects' = IF Tolerance /\ ~Found(queued, s)
                        THEN disconnects \cup {a} ELSE disconnects
      /\ sessions' = [sessions EXCEPT ![a] = NoSession]
      /\ todo' = todo \ {a}
      /\ UNCHANGED <<addSessQueue, playerLimit, phase, stopping>>
  BY DEF RemoveClosed
<1>2. s # NoSession
  BY <1>1 DEF IInv, Sound, TodoSound
<1>3. /\ s \in Session /\ account[s] = a /\ s \notin Members(addSessQueue)
      /\ \A x \in Members(queued) : x # s => account[x] # a
      /\ \A b \in Account : b # a => sessions[b] # s
  BY <1>2, OldFacts
<1>4. once \in Seq(Session) /\ Distinct(once) /\ Members(once) \subseteq Members(queued) \ {s}
  BY <1>3, RemovalProperties DEF IInv, TypeOK, Sound
<1> HIDE DEF once
<1>5. twice \in Seq(Session) /\ Distinct(twice) /\ Members(twice) \subseteq Members(queued) \ {s}
  BY <1>3, <1>4, RemovalProperties
<1>6. \A x \in Session : StillWaits(x, s, twice) \in BOOLEAN
  BY DEF StillWaits, IInv, TypeOK
<1> HIDE DEF twice
<1>7. \A x \in Session : x # s => account'[x] = account[x]
  BY <1>1 DEF Delete
<1>8. TypeOK'
  <2>1. /\ sessions' \in [Account -> Session \cup {NoSession}]
        /\ inQueue' \in [Session -> BOOLEAN]
        /\ disconnects' \subseteq Account
        /\ todo' \subseteq Account
    BY <1>1, <1>6 DEF IInv, TypeOK
  <2> QED
    BY <1>1, <1>5, <2>1, DeleteTypes DEF IInv, TypeOK
<1>9. RegisteredSound' /\ TodoSound'
  BY <1>1, <1>3, <1>7 DEF IInv, TypeOK, Sound, RegisteredSound, TodoSound
<1>10. Members(queued) \subseteq Session /\ Members(addSessQueue) \subseteq Session
  BY DEF IInv, TypeOK, Members
<1>11. \A x \in Members(twice) : account'[x] \in Account /\ sessions'[account'[x]] = x
  BY <1>1, <1>3, <1>5, <1>7, <1>10 DEF IInv, TypeOK, Sound, Enlisted
<1>12. Enlisted' /\ Distinct(queued')
  BY <1>1, <1>5, <1>11 DEF Enlisted, Members, Distinct
<1>13. \A x \in Members(addSessQueue) : account'[x] \in Account /\ sessions'[account'[x]] # x
  BY <1>1, <1>3, <1>7, <1>10 DEF IInv, TypeOK, Sound, Incoming
<1>14. Incoming' /\ Distinct(addSessQueue')
  BY <1>1, <1>13 DEF IInv, Sound, Incoming, Members, Distinct
<1> QED
  BY <1>8, <1>9, <1>12, <1>14 DEF IInv, Sound

\* The steps that leave the map and addSessQueue alone.
LEMMA FrameSteps ==
    ASSUME IInv,
           \/ \E s \in Session : SocketClose(s) \/ Receive(s)
           \/ EndAdd \/ EndUpdate \/ NextTick \/ KickAll
           \/ \E a \in Account : UpdateSession(a)
           \/ CommandNext
    PROVE  IInv'
<1> USE DEF IInv, TypeOK
<1>1. CASE \E s \in Session : SocketClose(s)
  BY <1>1, FrameSound DEF SocketClose, world, ctl, Sound, TodoSound
<1>2. CASE \E s \in Session : Receive(s)
  BY <1>2, FrameSound, TimeOutAssumption DEF Receive, world, ctl, Sound, TodoSound
<1>3. CASE EndAdd
  BY <1>3, FrameSound DEF EndAdd, heap, world, Phases, TodoSound, Keys
<1>4. CASE EndUpdate
  BY <1>4, FrameSound DEF EndUpdate, heap, world, Phases, TodoSound
<1>5. CASE NextTick
  BY <1>5, FrameSound DEF NextTick, heap, world, Phases, TodoSound
<1>6. CASE KickAll
  <2>1. queued' \in Seq(Session) /\ queued' = <<>>
    BY <1>6 DEF KickAll
  <2>2. closed' \in [Session -> BOOLEAN]
    BY <1>6 DEF KickAll
  <2>3. TypeOK' /\ TodoSound'
    BY <1>6, <2>1, <2>2 DEF KickAll, Phases, TodoSound
  <2> QED
    BY <1>6, <2>1, <2>3, FrameSound DEF KickAll
<1>7. ASSUME NEW a \in Account, UpdateSession(a)
      PROVE  IInv'
  <2>1. \A x \in Session : Elapsed(x) \in 0..TimeOut
    BY TimeOutAssumption DEF Elapsed
  <2>2. TypeOK'
    BY <1>7, <2>1 DEF UpdateSession, world
  <2>3. TodoSound'
    BY <1>7 DEF UpdateSession, world, Sound, TodoSound
  <2> QED
    BY <1>7, <2>2, <2>3, FrameSound DEF UpdateSession, world
<1>8. CASE CommandNext
  <2>1. CASE Stop
    BY <2>1, FrameSound DEF Stop, heap, world, Sound, TodoSound
  <2>2. CASE \E n \in Limits : SetPlayerAmountLimit(n)
    BY <2>2, FrameSound, LimitAssumption
    DEF SetPlayerAmountLimit, heap, ctl, Sound, TodoSound
  <2>3. CASE KickAllLess
    <3>1. closed' \in [Session -> BOOLEAN]
      BY <2>3 DEF KickAllLess
    <3> QED
      BY <2>3, <3>1, FrameSound DEF KickAllLess, world, ctl, Sound, TodoSound
  <2> QED
    BY <1>8, <2>1, <2>2, <2>3 DEF CommandNext
<1> QED
  BY <1>1, <1>2, <1>3, <1>4, <1>5, <1>6, <1>7, <1>8

LEMMA NextSound == IInv /\ [Next]_vars => IInv'
<1> SUFFICES ASSUME IInv, [Next]_vars PROVE IInv'
  OBVIOUS
<1>1. CASE NetworkNext
  BY <1>1, ConnectSound, FrameSteps DEF NetworkNext
<1>2. CASE WorldNext
  BY <1>2, RejectSound, AddSound, RemoveSound, FrameSteps DEF WorldNext
<1>3. CASE CommandNext
  BY <1>3, FrameSteps
<1>4. CASE UNCHANGED vars
  <2>1. TypeOK' /\ TodoSound'
    BY <1>4 DEF vars, heap, world, ctl, IInv, Sound, TypeOK, TodoSound
  <2> QED
    BY <1>4, <2>1, FrameSound DEF vars, heap, world, ctl
<1> QED
  BY <1>1, <1>2, <1>3, <1>4 DEF Next

\* The invariant holds in every reachable state.
THEOREM Invariant == Spec => []IInv
<1>1. Init => IInv
  BY InitSound
<1>2. IInv /\ [Next]_vars => IInv'
  BY NextSound
<1> QED
  BY <1>1, <1>2, PTL DEF Spec

\* Every variable keeps its type: no index out of a list, no time-out below 0,
\* no account of an object that is not allocated in the map.
THEOREM TypeCorrect == Spec => []TypeOK
<1>1. IInv => TypeOK
  BY DEF IInv
<1> QED
  BY <1>1, Invariant, PTL

\* No pointer to a deleted session is left in the map or in a queue, whatever
\* the number of sessions and however they come, reconnect and leave.
THEOREM QueueIsSound == Spec => []QueueSound
  BY SoundImplies, Invariant, PTL

-----------------------------------------------------------------------------
(* No free place is wasted while sessions wait. *)

\* m_sessions.size() when an account gets or loses its session.
LEMMA CountProperties ==
    ASSUME NEW map \in [Account -> Session \cup {NoSession}]
    PROVE  /\ SessionCount(map) \in Nat
           /\ \A a \in Account, s \in Session :
                SessionCount([map EXCEPT ![a] = s]) =
                    IF map[a] = NoSession THEN SessionCount(map) + 1 ELSE SessionCount(map)
           /\ \A a \in Account : map[a] # NoSession =>
                SessionCount([map EXCEPT ![a] = NoSession]) = SessionCount(map) - 1
<1>1. IsFiniteSet(Keys(map))
  BY AccountAssumption, FS_Subset DEF Keys
<1>2. SessionCount(map) \in Nat
  BY <1>1, FS_CardinalityType DEF SessionCount
<1>3. ASSUME NEW a \in Account, NEW s \in Session
      PROVE  SessionCount([map EXCEPT ![a] = s]) =
                 IF map[a] = NoSession THEN SessionCount(map) + 1 ELSE SessionCount(map)
  <2>1. Keys([map EXCEPT ![a] = s]) = Keys(map) \cup {a}
    BY <1>3, NoneOutside DEF Keys
  <2>2. a \in Keys(map) <=> map[a] # NoSession
    BY DEF Keys
  <2> QED
    BY <1>1, <2>1, <2>2, FS_AddElement DEF SessionCount
<1>4. ASSUME NEW a \in Account, map[a] # NoSession
      PROVE  SessionCount([map EXCEPT ![a] = NoSession]) = SessionCount(map) - 1
  <2>1. Keys([map EXCEPT ![a] = NoSession]) = Keys(map) \ {a}
    BY DEF Keys
  <2>2. a \in Keys(map)
    BY <1>4 DEF Keys
  <2> QED
    BY <1>1, <2>1, <2>2, FS_RemoveElement DEF SessionCount
<1> QED
  BY <1>2, <1>3, <1>4

\* RemoveQueuedPlayer when the places are all taken: n sessions are registered
\* and at least playerLimit of them out of the queue.  A session that waited
\* makes room for nobody; one that was served, for the head of the queue
\* unless the limit is exceeded already.
LEMMA RemovalCounts ==
    ASSUME NEW q \in Seq(Session), NEW s \in Session, NEW n \in Nat,
           playerLimit \in Nat, playerLimit > 0,
           q # <<>> => n - Len(q) >= playerLimit
    PROVE  LET r == AfterRemoval(q, n, s)
           IN  /\ r \in Seq(Session)
               /\ Found(q, s) => Len(r) = Len(q) - 1
               /\ ~Found(q, s) /\ q # <<>> =>
                    IF n - Len(q) = playerLimit THEN Len(r) = Len(q) - 1 ELSE r = q
               /\ q = <<>> => r = <<>>
<1> DEFINE r == AfterRemoval(q, n, s)
<1>1. Len(q) \in Nat /\ (q = <<>> <=> Len(q) = 0)
  OBVIOUS
<1>2. CASE Found(q, s)
  <2>1. q # <<>>
    BY <1>2 DEF Found, Members
  <2>2. Without(q, s) = Erase(q, s) /\ ~HasRoom(q, n, s)
    BY <1>1, <1>2, <2>1 DEF Without, HasRoom, StillActive
  <2>3. r = Erase(q, s)
    BY <2>2 DEF AfterRemoval
  <2> QED
    BY <1>2, <2>1, <2>3, EraseProperties
<1>3. CASE ~Found(q, s) /\ q # <<>>
  <2>1. Without(q, s) = q
    BY <1>3 DEF Without
  <2>2. HasRoom(q, n, s) <=> n - Len(q) = playerLimit
    BY <1>1, <1>3 DEF HasRoom, StillActive
  <2>3. r = IF n - Len(q) = playerLimit THEN Tail(q) ELSE q
    BY <1>3, <2>1, <2>2 DEF AfterRemoval
  <2> QED
    BY <1>3, <2>3, TailProperties
<1>4. CASE q = <<>>
  <2>1. ~Found(q, s)
    BY <1>4 DEF Found, Members
  <2>2. r = <<>>
    BY <1>4, <2>1 DEF AfterRemoval, Without
  <2> QED
    BY <1>4, <2>1, <2>2
<1> QED
  BY <1>2, <1>3, <1>4

LEMMA AddKeepsCapacityUsed ==
    ASSUME IInv, AddSession, CapacityUsed
    PROVE  CapacityUsed'
<1> DEFINE s == Head(addSessQueue)
           a == account[s]
           old == sessions[a]
           map == [sessions EXCEPT ![a] = s]
           n == SessionCount(sessions)
           rest == QueueWithoutOld(old)
           wait == MustQueue(a, old, map)
<1>1. s \in Session /\ a \in Account
  BY HeadFacts DEF AddSession
<1>2. /\ sessions' = map /\ playerLimit' = playerLimit
      /\ queued' = IF wait THEN Append(rest, s) ELSE rest
  BY DEF AddSession
<1>3. /\ sessions \in [Account -> Session \cup {NoSession}]
      /\ queued \in Seq(Session) /\ playerLimit \in Nat /\ Len(queued) \in Nat
      /\ queued = <<>> <=> Len(queued) = 0
  BY DEF IInv, TypeOK
<1>4. n \in Nat /\ SessionCount(map) = IF old = NoSession THEN n + 1 ELSE n
  BY <1>1, <1>3, CountProperties
<1>5. queued # <<>> => playerLimit > 0 /\ n - Len(queued) >= playerLimit
  BY DEF CapacityUsed, ActiveCount
<1>6. wait => /\ playerLimit > 0
              /\ IF old # NoSession /\ Found(queued, old) THEN SessionCount(map) >= playerLimit
                 ELSE SessionCount(map) - 1 >= playerLimit
  BY DEF MustQueue, CountedSessions
<1>7. rest \in Seq(Session)
  BY <1>1, QueueWithoutOldFacts
<1>8. Len(rest) \in Nat /\ (rest = <<>> <=> Len(rest) = 0)
  BY <1>7
<1>9. Len(Append(rest, s)) = Len(rest) + 1
  BY <1>1, <1>7, AppendProperties
<1>10. old # NoSession => old \in Session /\ rest = AfterRemoval(queued, n, old)
  BY <1>1, <1>3 DEF QueueWithoutOld
<1>11. old = NoSession => rest = queued
  BY DEF QueueWithoutOld
<1> HIDE DEF s, a, old, map, n, rest, wait
<1> SUFFICES ASSUME queued' # <<>>
             PROVE  playerLimit > 0 /\ SessionCount(map) - Len(queued') >= playerLimit
  BY <1>2 DEF CapacityUsed, ActiveCount
<1>12. Len(queued') = IF wait THEN Len(rest) + 1 ELSE Len(rest)
  BY <1>2, <1>9
<1>13. ~wait => rest # <<>>
  BY <1>2
<1>14. CASE old = NoSession
  BY <1>3, <1>4, <1>5, <1>6, <1>11, <1>12, <1>13, <1>14
<1>15. CASE old # NoSession /\ playerLimit > 0
  <2>1. /\ Found(queued, old) => Len(rest) = Len(queued) - 1
        /\ ~Found(queued, old) /\ queued # <<>> =>
             IF n - Len(queued) = playerLimit THEN Len(rest) = Len(queued) - 1
             ELSE rest = queued
        /\ queued = <<>> => rest = <<>>
    BY <1>3, <1>4, <1>5, <1>10, <1>15, RemovalCounts
  <2>2. Found(queued, old) => queued # <<>>
    BY DEF Found, Members
  <2>3. CASE Found(queued, old)
    BY <1>3, <1>4, <1>5, <1>6, <1>8, <1>12, <1>13, <1>15, <2>1, <2>2, <2>3
  <2>4. CASE ~Found(queued, old) /\ queued # <<>>
    BY <1>3, <1>4, <1>5, <1>6, <1>8, <1>12, <1>13, <1>15, <2>1, <2>4
  <2>5. CASE queued = <<>>
    <3>1. wait /\ ~Found(queued, old)
      BY <1>13, <2>1, <2>2, <2>5
    <3> QED
      BY <1>3, <1>4, <1>6, <1>8, <1>12, <1>15, <2>1, <2>5, <3>1
  <2> QED
    BY <2>3, <2>4, <2>5
<1>16. CASE old # NoSession /\ playerLimit = 0
  <2>1. queued = <<>> /\ ~wait
    BY <1>3, <1>5, <1>6, <1>16
  <2>2. rest = <<>>
    <3>1. ~Found(queued, old)
      BY <2>1 DEF Found, Members
    <3> QED
      BY <1>10, <1>16, <2>1, <3>1 DEF AfterRemoval, Without
  <2> QED
    BY <1>13, <2>1, <2>2
<1> QED
  BY <1>3, <1>14, <1>15, <1>16

LEMMA RemoveKeepsCapacityUsed ==
    ASSUME IInv, NEW a \in Account, RemoveClosed(a), CapacityUsed
    PROVE  CapacityUsed'
<1> DEFINE s == sessions[a]
           n == SessionCount(sessions)
           once == AfterRemoval(queued, n, s)
           twice == AfterRemoval(once, n, s)
<1>1. /\ sessions' = [sessions EXCEPT ![a] = NoSession]
      /\ queued' = twice /\ playerLimit' = playerLimit
  BY DEF RemoveClosed
<1>2. /\ sessions \in [Account -> Session \cup {NoSession}]
      /\ queued \in Seq(Session) /\ playerLimit \in Nat /\ Len(queued) \in Nat
      /\ queued = <<>> <=> Len(queued) = 0
  BY DEF IInv, TypeOK
<1>3. s # NoSession /\ s \in Session
  BY <1>2 DEF RemoveClosed, IInv, Sound, TodoSound
<1>4. n \in Nat /\ SessionCount(sessions') = n - 1
  BY <1>1, <1>2, <1>3, CountProperties
<1>5. queued # <<>> => playerLimit > 0 /\ n - Len(queued) >= playerLimit
  BY DEF CapacityUsed, ActiveCount
<1>6. Distinct(queued)
  BY DEF IInv, Sound
<1>7. once \in Seq(Session) /\ s \notin Members(once)
  BY <1>2, <1>3, <1>6, RemovalProperties
<1>8. ~Found(once, s) /\ Len(once) \in Nat /\ (once = <<>> <=> Len(once) = 0)
  BY <1>7 DEF Found
<1> SUFFICES ASSUME queued' # <<>>
             PROVE  playerLimit > 0 /\ n - 1 - Len(queued') >= playerLimit
  BY <1>1, <1>4 DEF CapacityUsed, ActiveCount
<1>9. CASE queued = <<>>
  <2>1. once = <<>>
    <3>1. ~Found(queued, s)
      BY <1>9 DEF Found, Members
    <3> QED
      BY <1>9, <3>1 DEF AfterRemoval, Without
  <2>2. twice = <<>>
    BY <1>8, <2>1 DEF AfterRemoval, Without
  <2> QED
    BY <1>1, <2>2
<1>10. CASE queued # <<>>
  <2>1. playerLimit > 0 /\ n - Len(queued) >= playerLimit
    BY <1>5, <1>10
  <2>2. /\ Found(queued, s) => Len(once) = Len(queued) - 1
        /\ ~Found(queued, s) =>
             IF n - Len(queued) = playerLimit THEN Len(once) = Len(queued) - 1
             ELSE once = queued
    BY <1>2, <1>3, <1>4, <1>10, <2>1, RemovalCounts
  <2> HIDE DEF once
  <2>3. n - Len(once) >= playerLimit
    BY <1>2, <1>4, <2>1, <2>2
  <2>4. /\ once # <<>> => IF n - Len(once) = playerLimit THEN Len(twice) = Len(once) - 1
                          ELSE twice = once
        /\ once = <<>> => twice = <<>>
    BY <1>2, <1>3, <1>4, <1>7, <1>8, <2>1, <2>3, RemovalCounts
  <2> HIDE DEF twice
  <2>5. once # <<>>
    BY <1>1, <2>4
  <2>6. n - Len(once) > playerLimit
    BY <1>2, <1>4, <1>8, <2>1, <2>2, <2>4
  <2> QED
    BY <1>1, <1>2, <1>4, <1>8, <2>1, <2>4, <2>5, <2>6
<1> QED
  BY <1>9, <1>10

\* Every place that becomes free is given to the head of the queue in the same
\* step, for any number of sessions and any limit: RemoveQueuedPlayer and
\* AddSession_ never leave room unused while somebody waits.
THEOREM PlacesHandedOn == Spec => PlacesAreHandedOn
<1> DEFINE A == CapacityUsed /\ playerLimit' = playerLimit => CapacityUsed'
<1>1. IInv /\ [Next]_vars => A
  <2> SUFFICES ASSUME IInv, [Next]_vars, CapacityUsed, playerLimit' = playerLimit
               PROVE  CapacityUsed'
    OBVIOUS
  <2>1. CASE AddSession
    BY <2>1, AddKeepsCapacityUsed
  <2>2. CASE \E a \in Account : RemoveClosed(a)
    BY <2>2, RemoveKeepsCapacityUsed
  <2>3. CASE KickAll
    BY <2>3 DEF KickAll, CapacityUsed
  <2>4. CASE UNCHANGED <<sessions, queued>>
    BY <2>4 DEF CapacityUsed, ActiveCount
  <2> QED
    BY <2>1, <2>2, <2>3, <2>4
    DEF Next, NetworkNext, WorldNext, CommandNext, Connect, SocketClose, Receive,
        RejectSession, EndAdd, UpdateSession, EndUpdate, NextTick, Stop,
        SetPlayerAmountLimit, KickAllLess, vars, heap, world, ctl
<1>2. Spec => [][A]_vars
  <2>1. IInv /\ [Next]_vars => [A]_vars
    BY <1>1
  <2> QED
    BY <2>1, Invariant, PTL DEF Spec
<1> QED
  BY <1>2 DEF PlacesAreHandedOn

-----------------------------------------------------------------------------
(* Who is admitted.  Nobody overtakes: taking sessions out of the list keeps *)
(* its order, only its head is admitted, and a client that connects waits    *)
(* behind those who wait.  The limit holds: the sessions that are served are *)
(* registered and not in the list (Flagged), so they are at most             *)
(* m_sessions.size() - m_QueuedPlayer.size(), the number the code compares   *)
(* with the limit before it admits one more.                                 *)

Before(q, x, y) == \E i, j \in DOMAIN q : i < j /\ q[i] = x /\ q[j] = y

\* Erasing an entry from the middle keeps the order of the others.
LEMMA EraseOrder ==
    ASSUME NEW q \in Seq(Session), NEW s \in Session, Found(q, s)
    PROVE  /\ Members(q) \ Members(Erase(q, s)) \subseteq {s}
           /\ \A x, y : Before(Erase(q, s), x, y) => Before(q, x, y)
<1> DEFINE i == CHOOSE i \in DOMAIN q : q[i] = s
           r == [j \in 1 .. Len(q) - 1 |-> IF j < i THEN q[j] ELSE q[j + 1]]
<1>1. i \in DOMAIN q /\ q[i] = s
  BY DEF Found, Members
<1>2. Len(q) \in Nat /\ i \in 1 .. Len(q) /\ DOMAIN q = 1 .. Len(q)
  BY <1>1
<1>3. Erase(q, s) = r
  BY DEF Erase
<1>4. DOMAIN r = 1 .. Len(q) - 1
      /\ \A j \in DOMAIN r : r[j] = IF j < i THEN q[j] ELSE q[j + 1]
  OBVIOUS
<1> HIDE DEF i, r
<1>5. ASSUME NEW k \in DOMAIN q, q[k] # s
      PROVE  \E j \in DOMAIN r : r[j] = q[k]
  <2>1. CASE k < i
    <3>1. k \in DOMAIN r /\ r[k] = q[k]
      BY <1>2, <1>4, <2>1
    <3> QED
      BY <3>1
  <2>2. CASE k > i
    <3>1. k - 1 \in DOMAIN r /\ ~(k - 1 < i) /\ (k - 1) + 1 = k
      BY <1>2, <1>4, <2>2
    <3> QED
      BY <1>4, <3>1
  <2>3. k # i
    BY <1>1, <1>5
  <2> QED
    BY <1>2, <2>1, <2>2, <2>3
<1>6. Members(q) \ Members(r) \subseteq {s}
  BY <1>5 DEF Members
<1>7. ASSUME NEW x, NEW y, Before(r, x, y)
      PROVE  Before(q, x, y)
  <2>1. PICK j, k \in DOMAIN r : j < k /\ r[j] = x /\ r[k] = y
    BY <1>7 DEF Before
  <2>2. CASE k < i
    BY <1>2, <1>4, <2>1, <2>2 DEF Before
  <2>3. CASE j < i /\ ~(k < i)
    <3>1. j \in DOMAIN q /\ k + 1 \in DOMAIN q /\ j < k + 1 /\ q[j] = x /\ q[k + 1] = y
      BY <1>2, <1>4, <2>1, <2>3
    <3> QED
      BY <3>1 DEF Before
  <2>4. CASE ~(j < i)
    <3>1. /\ j + 1 \in DOMAIN q /\ k + 1 \in DOMAIN q /\ j + 1 < k + 1
          /\ q[j + 1] = x /\ q[k + 1] = y
      BY <1>2, <1>4, <2>1, <2>4
    <3> QED
      BY <3>1 DEF Before
  <2> QED
    BY <2>2, <2>3, <2>4
<1> QED
  BY <1>3, <1>6, <1>7

\* Who is popped from the front was before everybody who stays.
LEMMA TailOrder ==
    ASSUME NEW q \in Seq(Session), q # <<>>
    PROVE  /\ \A x, y : Before(Tail(q), x, y) => Before(q, x, y)
           /\ \A x \in Members(q) \ Members(Tail(q)), y \in Members(Tail(q)) : Before(q, x, y)
<1>1. /\ Len(q) \in Nat /\ Len(q) > 0 /\ DOMAIN q = 1 .. Len(q)
      /\ DOMAIN Tail(q) = 1 .. Len(q) - 1
      /\ \A j \in 1 .. Len(q) - 1 : Tail(q)[j] = q[j + 1]
  OBVIOUS
<1> DEFINE r == Tail(q)
<1>2. \A j \in DOMAIN r : j + 1 \in DOMAIN q /\ 1 < j + 1 /\ r[j] = q[j + 1]
  BY <1>1
<1>3. \A k \in DOMAIN q : k # 1 => k - 1 \in DOMAIN r /\ r[k - 1] = q[k]
  BY <1>1
<1>4. \A j, k \in DOMAIN r : j < k => j + 1 < k + 1
  BY <1>1
<1>5. 1 \in DOMAIN q
  BY <1>1
<1> HIDE DEF r
<1>6. \A x, y : Before(r, x, y) => Before(q, x, y)
  BY <1>2, <1>4 DEF Before
<1>7. ASSUME NEW x \in Members(q) \ Members(r), NEW y \in Members(r)
      PROVE  Before(q, x, y)
  <2>1. x = q[1]
    BY <1>3 DEF Members
  <2>2. \E k \in DOMAIN q : 1 < k /\ q[k] = y
    BY <1>2 DEF Members
  <2> QED
    BY <1>5, <2>1, <2>2 DEF Before
<1> QED
  BY <1>6, <1>7 DEF r

\* RemoveQueuedPlayer(s): who leaves the list with s was before all who stay.
LEMMA RemovalOrder ==
    ASSUME NEW q \in Seq(Session), NEW s \in Session, NEW n
    PROVE  LET r == AfterRemoval(q, n, s)
           IN  /\ \A x, y : Before(r, x, y) => Before(q, x, y)
               /\ \A x \in Members(q) \ Members(r), y \in Members(r) :
                      x # s => Before(q, x, y)
<1> DEFINE rest == Without(q, s)
           r == AfterRemoval(q, n, s)
<1>1. rest \in Seq(Session)
  BY EraseProperties DEF Without
<1>2. /\ Members(q) \ Members(rest) \subseteq {s}
      /\ \A x, y : Before(rest, x, y) => Before(q, x, y)
  BY EraseOrder DEF Without
<1>3. r = rest \/ (rest # <<>> /\ r = Tail(rest))
  BY DEF AfterRemoval
<1> HIDE DEF rest, r
<1>4. CASE r = rest
  BY <1>2, <1>4 DEF r
<1>5. CASE rest # <<>> /\ r = Tail(rest)
  <2>1. /\ \A x, y : Before(r, x, y) => Before(rest, x, y)
        /\ \A x \in Members(rest) \ Members(r), y \in Members(r) : Before(rest, x, y)
    BY <1>1, <1>5, TailOrder
  <2> QED
    BY <1>2, <2>1 DEF r
<1> QED
  BY <1>3, <1>4, <1>5

\* Positions are well defined in a list without repetitions.
LEMMA PositionOrder ==
    ASSUME Distinct(queued), queued \in Seq(Session), NEW x, NEW y, Before(queued, x, y)
    PROVE  x \in Members(queued) /\ Position(x) < Position(y)
<1>1. PICK i, j \in DOMAIN queued : i < j /\ queued[i] = x /\ queued[j] = y
  BY DEF Before
<1>2. Position(x) = i /\ Position(y) = j
  <2>1. /\ Position(x) \in DOMAIN queued /\ queued[Position(x)] = x
        /\ Position(y) \in DOMAIN queued /\ queued[Position(y)] = y
    BY <1>1 DEF Position
  <2> QED
    BY <1>1, <2>1 DEF Distinct
<1> QED
  BY <1>1, <1>2 DEF Members

-----------------------------------------------------------------------------
(* Who is served after a step that was not before. *)

\* A session is newly served only if its flag was cleared or it is the one
\* that was just registered.
LEMMA NewlyServed ==
    ASSUME IInv, NEW s \in Served' \ Served, account'[s] = account[s],
           \A a \in Account : sessions'[a] \in {sessions[a], NoSession}
    PROVE  inQueue[s] /\ ~inQueue'[s]
  BY NoneOutside DEF Served, Live, IInv, TypeOK

LEMMA AddInOrder ==
    ASSUME IInv, AddSession, CapacityUsed, NEW x \in Served' \ Served,
           NEW t \in Members(queued) \cap Members(queued')
    PROVE  Exempt(x)' \/ (x \in Members(queued) /\ Position(x) < Position(t))
<1> USE NoneOutside
<1> DEFINE s == Head(addSessQueue)
           a == account[s]
           old == sessions[a]
           map == [sessions EXCEPT ![a] = s]
           n == SessionCount(sessions)
           rest == QueueWithoutOld(old)
           wait == MustQueue(a, old, map)
<1>1. /\ s \in Session /\ a \in Account /\ s \notin Members(queued)
      /\ \A b \in Account : sessions[b] # s
  BY HeadFacts DEF AddSession
<1>2. /\ Delete(old, rest) /\ sessions' = map
      /\ queued' = IF wait THEN Append(rest, s) ELSE rest
      /\ inQueue' = [y \in Session |-> IF y = s THEN wait ELSE StillWaits(y, old, rest)]
      /\ disconnects' = disconnects
  BY DEF AddSession
<1>3. /\ sessions \in [Account -> Session \cup {NoSession}]
      /\ queued \in Seq(Session) /\ Distinct(queued)
      /\ playerLimit \in Nat /\ Len(queued) \in Nat
  BY DEF IInv, TypeOK, Sound
<1>4. n \in Nat /\ SessionCount(map) = IF old = NoSession THEN n + 1 ELSE n
  BY <1>1, <1>3, CountProperties
<1>5. queued # <<>> /\ Len(queued) > 0
  BY <1>3 DEF Members
<1>6. playerLimit > 0 /\ n - Len(queued) >= playerLimit
  BY <1>5 DEF CapacityUsed, ActiveCount
<1>7. rest \in Seq(Session) /\ Members(rest) \subseteq Members(queued)
  BY <1>1, QueueWithoutOldFacts
<1>8. t \in Members(rest)
  BY <1>1, <1>2, <1>7, AppendProperties
<1>9. x \in Session /\ ~inQueue'[x] /\ account'[x] # NoAccount /\ x # old
      /\ account'[x] = account[x]
  BY <1>2 DEF Served, Live, Delete
<1>10. CASE x = s
  <2>1. ~wait
    BY <1>2, <1>9, <1>10
  <2>2. CountedSessions(old, map) >= playerLimit
    BY <1>3, <1>4, <1>5, <1>6 DEF CountedSessions
  <2>3. a \in Staff \/ HasRecentlyDisconnected(a)
    BY <1>6, <2>1, <2>2 DEF MustQueue
  <2> QED
    BY <1>2, <1>9, <1>10, <2>3 DEF Exempt, HasRecentlyDisconnected
<1>11. CASE x # s
  <2>1. inQueue[x]
    <3>1. x \in Live
      BY <1>1, <1>2, <1>3, <1>9, <1>11 DEF Served, Live, IInv, TypeOK
    <3> QED
      BY <3>1 DEF Served
  <2>2. x \in Members(queued) \ Members(rest)
    BY <1>2, <1>9, <1>11, <2>1 DEF StillWaits, Released
  <2>3. old # NoSession /\ old \in Session /\ rest = AfterRemoval(queued, n, old)
    BY <1>1, <1>3, <2>2 DEF QueueWithoutOld
  <2> HIDE DEF old, rest, n
  <2>4. Before(queued, x, t)
    BY <1>3, <1>8, <1>9, <2>2, <2>3, RemovalOrder
  <2> QED
    BY <1>3, <2>4, PositionOrder
<1> QED
  BY <1>10, <1>11

LEMMA RemoveInOrder ==
    ASSUME IInv, NEW a \in Account, RemoveClosed(a), NEW x \in Served' \ Served,
           NEW t \in Members(queued) \cap Members(queued')
    PROVE  x \in Members(queued) /\ Position(x) < Position(t)
<1> USE NoneOutside
<1> DEFINE s == sessions[a]
           n == SessionCount(sessions)
           once == AfterRemoval(queued, n, s)
           twice == AfterRemoval(once, n, s)
<1>1. /\ Delete(s, twice) /\ queued' = twice
      /\ inQueue' = [y \in Session |-> StillWaits(y, s, twice)]
      /\ sessions' = [sessions EXCEPT ![a] = NoSession]
      /\ a \in todo /\ phase = "update"
  BY DEF RemoveClosed
<1>2. s \in Session
  BY <1>1 DEF IInv, TypeOK, Sound, TodoSound
<1>3. queued \in Seq(Session) /\ Distinct(queued)
  BY DEF IInv, TypeOK, Sound
<1>4. once \in Seq(Session) /\ Members(once) \subseteq Members(queued)
  BY <1>2, <1>3, RemovalProperties
<1>5. Distinct(once)
  BY <1>2, <1>3, RemovalProperties
<1>6. Members(twice) \subseteq Members(once)
  BY <1>2, <1>4, <1>5, RemovalProperties
<1>7. x \in Session /\ ~inQueue'[x] /\ x # s /\ account'[x] = account[x]
  BY <1>1 DEF Served, Live, Delete
<1>8. inQueue[x]
  <2>1. sessions \in [Account -> Session \cup {NoSession}]
    BY DEF IInv, TypeOK
  <2>2. \A b \in Account : sessions'[b] \in {sessions[b], NoSession}
    BY <1>1, <2>1
  <2> QED
    BY <1>7, <2>2, NewlyServed
<1>9. x \in Members(queued) \ Members(twice)
  BY <1>1, <1>7, <1>8 DEF StillWaits, Released
<1>10. t \in Members(twice)
  BY <1>1
<1> HIDE DEF s, n, twice
<1>11. Before(queued, x, t)
  <2>1. CASE x \notin Members(once)
    BY <1>2, <1>3, <1>6, <1>7, <1>9, <1>10, <2>1, RemovalOrder
  <2>2. CASE x \in Members(once)
    <3>1. \A u, v : Before(once, u, v) => Before(queued, u, v)
      BY <1>2, <1>3, RemovalOrder
    <3> HIDE DEF once
    <3>2. Before(once, x, t)
      BY <1>2, <1>4, <1>7, <1>9, <1>10, <2>2, RemovalOrder DEF twice
    <3> QED
      BY <3>1, <3>2
  <2> QED
    BY <2>1, <2>2
<1> QED
  BY <1>3, <1>11, PositionOrder

\* Who is served after the step was served before it, for the same account.
ServesNobodyNew == Served' \subseteq Served /\ \A x \in Served' : account'[x] = account[x]

\* The other steps serve nobody new.
LEMMA OthersServeNobody ==
    ASSUME IInv, [Next]_vars, ~AddSession, ~(\E a \in Account : RemoveClosed(a))
    PROVE  ServesNobodyNew
<1> USE NoneOutside DEF ServesNobodyNew
<1>1. ASSUME NEW s \in Session, NEW a \in Account, Connect(s, a)
      PROVE  ServesNobodyNew
  <2>1. /\ account[s] = NoAccount /\ account' = [account EXCEPT ![s] = a]
        /\ UNCHANGED <<inQueue, sessions>>
    BY <1>1 DEF Connect
  <2>2. \A b \in Account : sessions[b] # s
    BY <2>1 DEF IInv, Sound, RegisteredSound
  <2> QED
    BY <2>1, <2>2 DEF Served, Live, IInv, TypeOK
<1>2. CASE RejectSession
  <2>1. /\ \A x \in Session : account'[x] \in {account[x], NoAccount}
        /\ UNCHANGED <<inQueue, sessions>>
    BY <1>2 DEF RejectSession, Delete
  <2> QED
    BY <2>1 DEF Served, Live
<1>3. CASE UNCHANGED <<account, inQueue, sessions>>
  BY <1>3 DEF Served, Live
<1> QED
  BY <1>1, <1>2, <1>3
  DEF Next, NetworkNext, WorldNext, CommandNext, SocketClose, Receive, EndAdd,
      UpdateSession, EndUpdate, NextTick, KickAll, Stop, SetPlayerAmountLimit,
      KickAllLess, vars, heap, world, ctl

\* First come, first served: whoever is let in from the list was before all who
\* stay in it, and who connects while others wait is let in at once only if the
\* limit does not apply to him, for any number of sessions and any limit.
THEOREM NobodyOvertakes == Spec => NoOvertaking
<1> DEFINE A == CapacityUsed =>
                  \A s \in Served' \ Served, t \in Members(queued) \cap Members(queued') :
                      \/ Exempt(s)'
                      \/ s \in Members(queued) /\ Position(s) < Position(t)
<1>1. IInv /\ [Next]_vars => A
  <2> SUFFICES ASSUME IInv, [Next]_vars, CapacityUsed, NEW s \in Served' \ Served,
                      NEW t \in Members(queued) \cap Members(queued')
               PROVE  Exempt(s)' \/ (s \in Members(queued) /\ Position(s) < Position(t))
    OBVIOUS
  <2>1. CASE AddSession
    BY <2>1, AddInOrder
  <2>2. CASE \E a \in Account : RemoveClosed(a)
    BY <2>2, RemoveInOrder
  <2>3. CASE ~AddSession /\ ~(\E a \in Account : RemoveClosed(a))
    BY <2>3, OthersServeNobody DEF ServesNobodyNew
  <2> QED
    BY <2>1, <2>2, <2>3
<1>2. IInv /\ [Next]_vars => [A]_vars
  BY <1>1
<1> QED
  BY <1>2, Invariant, PTL DEF Spec, NoOvertaking

Flagged == \A s \in Members(queued) : inQueue[s]

\* At most as many sessions are served as are registered and not waiting.
ServedFit ==
    \A S \in SUBSET Served :
        /\ IsFiniteSet(S) /\ Cardinality(S) \in Nat
        /\ Cardinality(S) <= SessionCount(sessions) - Len(queued)

LEMMA ServedCount == IInv /\ Flagged => ServedFit
<1> USE NoneOutside
<1> SUFFICES ASSUME IInv, Flagged, NEW S \in SUBSET Served
             PROVE  /\ IsFiniteSet(S) /\ Cardinality(S) \in Nat
                    /\ Cardinality(S) <= SessionCount(sessions) - Len(queued)
  BY DEF ServedFit
<1>1. IsFiniteSet(Live) /\ IsFiniteSet(Keys(sessions)) /\ Cardinality(Live) \in Nat
      /\ Cardinality(Keys(sessions)) \in Nat
  BY SessionAssumption, AccountAssumption, FS_Subset, FS_CardinalityType DEF Live, Keys
<1>2. Cardinality(Live) <= Cardinality(Keys(sessions))
  <2> DEFINE f == [s \in Live |-> account[s]]
  <2>1. f \in Injection(Live, Keys(sessions))
    BY DEF Live, Keys, Injection, IsInjective, IInv, TypeOK
  <2> QED
    BY <1>1, <2>1, FS_Injection
<1>3. /\ queued \in Seq(Session) /\ Len(queued) \in Nat
      /\ DOMAIN queued = 1..Len(queued) /\ Distinct(queued)
  BY DEF IInv, TypeOK, Sound
<1>4. Members(queued) \subseteq Live
  BY <1>3 DEF IInv, TypeOK, Sound, Enlisted, Members, Live
<1>5. Members(queued) \cap S = {}
  BY <1>4 DEF Served, Flagged
<1>6. IsFiniteSet(Members(queued)) /\ Cardinality(Members(queued)) \in Nat
  BY <1>1, <1>4, FS_Subset, FS_CardinalityType
<1>7. Len(queued) <= Cardinality(Members(queued))
  <2>1. queued \in Injection(1..Len(queued), Members(queued))
    <3>1. queued \in [1..Len(queued) -> Members(queued)]
      BY <1>3 DEF Members
    <3> QED
      BY <1>3, <3>1 DEF Injection, IsInjective, Distinct
  <2>2. Cardinality(1..Len(queued)) = Len(queued)
    BY <1>3, FS_Interval
  <2> QED
    BY <1>6, <2>1, <2>2, FS_Injection
<1>8. IsFiniteSet(S) /\ Cardinality(S) \in Nat
  BY <1>1, FS_Subset, FS_CardinalityType DEF Served
<1>9. Cardinality(S \cup Members(queued)) = Cardinality(S) + Cardinality(Members(queued))
  BY <1>5, <1>6, <1>8, FS_Union, FS_EmptySet
<1>10. S \cup Members(queued) \subseteq Live
  BY <1>4 DEF Served
<1>11. Cardinality(S \cup Members(queued)) <= Cardinality(Live)
  BY <1>1, <1>10, FS_Subset
<1> QED
  BY <1>1, <1>2, <1>3, <1>6, <1>7, <1>8, <1>9, <1>11 DEF SessionCount

LEMMA ServedCountNext == (IInv /\ Flagged)' => ServedFit'
  BY ServedCount, PTL

\* Whoever waits is flagged: the flag is cleared only with the place.
LEMMA StaysFlagged ==
    ASSUME IInv, Flagged, [Next]_vars
    PROVE  Flagged'
<1>1. CASE AddSession
  <2> DEFINE s == Head(addSessQueue)
             old == sessions[account[s]]
             rest == QueueWithoutOld(old)
  <2>1. PICK wait \in BOOLEAN :
            /\ queued' = IF wait THEN Append(rest, s) ELSE rest
            /\ inQueue' = [x \in Session |-> IF x = s THEN wait ELSE StillWaits(x, old, rest)]
    BY <1>1 DEF AddSession, MustQueue
  <2>2. /\ s \in Session /\ account[s] \in Account /\ rest \in Seq(Session)
        /\ s \notin Members(queued)
    BY <1>1, HeadFacts, QueueWithoutOldFacts DEF AddSession
  <2>3. Members(rest) \subseteq Members(queued) /\ \A x \in Members(rest) : x # old
    BY <2>2, QueueWithoutOldFacts
  <2> HIDE DEF rest, old
  <2>6. \A x \in Members(rest) : x \in Session
    BY <2>2 DEF Members
  <2>4. \A x \in Members(rest) : inQueue'[x]
    BY <2>1, <2>2, <2>3, <2>6 DEF Flagged, StillWaits, Released
  <2>5. wait => inQueue'[s]
    BY <2>1, <2>2
  <2> QED
    BY <2>1, <2>2, <2>4, <2>5, AppendProperties DEF Flagged
<1>2. ASSUME NEW a \in Account, RemoveClosed(a) PROVE Flagged'
  <2> DEFINE s == sessions[a]
             once == AfterRemoval(queued, SessionCount(sessions), s)
             twice == AfterRemoval(once, SessionCount(sessions), s)
  <2>1. /\ queued' = twice /\ inQueue' = [x \in Session |-> StillWaits(x, s, twice)]
        /\ s \in Session
    BY <1>2, NoneOutside DEF RemoveClosed, IInv, TypeOK, Sound, TodoSound
  <2>2. once \in Seq(Session) /\ Distinct(once) /\ Members(once) \subseteq Members(queued) \ {s}
    BY <2>1, RemovalProperties DEF IInv, TypeOK, Sound
  <2>3. twice \in Seq(Session) /\ Members(twice) \subseteq Members(once)
    BY <2>1, <2>2, RemovalProperties
  <2> HIDE DEF once, twice
  <2>4. \A x \in Members(twice) : x # s /\ x \in Members(queued)
    BY <2>2, <2>3
  <2>5. \A x \in Members(twice) : x \in Session
    BY <2>3 DEF Members
  <2> QED
    BY <2>1, <2>4, <2>5 DEF Flagged, StillWaits, Released
<1>3. CASE KickAll
  BY <1>3 DEF KickAll, Flagged, Members
<1>4. CASE UNCHANGED <<queued, inQueue>>
  BY <1>4 DEF Flagged, Members
<1> QED
  BY <1>1, <1>2, <1>3, <1>4
  DEF Next, NetworkNext, WorldNext, CommandNext, Connect, SocketClose, Receive,
      RejectSession, EndAdd, UpdateSession, EndUpdate, NextTick, Stop,
      SetPlayerAmountLimit, KickAllLess, vars, heap, world, ctl

\* Whoever is in the list is told apart by its m_inQueue flag, in every
\* reachable state.
THEOREM WaitingFlagged == Spec => []Flagged
<1>1. Init => Flagged
  BY DEF Init, Flagged, Members
<1>2. IInv /\ Flagged /\ [Next]_vars => Flagged'
  BY StaysFlagged
<1> QED
  BY <1>1, <1>2, Invariant, PTL DEF Spec

\* When nobody is served whom the limit did not count before, it holds on.
LEMMA FewerLimited ==
    ASSUME IInv, Flagged, WithinLimit, playerLimit' = playerLimit,
           Served' \subseteq Served, \A s \in Served' : account'[s] = account[s],
           disconnects \subseteq disconnects'
    PROVE  WithinLimit'
<1>1. Limited' \subseteq Limited
  BY DEF Limited, Exempt, HasRecentlyDisconnected
<1>2. IsFiniteSet(Limited) /\ Cardinality(Limited) \in Nat
  BY ServedCount DEF ServedFit, Limited
<1>3. Cardinality(Limited') <= Cardinality(Limited) /\ Cardinality(Limited') \in Nat
  BY <1>1, <1>2, FS_Subset, FS_CardinalityType
<1> QED
  BY <1>2, <1>3 DEF WithinLimit, IInv, TypeOK

\* RemoveQueuedPlayer admits the head only while there is room for it.
LEMMA AdmitsIfRoom ==
    ASSUME NEW q \in Seq(Session), NEW s \in Session, NEW n \in Nat,
           playerLimit \in Nat, playerLimit > 0
    PROVE  LET r == AfterRemoval(q, n, s)
           IN  r = Without(q, s) \/ n - Len(r) <= playerLimit + 1
<1> DEFINE rest == Without(q, s)
           r == AfterRemoval(q, n, s)
<1>1. /\ rest \in Seq(Session) /\ Len(rest) \in Nat /\ Len(q) \in Nat
      /\ Len(rest) = IF Found(q, s) THEN Len(q) - 1 ELSE Len(q)
  BY EraseProperties DEF Without
<1>2. r = IF HasRoom(q, n, s) /\ rest # <<>> THEN Tail(rest) ELSE rest
  BY DEF AfterRemoval
<1> HIDE DEF rest, r
<1>3. rest # <<>> => Len(Tail(rest)) = Len(rest) - 1
  BY <1>1
<1>4. HasRoom(q, n, s) => n - Len(q) <= (IF Found(q, s) THEN playerLimit - 1 ELSE playerLimit)
  BY <1>1 DEF HasRoom, StillActive
<1>5. ASSUME r # rest
      PROVE  n - Len(r) <= playerLimit + 1
  <2>1. HasRoom(q, n, s) /\ Len(r) = Len(rest) - 1
    BY <1>2, <1>3, <1>5
  <2>2. CASE Found(q, s)
    <3>1. n - Len(q) <= playerLimit - 1 /\ Len(r) = Len(q) - 1 - 1
      BY <1>1, <1>4, <2>1, <2>2
    <3> QED
      BY <1>1, <3>1
  <2>3. CASE ~Found(q, s)
    <3>1. n - Len(q) <= playerLimit /\ Len(r) = Len(q) - 1
      BY <1>1, <1>4, <2>1, <2>3
    <3> QED
      BY <1>1, <3>1
  <2> QED
    BY <2>2, <2>3
<1> QED
  BY <1>5 DEF r, rest

LEMMA RemoveKeepsLimit ==
    ASSUME IInv, Flagged, IInv', Flagged', WithinLimit, NEW a \in Account, RemoveClosed(a)
    PROVE  WithinLimit'
<1> USE NoneOutside
<1> DEFINE s == sessions[a]
           n == SessionCount(sessions)
           once == AfterRemoval(queued, n, s)
           twice == AfterRemoval(once, n, s)
<1>1. /\ Delete(s, twice) /\ queued' = twice
      /\ inQueue' = [y \in Session |-> StillWaits(y, s, twice)]
      /\ sessions' = [sessions EXCEPT ![a] = NoSession]
      /\ playerLimit' = playerLimit /\ disconnects \subseteq disconnects'
      /\ a \in todo /\ phase = "update"
  BY DEF RemoveClosed
<1>2. /\ sessions \in [Account -> Session \cup {NoSession}] /\ playerLimit \in Nat
      /\ queued \in Seq(Session) /\ Distinct(queued) /\ disconnects \subseteq Account
  BY DEF IInv, TypeOK, Sound
<1>3. s \in Session /\ s # NoSession
  BY <1>1 DEF IInv, TypeOK, Sound, TodoSound
<1>4. n \in Nat /\ SessionCount(sessions') = n - 1
  BY <1>1, <1>2, <1>3, CountProperties
<1>5. once \in Seq(Session) /\ Members(once) \subseteq Members(queued) \ {s}
  BY <1>2, <1>3, RemovalProperties
<1>6. \A x \in Served' : x # s /\ account'[x] = account[x]
  BY <1>1 DEF Served, Live, Delete
<1> HIDE DEF n, twice
<1>7. CASE queued' = Without(queued, s)
  <2>1. Members(queued) \ Members(queued') \subseteq {s}
    BY <1>2, <1>3, <1>7, EraseOrder DEF Without
  <2>2. \A x \in Session \ {s} : inQueue'[x] = inQueue[x]
    BY <1>1, <2>1 DEF StillWaits, Released, IInv, TypeOK
  <2>3. Served' \subseteq Served
    <3>1. \A b \in Account : sessions'[b] \in {sessions[b], NoSession}
      BY <1>1, <1>2
    <3>2. ASSUME NEW x \in Served' \ Served PROVE FALSE
      <4>1. inQueue[x] /\ ~inQueue'[x] /\ x \in Session
        BY <1>6, <3>1, <3>2, NewlyServed DEF Served, Live
      <4> QED
        BY <1>6, <2>2, <4>1
    <3> QED
      BY <3>2
  <2> QED
    BY <1>1, <1>6, <2>3, FewerLimited
<1>8. CASE queued' # Without(queued, s) /\ playerLimit > 0
  <2>1. Without(once, s) = once
    BY <1>5 DEF Without, Found
  <2>2. twice = once \/ n - Len(twice) <= playerLimit + 1
    BY <1>2, <1>3, <1>4, <1>5, <1>8, <2>1, AdmitsIfRoom DEF twice
  <2>3. once = Without(queued, s) \/ n - Len(once) <= playerLimit + 1
    BY <1>2, <1>3, <1>4, <1>8, AdmitsIfRoom
  <2> HIDE DEF once
  <2>4. n - Len(queued') <= playerLimit + 1
    BY <1>1, <1>8, <2>2, <2>3
  <2>5. Cardinality(Limited') <= n - 1 - Len(queued') /\ Cardinality(Limited') \in Nat
    BY <1>4, ServedCountNext DEF ServedFit, Limited
  <2>6. Len(queued') \in Nat
    BY DEF IInv, TypeOK
  <2> QED
    BY <1>1, <1>2, <1>4, <2>4, <2>5, <2>6 DEF WithinLimit
<1>9. CASE playerLimit = 0
  BY <1>1, <1>9 DEF WithinLimit
<1> QED
  BY <1>2, <1>7, <1>8, <1>9

LEMMA AddKeepsLimit ==
    ASSUME IInv, Flagged, IInv', Flagged', WithinLimit, AddSession
    PROVE  WithinLimit'
<1> USE NoneOutside
<1> DEFINE s == Head(addSessQueue)
           a == account[s]
           old == sessions[a]
           map == [sessions EXCEPT ![a] = s]
           n == SessionCount(sessions)
           rest == QueueWithoutOld(old)
           wait == MustQueue(a, old, map)
<1>1. /\ s \in Session /\ a \in Account /\ s \notin Members(queued)
      /\ \A b \in Account : sessions[b] # s
  BY HeadFacts DEF AddSession
<1>2. /\ Delete(old, rest) /\ sessions' = map
      /\ queued' = IF wait THEN Append(rest, s) ELSE rest
      /\ inQueue' = [y \in Session |-> IF y = s THEN wait ELSE StillWaits(y, old, rest)]
      /\ disconnects' = disconnects /\ playerLimit' = playerLimit
  BY DEF AddSession
<1>3. /\ sessions \in [Account -> Session \cup {NoSession}]
      /\ queued \in Seq(Session) /\ Distinct(queued) /\ playerLimit \in Nat
  BY DEF IInv, TypeOK, Sound
<1>4. n \in Nat /\ SessionCount(map) = IF old = NoSession THEN n + 1 ELSE n
  BY <1>1, <1>3, CountProperties
<1>5. /\ rest \in Seq(Session) /\ Len(rest) \in Nat /\ Len(queued') \in Nat
      /\ wait => Len(queued') = Len(rest) + 1
      /\ ~wait => queued' = rest
  <2>1. rest \in Seq(Session)
    BY <1>1, QueueWithoutOldFacts
  <2> HIDE DEF rest, wait
  <2>2. wait => Len(queued') = Len(rest) + 1
    BY <1>1, <1>2, <2>1, AppendProperties
  <2>3. Len(rest) \in Nat /\ Len(queued') \in Nat
    BY <2>1 DEF IInv, TypeOK
  <2> QED
    BY <1>2, <2>1, <2>2, <2>3
<1>6. \A x \in Served' : x # old /\ account'[x] = account[x] /\ x \in Session
  BY <1>2 DEF Served, Live, Delete
<1>7. \A S \in SUBSET Served' : /\ IsFiniteSet(S) /\ Cardinality(S) \in Nat
                                /\ Cardinality(S) <= SessionCount(map) - Len(queued')
  BY <1>2, ServedCountNext DEF ServedFit
<1>8. IsFiniteSet(Limited') /\ Cardinality(Limited') \in Nat
      /\ Cardinality(Limited') <= SessionCount(map) - Len(queued')
  BY <1>7 DEF Limited
<1>9. CASE s \in Limited' /\ playerLimit > 0
  <2>1. ~wait /\ a \notin Staff /\ ~HasRecentlyDisconnected(a)
    BY <1>1, <1>2, <1>6, <1>9 DEF Limited, Served, Exempt, HasRecentlyDisconnected
  <2>2. CountedSessions(old, map) < playerLimit
    BY <1>3, <1>4, <1>9, <2>1 DEF MustQueue, CountedSessions
  <2>3. SessionCount(map) <= playerLimit
    BY <1>3, <1>4, <2>2 DEF CountedSessions
  <2> HIDE DEF map
  <2>4. SessionCount(map) \in Nat
    BY <1>4
  <2> QED
    BY <1>2, <1>3, <1>5, <1>8, <2>3, <2>4 DEF WithinLimit
<1>10. CASE s \notin Limited' /\ playerLimit > 0
  <2>1. CASE old = NoSession \/ rest = Without(queued, old)
    <3>1. Members(queued) \ Members(rest) \subseteq {old}
      BY <1>1, <1>3, <2>1, EraseOrder DEF Without, QueueWithoutOld
    <3>2. \A x \in Session \ {s, old} : inQueue'[x] = inQueue[x]
      BY <1>2, <3>1 DEF StillWaits, Released, IInv, TypeOK
    <3>3. \A x \in Served' \ {s} : x \in Served
      <4>1. \A x \in Served' \ {s} : sessions[account[x]] = x /\ account[x] # NoAccount
        BY <1>1, <1>2, <1>3, <1>6 DEF Served, Live, IInv, TypeOK
      <4> QED
        BY <1>6, <3>2, <4>1 DEF Served, Live
    <3>4. Limited' \subseteq Limited
      BY <1>2, <1>6, <1>10, <3>3 DEF Limited, Exempt, HasRecentlyDisconnected
    <3>5. IsFiniteSet(Limited) /\ Cardinality(Limited) \in Nat
      BY ServedCount DEF ServedFit, Limited
    <3>6. Cardinality(Limited') <= Cardinality(Limited)
      BY <3>4, <3>5, FS_Subset
    <3> QED
      BY <1>2, <1>3, <1>8, <1>10, <3>5, <3>6 DEF WithinLimit
  <2>2. CASE old # NoSession /\ rest # Without(queued, old)
    <3>1. rest = AfterRemoval(queued, n, old) /\ old \in Session
      BY <1>1, <1>3, <2>2 DEF QueueWithoutOld
    <3>2. SessionCount(map) = n
      BY <1>4, <2>2
    <3> HIDE DEF rest, n, map, old
    <3>3. n - Len(rest) <= playerLimit + 1
      BY <1>3, <1>4, <1>10, <2>2, <3>1, AdmitsIfRoom
    <3>4. CASE wait
      BY <1>2, <1>3, <1>4, <1>5, <1>8, <3>2, <3>3, <3>4 DEF WithinLimit
    <3>5. CASE ~wait
      <4>1. s \in Served'
        <5>1. ~inQueue'[s]
          BY <1>1, <1>2, <3>5
        <5>2. account'[s] = a /\ s # old
          BY <1>1, <1>2, NoneOutside DEF Delete, old
        <5>3. sessions'[a] = s
          BY <1>1, <1>2, <1>3 DEF map
        <5> QED
          BY <1>1, <5>1, <5>2, <5>3 DEF Served, Live
      <4>2. Limited' \cup {s} \in SUBSET Served'
        BY <4>1 DEF Limited
      <4>3. Cardinality(Limited' \cup {s}) = Cardinality(Limited') + 1
        BY <1>8, <1>10, FS_AddElement
      <4>4. Cardinality(Limited') + 1 <= n - Len(rest)
        BY <1>5, <1>7, <3>2, <3>5, <4>2, <4>3
      <4> QED
        BY <1>2, <1>3, <1>4, <1>5, <1>8, <3>3, <4>4 DEF WithinLimit
    <3> QED
      BY <3>4, <3>5
  <2> QED
    BY <2>1, <2>2
<1>11. CASE playerLimit = 0
  BY <1>2, <1>11 DEF WithinLimit
<1> QED
  BY <1>3, <1>9, <1>10, <1>11

\* The limit holds: however sessions leave, reconnect and connect, as many are
\* admitted as there is room for, although RemoveQueuedPlayer is called twice
\* for a session that is closed, for any number of sessions and any limit.
THEOREM LimitIsKept == Spec => LimitHolds
<1> DEFINE A == WithinLimit /\ playerLimit' = playerLimit => WithinLimit'
<1>1. IInv /\ Flagged /\ IInv' /\ Flagged' /\ [Next]_vars => A
  <2> SUFFICES ASSUME IInv, Flagged, IInv', Flagged', [Next]_vars, WithinLimit,
                      playerLimit' = playerLimit
               PROVE  WithinLimit'
    OBVIOUS
  <2>1. CASE AddSession
    BY <2>1, AddKeepsLimit
  <2>2. CASE \E a \in Account : RemoveClosed(a)
    BY <2>2, RemoveKeepsLimit
  <2>3. CASE ~AddSession /\ ~(\E a \in Account : RemoveClosed(a))
    <3>3. Served' \subseteq Served /\ \A s \in Served' : account'[s] = account[s]
      BY <2>3, OthersServeNobody DEF ServesNobodyNew
    <3>4. disconnects' = disconnects
      BY <2>3 DEF Next, NetworkNext, WorldNext, CommandNext, Connect, SocketClose, Receive,
        RejectSession, EndAdd, UpdateSession, EndUpdate, NextTick, KickAll, Stop,
        SetPlayerAmountLimit, KickAllLess, vars, heap, world, ctl
    <3> QED
      BY <3>3, <3>4, FewerLimited
  <2> QED
    BY <2>1, <2>2, <2>3
<1>2. IInv /\ Flagged /\ IInv' /\ Flagged' /\ [Next]_vars => [A]_vars
  BY <1>1
<1> QED
  BY <1>2, Invariant, WaitingFlagged, PTL DEF Spec, LimitHolds

-----------------------------------------------------------------------------
(* What waiting leaves behind. *)

\* A session that is not registered is as the constructor made it; one that is
\* registered waits under its flag, was condemned under it, or has time left.
Trace(s) ==
    /\ s \notin Live => ~inQueue[s] /\ ~loading[s] /\ timeOut[s] = TimeOut
    /\ s \in Members(queued) => inQueue[s] /\ ~loading[s]
    /\ s \in Live /\ inQueue[s] => s \in Members(queued) \/ closed[s]
    /\ s \in Live /\ ~inQueue[s] /\ ~closed[s] => timeOut[s] > 0

Traces == \A s \in Session : Trace(s)

LEMMA TracesSuffice == IInv /\ Traces => WaitingLeavesNoTrace
<1> SUFFICES ASSUME IInv, Traces PROVE WaitingLeavesNoTrace
  OBVIOUS
<1>1. Members(queued) \subseteq Session /\ Live \subseteq Session
  BY DEF IInv, TypeOK, Members, Live
<1> QED
  BY <1>1 DEF Traces, Trace, WaitingLeavesNoTrace, Served

LEMMA InitTraces == Init => Traces
<1> SUFFICES ASSUME Init, NEW s \in Session PROVE Trace(s)
  BY DEF Traces
<1>1. s \notin Live /\ s \notin Members(queued)
  BY DEF Init, Live, Members
<1> QED
  BY <1>1 DEF Init, Trace

\* A step that only registers, kicks or times sessions leaves no trace.
LEMMA FrameTraces ==
    ASSUME IInv, Traces, UNCHANGED <<inQueue, sessions>>,
           queued' = queued \/ (queued' = <<>> /\ \A s \in Live : closed'[s]),
           NEW s \in Session,
           s \in Live' <=> s \in Live,
           closed[s] => closed'[s],
           loading'[s] = loading[s] \/ (s \in Live /\ ~inQueue[s]),
           \/ timeOut'[s] \in {timeOut[s], TimeOut}
           \/ s \in Live /\ (inQueue[s] \/ timeOut'[s] > 0)
    PROVE  Trace(s)'
<1>1. Members(queued') \subseteq Members(queued)
  BY DEF Members
<1>2. s \in Members(queued) => inQueue[s] /\ s \in Live
  <2>1. s \in Members(queued) => account[s] \in Account /\ sessions[account[s]] = s
    BY DEF IInv, Sound, Enlisted
  <2> QED
    BY <2>1, NoneOutside DEF Traces, Trace, Live
<1>3. s \in Live /\ inQueue[s] => s \in Members(queued') \/ closed'[s]
  BY DEF Traces, Trace
<1> QED
  BY <1>1, <1>2, <1>3, TimeOutAssumption DEF Traces, Trace

\* The new session is the only one that appears, the old one the only one that
\* goes, and whoever left the list in between was admitted with a new timer.
LEMMA AddTraces ==
    ASSUME IInv, Traces, AddSession
    PROVE  Traces'
<1> USE NoneOutside
<1> DEFINE s == Head(addSessQueue)
           a == account[s]
           old == sessions[a]
           rest == QueueWithoutOld(old)
           wait == MustQueue(a, old, [sessions EXCEPT ![a] = s])
<1>1. /\ s \in Session /\ a \in Account /\ \A b \in Account : sessions[b] # s
      /\ s \notin Members(queued)
  BY HeadFacts DEF AddSession
<1>2. /\ account' = [x \in Session |-> IF x = old THEN NoAccount ELSE account[x]]
      /\ closed'  = [x \in Session |-> x # old /\ closed[x]]
      /\ loading' = [x \in Session |-> x # old /\ loading[x]]
      /\ timeOut' = [x \in Session |-> IF x = old \/ x \in Released(queued, rest)
                                       THEN TimeOut ELSE timeOut[x]]
      /\ sessions' = [sessions EXCEPT ![a] = s]
      /\ queued' = IF wait THEN Append(rest, s) ELSE rest
      /\ inQueue' = [x \in Session |-> IF x = s THEN wait ELSE StillWaits(x, old, rest)]
  BY DEF AddSession, Delete
<1>3. /\ rest \in Seq(Session) /\ Members(rest) \subseteq Members(queued)
      /\ \A x \in Members(rest) : x # old /\ x # s
  BY <1>1, QueueWithoutOldFacts
<1>4. old # s
  BY <1>1
<1>5. old = NoSession \/ account[old] = a
  BY <1>1, OldFacts
<1>12. wait \in BOOLEAN
  BY DEF MustQueue
<1> HIDE DEF rest, wait
<1>6. Members(queued') = Members(rest) \cup (IF wait THEN {s} ELSE {})
  BY <1>1, <1>2, <1>3, AppendProperties
<1> SUFFICES ASSUME NEW x \in Session PROVE Trace(x)'
  BY DEF Traces
<1>7. Trace(x) /\ (x \in Members(rest) => x \in Members(queued))
  BY <1>3 DEF Traces
<1> HIDE DEF old
<1>8. CASE x = s
  <2>1. x \in Live'
    BY <1>1, <1>2, <1>4, <1>8 DEF Live, IInv, TypeOK
  <2>2. x \notin Live
    BY <1>1, <1>8 DEF Live, IInv, TypeOK
  <2>3. ~loading'[x] /\ timeOut'[x] = TimeOut /\ inQueue'[x] = wait
    BY <1>2, <1>7, <2>2, <1>8 DEF Trace
  <2> QED
    BY <1>6, <1>3, <1>8, <2>1, <2>3, TimeOutAssumption, <1>12 DEF Trace
<1>9. CASE x = old
  <2>1. x \notin Live'
    BY <1>2, <1>9 DEF Live
  <2>2. x \notin Members(queued')
    BY <1>3, <1>4, <1>6, <1>9
  <2>3. ~inQueue'[x] /\ ~loading'[x] /\ timeOut'[x] = TimeOut
    BY <1>2, <1>4, <1>9 DEF StillWaits
  <2> QED
    BY <2>1, <2>2, <2>3 DEF Trace
<1>10. CASE x # s /\ x # old
  <2>1. /\ account'[x] = account[x] /\ closed'[x] = closed[x] /\ loading'[x] = loading[x]
        /\ timeOut'[x] = IF x \in Released(queued, rest) THEN TimeOut ELSE timeOut[x]
        /\ inQueue'[x] <=> inQueue[x] /\ x \notin Released(queued, rest)
    <3>1. inQueue'[x] = StillWaits(x, old, rest)
      BY <1>2, <1>10
    <3>2. account'[x] = account[x] /\ closed'[x] = closed[x] /\ loading'[x] = loading[x]
      BY <1>2, <1>10 DEF IInv, TypeOK
    <3>3. timeOut'[x] = IF x \in Released(queued, rest) THEN TimeOut ELSE timeOut[x]
      BY <1>2, <1>10
    <3> QED
      BY <3>1, <3>2, <3>3, <1>2, <1>10 DEF StillWaits
  <2>2. x \in Live' <=> x \in Live
    <3>1. account[x] = a => x \notin Live
      BY <1>10 DEF Live, old
    <3>2. account[x] = a => x \notin Live'
      BY <1>1, <1>2, <1>10, <2>1 DEF Live, IInv, TypeOK
    <3>3. account[x] # a /\ account[x] \in Account => sessions'[account[x]] = sessions[account[x]]
      BY <1>1, <1>2 DEF IInv, TypeOK
    <3> QED
      BY <2>1, <3>1, <3>2, <3>3 DEF Live, IInv, TypeOK
  <2>3. x \in Members(queued') <=> x \in Members(rest)
    BY <1>6, <1>10
  <2>4. x \in Released(queued, rest) <=> x \in Members(queued) /\ x \notin Members(rest)
    BY DEF Released
  <2>5. x \in Members(queued) => x \in Live
    BY DEF IInv, Sound, Enlisted, Live
  <2> HIDE DEF s
  <2> QED
    BY <1>7, <2>1, <2>2, <2>3, <2>4, <2>5, TimeOutAssumption DEF Trace
<1> QED
  BY <1>8, <1>9, <1>10

LEMMA RemoveTraces ==
    ASSUME IInv, Traces, NEW a \in Account, RemoveClosed(a)
    PROVE  Traces'
<1> USE NoneOutside
<1> DEFINE s == sessions[a]
           once == AfterRemoval(queued, SessionCount(sessions), s)
           twice == AfterRemoval(once, SessionCount(sessions), s)
<1>1. /\ account' = [x \in Session |-> IF x = s THEN NoAccount ELSE account[x]]
      /\ closed'  = [x \in Session |-> x # s /\ closed[x]]
      /\ loading' = [x \in Session |-> x # s /\ loading[x]]
      /\ timeOut' = [x \in Session |-> IF x = s \/ x \in Released(queued, twice)
                                       THEN TimeOut ELSE timeOut[x]]
      /\ sessions' = [sessions EXCEPT ![a] = NoSession]
      /\ queued' = twice
      /\ inQueue' = [x \in Session |-> StillWaits(x, s, twice)]
      /\ a \in todo /\ phase = "update"
  BY DEF RemoveClosed, Delete
<1>2. s \in Session /\ account[s] = a
  <2>1. s # NoSession
    BY <1>1 DEF IInv, Sound, TodoSound
  <2> QED
    BY <2>1, OldFacts
<1>3. once \in Seq(Session) /\ Distinct(once) /\ Members(once) \subseteq Members(queued) \ {s}
  BY <1>2, RemovalProperties DEF IInv, TypeOK, Sound
<1> HIDE DEF once
<1>4. Members(twice) \subseteq Members(queued) \ {s}
  BY <1>2, <1>3, RemovalProperties
<1> HIDE DEF twice
<1> SUFFICES ASSUME NEW x \in Session PROVE Trace(x)'
  BY DEF Traces
<1>5. Trace(x) /\ (x \in Members(twice) => x \in Members(queued) /\ x # s)
  BY <1>4 DEF Traces
<1>6. Members(queued') = Members(twice)
  BY <1>1
<1>7. CASE x = s
  <2>1. x \notin Live'
    BY <1>1, <1>7 DEF Live
  <2>2. ~inQueue'[x] /\ ~loading'[x] /\ timeOut'[x] = TimeOut
    BY <1>1, <1>7 DEF StillWaits
  <2> QED
    BY <1>5, <1>6, <1>7, <2>1, <2>2 DEF Trace
<1>8. CASE x # s
  <2>1. /\ account'[x] = account[x] /\ closed'[x] = closed[x] /\ loading'[x] = loading[x]
        /\ timeOut'[x] = IF x \in Released(queued, twice) THEN TimeOut ELSE timeOut[x]
        /\ inQueue'[x] <=> inQueue[x] /\ x \notin Released(queued, twice)
    <3>1. inQueue'[x] = StillWaits(x, s, twice)
      BY <1>1, <1>8
    <3>2. account'[x] = account[x] /\ closed'[x] = closed[x] /\ loading'[x] = loading[x]
      BY <1>1, <1>8 DEF IInv, TypeOK
    <3>3. timeOut'[x] = IF x \in Released(queued, twice) THEN TimeOut ELSE timeOut[x]
      BY <1>1, <1>8
    <3> QED
      BY <3>1, <3>2, <3>3, <1>1, <1>8 DEF StillWaits
  <2>2. x \in Live' <=> x \in Live
    <3>1. account[x] = a => x \notin Live /\ x \notin Live'
      BY <1>1, <1>8, <2>1 DEF Live, IInv, TypeOK
    <3>2. account[x] # a /\ account[x] \in Account => sessions'[account[x]] = sessions[account[x]]
      BY <1>1 DEF IInv, TypeOK
    <3> QED
      BY <2>1, <3>1, <3>2 DEF Live, IInv, TypeOK
  <2>3. x \in Released(queued, twice) <=> x \in Members(queued) /\ x \notin Members(twice)
    BY DEF Released
  <2>4. x \in Members(queued) => x \in Live
    BY DEF IInv, Sound, Enlisted, Live
  <2> HIDE DEF s
  <2> QED
    BY <1>5, <1>6, <2>1, <2>2, <2>3, <2>4, TimeOutAssumption DEF Trace
<1> QED
  BY <1>7, <1>8

LEMMA NextTraces ==
    ASSUME IInv, Traces, [Next]_vars
    PROVE  Traces'
<1> USE NoneOutside
<1>1. ASSUME NEW s \in Session, NEW a \in Account, Connect(s, a) PROVE Traces'
  <2>1. /\ account[s] = NoAccount /\ account' = [account EXCEPT ![s] = a]
        /\ UNCHANGED <<closed, inQueue, loading, timeOut, sessions, queued>>
    BY <1>1 DEF Connect
  <2>2. \A b \in Account : sessions[b] # s
    BY <2>1 DEF IInv, Sound, RegisteredSound
  <2>3. ASSUME NEW x \in Session PROVE x \in Live' <=> x \in Live
    BY <2>1, <2>2 DEF Live, IInv, TypeOK
  <2> QED
    BY <2>1, <2>3, FrameTraces DEF Traces
<1>2. CASE RejectSession
  <2> DEFINE s == Head(addSessQueue)
  <2>1. /\ s \in Session /\ account[s] \in Account
        /\ \A b \in Account : sessions[b] # s
    BY <1>2, HeadFacts DEF RejectSession
  <2>2. Released(queued, queued) = {}
    BY DEF Released
  <2>3. /\ account' = [x \in Session |-> IF x = s THEN NoAccount ELSE account[x]]
        /\ closed'  = [x \in Session |-> x # s /\ closed[x]]
        /\ loading' = [x \in Session |-> x # s /\ loading[x]]
        /\ timeOut' = [x \in Session |-> IF x = s THEN TimeOut ELSE timeOut[x]]
        /\ UNCHANGED <<inQueue, sessions, queued>>
    BY <1>2, <2>2 DEF RejectSession, Delete
  <2> SUFFICES ASSUME NEW x \in Session PROVE Trace(x)'
    BY DEF Traces
  <2>4. CASE x # s
    <3>1. x \in Live' <=> x \in Live
      BY <2>3, <2>4 DEF Live
    <3>2. closed[x] => closed'[x]
      BY <2>3, <2>4
    <3>3. loading'[x] = loading[x] /\ timeOut'[x] = timeOut[x]
      BY <2>3, <2>4 DEF IInv, TypeOK
    <3> QED
      BY <2>3, <3>1, <3>2, <3>3, FrameTraces
  <2>5. CASE x = s
    <3>1. x \notin Live /\ x \notin Live' /\ x \notin Members(queued)
      BY <2>1, <2>3, <2>5 DEF Live, IInv, TypeOK, Sound, Enlisted
    <3>2. ~inQueue[x] /\ ~loading'[x] /\ timeOut'[x] = TimeOut
      BY <2>3, <2>5, <3>1 DEF Traces, Trace
    <3> QED
      BY <2>3, <3>1, <3>2 DEF Trace, Members
  <2> QED
    BY <2>4, <2>5
<1>3. CASE AddSession
  BY <1>3, AddTraces
<1>4. ASSUME NEW a \in Account, UpdateSession(a) PROVE Traces'
  <2> DEFINE s == sessions[a]
  <2>1. PICK l \in BOOLEAN :
            /\ phase = "update" /\ a \in todo /\ ~Closes(s) /\ (l => ~inQueue[s])
            /\ timeOut' = [timeOut EXCEPT ![s] = Elapsed(s)]
            /\ loading' = [loading EXCEPT ![s] = l]
            /\ UNCHANGED <<account, closed, inQueue, sessions, queued>>
    BY <1>4 DEF UpdateSession, world
  <2>2. s \in Session /\ s \in Live
    <3>1. s # NoSession
      BY <2>1 DEF IInv, Sound, TodoSound
    <3> QED
      BY <3>1, OldFacts DEF Live
  <2>3. inQueue[s] \/ Elapsed(s) > 0
    <3>1. Elapsed(s) \in Nat
      BY <2>2, TimeOutAssumption DEF Elapsed, IInv, TypeOK
    <3> QED
      BY <2>1, <3>1 DEF Closes, IsConnectionIdle
  <2>4. \A x \in Session : x \in Live' <=> x \in Live
    BY <2>1 DEF Live
  <2> SUFFICES ASSUME NEW x \in Session PROVE Trace(x)'
    BY DEF Traces
  <2>5. CASE x # s
    <3>1. timeOut'[x] = timeOut[x] /\ loading'[x] = loading[x]
      BY <2>1, <2>2, <2>5 DEF IInv, TypeOK
    <3> QED
      BY <2>1, <2>4, <3>1, FrameTraces
  <2>6. CASE x = s
    <3>1. timeOut'[x] = Elapsed(s) /\ loading'[x] = l
      BY <2>1, <2>2, <2>6 DEF IInv, TypeOK
    <3>2. CASE inQueue[s]
      <4>1. x \in Members(queued) \/ closed[x]
        BY <2>2, <2>6, <3>2 DEF Traces, Trace
      <4>2. x \in Live /\ x \in Live' /\ inQueue'[x] /\ ~loading'[x]
        BY <2>1, <2>2, <2>4, <2>6, <3>1, <3>2
      <4> QED
        BY <2>1, <4>1, <4>2 DEF Trace, Members
    <3>3. CASE ~inQueue[s]
      BY <2>1, <2>2, <2>3, <2>4, <2>6, <3>1, <3>3, FrameTraces
    <3> QED
      BY <3>2, <3>3
  <2> QED
    BY <2>5, <2>6
<1>5. ASSUME NEW a \in Account, RemoveClosed(a) PROVE Traces'
  BY <1>5, RemoveTraces
<1>6. CASE KickAll
  <2>1. /\ queued' = <<>>
        /\ closed' = [s \in Session |-> closed[s] \/ s \in Members(sessions)]
        /\ UNCHANGED <<account, inQueue, loading, timeOut, sessions>>
    BY <1>6 DEF KickAll
  <2>2. \A s \in Live : s \in Members(sessions)
    BY DEF Live, Members, IInv, TypeOK
  <2>4. \A s \in Live : closed'[s]
    BY <2>1, <2>2 DEF Live
  <2>3. \A s \in Session : s \in Live' <=> s \in Live
    BY <2>1 DEF Live
  <2> QED
    BY <2>1, <2>3, <2>4, FrameTraces DEF Traces
<1>7. CASE /\ UNCHANGED <<account, inQueue, loading, sessions, queued>>
           /\ \A s \in Session : closed[s] => closed'[s]
           /\ \A s \in Session : timeOut'[s] \in {timeOut[s], TimeOut}
  <2>1. \A s \in Session : s \in Live' <=> s \in Live
    BY <1>7 DEF Live
  <2> QED
    BY <1>7, <2>1, FrameTraces DEF Traces
<1>8. ASSUME \/ \E s \in Session : SocketClose(s) \/ Receive(s)
             \/ EndAdd \/ EndUpdate \/ NextTick \/ CommandNext \/ UNCHANGED vars
      PROVE  Traces'
  <2>1. CASE \E s \in Session : SocketClose(s)
    BY <1>7, <2>1 DEF SocketClose, world, IInv, TypeOK
  <2>2. CASE \E s \in Session : Receive(s)
    BY <1>7, <2>2 DEF Receive, world, IInv, TypeOK
  <2>3. CASE KickAllLess
    BY <1>7, <2>3 DEF KickAllLess, world
  <2>4. CASE UNCHANGED <<heap, sessions, queued>>
    BY <1>7, <2>4 DEF heap
  <2> QED
    BY <1>8, <2>1, <2>2, <2>3, <2>4
    DEF EndAdd, EndUpdate, NextTick, CommandNext, Stop, SetPlayerAmountLimit, vars, world
<1> QED
  BY <1>1, <1>2, <1>3, <1>4, <1>5, <1>6, <1>8 DEF Next, NetworkNext, WorldNext

\* Waiting leaves no trace: nobody loads a character while waiting, nobody stays
\* flagged once admitted, and nobody is closed at once for the time the wait took,
\* for any number of sessions, any limit and any time-out.
THEOREM NoTraceOfWaiting == Spec => []WaitingLeavesNoTrace
<1>1. Init => Traces
  BY InitTraces
<1>2. IInv /\ Traces /\ [Next]_vars => Traces'
  BY NextTraces
<1>3. IInv /\ Traces => WaitingLeavesNoTrace
  BY TracesSuffice
<1> QED
  BY <1>1, <1>2, <1>3, Invariant, PTL DEF Spec
=============================================================================

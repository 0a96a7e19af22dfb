-------------------------- MODULE BattlegroundQueue --------------------------
(***************************************************************************)
(* The queue of a battleground, the invitations and the battlegrounds that *)
(* are made for it (src/src/server/game/Battlegrounds/,                    *)
(* Handlers/BattlegroundHandler.cpp and what LogoutPlayer, LoadFromDB,     *)
(* TeleportTo and HandleMoveWorldportAckOpcode do about them).             *)
(*                                                                         *)
(* What is said of one player is kept in four places: the group he queued  *)
(* in, his own queue slot (m_bgBattlegroundQueueID), the invited and       *)
(* player counts of a battleground, and the events that take unanswered    *)
(* invitations back.  Packets are handled while the maps are updated, the  *)
(* queue and the battlegrounds are updated by BattlegroundMgr::Update on   *)
(* the world thread, teleports take two steps, and players disconnect at   *)
(* any time.                                                               *)
(*                                                                         *)
(* One type of battleground and one bracket of levels; arenas, the random  *)
(* battleground and what happens in a match are not modelled, and the      *)
(* teleport to a battleground is not refused.  Timers run out at any time, *)
(* those of one player in order.  Whom the queue invites is in Matchmaking.*)
(***************************************************************************)
EXTENDS Matchmaking

CONSTANTS
    Player,
    TeamOf,         \* [Player -> Teams]
    Parties,        \* the groups of players; members who never come online are left out
    MaxInstances,   \* bound: battlegrounds at a time; no more are made
    MaxRemovals,    \* bound: BGQueueRemoveEvents a player has waiting
    Wrap            \* values of an uint32

ASSUME PlayersAssumption ==
    /\ IsFiniteSet(Player) /\ TeamOf \in [Player -> Teams]
    /\ Parties \subseteq SUBSET Player
    /\ \A party \in Parties : Cardinality(party) <= MaxPlayersPerTeam     \* maxGroupSize
ASSUME BoundsAssumption ==
    /\ MaxInstances \in Nat \ {0} /\ MaxRemovals \in Nat \ {0}
    /\ Wrap \in Nat /\ Wrap > 2 * Cardinality(Player) /\ Wrap > 2 * MaxPlayersPerTeam

VARIABLES
    queue,          \* m_QueuedGroups: [premade, normal : [Teams -> Seq(groups)]]
    slot,           \* his place in the queue: NoSlot, 0, or where he is invited to
    bgId,           \* _bgData.bgInstanceID, 0 for none
    place,          \* [Player -> Places]
    removals,       \* BGQueueRemoveEvents: [Player -> Seq of [inst, stamp]]
    bg,             \* m_Battlegrounds: [instance ids -> battlegrounds]
    freeSlots,      \* BGFreeSlotQueue
    scheduled,      \* m_QueueUpdateScheduler holds the queue
    miscounted      \* history: battlegrounds whose invited counts missed somebody who
                    \* was taken from them, or who was invited to the last of this id

queueVars == <<queue, slot, removals>>
playerVars == <<bgId, place>>
bgVars == <<bg, freeSlots, miscounted>>
vars == <<queueVars, playerVars, bgVars, scheduled>>

NoSlot == -1
Instances == 1..MaxInstances

\* On a normal map, on the map of his battleground, between normal maps, on the
\* way to a battleground, and offline, last seen outside or inside of one.
Places == {"world", "inside", "travels", "ports", "offline", "offlineInside"}
InWorld(p) == place[p] \in {"world", "inside"}     \* ObjectAccessor::FindPlayer
Offline(p) == place[p] \in {"offline", "offlineInside"}

Zero == [t \in Teams |-> 0]

\* _InvitedAlliance and _InvitedHorde, _Players, _OfflineQueue.
NoBg == [status |-> "none", invited |-> Zero, players |-> {}, offline |-> <<>>]
Exists(b) == b \in Instances /\ bg[b].status # "none"
Running(b) == b \in Instances /\ bg[b].status \in {"join", "progress"}
Members(x, t) == {p \in x.players : TeamOf[p] = t}

NoEvent == [inst |-> 0, stamp |-> 0]
Events == [inst : 0..MaxInstances, stamp : Nat]
Group(players) == [players |-> players, inst |-> 0, stamp |-> 0]

Kinds == {"premade", "normal"}
GroupsOf(t) == Range(queue["premade"][t] \o queue["normal"][t])
Groups == UNION {GroupsOf(t) : t \in Teams}
InQueue(p) == \E g \in GroupsOf(TeamOf[p]) : p \in g.players
GroupOf(p) == CHOOSE g \in GroupsOf(TeamOf[p]) : p \in g.players
Invitation(p) == [inst |-> GroupOf(p).inst, stamp |-> GroupOf(p).stamp]

TypeOK ==
    /\ \A k \in Kinds, t \in Teams : \A g \in Range(queue[k][t]) :
           g.players \in (SUBSET Player) \ {{}} /\ [inst |-> g.inst, stamp |-> g.stamp] \in Events
    /\ slot \in [Player -> NoSlot..MaxInstances]
    /\ bgId \in [Player -> 0..MaxInstances]
    /\ place \in [Player -> Places]
    /\ \A p \in Player : removals[p] \in Seq(Events) /\ Len(removals[p]) <= MaxRemovals
    /\ \A b \in Instances :
           /\ bg[b].status \in {"none", "join", "progress", "leave"}
           /\ bg[b].invited \in [Teams -> 0..Wrap-1]
           /\ bg[b].players \subseteq Player /\ Range(bg[b].offline) \subseteq Player
    /\ IsInjective(freeSlots) /\ \A b \in Range(freeSlots) : Running(b)
    /\ scheduled \in BOOLEAN
    /\ miscounted \subseteq Instances

Init ==
    /\ queue = [k \in Kinds |-> [t \in Teams |-> <<>>]]
    /\ slot = [p \in Player |-> NoSlot]
    /\ bgId = [p \in Player |-> 0]
    /\ place = [p \in Player |-> "world"]
    /\ removals = [p \in Player |-> <<>>]
    /\ bg = [b \in Instances |-> NoBg]
    /\ freeSlots = <<>>
    /\ scheduled = FALSE
    /\ miscounted = {}

-----------------------------------------------------------------------------
(* Joining the queue. *)

\* BattlegroundQueue::AddGroup.
Queued(k, t, players) == [queue EXCEPT ![k][t] = Append(@, Group(players))]

\* HandleBattlemasterJoinOpcode, for himself.
Join(p) ==
    /\ place[p] = "world" /\ bgId[p] = 0 /\ slot[p] = NoSlot
    /\ Len(removals[p]) < MaxRemovals
    /\ queue' = Queued("normal", TeamOf[p], {p})
    /\ slot' = [slot EXCEPT ![p] = 0]
    /\ scheduled' = TRUE
    /\ UNCHANGED <<removals, playerVars, bgVars>>

\* HandleBattlemasterJoinOpcode, for the group of p.  CanJoinBattlegroundQueue
\* wants nobody in the queue yet; it does not see who is offline, but all members
\* count for a premade group.
JoinAsGroup(p, party) ==
    LET online == {q \in party : ~Offline(q)}
        k == IF Cardinality(party) >= MinPlayersPerTeam THEN "premade" ELSE "normal"
    IN  /\ p \in party /\ place[p] = "world" /\ bgId[p] = 0
        /\ \A q \in online : /\ slot[q] = NoSlot /\ TeamOf[q] = TeamOf[p]
                             /\ Len(removals[q]) < MaxRemovals
        /\ queue' = Queued(k, TeamOf[p], online)
        /\ slot' = [q \in Player |-> IF q \in online THEN 0 ELSE slot[q]]
        /\ scheduled' = TRUE
        /\ UNCHANGED <<removals, playerVars, bgVars>>

-----------------------------------------------------------------------------
(* BattlegroundQueueUpdate.  A state of it, s, holds the parts it changes.   *)

\* The bit of a getMSTime() that matters: no other invitation has it.
FreshStamp(s) ==
    LET used == {g.stamp : g \in UNION {Range(s.queue[k][t]) : k \in Kinds, t \in Teams}}
                    \cup {e.stamp : e \in UNION {Range(s.removals[p]) : p \in Player}}
    IN  Min((1..Cardinality(used) + 1) \ used)

\* The players of a group who are found when it is invited.
Found(players) == {p \in players : InWorld(p)}

\* InviteGroupToBG for all groups of both pools.
Invite(s, pools, b) ==
    LET groups == UNION {Range(pools[t]) : t \in Teams}
        event == [inst |-> b, stamp |-> FreshStamp(s)]
        found == Found(UNION {g.players : g \in groups})
        invite(g) == IF g \in groups THEN [g EXCEPT !.inst = event.inst, !.stamp = event.stamp] ELSE g
    IN  [s EXCEPT
           !.queue = [k \in Kinds |-> [t \in Teams |->
                         [i \in DOMAIN s.queue[k][t] |-> invite(s.queue[k][t][i])]]],
           !.bg[b].invited = [t \in Teams |-> (@[t] + Cardinality({p \in found : TeamOf[p] = t})) % Wrap],
           !.slot = [p \in Player |-> IF p \in found /\ @[p] # NoSlot THEN b ELSE @[p]],
           !.removals = [p \in Player |-> IF p \in found THEN Append(@[p], event) ELSE @[p]]]

\* GetFreeSlotsForTeam.
FreeSlotsForTeam(x, t) ==
    LET invited == x.invited[t]
        otherTeam == x.invited[Other(t)]
        in == Cardinality(Members(x, t))
        otherIn == Cardinality(Members(x, Other(t)))
        more(other, own) == IF other = own THEN 1 ELSE Max({0, other - own})
        diff2 == Max({0, MaxPlayersPerTeam - invited})
        diff3 == IF otherIn < in /\ invited <= MinPlayersPerTeam
                 THEN MinPlayersPerTeam - invited + 1
                 ELSE more(otherIn, in)
    IN  IF x.status = "join" THEN diff2 ELSE Min({more(otherTeam, invited), diff2, diff3})

HasFreeSlots(x) == Cardinality(x.players) < 2 * MaxPlayersPerTeam

\* One battleground of the BGFreeSlotQueue.
Fill(s, b) ==
    LET free == [t \in Teams |-> FreeSlotsForTeam(s.bg[b], t)]
        filled == Invite(s, FillPlayersToBG(s.queue["normal"], free), b)
    IN  [filled EXCEPT !.free = IF HasFreeSlots(s.bg[b]) THEN @ ELSE Those(@, Instances \ {b})]

\* CreateNewBattleground with the lowest free id, the invitations, and
\* StartBattleground; the update returns if there is no new one.
StartMatch(s, pools) ==
    LET ids == {b \in Instances : s.bg[b].status = "none"}
        b == Min(ids)
        guests == {p \in Player : slot[p] = b}      \* of the last one with this id
    IN  IF ids = {} THEN [s EXCEPT !.returned = TRUE]
        ELSE Invite([s EXCEPT !.bg[b] = [NoBg EXCEPT !.status = "join"],
                              !.free = <<b>> \o @,
                              !.miscounted = IF guests = {} THEN @ \ {b} ELSE @ \cup {b}], pools, b)

\* CheckPremadeMatch without a match: first groups that have waited for too long
\* or lost players go to the normal queue.
MoveFirst(s, t, aged) ==
    LET premade == s.queue["premade"][t]
        moves == /\ premade # <<>> /\ Waits(premade[1])
                 /\ t \in aged \/ Size(premade[1]) < MinPlayersPerTeam
    IN  IF ~moves THEN s
        ELSE [s EXCEPT !.queue["premade"][t] = Tail(@),
                       !.queue["normal"][t] = <<premade[1]>> \o @]

Premade(s, aged) ==
    IF PremadeFound(s.queue["premade"])
    THEN StartMatch(s, PremadePools(s.queue["premade"], s.queue["normal"]))
    ELSE MoveFirst(MoveFirst(s, "alliance", aged), "horde", aged)

Normal(s) ==
    IF s.returned \/ ~NormalFound(s.queue["normal"]) THEN s
    ELSE StartMatch(s, NormalPools(s.queue["normal"]))

QueueState == [queue |-> queue, slot |-> slot, removals |-> removals, bg |-> bg,
               free |-> freeSlots, miscounted |-> miscounted, returned |-> FALSE]

\* aged: the sides whose first premade group has waited for too long.
QueueUpdate(aged) ==
    /\ scheduled
    /\ scheduled' = FALSE
    /\ \E s \in {IF Groups = {} THEN QueueState
                ELSE Normal(Premade(FoldLeft(Fill, QueueState, freeSlots), aged))} :
           /\ queue' = s.queue /\ slot' = s.slot /\ removals' = s.removals
           /\ bg' = s.bg /\ freeSlots' = s.free /\ miscounted' = s.miscounted
    /\ UNCHANGED playerVars

-----------------------------------------------------------------------------
(* Leaving the queue. *)

\* BattlegroundQueue::RemovePlayer: the group loses him, an empty one goes.
QueueWithout(p) ==
    [k \in Kinds |-> [t \in Teams |->
        LET groups == [i \in DOMAIN queue[k][t] |-> [queue[k][t][i] EXCEPT !.players = @ \ {p}]]
        IN  Those(groups, {g \in Range(groups) : g.players # {}})]]

Decreased(x, t) == [x EXCEPT !.invited[t] = (@ + Wrap - 1) % Wrap]

\* Mutant: an invitation that is given up stays counted.
KeepsPlace(p) == UNCHANGED <<bg, miscounted>>

\* With decreaseInvitedCount.
GivesUpPlace(p) ==
    LET b == GroupOf(p).inst
    IN  /\ bg' = IF Exists(b) THEN [bg EXCEPT ![b] = Decreased(@, TeamOf[p])] ELSE bg
        /\ miscounted' = IF Exists(b) /\ slot[p] # b THEN miscounted \cup {b} ELSE miscounted

\* The answer to an invitation, or the end of waiting for one, in
\* HandleBattleFieldPortOpcode and HandleBattlegroundPortOpcode.
LeaveQueue(p) ==
    /\ InWorld(p) /\ InQueue(p) /\ slot[p] # NoSlot
    /\ slot' = [slot EXCEPT ![p] = NoSlot]
    /\ queue' = QueueWithout(p)
    /\ GivesUpPlace(p)
    /\ scheduled' = TRUE
    /\ UNCHANGED <<removals, playerVars, freeSlots>>

\* The same handlers: he accepts.  Nobody queues for the battleground he is in,
\* so there is no other one to leave first.
Port(p) ==
    /\ InWorld(p) /\ InQueue(p) /\ slot[p] > 0
    /\ Exists(GroupOf(p).inst)
    /\ queue' = QueueWithout(p)
    /\ bgId' = [bgId EXCEPT ![p] = GroupOf(p).inst]
    /\ place' = [place EXCEPT ![p] = "ports"]
    /\ UNCHANGED <<slot, removals, bgVars, scheduled>>

\* Mutant: the battleground must not be over.
InvitedToRunning(p, e) == InQueue(p) /\ Invitation(p) = e /\ Running(e.inst)

IsPlayerInvited(p, e) == InQueue(p) /\ Invitation(p) = e

\* BGQueueRemoveEvent::Execute.  The events of a player are run by his map.
InviteExpires(p) ==
    /\ InWorld(p) /\ removals[p] # <<>>
    /\ removals' = [removals EXCEPT ![p] = Tail(@)]
    /\ LET e == Head(removals[p])
       IN  IF slot[p] # NoSlot /\ IsPlayerInvited(p, e)
           THEN /\ slot' = [slot EXCEPT ![p] = NoSlot]
                /\ queue' = QueueWithout(p)
                /\ GivesUpPlace(p)
                /\ scheduled' = (scheduled \/ Running(e.inst))
           ELSE UNCHANGED <<queue, slot, bg, miscounted, scheduled>>
    /\ UNCHANGED <<playerVars, freeSlots>>

-----------------------------------------------------------------------------
(* The players and the battlegrounds. *)

\* RemovePlayerAtLeave: what becomes of the battleground and its free slots.
WithoutMember(x, p) ==
    IF p \in x.players THEN Decreased([x EXCEPT !.players = @ \ {p}], TeamOf[p]) ELSE x

FreedSlots(b, p) ==
    IF p \in bg[b].players /\ Running(b) /\ b \notin Range(freeSlots)
    THEN <<b>> \o freeSlots ELSE freeSlots

RemovePlayerAtLeave(p, b) ==
    /\ bg' = [bg EXCEPT ![b] = WithoutMember(@, p)]
    /\ freeSlots' = FreedSlots(b, p)
    /\ scheduled' = (scheduled \/ (p \in bg[b].players /\ Running(b)))
    /\ UNCHANGED miscounted

\* TeleportTo, to a map that is no battleground.
Zone(p) ==
    /\ place[p] = "world"
    /\ place' = [place EXCEPT ![p] = "travels"]
    /\ UNCHANGED <<queueVars, bgId, bgVars, scheduled>>

\* HandleMoveWorldportAckOpcode at a battleground: he is added if he is invited
\* there (AddPlayer).  Where there is none, he is sent on.
Arrive(p) ==
    LET b == bgId[p]
    IN  /\ place[p] = "ports"
        /\ IF Exists(b)
           THEN /\ place' = [place EXCEPT ![p] = "inside"]
                /\ bg' = IF slot[p] = b THEN [bg EXCEPT ![b].players = @ \cup {p}] ELSE bg
           ELSE place' = [place EXCEPT ![p] = "travels"] /\ bg' = bg
        /\ UNCHANGED <<queueVars, bgId, freeSlots, miscounted, scheduled>>

\* HandleMoveWorldportAckOpcode elsewhere.
ArriveOutside(p) ==
    /\ place[p] = "travels"
    /\ place' = [place EXCEPT ![p] = "world"]
    /\ bgId' = [bgId EXCEPT ![p] = 0]
    /\ UNCHANGED <<queueVars, bgVars, scheduled>>

\* Player::LeaveBattleground.
LeaveBattleground(p) ==
    /\ place[p] = "inside" /\ Exists(bgId[p])
    /\ RemovePlayerAtLeave(p, bgId[p])
    /\ slot' = [slot EXCEPT ![p] = NoSlot]
    /\ bgId' = [bgId EXCEPT ![p] = 0]
    /\ place' = [place EXCEPT ![p] = "travels"]
    /\ UNCHANGED <<queue, removals>>

\* LogoutPlayer; transfers have been finished (Arrive, ArriveOutside).
Logout(p) ==
    /\ InWorld(p)
    /\ slot' = [slot EXCEPT ![p] = NoSlot]
    /\ removals' = [removals EXCEPT ![p] = <<>>]
    /\ IF place[p] = "inside"
       THEN /\ place' = [place EXCEPT ![p] = "offlineInside"]
            /\ bg' = IF Exists(bgId[p]) THEN [bg EXCEPT ![bgId[p]].offline = Append(@, p)] ELSE bg
            /\ UNCHANGED <<queue, miscounted>>
       ELSE /\ place' = [place EXCEPT ![p] = "offline"]
            /\ IF slot[p] # NoSlot /\ InQueue(p)
               THEN queue' = QueueWithout(p) /\ GivesUpPlace(p)
               ELSE UNCHANGED <<queue, bg, miscounted>>
    /\ UNCHANGED <<bgId, freeSlots, scheduled>>

\* Mutant: his time offline runs on.
ReturnedUnlisted(x, p) == x

\* EventPlayerLoggedIn.
Returned(x, p) == [x EXCEPT !.offline = Those(@, Player \ {p})]

\* LoadFromDB: back into the battleground if it still has him.
Login(p) ==
    LET b == bgId[p]
        member == Exists(b) /\ p \in bg[b].players
        back == member /\ bg[b].status # "leave"
    IN  /\ Offline(p)
        /\ IF place[p] = "offlineInside" /\ back
           THEN /\ place' = [place EXCEPT ![p] = "inside"]
                /\ slot' = [slot EXCEPT ![p] = b]
                /\ bg' = [bg EXCEPT ![b] = Returned(@, p)]
                /\ UNCHANGED <<bgId, freeSlots, miscounted, scheduled>>
           ELSE /\ place' = [place EXCEPT ![p] = "world"]
                /\ bgId' = [bgId EXCEPT ![p] = 0]
                /\ slot' = slot
                /\ IF place[p] = "offlineInside" /\ member THEN RemovePlayerAtLeave(p, b)
                   ELSE UNCHANGED <<bgVars, scheduled>>
        /\ UNCHANGED <<queue, removals>>

-----------------------------------------------------------------------------
(* Battleground::Update. *)

\* _ProcessJoin, when the doors open.
BgStart(b) ==
    /\ bg[b].status = "join" /\ bg[b].players # {}
    /\ bg' = [bg EXCEPT ![b].status = "progress"]
    /\ UNCHANGED <<queueVars, playerVars, freeSlots, miscounted, scheduled>>

\* EndBattleground, or EndNow when the map or the doors cannot be made.
BgEnd(b) ==
    /\ Running(b) /\ bg[b].players # {}
    /\ bg' = [bg EXCEPT ![b].status = "leave"]
    /\ freeSlots' = Those(freeSlots, Instances \ {b})
    /\ UNCHANGED <<queueVars, playerVars, miscounted, scheduled>>

\* _ProcessOfflineQueue: the first one has been offline for MAX_OFFLINE_TIME.
OfflineExpires(b) ==
    LET p == Head(bg[b].offline)
        x == [bg[b] EXCEPT !.offline = Tail(@)]
    IN  /\ bg[b].status = "progress" /\ bg[b].offline # <<>>
        /\ p \in bg[b].players
        /\ bg' = [bg EXCEPT ![b] = WithoutMember(x, p)]
        /\ freeSlots' = FreedSlots(b, p)
        /\ scheduled' = TRUE
        /\ UNCHANGED <<queueVars, playerVars, miscounted>>

\* _ProcessLeave: the players still there are removed, and sent out.
BgClose(b) ==
    LET leavers == bg[b].players
        found == {p \in leavers : InWorld(p)}
    IN  /\ bg[b].status = "leave" /\ leavers # {}
        /\ bg' = [bg EXCEPT ![b] = FoldLeft(WithoutMember, @, SetToSeq(leavers))]
        /\ slot' = [p \in Player |-> IF p \in found THEN NoSlot ELSE slot[p]]
        /\ bgId' = [p \in Player |-> IF p \in found THEN 0 ELSE bgId[p]]
        /\ place' = [p \in Player |-> IF p \in found THEN "travels" ELSE place[p]]
        /\ UNCHANGED <<queue, removals, freeSlots, miscounted, scheduled>>

\* Mutant: the invited are not waited for.
NoPlayers(x) == x.players = {}

ToBeDeleted(x) == x.players = {} /\ \A t \in Teams : x.invited[t] = 0

\* BattlegroundMgr::Update deletes it.
BgDelete(b) ==
    /\ Exists(b) /\ ToBeDeleted(bg[b])
    /\ bg' = [bg EXCEPT ![b] = NoBg]
    /\ freeSlots' = Those(freeSlots, Instances \ {b})
    /\ UNCHANGED <<queueVars, playerVars, miscounted, scheduled>>

BgUpdate(b) == BgStart(b) \/ OfflineExpires(b) \/ BgClose(b) \/ BgDelete(b)

Next ==
    \/ \E aged \in SUBSET {t \in Teams : queue["premade"][t] # <<>>} : QueueUpdate(aged)
    \/ \E p \in Player :
           \/ Join(p) \/ \E party \in Parties : JoinAsGroup(p, party)
           \/ LeaveQueue(p) \/ Port(p) \/ InviteExpires(p)
           \/ Zone(p) \/ Arrive(p) \/ ArriveOutside(p) \/ LeaveBattleground(p)
           \/ Logout(p) \/ Login(p)
    \/ \E b \in Instances : BgEnd(b) \/ BgUpdate(b)

Spec == Init /\ [][Next]_vars

\* The maps, Battleground::Update and the world thread go on.  A player who keeps
\* changing maps is now and then on one.
Fairness ==
    /\ \A p \in Player : /\ SF_vars(InviteExpires(p))
                         /\ WF_vars(Arrive(p)) /\ WF_vars(ArriveOutside(p))
    /\ \A b \in Instances : WF_vars(BgClose(b)) /\ WF_vars(BgDelete(b))

LiveSpec == Spec /\ Fairness

-----------------------------------------------------------------------------
(* Properties. *)

\* He is asked whether he comes.
Asked(p) == InQueue(p) /\ slot[p] > 0

\* Who takes a place of b: who is asked, on his way there or a member.
Takes(p, b) ==
    \/ Asked(p) /\ slot[p] = b
    \/ place[p] = "ports" /\ bgId[p] = b
    \/ p \in bg[b].players
Taking(b, t) == {p \in Player : TeamOf[p] = t /\ Takes(p, b)}

\* A battleground whose counters have not been lowered for somebody they never
\* counted.
Counted(b) == Exists(b) /\ b \notin miscounted

\* The invited counters of a battleground are those who are asked, on their way
\* or members, whoever lets an invitation run out, declines, arrives, leaves or
\* disconnects in between (InviteGroupToBG, RemovePlayer, RemovePlayerAtLeave).
InvitedExact ==
    \A b \in Instances : Counted(b) =>
        \A t \in Teams : bg[b].invited[t] = Cardinality(Taking(b, t))

\* Who is asked, on his way or a member is never one too many, however the places
\* were given away: in the first match, while the doors are closed, in the course
\* of the battle, one update after another (GetFreeSlotsForTeam, FillPlayersToBG,
\* CheckPremadeMatch and CheckNormalMatch).  Proved in BattlegroundQueue_proofs.
TeamsFit ==
    \A b \in Instances : Counted(b) =>
        \A t \in Teams : Cardinality(Taking(b, t)) <= MaxPlayersPerTeam

\* The queue, the player's own slot and the battleground agree (and are well
\* typed; the battlegrounds with free slots are running): who is in a group
\* has a slot, which tells no other battleground than the group's; who is
\* at or on his way to a battleground is not queued, is invited there, and finds
\* it (unless its counters had been lowered for others).
SlotsAgree ==
    /\ TypeOK
    /\ \A p \in Player :
           /\ InQueue(p) => slot[p] \in {0, GroupOf(p).inst} /\ bgId[p] = 0 /\ ~Offline(p)
           /\ slot[p] > 0 /\ slot[p] \notin miscounted => Exists(slot[p])
           /\ place[p] \in {"ports", "inside"} => slot[p] = bgId[p] /\ ~InQueue(p)
           /\ place[p] = "inside" => p \in bg[bgId[p]].players

\* The members who are offline are those in _OfflineQueue, each once: its head,
\* the only one _ProcessOfflineQueue looks at, is always a member it can remove.
OfflineListed ==
    \A b \in Instances : Running(b) =>
        /\ IsInjective(bg[b].offline)
        /\ Range(bg[b].offline) = {p \in bg[b].players : Offline(p)}

\* Who is asked has the event of this very invitation still to come, even when the
\* battleground he is asked to has ended (the fifth case in the comment of
\* BGQueueRemoveEvent::Execute): no invitation stays unanswered for ever.
AskedIsTimed == \A p \in Player : Asked(p) => Invitation(p) \in Range(removals[p])

-----------------------------------------------------------------------------
(* What a comment says. *)

\* The comment in RemovePlayerAtLeave: a battleground "will be deleted" by an update
\* once the last one has left it; so if it is over, it does not stay for ever.
LeftIsDeleted == \A b \in Instances : bg[b].status = "leave" ~> bg[b].status # "leave"

=============================================================================

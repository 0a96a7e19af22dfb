----------------------------- MODULE Matchmaking -----------------------------
(***************************************************************************)
(* Whom a battleground queue invites                                       *)
(* (src/src/server/game/Battlegrounds/BattlegroundQueue.cpp): the          *)
(* selection pools, the filling of a running battleground, and the two     *)
(* ways a new one is made, premade against premade and normal.             *)
(*                                                                         *)
(* These are functions of the queues alone.  A group is a record with its  *)
(* players and the battleground it is invited to, inst, 0 for none; a pool *)
(* is the sequence of the groups selected, SelectedGroups, and its         *)
(* PlayerCount is what they add up to.  A queue is a sequence of groups    *)
(* for each team.  The debug mode of the queues is not modelled.           *)
(***************************************************************************)
EXTENDS Integers, SequencesExt

CONSTANTS
    MinPlayersPerTeam,
    MaxPlayersPerTeam,
    InvitationType      \* CONFIG_BATTLEGROUND_INVITATION_TYPE, 0 or not

ASSUME TeamSizeAssumption ==
    /\ MinPlayersPerTeam \in Nat \ {0} /\ MaxPlayersPerTeam \in Nat
    /\ MinPlayersPerTeam <= MaxPlayersPerTeam

Teams == {"alliance", "horde"}
Other(t) == CHOOSE o \in Teams : o # t

Size(g) == Cardinality(g.players)
PlayerCount(pool) == FoldLeft(LAMBDA n, g : n + Size(g), 0, pool)
Waits(g) == g.inst = 0

\* The elements of a sequence that are in a set, in their order.
Those(seq, S) ==
    LET kept[n \in 0..Len(seq)] ==
            IF n = 0 THEN <<>>
            ELSE IF seq[n] \in S THEN Append(kept[n - 1], seq[n]) ELSE kept[n - 1]
    IN  kept[Len(seq)]

Waiting(queue) == [t \in Teams |-> Those(queue[t], {g \in Range(queue[t]) : Waits(g)})]
Distance(m, n) == IF m < n THEN n - m ELSE m - n

-----------------------------------------------------------------------------
(* Selection pools. *)

\* Mutant: a group that is invited already is taken again.
FitsInvited(pool, g, desired) == PlayerCount(pool) + Size(g) <= desired

Fits(pool, g, desired) == Waits(g) /\ PlayerCount(pool) + Size(g) <= desired

AddGroup(pool, g, desired) == IF Fits(pool, g, desired) THEN Append(pool, g) ELSE pool

\* AddGroup answers that the pool is full.
Full(pool, g, desired) == ~Fits(pool, g, desired) /\ PlayerCount(pool) >= desired

\* The groups in turn until the pool is full; rest is what was not taken up.
AddGroups(pool, groups, desired) ==
    LET Step(s, g) ==
            IF s.rest = <<>> /\ ~Full(s.pool, g, desired)
            THEN [s EXCEPT !.pool = AddGroup(@, g, desired)]
            ELSE [s EXCEPT !.rest = Append(@, g)]
    IN  FoldLeft(Step, [pool |-> pool, rest |-> <<>>], groups)

\* The last group of about this size, else the last of the largest ones.
GroupToKick(pool, size) ==
    LET alike == {i \in DOMAIN pool : Distance(Size(pool[i]), size) <= 1}
        largest == {i \in DOMAIN pool : \A j \in DOMAIN pool : Size(pool[j]) <= Size(pool[i])}
    IN  Max(IF alike # {} THEN alike ELSE largest)

\* again: another group may be added to the pool.
KickGroup(pool, size) ==
    IF pool = <<>> THEN [pool |-> pool, again |-> TRUE]
    ELSE LET i == GroupToKick(pool, size)
         IN  [pool |-> RemoveAt(pool, i), again |-> Size(pool[i]) > size + 1]

-----------------------------------------------------------------------------
(* FillPlayersToBG: players for the free places of a running battleground. *)

\* First come, first served.
FirstCome(queue, free) == [t \in Teams |-> AddGroups(<<>>, queue[t], free[t])]

\* The places a selection leaves free.
Left(s, free, t) == free[t] - PlayerCount(s[t].pool)

Unbalanced(s, free) ==
    /\ Distance(Left(s, free, "alliance"), Left(s, free, "horde")) > 1
    /\ \E t \in Teams : s[t].pool # <<>>

\* Mutant: the loop breaks as soon as a side has nobody left.
GivesUp(s, free, t, pool) == pool = <<>>

\* The loop breaks when the side with nobody left could not have more free places
\* than the other anyway.
Breaks(s, free, t, pool) == pool = <<>> /\ free[t] <= Left(s, free, Other(t)) + 1

\* One round of the loop: a group of the fuller side gives way, to a smaller
\* one if there is; when nobody is left there, one of the other side does.
Round(s, free) ==
    LET t == IF Left(s, free, "alliance") < Left(s, free, "horde") THEN "alliance" ELSE "horde"
        o == Other(t)
        gap == Left(s, free, o) - Left(s, free, t)
        room == Max({0, free[t] - Left(s, free, o)})
        kicked == KickGroup(s[t].pool, gap)
        refilled == IF kicked.again THEN AddGroups(kicked.pool, s[t].rest, room)
                    ELSE [pool |-> kicked.pool, rest |-> s[t].rest]
        breaks == Breaks(s, free, t, refilled.pool)
        others == IF refilled.pool = <<>> /\ ~breaks THEN KickGroup(s[o].pool, gap).pool
                  ELSE s[o].pool
    IN  [breaks |-> breaks,
         s |-> [s EXCEPT ![t] = refilled, ![o].pool = others]]

\* The loop; each round takes a group out of a pool or out of the rest, so
\* MaxRounds are enough.
Balance(s0, free) ==
    LET Step(b, n) == IF b.breaks \/ ~Unbalanced(b.s, free) THEN b ELSE Round(b.s, free)
        groups(t) == Len(s0[t].pool) + 2 * Len(s0[t].rest)
        MaxRounds == groups("alliance") + groups("horde")
    IN  FoldLeft(Step, [breaks |-> FALSE, s |-> s0], [n \in 1..MaxRounds |-> n])

Pools(s) == [t \in Teams |-> s[t].pool]

FillPlayersToBG(queue, free) ==
    LET s == FirstCome(queue, free)
    IN  Pools(IF InvitationType = 0 THEN s ELSE Balance(s, free).s)

-----------------------------------------------------------------------------
(* New battlegrounds: the pools, and whether there is a match. *)

\* CheckPremadeMatch: the first premade groups of both sides.  normal is the
\* queue the sides are filled up from.
PremadeFound(premade) == \A t \in Teams : Waiting(premade)[t] # <<>>

PremadePools(premade, normal) ==
    LET groups == [t \in Teams |-> AddGroup(<<>>, Waiting(premade)[t][1], MaxPlayersPerTeam)]
        maxPlayers == Min({PlayerCount(groups[t]) : t \in Teams})
    IN  [t \in Teams |-> AddGroups(groups[t], Waiting(normal)[t], maxPlayers).pool]

\* CheckNormalMatch: groups until the side has MinPlayersPerTeam.
FirstGroups(groups) ==
    LET Step(s, g) ==
            IF PlayerCount(s.pool) >= MinPlayersPerTeam
            THEN [s EXCEPT !.rest = Append(@, g)]
            ELSE [s EXCEPT !.pool = AddGroup(@, g, MaxPlayersPerTeam)]
    IN  FoldLeft(Step, [pool |-> <<>>, rest |-> <<>>], groups)

\* Mutant: the players of both sides are counted together.
EnoughTogether(s) ==
    PlayerCount(s["alliance"].pool) + PlayerCount(s["horde"].pool) >= 2 * MinPlayersPerTeam

Enough(s) == \A t \in Teams : PlayerCount(s[t].pool) >= MinPlayersPerTeam

\* Unless the queue serves in order, the smaller side is filled up to the
\* larger one.
Evened(s) ==
    LET t == IF PlayerCount(s["horde"].pool) < PlayerCount(s["alliance"].pool)
             THEN "horde" ELSE "alliance"
    IN  IF InvitationType = 0 \/ ~Enough(s) THEN s
        ELSE [s EXCEPT ![t] = AddGroups(@.pool, @.rest, PlayerCount(s[Other(t)].pool))]

NormalSelection(normal) ==
    Evened([t \in Teams |-> FirstGroups(Waiting(normal)[t])])

TooUneven(s) ==
    /\ InvitationType # 0
    /\ Distance(PlayerCount(s["alliance"].pool), PlayerCount(s["horde"].pool)) > 2

NormalPools(normal) == Pools(NormalSelection(normal))

NormalFound(normal) ==
    LET s == NormalSelection(normal) IN Enough(s) /\ ~TooUneven(s)
=============================================================================

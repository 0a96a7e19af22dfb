---------------------------- MODULE MCMatchmaking ----------------------------
(***************************************************************************)
(* Matchmaking for TLC: every choice of queues and of free places within   *)
(* the bounds is an initial state, and the one step makes the selection.   *)
(***************************************************************************)
EXTENDS Matchmaking

CONSTANTS
    MaxAlliance,    \* bound: groups in the queue of a side
    MaxHorde,
    Sizes,          \* bound: how many players a group has
    MaxFree         \* bound: free places of a side

VARIABLES
    job,            \* "fill" a running battleground, or make a match
    normal,         \* the normal queues
    premade,        \* the premade queues
    free,           \* free places of the battleground to fill
    pools           \* the pools selected, empty before
vars == <<job, normal, premade, free, pools>>

Nobody == [t \in Teams |-> <<>>]

\* The i-th group of a side; its players are told apart by its place.
Group(t, i, n, inst) == [players |-> {<<t, i, k>> : k \in 1..n}, inst |-> inst]

\* Groups that wait, and a player who is invited already.
Shapes == (Sizes \X {0}) \cup {<<1, 1>>}

Queues(t) ==
    {[i \in DOMAIN q |-> Group(t, i, q[i][1], q[i][2])] :
        q \in SeqOf(Shapes, IF t = "alliance" THEN MaxAlliance ELSE MaxHorde)}

Both(S(_)) == {[t \in Teams |-> IF t = "alliance" THEN a ELSE h] : a \in S("alliance"), h \in S("horde")}

\* Who joins with MinPlayersPerTeam is premade.
Premades(t) == {<<Group(t, 0, n, 0)>> : n \in {s \in Sizes : s >= MinPlayersPerTeam}}

Init ==
    /\ normal \in Both(Queues)
    /\ \/ job = "fill" /\ free \in [Teams -> 0..MaxFree] /\ premade = Nobody
       \/ job = "normal" /\ free = [t \in Teams |-> 0] /\ premade = Nobody
       \/ job = "premade" /\ free = [t \in Teams |-> 0] /\ premade \in Both(Premades)
    /\ pools = Nobody

Select ==
    /\ pools = Nobody
    /\ pools' = CASE job = "fill" -> FillPlayersToBG(normal, free)
                  [] job = "normal" -> IF NormalFound(normal) THEN NormalPools(normal) ELSE Nobody
                  [] job = "premade" -> PremadePools(premade, normal)
    /\ UNCHANGED <<job, normal, premade, free>>

Spec == Init /\ [][Select]_vars

-----------------------------------------------------------------------------
(* Properties of a selection. *)

Invited(t) == PlayerCount(pools[t])
NumWaiting(t) == PlayerCount(Waiting(normal)[t])
Solo == \A t \in Teams : \A i \in DOMAIN normal[t] : Size(normal[t][i]) = 1

\* Nobody is selected twice, out of turn or while invited elsewhere, and never
\* more than the free places of a battleground or than a team may have
\* (SelectionPool::AddGroup and KickGroup, whatever the loops around them do).
\* While places are filled in order of arrival, a group is passed over only
\* if there is no room for it: a smaller one behind it does get the place.
PoolsSound ==
    \A t \in Teams :
        LET queue == premade[t] \o normal[t]
            first == FirstCome(normal, free)[t].pool
        IN  /\ pools[t] = SelectSeq(queue, LAMBDA g : g \in Range(pools[t]))
            /\ \A g \in Range(pools[t]) : Waits(g)
            /\ Invited(t) <= IF job = "fill" THEN free[t] ELSE MaxPlayersPerTeam
            /\ job = "fill" => \A g \in Range(Waiting(normal)[t]) \ Range(first) :
                                  PlayerCount(first) + Size(g) > free[t]

LeftFree(t) == free[t] - Invited(t)

\* The loop that evens out a running battleground ends, and the sides are then
\* left with as many free places, up to one, unless the one with fewer has
\* nobody invited at all (FillPlayersToBG).  And players who queue alone are not
\* left out for nothing: when one waits and a place is free, one more would
\* leave his side with fewer free places by two.
FillFair ==
    job = "fill" /\ pools # Nobody =>
        LET b == Balance(FirstCome(normal, free), free)
        IN  /\ b.breaks \/ ~Unbalanced(b.s, free)
            /\ \A t \in Teams :
                   /\ LeftFree(t) + 1 < LeftFree(Other(t)) => pools[t] = <<>>
                   /\ Solo /\ Invited(t) < NumWaiting(t) /\ LeftFree(t) > 0
                          => LeftFree(t) < LeftFree(Other(t))

\* A battleground starts with enough players on both sides and at most two
\* more on one of them; and if all queue alone, it starts as soon as there are
\* enough (CheckNormalMatch).
MatchFair ==
    job = "normal" =>
        /\ \A t \in Teams : pools # Nobody => Invited(t) >= MinPlayersPerTeam
        /\ Distance(Invited("alliance"), Invited("horde")) <= 2
        /\ Solo => (NormalFound(normal) <=> \A t \in Teams : NumWaiting(t) >= MinPlayersPerTeam)
=============================================================================

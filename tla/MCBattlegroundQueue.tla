------------------------ MODULE MCBattlegroundQueue ------------------------
(* BattlegroundQueue for TLC. *)
EXTENDS BattlegroundQueue

CONSTANTS a1, a2, h1

MCTeamOf == [p \in Player |-> IF p = h1 THEN "horde" ELSE "alliance"]
\* Two friends.
MCParties == {{a1, a2}}

Alike == Permutations({a1, a2})
============================================================================

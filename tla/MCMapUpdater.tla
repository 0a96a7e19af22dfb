---------------------------- MODULE MCMapUpdater ----------------------------
(***************************************************************************)
(* A small instance of MapUpdater for TLC: an instanceable map with two    *)
(* copies and a plain map.                                                 *)
(***************************************************************************)
EXTENDS MapUpdater, TLC

CONSTANTS w1, w2, w3, dungeon, continent, isles, i1, i2

MCInstancesOf == (dungeon :> {i1, i2}) @@ (continent :> {}) @@ (isles :> {})

\* Map threads are interchangeable.
Symmetry == Permutations(Worker)
=============================================================================

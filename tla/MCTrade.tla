------------------------------- MODULE MCTrade -------------------------------
(***************************************************************************)
(* Small instances of Trade for TLC: the players are ann, ben and cat.     *)
(***************************************************************************)
EXTENDS Trade, TLC

CONSTANTS ann, ben, cat, sword, ring

\* Players and items are interchangeable when everybody may have every item.
Symmetry == Permutations(Player) \cup Permutations(Item)

\* Everybody may have every item.
Anyone == [i \in Item |-> Player]

=============================================================================

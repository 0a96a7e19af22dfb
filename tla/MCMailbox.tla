------------------------------ MODULE MCMailbox ------------------------------
(***************************************************************************)
(* A small instance of Mailbox for TLC: two characters and one item.       *)
(***************************************************************************)
EXTENDS Mailbox

CONSTANTS ann, ben

\* The characters are interchangeable.
Symmetry == Permutations(Player)
=============================================================================

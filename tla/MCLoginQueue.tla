---------------------------- MODULE MCLoginQueue ----------------------------
(***************************************************************************)
(* Small instances of LoginQueue for TLC.                                  *)
(***************************************************************************)
EXTENDS LoginQueue, TLC

CONSTANTS s1, s2, s3, alice, bob, gm

\* Session objects are interchangeable.
Symmetry == Permutations(Session)
=============================================================================

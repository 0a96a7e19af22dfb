----------------------------- MODULE MCGroupLoot -----------------------------
(***************************************************************************)
(* Small instances of GroupLoot for TLC: what each item lies on.           *)
(***************************************************************************)
EXTENDS GroupLoot

CONSTANT wolf

OneCorpse == [i \in Item |-> wolf]
=============================================================================

-------------------------- MODULE MCSessionPackets --------------------------
(***************************************************************************)
(* SessionPackets needs no model values: the configurations choose the     *)
(* kinds of packets and the bounds.                                        *)
(***************************************************************************)
EXTENDS SessionPackets
=============================================================================

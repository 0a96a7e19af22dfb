---------------------------- MODULE MCAuctionHouse ----------------------------
(***************************************************************************)
(* Small instances of AuctionHouse for TLC.                                *)
(***************************************************************************)
EXTENDS AuctionHouse

CONSTANTS ann, ben, cat
=============================================================================

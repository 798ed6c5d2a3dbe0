---------------------------- MODULE MCCoalescer ----------------------------
(***************************************************************************)
(* Instances of Coalescer for TLC.                                         *)
(***************************************************************************)
EXTENDS Coalescer, TLC

TextsOnly == {"text"}

TextsAndShares == {"text", "share"}
=============================================================================

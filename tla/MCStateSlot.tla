----------------------------- MODULE MCStateSlot ----------------------------
(***************************************************************************)
(* Instances of StateSlot for TLC.                                         *)
(***************************************************************************)
EXTENDS StateSlot
=============================================================================

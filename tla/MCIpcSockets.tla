---------------------------- MODULE MCIpcSockets ----------------------------
(***************************************************************************)
(* Instances of IpcSockets for TLC.                                        *)
(***************************************************************************)
EXTENDS IpcSockets, TLC

CONSTANTS s1, s2, g1, g2

Symmetric == Permutations({s1, s2}) \cup Permutations({g1, g2})
=============================================================================

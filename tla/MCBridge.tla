------------------------------ MODULE MCBridge ------------------------------
(***************************************************************************)
(* Instances of Bridge for TLC: who detects what, and who publishes what,  *)
(* through which connector.                                                *)
(***************************************************************************)
EXTENDS Bridge, TLC

CONSTANTS a1, a2, a3, g1, g2, g3, p1, p2

\* One slot: a game and two companions that fight over it.
OneSlotDetected == [g \in Games |-> a1]
OneSlotApps     == [p \in Companions |-> {a1}]

\* Each companion on a connector of its own, so that the event loops race.
SplitChannels == [p \in Companions |-> IF p = p1 THEN "ipc" ELSE "ws"]
IpcOnly       == [p \in Companions |-> "ipc"]

\* Two slots, each with a game and a companion.
TwoSlotsDetected == [g \in Games |-> IF g = g1 THEN a1 ELSE a2]
TwoSlotsApps     == [p \in Companions |-> IF p = p1 THEN {a1} ELSE {a2}]

\* Every companion publishes for every application.
AllApps == [p \in Companions |-> Apps]
=============================================================================

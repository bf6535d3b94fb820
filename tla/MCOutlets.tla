------------------------------ MODULE MCOutlets -----------------------------
(***************************************************************************)
(* What leaves the bridge, for TLC: the clients of its WebSocket ports and *)
(* the state snapshot.  They share no state: each behaviour is one         *)
(* component's with the other at rest, and the fairness of the clients is  *)
(* asked of the behaviours they move in.                                   *)
(***************************************************************************)
EXTENDS MCBridgeClients, MCStateSlot

VARIABLE part   \* which component moves

outletVars == <<part, clientVars, slotVars>>

Init ==
  /\ part \in {"clients", "slots"}
  /\ ClientsInit
  /\ SlotsInit

Joins     == part = "clients" /\ ClientsNext /\ UNCHANGED <<part, slotVars>>
Persists  == part = "slots" /\ SlotsNext /\ UNCHANGED <<part, clientVars>>

Next == Joins \/ Persists

\* The fairness of the clients' own specification.
FairPoll(p)    == part = "clients" /\ PollLoop(p) /\ UNCHANGED <<part, slotVars>>
FairSend(t)    == part = "clients" /\ SendToAll(t) /\ UNCHANGED <<part, slotVars>>
FairRefresh    == part = "clients" /\ RefreshClients /\ UNCHANGED <<part, slotVars>>

Fairness ==
  /\ \A p \in Ports : WF_outletVars(FairPoll(p))
  /\ \A t \in Casters : WF_outletVars(FairSend(t))
  /\ WF_outletVars(FairRefresh)

Spec == Init /\ [][Next]_outletVars /\ Fairness

\* Every variable of both components has its type.
OutletsTypeOK == ClientsTypeOK /\ SlotsTypeOK
=============================================================================

--------------------------- MODULE MCBridgeClients --------------------------
(***************************************************************************)
(* Instances of BridgeClients for TLC: who connects where, and how.        *)
(***************************************************************************)
EXTENDS BridgeClients

CONSTANTS c1, c2, c3, u1, u2

\* The JSON port has every client but c3.
MostlyJson == [c \in Clients |-> IF c = c3 THEN "msgpack" ELSE "json"]

AsThePort   == [c \in Clients |-> None]
AllMsgPack  == [c \in Clients |-> "msgpack"]

FirstIdentity == [f \in Fields |-> u1]
=============================================================================

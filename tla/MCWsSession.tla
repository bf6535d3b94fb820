---------------------------- MODULE MCWsSession -----------------------------
(***************************************************************************)
(* Instances of WsSession for TLC.                                         *)
(***************************************************************************)
EXTENDS WsSession

CONSTANTS w1, w2, n1, n2, q1, q2

Plain(kind) == [kind |-> kind, app |-> None, pid |-> NoWsPid, args |-> TRUE, activity |-> FALSE]
Sets(a, p)   == [Plain("set") EXCEPT !.app = a, !.pid = p, !.activity = TRUE]
Unsets(a, p) == [Sets(a, p) EXCEPT !.activity = FALSE]
Bare         == [Plain("set") EXCEPT !.args = FALSE]

Good(a) == [valid |-> TRUE, app |-> a, origin |-> "none"]
Bad     == [valid |-> FALSE, app |-> None, origin |-> "none"]
Alien   == [valid |-> TRUE, app |-> None, origin |-> "other"]

\* The first port is another server's, and perhaps the last.
HeldFirst == {{FirstPort}, Ports}

\* One names its application in every command, the other when it connects.
FewCards ==
  [c \in WsClients |-> IF c = w1 THEN {Sets(n1, q1), Unsets(n1, q1), Plain("ask")}
                                 ELSE {Sets(None, q2), Plain("noise")}]
FewQueries ==
  [c \in WsClients |-> IF c = w1 THEN {Good(None), Alien} ELSE {Good(n2), Bad}]

\* A game that reconnects; a launcher with two games; one without a pid.
SameCard  == [c \in WsClients |-> {Sets(n1, q1)}]
TwoGames  == [c \in WsClients |-> {Sets(n1, q1), Sets(n1, q2)}]
NoPids    == [c \in WsClients |-> {Sets(n1, q1), Bare}]
GoodOnly  == [c \in WsClients |-> {Good(None)}]
=============================================================================

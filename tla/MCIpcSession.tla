---------------------------- MODULE MCIpcSession ----------------------------
(***************************************************************************)
(* Instances of IpcSession for TLC.                                        *)
(***************************************************************************)
EXTENDS IpcSession

CONSTANTS c1, c2, a1, p1, p2, x1

\* A companion with its pid, and a peer that writes ahead, sends anything and
\* has no pid in its frames.
AnyKind == {"odd", "refused", "bare", "local", "close", "ping", "pong", "broken"}
Mixed == [c \in Conns |->
  IF c = c1 THEN {Hello(a1), Frame(p1, x1), Frame(p1, None), Simple("local"), Simple("close")}
  ELSE {Hello(a1), Frame(NoPid, x1)} \cup {Simple(k) : k \in AnyKind}]

Few == [c \in Conns |-> IF c = c1 THEN 4 ELSE 2]
Two == [c \in Conns |-> 2]
Three == [c \in Conns |-> 3]

\* A companion whose SET_ACTIVITY has no args.
Argless == [c \in Conns |-> {Hello(a1), Simple("bare")}]

\* Two connections of one process.
SamePid == [c \in Conns |-> {Hello(a1), Frame(p1, x1)}]

\* A companion that changes its pid.
TwoPids == [c \in Conns |-> {Hello(a1), Frame(p1, x1), Frame(p2, x1)}]

\* A companion without a pid, and a peer that connects and goes.
Probing == [c \in Conns |-> IF c = c1 THEN {Hello(a1), Frame(NoPid, x1)} ELSE {}]
=============================================================================

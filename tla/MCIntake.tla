------------------------------ MODULE MCIntake ------------------------------
(***************************************************************************)
(* How the daemon comes to know of games, for TLC: the sockets and the     *)
(* WebSocket port they connect to, and, for those that do not, the         *)
(* kernel's process events, the Steam libraries and the matching with the  *)
(* database.  They share no state: each behaviour is one component's with  *)
(* the others at rest in one of their initial states, and the fairness of  *)
(* a component is asked of the behaviours it moves in.                     *)
(***************************************************************************)
EXTENDS MCIpcSockets, MCWsSession, MCProcEvents, MCSteamLibraries, MCMatching

VARIABLE part   \* which component moves

intakeVars == <<part, socketVars, wsVars, procVars, steamVars, matchVars>>

Init ==
  /\ part \in {"sockets", "websocket", "events", "steam", "matching"}
  /\ SocketsInit
  /\ WsInit
  /\ ProcInit
  /\ SteamInit
  /\ MatchInit
  /\ part = "websocket" \/ connector.others = Ports
  /\ part = "events" \/ ~kernel.deaf
  /\ part = "steam" \/ (folders.stamp = 0 /\ \A l \in Libraries : disk[l].up)
  /\ \/ part = "matching"
     \/ bundle = CHOOSE b \in {build_bundle(d[1], d[2]) : d \in Databases} : TRUE

\* What rests while a component moves.
NotSockets   == <<part, wsVars, procVars, steamVars, matchVars>>
NotWebsocket == <<part, socketVars, procVars, steamVars, matchVars>>
NotEvents    == <<part, socketVars, wsVars, steamVars, matchVars>>
NotLibs      == <<part, socketVars, wsVars, procVars, matchVars>>
NotMatches   == <<part, socketVars, wsVars, procVars, steamVars>>

Sockets   == part = "sockets" /\ SocketsNext /\ UNCHANGED NotSockets
Websocket == part = "websocket" /\ WsNext /\ UNCHANGED NotWebsocket
Reports   == part = "events" /\ ProcNext /\ UNCHANGED NotEvents
Libs      == part = "steam" /\ SteamNext /\ UNCHANGED NotLibs
Matches   == part = "matching" /\ MatchNext /\ UNCHANGED NotMatches

Next == Sockets \/ Websocket \/ Reports \/ Libs \/ Matches

\* The fairness of each component's own specification.
FairCreate(t)  == part = "sockets" /\ CreateSocket(t) /\ UNCHANGED NotSockets
FairListen(s)  == part = "sockets" /\ Listen(s) /\ UNCHANGED NotSockets
FairAccept(s)  == part = "sockets" /\ Accept(s) /\ UNCHANGED NotSockets
FairPark(s)    == part = "sockets" /\ Park(s) /\ UNCHANGED NotSockets
FairInstall(g) == part = "sockets" /\ Install(g) /\ UNCHANGED NotSockets
FairWatch      == part = "events" /\ (Subscribe \/ Acknowledge \/ SelfTest)
                    /\ UNCHANGED NotEvents
FairPass       == part = "steam" /\ SteamPass /\ UNCHANGED NotLibs

Fairness ==
  /\ \A t \in Threads : WF_intakeVars(FairCreate(t))
  /\ \A s \in Servers : /\ WF_intakeVars(FairListen(s))
                        /\ WF_intakeVars(FairAccept(s))
                        /\ WF_intakeVars(FairPark(s))
  /\ \A g \in Games : WF_intakeVars(FairInstall(g))
  /\ WF_intakeVars(FairWatch)
  /\ WF_intakeVars(FairPass)

Spec == Init /\ [][Next]_intakeVars /\ Fairness

\* Every variable of every component has its type.
IntakeTypeOK == SocketsTypeOK /\ WsTypeOK /\ ProcTypeOK /\ SteamTypeOK /\ MatchTypeOK
=============================================================================

----------------------------- MODULE IpcSockets -----------------------------
(***************************************************************************)
(* How servers hold the IPC socket: lib/src/server/ipc_unix.rs.  A server  *)
(* binds the first of the paths discord-ipc-0..9 that is free or stale     *)
(* (create_socket, socket_holder_alive), accepts connections on it, and    *)
(* binds again when a game closes its connection (recreate_socket).        *)
(* Several servers, and several threads of one, do so at the same time.    *)
(*                                                                         *)
(* A socket file leads to the listener that created it, open or not; the   *)
(* kernel completes a connection to an open listener before anyone accepts *)
(* it.  Links into other directories follow the path and are left out.     *)
(***************************************************************************)
EXTENDS Naturals, Sequences, Tables

CONSTANTS
  Servers, Games,
  MaxIndex,      \* the last path; 9
  Knock,         \* a probe that has given up
  Serial,        \* one thread at a time looks for a path
  MaxListeners,  \* bound on the listeners ever created
  MaxQuits,      \* bound on the kills and stops
  MaxCloses      \* bound on the Close packets of one server

Indices   == 0 .. MaxIndex
Listeners == 1 .. MaxListeners
Threads   == Servers \cup Games  \* a start, or the thread of a game's connection

ASSUME SocketAssumption ==
  /\ MaxIndex \in Nat /\ MaxListeners \in Nat /\ MaxQuits \in Nat /\ MaxCloses \in Nat
  /\ Serial \in BOOLEAN
  /\ Servers \cap Games = {} /\ Knock \notin Games
  /\ None \notin Nat \cup Servers

VARIABLES
  file,    \* file[i]: the listener that path i leads to
  made,    \* listeners created
  holder,  \* holder[l]: the server that has l open
  server,  \* server[s]: running, its listener and path, whether accept blocks
  parked,  \* parked[s]: accept is blocked, with the mutex of the listener
  backlog, \* backlog[l]: the connections to l that wait to be accepted
  task,    \* task[t]: create_socket in thread t
  visit,   \* visit[g]: idle, waiting to be accepted, served or closing; by whom
  closes,  \* closes[s]: Close packets since s started
  quits

socketVars == <<file, made, holder, server, parked, backlog, task, visit, closes, quits>>

Down     == [on |-> FALSE, sock |-> None, path |-> None, blocking |-> FALSE]
NoTask   == [at |-> "none", index |-> 0, sock |-> None, by |-> None]
IdleGame == [at |-> "idle", sock |-> None, by |-> None]

SocketsInit ==
  /\ file   = [i \in Indices |-> None]
  /\ made   = 0
  /\ holder = [l \in Listeners |-> None]
  /\ server = [s \in Servers |-> Down]
  /\ parked = [s \in Servers |-> FALSE]
  /\ backlog = [l \in Listeners |-> <<>>]
  /\ task   = [t \in Threads |-> NoTask]
  /\ visit   = [g \in Games |-> IdleGame]
  /\ closes = [s \in Servers |-> 0]
  /\ quits  = 0

Free    == \A t \in Threads : task[t].at = "none"
SocketAt(t, here) == task[t].at = here
Goto(t, there) == task' = [task EXCEPT ![t].at = there]

-----------------------------------------------------------------------------
(* create_socket.                                                          *)

Search(t, s) ==
  task' = [task EXCEPT ![t] = [at |-> "bind", index |-> 0, sock |-> None, by |-> s]]

\* A new listener at the path.
Create(t) ==
  /\ made < MaxListeners
  /\ made' = made + 1
  /\ file' = [file EXCEPT ![task[t].index] = made + 1]
  /\ holder' = [holder EXCEPT ![made + 1] = task[t].by]
  /\ task' = [task EXCEPT ![t].at = "install", ![t].sock = made + 1]

\* Faulty: one path too many.
NextPathBeyond(t) ==
  IF task[t].index <= MaxIndex
    THEN task' = [task EXCEPT ![t].at = "bind", ![t].index = @ + 1] /\ visit' = visit
    ELSE task' = [task EXCEPT ![t] = NoTask] /\ visit' = visit

\* The next path; after the last one, give up: a start fails, a connection ends.
NextPath(t) ==
  IF task[t].index < MaxIndex
    THEN /\ task' = [task EXCEPT ![t].at = "bind", ![t].index = @ + 1]
         /\ visit' = visit
    ELSE /\ task' = [task EXCEPT ![t] = NoTask]
         /\ visit' = [g \in Games |-> IF g = t THEN IdleGame ELSE visit[g]]

Bind(t) ==
  /\ SocketAt(t, "bind")
  /\ IF file[task[t].index] = None
       THEN Create(t)
       ELSE Goto(t, "probe") /\ UNCHANGED <<file, made, holder>>
  /\ UNCHANGED <<server, parked, backlog, visit, closes, quits>>

\* The accept loop of a running server answers on its listener: PONG in time.
Answering(l) == \E s \in Servers : server[s].on /\ server[s].sock = l

\* Faulty: a server whose accept waits is taken for wedged.
AlivePolling(l) ==
  \E s \in Servers : server[s].on /\ server[s].sock = l /\ ~server[s].blocking

Alive(l) == l # None /\ Answering(l)

\* Two that have given up are as good as one.
WithKnock(q) ==
  IF \E i \in 1 .. Len(q) : q[i] = Knock THEN q ELSE Append(q, Knock)

Probe(t) ==
  LET l == file[task[t].index] IN
    /\ SocketAt(t, "probe")
    /\ IF Alive(l)
         THEN /\ NextPath(t)
              /\ parked' = [s \in Servers |-> parked[s] /\ server[s].sock # l]
              /\ UNCHANGED backlog
         ELSE /\ Goto(t, "remove")
              /\ backlog' = IF l # None /\ holder[l] # None
                              THEN [backlog EXCEPT ![l] = WithKnock(@)] ELSE backlog
              /\ UNCHANGED <<parked, visit>>
    /\ UNCHANGED <<file, made, holder, server, closes, quits>>

RemoveStale(t) ==
  /\ SocketAt(t, "remove")
  /\ file' = [file EXCEPT ![task[t].index] = None]
  /\ Goto(t, "rebind")
  /\ UNCHANGED <<made, holder, server, parked, backlog, visit, closes, quits>>

Rebind(t) ==
  /\ SocketAt(t, "rebind")
  /\ IF file[task[t].index] = None
       THEN Create(t) /\ UNCHANGED visit
       ELSE NextPath(t) /\ UNCHANGED <<file, made, holder>>
  /\ UNCHANGED <<server, parked, backlog, closes, quits>>

CreateSocket(t) == Bind(t) \/ Probe(t) \/ RemoveStale(t) \/ Rebind(t)

-----------------------------------------------------------------------------
(* The server.                                                             *)

Start(s) ==
  /\ ~server[s].on /\ SocketAt(s, "none")
  /\ Serial => Free
  /\ made < MaxListeners
  /\ Search(s, s)
  /\ UNCHANGED <<file, made, holder, server, parked, backlog, visit, closes, quits>>

\* The listener a server starts with is made non-blocking.
Listen(s) ==
  /\ SocketAt(s, "install")
  /\ server' = [server EXCEPT ![s] = [on |-> TRUE, sock |-> task[s].sock,
                                      path |-> task[s].index, blocking |-> FALSE]]
  /\ task' = [task EXCEPT ![s] = NoTask]
  /\ closes' = [closes EXCEPT ![s] = 0]
  /\ UNCHANGED <<file, made, holder, parked, backlog, visit, quits>>

\* Faulty: the clean-up goes by what the path leads to now.
DroppedLatest(old) == [i \in Indices |-> IF file[i] = made THEN None ELSE file[i]]

\* Drop of a listener removes its path, whatever it leads to by now.
Dropped(old) == [file EXCEPT ![old.path] = None]

\* recreate_socket, with the mutex: the new listener, which blocks, takes the
\* place of the old one, whose Drop removes its path.
Install(g) ==
  LET s == task[g].by
      old == server[s]
  IN
    /\ SocketAt(g, "install") /\ ~parked[s]
    /\ server' = [server EXCEPT ![s] = [on |-> TRUE, sock |-> task[g].sock,
                                        path |-> task[g].index, blocking |-> TRUE]]
    /\ holder' = [holder EXCEPT ![old.sock] = None]
    /\ file' = Dropped(old)
    /\ backlog' = [backlog EXCEPT ![old.sock] = <<>>]
    /\ visit' = [h \in Games |->
                  IF h = g \/ (visit[h].at = "waiting" /\ visit[h].sock = old.sock)
                    THEN IdleGame ELSE visit[h]]
    /\ task' = [task EXCEPT ![g] = NoTask]
    /\ UNCHANGED <<made, parked, closes, quits>>

\* Faulty: the loop stays with the listener it started with.
AcceptFirst(s) ==
  LET l == server[s].sock IN
    /\ server[s].on /\ ~server[s].blocking /\ backlog[l] # <<>>
    /\ backlog' = [backlog EXCEPT ![l] = Tail(@)]
    /\ visit' = [g \in Games |-> IF g = Head(backlog[l])
                                 THEN [visit[g] EXCEPT !.at = "served", !.by = s]
                                 ELSE visit[g]]
    /\ UNCHANGED <<file, made, holder, server, parked, task, closes, quits>>

\* accept() with the mutex: the oldest connection, if there is one ...
Accept(s) ==
  LET l == server[s].sock IN
    /\ server[s].on /\ backlog[l] # <<>>
    /\ backlog' = [backlog EXCEPT ![l] = Tail(@)]
    /\ visit' = [g \in Games |-> IF g = Head(backlog[l])
                                 THEN [visit[g] EXCEPT !.at = "served", !.by = s]
                                 ELSE visit[g]]
    /\ parked' = [parked EXCEPT ![s] = FALSE]
    /\ UNCHANGED <<file, made, holder, server, task, closes, quits>>

\* ... else WouldBlock and a pause, or, when the listener blocks, a wait.
Park(s) ==
  /\ server[s].on /\ server[s].blocking /\ ~parked[s]
  /\ backlog[server[s].sock] = <<>>
  /\ parked' = [parked EXCEPT ![s] = TRUE]
  /\ UNCHANGED <<file, made, holder, server, backlog, task, visit, closes, quits>>

\* Killed: the files stay; or stopped by Ctrl+C, which drops its listener
\* unless a thread still holds it.
Quit(s) ==
  /\ server[s].on \/ ~SocketAt(s, "none")
  /\ quits < MaxQuits /\ quits' = quits + 1
  /\ \/ UNCHANGED file
     \/ server[s].on /\ file' = Dropped(server[s])
  /\ server' = [server EXCEPT ![s] = Down]
  /\ parked' = [parked EXCEPT ![s] = FALSE]
  /\ holder' = [l \in Listeners |-> IF holder[l] = s THEN None ELSE holder[l]]
  /\ backlog' = [l \in Listeners |-> IF holder[l] = s THEN <<>> ELSE backlog[l]]
  /\ task' = [t \in Threads |-> IF task[t].by = s THEN NoTask ELSE task[t]]
  /\ visit' = [g \in Games |->
                IF visit[g].by = s \/ (visit[g].at = "waiting" /\ holder[visit[g].sock] = s)
                  THEN IdleGame ELSE visit[g]]
  /\ UNCHANGED <<made, closes>>

-----------------------------------------------------------------------------
(* Games: the first path that lets them connect.                           *)

Open(i) == file[i] # None /\ holder[file[i]] # None

ConnectGame(g) ==
  /\ visit[g].at = "idle" /\ SocketAt(g, "none")
  /\ \E i \in Indices :
       /\ Open(i) /\ \A j \in 0 .. i - 1 : ~Open(j)
       /\ visit' = [visit EXCEPT ![g] = [at |-> "waiting", sock |-> file[i], by |-> None]]
       /\ backlog' = [backlog EXCEPT ![file[i]] = Append(@, g)]
  /\ UNCHANGED <<file, made, holder, server, parked, task, closes, quits>>

\* A Close packet: the thread of the connection makes a new socket.
SendClose(g) ==
  /\ visit[g].at = "served"
  /\ Serial => Free
  /\ made < MaxListeners /\ closes[visit[g].by] < MaxCloses
  /\ visit' = [visit EXCEPT ![g].at = "closing"]
  /\ closes' = [closes EXCEPT ![visit[g].by] = @ + 1]
  /\ Search(g, visit[g].by)
  /\ UNCHANGED <<file, made, holder, server, parked, backlog, quits>>

\* Ends without a Close.
LeaveGame(g) ==
  /\ visit[g].at = "served"
  /\ visit' = [visit EXCEPT ![g] = IdleGame]
  /\ UNCHANGED <<file, made, holder, server, parked, backlog, task, closes, quits>>

-----------------------------------------------------------------------------
SocketsNext ==
  \/ \E t \in Threads : CreateSocket(t)
  \/ \E s \in Servers : Start(s) \/ Listen(s) \/ Accept(s) \/ Park(s) \/ Quit(s)
  \/ \E g \in Games : Install(g) \/ ConnectGame(g) \/ SendClose(g) \/ LeaveGame(g)

SocketsSpec == SocketsInit /\ [][SocketsNext]_socketVars

\* Every thread goes on: loops over calls that return, or wait for the mutex.
SocketsFairSpec ==
  /\ SocketsSpec
  /\ \A t \in Threads : WF_socketVars(CreateSocket(t))
  /\ \A s \in Servers : WF_socketVars(Listen(s)) /\ WF_socketVars(Accept(s)) /\ WF_socketVars(Park(s))
  /\ \A g \in Games : WF_socketVars(Install(g))

-----------------------------------------------------------------------------
(* Properties.                                                             *)

\* Every variable has its type.
SocketsTypeOK ==
  /\ file \in [Indices -> Listeners \cup {None}]
  /\ made \in 0 .. MaxListeners
  /\ holder \in [Listeners -> Servers \cup {None}]
  /\ server \in [Servers -> [on : BOOLEAN, sock : Listeners \cup {None},
                             path : Indices \cup {None}, blocking : BOOLEAN]]
  /\ parked \in [Servers -> BOOLEAN]
  /\ backlog \in [Listeners -> Seq(Games \cup {Knock})]
  /\ task \in [Threads -> [at : {"none", "bind", "probe", "remove", "rebind", "install"},
                           index : Indices, sock : Listeners \cup {None},
                           by : Servers \cup {None}]]
  /\ visit \in [Games -> [at : {"idle", "waiting", "served", "closing"},
                         sock : Listeners \cup {None}, by : Servers \cup {None}]]
  /\ closes \in [Servers -> Nat] /\ quits \in 0 .. MaxQuits

\* "wedged holders are reclaimed, live holders (Discord/arRPC/rsRPC) are left
\* alone": a path leads away from a server that answers on it only when that
\* server itself has moved or died.
LiveLeftAlone ==
  [][\A i \in Indices : \A s \in Servers :
       /\ server[s].on /\ file[i] = server[s].sock /\ file[i] # file'[i]
       => server'[s].sock # server[s].sock]_socketVars

\* A server that runs can be found: its path leads to its listener.
Found(s) == file[server[s].path] = server[s].sock

AllFound == \A s \in Servers : server[s].on => Found(s)

\* A game that is connected is accepted, or sees its connection end, as long
\* as its server has had at most one Close.
Waits(g) == visit[g].at = "waiting"
Served == \A g \in Games :
  (Waits(g) /\ \A s \in Servers : closes[s] <= 1)
    ~> (~Waits(g) \/ \E s \in Servers : closes[s] > 1)

\* Whatever came before ("so games probing any official location find it").
AlwaysServed == \A g \in Games : Waits(g) ~> ~Waits(g)
=============================================================================

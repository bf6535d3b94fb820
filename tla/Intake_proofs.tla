--------------------------- MODULE Intake_proofs ---------------------------
(***************************************************************************)
(* How the daemon comes to know of games, for every set of games, servers, *)
(* clients, cpus and databases: no game is left behind by servers that     *)
(* start and close in turn, the lock-step of a WebSocket client and its    *)
(* cards, the losses counted from the kernel's numbers, the cards of the   *)
(* IPC connections, and the list the scanner matches against.              *)
(***************************************************************************)
EXTENDS IpcSockets, WsSession, ProcEvents, IpcSession, Detectables,
        Tables_proofs, SequenceTheorems

-----------------------------------------------------------------------------
(* Sockets: the types.                                                      *)

\* What a thread has at each step of create_socket, what a running server has,
\* and what a game.
TaskHeld(t) ==
  /\ task[t].at # "none" => task[t].by \in Servers
  /\ task[t].at = "install" => task[t].sock \in Listeners
  /\ t \in Servers /\ task[t].at # "none" => task[t].by = t
  /\ t \in Games /\ task[t].at # "none" => server[task[t].by].on
ServerHeld(s) ==
  server[s].on => server[s].sock \in Listeners /\ server[s].path \in Indices
VisitHeld(g) ==
  /\ visit[g].at = "waiting" => visit[g].sock \in Listeners
  /\ visit[g].at \in {"served", "closing"} =>
       visit[g].by \in Servers /\ server[visit[g].by].on
Held ==
  /\ \A t \in Threads : TaskHeld(t)
  /\ \A s \in Servers : ServerHeld(s)
  /\ \A g \in Games : VisitHeld(g)

SocketsTyped == SocketsTypeOK /\ Held

Tasks == [at : {"none", "bind", "probe", "remove", "rebind", "install"},
          index : Indices, sock : Listeners \cup {None}, by : Servers \cup {None}]
Visits == [at : {"idle", "waiting", "served", "closing"},
           sock : Listeners \cup {None}, by : Servers \cup {None}]
Running == [on : BOOLEAN, sock : Listeners \cup {None},
            path : Indices \cup {None}, blocking : BOOLEAN]

\* The records of the type invariant, and what the assumption says of them.
LEMMA SocketTypes ==
  ASSUME SocketAssumption
  PROVE  /\ NoTask \in Tasks /\ IdleGame \in Visits /\ Down \in Running
         /\ None \notin Listeners /\ None \notin Indices /\ None \notin Servers
         /\ 0 \in Indices /\ Servers \cap Games = {}
         /\ \A i \in Indices : i < MaxIndex => i + 1 \in Indices
<1> USE SocketAssumption DEF SocketAssumption
<1>1. /\ NoTask \in Tasks /\ IdleGame \in Visits /\ Down \in Running
  BY DEF NoTask, IdleGame, Down, Tasks, Visits, Running, Indices
<1>2. /\ None \notin Listeners /\ None \notin Indices /\ None \notin Servers
      /\ 0 \in Indices /\ Servers \cap Games = {}
      /\ \A i \in Indices : i < MaxIndex => i + 1 \in Indices
  BY DEF Listeners, Indices
<1> QED
  BY <1>1, <1>2

\* The type invariant, variable by variable.
FilesTyped ==
  /\ file \in [Indices -> Listeners \cup {None}] /\ made \in 0 .. MaxListeners
  /\ holder \in [Listeners -> Servers \cup {None}]
ServersTyped ==
  /\ server \in [Servers -> Running] /\ parked \in [Servers -> BOOLEAN]
  /\ closes \in [Servers -> Nat] /\ quits \in 0 .. MaxQuits
BacklogTyped == backlog \in [Listeners -> Seq(Games \cup {Knock})]
ThreadsTyped == task \in [Threads -> Tasks] /\ visit \in [Games -> Visits]

\* The type invariant is the conjunction of its four parts, before and after
\* a step.
LEMMA SocketParts ==
  /\ SocketsTypeOK <=> FilesTyped /\ ServersTyped /\ BacklogTyped /\ ThreadsTyped
  /\ SocketsTypeOK' <=> (FilesTyped' /\ ServersTyped' /\ BacklogTyped' /\ ThreadsTyped')
BY DEF SocketsTypeOK, FilesTyped, ServersTyped, BacklogTyped, ThreadsTyped, Tasks, Visits,
       Running

\* A thread that gives a path up goes to the next one, or has failed; a game
\* then is idle.
LEMMA NextPathType ==
  ASSUME SocketAssumption, SocketsTyped, NEW t \in Threads, task[t].at # "none", NextPath(t)
  PROVE  /\ ThreadsTyped'
         /\ task'[t] = NoTask \/ task'[t] = [task[t] EXCEPT !.at = "bind", !.index = @ + 1]
         /\ \A u \in Threads \ {t} : task'[u] = task[u]
         /\ \A g \in Games : visit'[g] = visit[g] \/ (g = t /\ visit'[g] = IdleGame)
<1>1. ThreadsTyped
  BY SocketParts DEF SocketsTyped
<1>2. task[t].index \in Indices
  BY <1>1 DEF ThreadsTyped, Tasks
<1>3. [task[t] EXCEPT !.at = "bind", !.index = @ + 1] \in Tasks
        \/ ~(task[t].index < MaxIndex)
  BY <1>1, <1>2, SocketTypes DEF ThreadsTyped, Tasks
<1>4. CASE task[t].index < MaxIndex
  <2>1. /\ task' = [task EXCEPT ![t] = [task[t] EXCEPT !.at = "bind", !.index = @ + 1]]
        /\ visit' = visit
    BY <1>4 DEF NextPath
  <2> QED
    BY <1>1, <1>3, <1>4, <2>1 DEF ThreadsTyped
<1>5. CASE ~(task[t].index < MaxIndex)
  <2>1. /\ task' = [task EXCEPT ![t] = NoTask]
        /\ visit' = [g \in Games |-> IF g = t THEN IdleGame ELSE visit[g]]
    BY <1>5 DEF NextPath
  <2> QED
    BY <1>1, <1>5, <2>1, SocketTypes DEF ThreadsTyped
<1> QED
  BY <1>4, <1>5

\* A socket that could be bound is a listener of its own, at its path.
LEMMA CreateType ==
  ASSUME SocketAssumption, SocketsTyped, NEW t \in Threads, task[t].at # "none", Create(t)
  PROVE  /\ FilesTyped'
         /\ task' \in [Threads -> Tasks]
         /\ made + 1 \in Listeners /\ made' = made + 1
         /\ task' = [task EXCEPT ![t] = [task[t] EXCEPT !.at = "install", !.sock = made + 1]]
<1>1. FilesTyped /\ ThreadsTyped
  BY SocketParts DEF SocketsTyped
<1>2. task[t].index \in Indices /\ task[t].by \in Servers \cup {None}
  BY <1>1 DEF ThreadsTyped, Tasks
<1>3. made + 1 \in Listeners
  BY <1>1, SocketAssumption DEF FilesTyped, Create, Listeners, SocketAssumption
<1>4. [task[t] EXCEPT !.at = "install", !.sock = made + 1] \in Tasks
  BY <1>1, <1>3 DEF ThreadsTyped, Tasks
<1>5. task' = [task EXCEPT ![t] = [task[t] EXCEPT !.at = "install", !.sock = made + 1]]
  BY <1>1 DEF Create, ThreadsTyped
<1>6. made' \in 0 .. MaxListeners
  BY <1>1, SocketAssumption DEF FilesTyped, Create, SocketAssumption
<1>7. file' \in [Indices -> Listeners \cup {None}] /\ holder' \in [Listeners -> Servers \cup {None}]
  BY <1>1, <1>2, <1>3 DEF FilesTyped, Create
<1>8. task' \in [Threads -> Tasks]
  BY <1>1, <1>4, <1>5 DEF ThreadsTyped
<1>9. FilesTyped'
  BY <1>6, <1>7 DEF FilesTyped
<1>10. made' = made + 1
  BY DEF Create
<1> QED
  BY <1>3, <1>5, <1>8, <1>9, <1>10

-----------------------------------------------------------------------------
(* Sockets: what a step does to the paths, the servers and the threads that *)
(* look for a path.                                                         *)

\* A thread goes on, or stops; a new one begins, under Serial when there is none.
GoesOn(t) ==
  /\ \A u \in Threads \ {t} : task'[u] = task[u]
  /\ Serial => task[t].at # "none" \/ Free

\* The paths and servers stay, and whoever looks for a path looks on.
Looks ==
  /\ file' = file /\ made' = made /\ server' = server
  /\ \/ task' = task
     \/ \E t \in Threads : GoesOn(t) /\ task'[t].at \in {"none", "bind", "probe"}

\* The listener of the path does not answer.
Condemns(t) ==
  /\ file' = file /\ made' = made /\ server' = server
  /\ GoesOn(t)
  /\ ~Alive(file[task[t].index])
  /\ task'[t] = [task[t] EXCEPT !.at = "remove"]

Clears(t) ==
  /\ task[t].at = "remove"
  /\ file' = [file EXCEPT ![task[t].index] = None]
  /\ made' = made /\ server' = server
  /\ GoesOn(t)
  /\ task'[t] = [task[t] EXCEPT !.at = "rebind"]

Makes(t) ==
  /\ task[t].at # "none"
  /\ file[task[t].index] = None
  /\ made' = made + 1 /\ made + 1 \in Listeners
  /\ file' = [file EXCEPT ![task[t].index] = made + 1]
  /\ server' = server
  /\ GoesOn(t)
  /\ task'[t] = [task[t] EXCEPT !.at = "install", !.sock = made + 1]

\* A server begins with the listener its thread has made.
Takes(s) ==
  /\ task[s].at = "install"
  /\ file' = file /\ made' = made
  /\ \A r \in Servers \ {s} : server'[r] = server[r]
  /\ server'[s].sock = task[s].sock /\ server'[s].path = task[s].index
  /\ GoesOn(s)
  /\ task'[s].at = "none"

\* A running server goes over to the listener of the thread of g.
Replaces(g) ==
  LET s == task[g].by IN
    /\ task[g].at = "install" /\ s \in Servers /\ server[s].on
    /\ file' = [file EXCEPT ![server[s].path] = None]
    /\ made' = made
    /\ \A r \in Servers \ {s} : server'[r] = server[r]
    /\ server'[s].sock = task[g].sock /\ server'[s].path = task[g].index
    /\ GoesOn(g)
    /\ task'[g].at = "none"

\* A server ends, with its threads.
Ends(s) ==
  /\ \/ file' = file
     \/ server[s].on /\ file' = [file EXCEPT ![server[s].path] = None]
  /\ made' = made
  /\ \A r \in Servers \ {s} : server'[r] = server[r]
  /\ ~server'[s].on /\ server'[s].sock = None
  /\ \A t \in Threads : task'[t] = task[t] \/ task'[t].at = "none"

SocketMove ==
  \/ Looks
  \/ \E t \in Threads : Condemns(t) \/ Clears(t) \/ Makes(t)
  \/ \E s \in Servers : Takes(s) \/ Ends(s)
  \/ \E g \in Games : Replaces(g)

\* The type invariant is that of its parts.
LEMMA SocketJoin ==
  ASSUME FilesTyped', ServersTyped', BacklogTyped', ThreadsTyped',
         \A t \in Threads : TaskHeld(t)', \A s \in Servers : ServerHeld(s)',
         \A g \in Games : VisitHeld(g)'
  PROVE  SocketsTyped'
<1>1. SocketsTypeOK'
  BY SocketParts
<1>2. Held'
  BY DEF Held
<1> QED
  BY <1>1, <1>2 DEF SocketsTyped

\* What stays as it is holds what it held.
LEMMA SearchHeld ==
  ASSUME SocketAssumption, SocketsTyped, server' = server,
         \A g \in Games : visit'[g] = visit[g] \/ visit'[g] = IdleGame,
         NEW t \in Threads, \A u \in Threads \ {t} : task'[u] = task[u],
         \/ task'[t] = NoTask
         \/ /\ task'[t].by = task[t].by /\ task[t].at # "none"
            /\ task'[t].at = "install" => task'[t].sock \in Listeners
  PROVE  /\ \A u \in Threads : TaskHeld(u)'
         /\ \A s \in Servers : ServerHeld(s)'
         /\ \A g \in Games : VisitHeld(g)'
<1>0. Held
  BY DEF SocketsTyped
<1>1. ASSUME NEW u \in Threads, u # t PROVE TaskHeld(u)'
  <2>1. TaskHeld(u) /\ task'[u] = task[u]
    BY <1>0, <1>1 DEF Held
  <2> QED
    BY <2>1 DEF TaskHeld
<1>2. TaskHeld(t)'
  <2>1. TaskHeld(t)
    BY <1>0 DEF Held
  <2>2. CASE task'[t] = NoTask
    BY <2>2 DEF TaskHeld, NoTask
  <2>3. CASE task'[t] # NoTask
    BY <2>1, <2>3 DEF TaskHeld
  <2> QED
    BY <2>2, <2>3
<1>3. \A s \in Servers : ServerHeld(s)'
  BY <1>0 DEF Held, ServerHeld
<1>4. ASSUME NEW g \in Games PROVE VisitHeld(g)'
  <2>1. VisitHeld(g)
    BY <1>0 DEF Held
  <2> QED
    BY <2>1 DEF VisitHeld, IdleGame
<1> QED
  BY <1>1, <1>2, <1>3, <1>4

\* A thread that goes on keeps the path it looks at and the server it looks
\* for.
LEMMA GotoType ==
  ASSUME SocketAssumption, SocketsTyped, NEW t \in Threads, task[t].at # "none",
         NEW there \in {"probe", "remove", "rebind"}, Goto(t, there), visit' = visit
  PROVE  /\ ThreadsTyped'
         /\ task'[t] = [task[t] EXCEPT !.at = there]
         /\ task'[t].at = there /\ task'[t].by = task[t].by
         /\ \A u \in Threads \ {t} : task'[u] = task[u]
<1>1. ThreadsTyped
  BY SocketParts DEF SocketsTyped
<1>2. task[t] \in Tasks /\ [task[t] EXCEPT !.at = there] \in Tasks
  BY <1>1 DEF ThreadsTyped, Tasks
<1>3. task' = [task EXCEPT ![t] = [task[t] EXCEPT !.at = there]]
  BY DEF Goto
<1>4. task' \in [Threads -> Tasks]
  BY <1>1, <1>2, <1>3 DEF ThreadsTyped
<1>5. task'[t] = [task[t] EXCEPT !.at = there]
  BY <1>1, <1>3 DEF ThreadsTyped
<1>6. task'[t].at = there /\ task'[t].by = task[t].by
  BY <1>2, <1>5 DEF Tasks
<1> QED
  BY <1>1, <1>3, <1>4, <1>5, <1>6 DEF ThreadsTyped

\* A step of create_socket in one thread.
LEMMA StepOfSearch ==
  ASSUME SocketAssumption, SocketsTyped, NEW t \in Threads, CreateSocket(t)
  PROVE  SocketsTyped' /\ (Looks \/ Condemns(t) \/ Clears(t) \/ Makes(t))
<1>0. FilesTyped /\ ServersTyped /\ BacklogTyped /\ ThreadsTyped /\ Held
  BY SocketParts DEF SocketsTyped
<1>1. task[t].at # "none"
  BY DEF CreateSocket, Bind, Probe, RemoveStale, Rebind, SocketAt
<1>2. task[t] \in Tasks /\ task[t].by \in Servers /\ task[t].index \in Indices
  BY <1>0, <1>1 DEF Held, TaskHeld, ThreadsTyped, Tasks
<1>3. UNCHANGED <<server, closes, quits>>
  BY DEF CreateSocket, Bind, Probe, RemoveStale, Rebind
<1>4. ASSUME Create(t), UNCHANGED <<visit, parked, backlog>>, file[task[t].index] = None
      PROVE  SocketsTyped' /\ Makes(t)
  <2>1. /\ FilesTyped' /\ task' \in [Threads -> Tasks]
        /\ made + 1 \in Listeners /\ made' = made + 1
        /\ task' = [task EXCEPT ![t] = [task[t] EXCEPT !.at = "install", !.sock = made + 1]]
    BY <1>1, <1>4, CreateType
  <2>2. task'[t] = [task[t] EXCEPT !.at = "install", !.sock = made + 1]
    BY <1>0, <2>1 DEF ThreadsTyped
  <2>3. /\ \A u \in Threads \ {t} : task'[u] = task[u]
        /\ task'[t].by = task[t].by /\ task'[t].sock \in Listeners
    BY <1>0, <1>2, <2>1, <2>2 DEF ThreadsTyped, Tasks
  <2>4. ThreadsTyped' /\ ServersTyped' /\ BacklogTyped'
    BY <1>0, <1>3, <1>4, <2>1 DEF ThreadsTyped, ServersTyped, BacklogTyped
  <2>5. /\ \A u \in Threads : TaskHeld(u)'
        /\ \A s \in Servers : ServerHeld(s)'
        /\ \A g \in Games : VisitHeld(g)'
    BY <1>1, <1>3, <1>4, <2>3, SearchHeld
  <2>6. SocketsTyped'
    BY <2>1, <2>4, <2>5, SocketJoin
  <2>7. Makes(t)
    BY <1>1, <1>3, <1>4, <2>1, <2>2, <2>3 DEF Makes, GoesOn, Create
  <2> QED
    BY <2>6, <2>7
<1>5. ASSUME NextPath(t), UNCHANGED <<file, made, holder, backlog>>, parked' \in [Servers -> BOOLEAN]
      PROVE  SocketsTyped' /\ Looks
  <2>1. /\ ThreadsTyped'
        /\ task'[t] = NoTask \/ task'[t] = [task[t] EXCEPT !.at = "bind", !.index = @ + 1]
        /\ \A u \in Threads \ {t} : task'[u] = task[u]
        /\ \A g \in Games : visit'[g] = visit[g] \/ (g = t /\ visit'[g] = IdleGame)
    BY <1>1, <1>5, NextPathType
  <2>2. \/ task'[t] = NoTask
        \/ task'[t].by = task[t].by /\ task'[t].at = "bind"
    BY <1>2, <2>1 DEF Tasks
  <2>3. FilesTyped' /\ ServersTyped' /\ BacklogTyped'
    BY <1>0, <1>3, <1>5 DEF FilesTyped, ServersTyped, BacklogTyped
  <2>4. /\ \A u \in Threads : TaskHeld(u)'
        /\ \A s \in Servers : ServerHeld(s)'
        /\ \A g \in Games : VisitHeld(g)'
    BY <1>1, <1>3, <2>1, <2>2, SearchHeld
  <2>5. SocketsTyped'
    BY <2>1, <2>3, <2>4, SocketJoin
  <2>6. task'[t].at \in {"none", "bind"}
    BY <2>2 DEF NoTask
  <2> QED
    BY <1>1, <1>3, <1>5, <2>1, <2>5, <2>6 DEF Looks, GoesOn
<1>6. ASSUME NEW there \in {"probe", "remove", "rebind"}, Goto(t, there),
             UNCHANGED <<visit, parked>>, BacklogTyped', FilesTyped'
      PROVE  SocketsTyped' /\ GoesOn(t) /\ task'[t] = [task[t] EXCEPT !.at = there]
                           /\ task'[t].at = there
  <2>1. /\ ThreadsTyped'
        /\ task'[t] = [task[t] EXCEPT !.at = there]
        /\ task'[t].at = there /\ task'[t].by = task[t].by
        /\ \A u \in Threads \ {t} : task'[u] = task[u]
    BY <1>1, <1>6, GotoType
  <2>2. ServersTyped'
    BY <1>0, <1>3, <1>6 DEF ServersTyped
  <2>3. /\ \A u \in Threads : TaskHeld(u)'
        /\ \A s \in Servers : ServerHeld(s)'
        /\ \A g \in Games : VisitHeld(g)'
    BY <1>1, <1>3, <1>6, <2>1, SearchHeld
  <2> QED
    BY <1>1, <1>6, <2>1, <2>2, <2>3, SocketJoin DEF GoesOn
<1>7. CASE Bind(t)
  <2>1. UNCHANGED <<visit, parked, backlog>>
    BY <1>7 DEF Bind
  <2>2. CASE file[task[t].index] = None
    BY <1>4, <1>7, <2>1, <2>2 DEF Bind
  <2>3. CASE file[task[t].index] # None
    <3>1. Goto(t, "probe") /\ UNCHANGED <<file, made, holder>>
      BY <1>7, <2>3 DEF Bind
    <3>2. FilesTyped' /\ BacklogTyped'
      BY <1>0, <2>1, <3>1 DEF FilesTyped, BacklogTyped
    <3>3. SocketsTyped' /\ GoesOn(t) /\ task'[t].at = "probe"
      BY <1>6, <2>1, <3>1, <3>2
    <3> QED
      BY <1>3, <3>1, <3>3 DEF Looks
  <2> QED
    BY <2>2, <2>3
<1>8. CASE Probe(t)
  <2> DEFINE l == file[task[t].index]
  <2>1. UNCHANGED <<file, made, holder>> /\ l \in Listeners \cup {None}
    BY <1>0, <1>2, <1>8 DEF Probe, FilesTyped
  <2>2. CASE Alive(l)
    <3>1. NextPath(t) /\ UNCHANGED backlog
          /\ parked' = [s \in Servers |-> parked[s] /\ server[s].sock # l]
      BY <1>8, <2>2 DEF Probe
    <3>2. parked' \in [Servers -> BOOLEAN]
      BY <3>1
    <3> QED
      BY <1>5, <2>1, <3>1, <3>2
  <2>3. CASE ~Alive(l)
    <3>1. /\ Goto(t, "remove") /\ UNCHANGED <<parked, visit>>
          /\ backlog' = IF l # None /\ holder[l] # None
                          THEN [backlog EXCEPT ![l] = WithKnock(@)] ELSE backlog
      BY <1>8, <2>3 DEF Probe
    <3>2. \A q \in Seq(Games \cup {Knock}) : WithKnock(q) \in Seq(Games \cup {Knock})
      BY AppendProperties DEF WithKnock
    <3>3. BacklogTyped'
      BY <1>0, <2>1, <3>1, <3>2 DEF BacklogTyped
    <3>4. FilesTyped'
      BY <1>0, <2>1 DEF FilesTyped
    <3>5. SocketsTyped' /\ GoesOn(t) /\ task'[t] = [task[t] EXCEPT !.at = "remove"]
      BY <1>6, <3>1, <3>3, <3>4
    <3> QED
      BY <1>3, <2>1, <2>3, <3>5 DEF Condemns
  <2> QED
    BY <2>2, <2>3
<1>9. CASE RemoveStale(t)
  <2>1. /\ task[t].at = "remove" /\ file' = [file EXCEPT ![task[t].index] = None]
        /\ Goto(t, "rebind") /\ UNCHANGED <<made, holder, parked, backlog, visit>>
    BY <1>9 DEF RemoveStale, SocketAt
  <2>2. FilesTyped' /\ BacklogTyped'
    BY <1>0, <2>1 DEF FilesTyped, BacklogTyped
  <2>3. SocketsTyped' /\ GoesOn(t) /\ task'[t] = [task[t] EXCEPT !.at = "rebind"]
    BY <1>6, <2>1, <2>2
  <2> QED
    BY <1>3, <2>1, <2>3 DEF Clears
<1>10. CASE Rebind(t)
  <2>1. UNCHANGED <<parked, backlog>>
    BY <1>10 DEF Rebind
  <2>2. CASE file[task[t].index] = None
    BY <1>4, <1>10, <2>1, <2>2 DEF Rebind
  <2>3. CASE file[task[t].index] # None
    <3>1. NextPath(t) /\ UNCHANGED <<file, made, holder>>
      BY <1>10, <2>3 DEF Rebind
    <3>2. parked' \in [Servers -> BOOLEAN]
      BY <1>0, <2>1 DEF ServersTyped
    <3> QED
      BY <1>5, <2>1, <3>1, <3>2
  <2> QED
    BY <2>2, <2>3
<1> QED
  BY <1>7, <1>8, <1>9, <1>10 DEF CreateSocket

\* What stays as it is: a thread's task with its server, a server, a visit.
LEMMA TaskStays ==
  ASSUME SocketsTyped, NEW t \in Threads, task'[t] = task[t],
         \A s \in Servers : server[s].on => server'[s].on
  PROVE  TaskHeld(t)'
BY DEF SocketsTyped, Held, TaskHeld

\* A server that does not move keeps its types.
LEMMA ServerStays ==
  ASSUME SocketsTyped, NEW s \in Servers, server'[s] = server[s]
  PROVE  ServerHeld(s)'
BY DEF SocketsTyped, Held, ServerHeld

\* A game keeps its types where no server it waits for stops.
LEMMA VisitStays ==
  ASSUME SocketsTyped, NEW g \in Games,
         \/ visit'[g] = visit[g] /\ \A s \in Servers : server[s].on => server'[s].on
         \/ visit'[g] = IdleGame
  PROVE  VisitHeld(g)'
BY DEF SocketsTyped, Held, VisitHeld, IdleGame

\* A new search.
LEMMA SearchType ==
  ASSUME SocketAssumption, SocketsTyped, NEW t \in Threads, NEW s \in Servers, Search(t, s),
         server' = server, t \in Servers => t = s, t \in Games => server[s].on,
         Serial => Free
  PROVE  /\ task' \in [Threads -> Tasks] /\ \A u \in Threads : TaskHeld(u)'
         /\ GoesOn(t) /\ task'[t].at = "bind"
<1> DEFINE new == [at |-> "bind", index |-> 0, sock |-> None, by |-> s]
<1>1. ThreadsTyped
  BY SocketParts DEF SocketsTyped
<1>2. new \in Tasks
  BY SocketTypes DEF Tasks
<1>3. task' = [task EXCEPT ![t] = new]
  BY DEF Search
<1> HIDE DEF new
<1>4. task' \in [Threads -> Tasks] /\ task'[t] = new
      /\ \A u \in Threads \ {t} : task'[u] = task[u]
  BY <1>1, <1>2, <1>3 DEF ThreadsTyped
<1>5. TaskHeld(t)'
  BY <1>4 DEF TaskHeld, new
<1>6. \A u \in Threads \ {t} : TaskHeld(u)'
  BY <1>4, TaskStays
<1> QED
  BY <1>4, <1>5, <1>6 DEF GoesOn, new

\* A server that starts looks for a path.
LEMMA StepStart ==
  ASSUME SocketAssumption, SocketsTyped, NEW s \in Servers, Start(s)
  PROVE  SocketsTyped' /\ Looks
<1>0. FilesTyped /\ ServersTyped /\ BacklogTyped /\ ThreadsTyped /\ s \in Threads
  BY SocketParts DEF SocketsTyped, Threads
<1>1. /\ Search(s, s) /\ (Serial => Free)
      /\ UNCHANGED <<file, made, holder, server, parked, backlog, visit, closes, quits>>
  BY DEF Start
<1>2. s \notin Games
  BY SocketTypes
<1>3. /\ task' \in [Threads -> Tasks] /\ \A u \in Threads : TaskHeld(u)'
      /\ GoesOn(s) /\ task'[s].at = "bind"
  BY <1>0, <1>1, <1>2, SearchType
<1>4. FilesTyped' /\ ServersTyped' /\ BacklogTyped' /\ ThreadsTyped'
  BY <1>0, <1>1, <1>3 DEF FilesTyped, ServersTyped, BacklogTyped, ThreadsTyped
<1>5. /\ \A r \in Servers : ServerHeld(r)'
      /\ \A g \in Games : VisitHeld(g)'
  BY <1>1, ServerStays, VisitStays
<1> QED
  BY <1>0, <1>1, <1>3, <1>4, <1>5, SocketJoin DEF Looks

\* The thread of a game that sends Close looks for a new path for its
\* server.
LEMMA StepSendClose ==
  ASSUME SocketAssumption, SocketsTyped, NEW g \in Games, SendClose(g)
  PROVE  SocketsTyped' /\ Looks
<1>0. /\ FilesTyped /\ ServersTyped /\ BacklogTyped /\ ThreadsTyped /\ g \in Threads
      /\ g \notin Servers
  BY SocketParts, SocketTypes DEF SocketsTyped, Threads
<1>1. /\ visit[g].at = "served" /\ Search(g, visit[g].by) /\ (Serial => Free)
      /\ visit' = [visit EXCEPT ![g].at = "closing"]
      /\ closes' = [closes EXCEPT ![visit[g].by] = @ + 1]
      /\ UNCHANGED <<file, made, holder, server, parked, backlog, quits>>
  BY DEF SendClose
<1>2. visit[g].by \in Servers /\ server[visit[g].by].on
  BY <1>1 DEF SocketsTyped, Held, VisitHeld
<1>3. /\ task' \in [Threads -> Tasks] /\ \A u \in Threads : TaskHeld(u)'
      /\ GoesOn(g) /\ task'[g].at = "bind"
  BY <1>0, <1>1, <1>2, SearchType
<1>4. /\ visit' \in [Games -> Visits] /\ visit'[g].by = visit[g].by
      /\ visit'[g].at = "closing"
      /\ \A h \in Games \ {g} : visit'[h] = visit[h]
  BY <1>0, <1>1 DEF ThreadsTyped, Visits
<1>5. FilesTyped' /\ BacklogTyped' /\ ThreadsTyped'
  BY <1>0, <1>1, <1>3, <1>4 DEF FilesTyped, BacklogTyped, ThreadsTyped
<1>6. ServersTyped'
  BY <1>0, <1>1, <1>2 DEF ServersTyped
<1>7. \A r \in Servers : ServerHeld(r)'
  BY <1>1, ServerStays
<1>8. \A h \in Games : VisitHeld(h)'
  BY <1>1, <1>2, <1>4, VisitStays DEF VisitHeld
<1> QED
  BY <1>0, <1>1, <1>3, <1>5, <1>6, <1>7, <1>8, SocketJoin DEF Looks

\* A server takes the listener its thread has made.
LEMMA StepListen ==
  ASSUME SocketAssumption, SocketsTyped, NEW s \in Servers, Listen(s)
  PROVE  SocketsTyped' /\ Takes(s)
<1>0. /\ FilesTyped /\ ServersTyped /\ BacklogTyped /\ ThreadsTyped /\ s \in Threads
  BY SocketParts, SocketTypes DEF SocketsTyped, Threads
<1> DEFINE new == [on |-> TRUE, sock |-> task[s].sock, path |-> task[s].index,
                   blocking |-> FALSE]
<1>1. /\ task[s].at = "install" /\ server' = [server EXCEPT ![s] = new]
      /\ task' = [task EXCEPT ![s] = NoTask] /\ closes' = [closes EXCEPT ![s] = 0]
      /\ UNCHANGED <<file, made, holder, parked, backlog, visit, quits>>
  BY DEF Listen, SocketAt
<1>2. task[s].sock \in Listeners /\ task[s].index \in Indices
  BY <1>0, <1>1 DEF SocketsTyped, Held, TaskHeld, ThreadsTyped, Tasks
<1>3. new \in Running
  BY <1>2 DEF Running
<1>4. /\ server' \in [Servers -> Running] /\ server'[s] = new
      /\ \A r \in Servers \ {s} : server'[r] = server[r]
  BY <1>0, <1>1, <1>3 DEF ServersTyped
<1>5. /\ task' \in [Threads -> Tasks] /\ task'[s] = NoTask
      /\ \A u \in Threads \ {s} : task'[u] = task[u]
  BY <1>0, <1>1, SocketTypes DEF ThreadsTyped
<1>6. FilesTyped' /\ BacklogTyped' /\ ThreadsTyped'
  BY <1>0, <1>1, <1>5 DEF FilesTyped, BacklogTyped, ThreadsTyped
<1>7. ServersTyped'
  BY <1>0, <1>1, <1>4 DEF ServersTyped
<1>8. \A r \in Servers : ServerHeld(r)'
  BY <1>2, <1>4, ServerStays DEF ServerHeld
<1>9. \A h \in Games : VisitHeld(h)'
  BY <1>1, <1>4, VisitStays
<1>10. TaskHeld(s)' /\ task'[s].at = "none"
  BY <1>5 DEF TaskHeld, NoTask
<1>11. \A r \in Servers : server[r].on => server'[r].on
  BY <1>4
<1>12. \A u \in Threads : TaskHeld(u)'
  BY <1>5, <1>10, <1>11, TaskStays
<1> QED
  BY <1>1, <1>4, <1>5, <1>6, <1>7, <1>8, <1>9, <1>10, <1>12, SocketJoin DEF Takes, GoesOn

\* A thread that has made a listener gives it to its server in place of the
\* old one.
LEMMA StepInstall ==
  ASSUME SocketAssumption, SocketsTyped, NEW g \in Games, Install(g)
  PROVE  SocketsTyped' /\ Replaces(g)
<1>0. /\ FilesTyped /\ ServersTyped /\ BacklogTyped /\ ThreadsTyped /\ g \in Threads
  BY SocketParts, SocketTypes DEF SocketsTyped, Threads
<1> DEFINE s == task[g].by
           new == [on |-> TRUE, sock |-> task[g].sock, path |-> task[g].index,
                   blocking |-> TRUE]
<1>1. /\ task[g].at = "install" /\ server' = [server EXCEPT ![s] = new]
      /\ task' = [task EXCEPT ![g] = NoTask]
      /\ holder' = [holder EXCEPT ![server[s].sock] = None]
      /\ file' = [file EXCEPT ![server[s].path] = None]
      /\ backlog' = [backlog EXCEPT ![server[s].sock] = <<>>]
      /\ visit' = [h \in Games |->
           IF h = g \/ (visit[h].at = "waiting" /\ visit[h].sock = server[s].sock)
             THEN IdleGame ELSE visit[h]]
      /\ UNCHANGED <<made, parked, closes, quits>>
  BY DEF Install, SocketAt, Dropped
<1>2. /\ task[g].sock \in Listeners /\ task[g].index \in Indices
      /\ s \in Servers /\ server[s].on
  BY <1>0, <1>1 DEF SocketsTyped, Held, TaskHeld, ThreadsTyped, Tasks
<1>3. server[s].sock \in Listeners /\ server[s].path \in Indices
  BY <1>2 DEF SocketsTyped, Held, ServerHeld
<1>4. new \in Running
  BY <1>2 DEF Running
<1> HIDE DEF s
<1>5. /\ server' \in [Servers -> Running] /\ server'[s] = new
      /\ \A r \in Servers \ {s} : server'[r] = server[r]
  BY <1>0, <1>1, <1>2, <1>4 DEF ServersTyped
<1>6. /\ task' \in [Threads -> Tasks] /\ task'[g] = NoTask
      /\ \A u \in Threads \ {g} : task'[u] = task[u]
  BY <1>0, <1>1, SocketTypes DEF ThreadsTyped
<1>7. visit' \in [Games -> Visits] /\ \A h \in Games : visit'[h] = visit[h] \/ visit'[h] = IdleGame
  BY <1>0, <1>1, SocketTypes DEF ThreadsTyped
<1>8. FilesTyped'
  BY <1>0, <1>1, <1>3 DEF FilesTyped
<1>9. BacklogTyped'
  BY <1>0, <1>1, <1>3 DEF BacklogTyped
<1>10. ServersTyped'
  BY <1>0, <1>1, <1>5 DEF ServersTyped
<1>11. ThreadsTyped'
  BY <1>6, <1>7 DEF ThreadsTyped
<1>12. \A r \in Servers : ServerHeld(r)'
  BY <1>2, <1>5, ServerStays DEF ServerHeld
<1>13. \A h \in Games : VisitHeld(h)'
  BY <1>5, <1>7, VisitStays
<1>14. TaskHeld(g)' /\ task'[g].at = "none"
  BY <1>6 DEF TaskHeld, NoTask
<1>15. \A r \in Servers : server[r].on => server'[r].on
  BY <1>5
<1>16. \A u \in Threads : TaskHeld(u)'
  BY <1>6, <1>14, <1>15, TaskStays
<1>17. SocketsTyped'
  BY <1>8, <1>9, <1>10, <1>11, <1>12, <1>13, <1>16, SocketJoin
<1>18. Replaces(g)
  BY <1>1, <1>2, <1>5, <1>6, <1>14 DEF Replaces, GoesOn, s
<1> QED
  BY <1>17, <1>18

\* A server that quits lets its listener go; its file goes with it or stays.
LEMMA StepQuit ==
  ASSUME SocketAssumption, SocketsTyped, NEW s \in Servers, Quit(s)
  PROVE  SocketsTyped' /\ Ends(s)
<1>0. /\ FilesTyped /\ ServersTyped /\ BacklogTyped /\ ThreadsTyped
  BY SocketParts, SocketTypes DEF SocketsTyped, Threads
<1>1. /\ \/ UNCHANGED file
         \/ server[s].on /\ file' = [file EXCEPT ![server[s].path] = None]
      /\ server' = [server EXCEPT ![s] = Down]
      /\ parked' = [parked EXCEPT ![s] = FALSE]
      /\ holder' = [l \in Listeners |-> IF holder[l] = s THEN None ELSE holder[l]]
      /\ backlog' = [l \in Listeners |-> IF holder[l] = s THEN <<>> ELSE backlog[l]]
      /\ task' = [t \in Threads |-> IF task[t].by = s THEN NoTask ELSE task[t]]
      /\ quits < MaxQuits /\ quits' = quits + 1
      /\ UNCHANGED <<made, closes>>
  BY DEF Quit, Dropped
<1>2. /\ visit' \in [Games -> Visits]
      /\ \A g \in Games : \/ visit'[g] = visit[g] /\ visit[g].by # s
                         \/ visit'[g] = IdleGame
  BY <1>0, SocketTypes DEF ThreadsTyped, Quit
<1>3. server[s].on => server[s].path \in Indices
  BY DEF SocketsTyped, Held, ServerHeld
<1>4. /\ server' \in [Servers -> Running] /\ server'[s] = Down
      /\ \A r \in Servers \ {s} : server'[r] = server[r]
  BY <1>0, <1>1, SocketTypes DEF ServersTyped
<1>5. /\ task' \in [Threads -> Tasks]
      /\ \A t \in Threads : \/ task'[t] = task[t] /\ task[t].by # s
                            \/ task'[t] = NoTask
  BY <1>0, <1>1, SocketTypes DEF ThreadsTyped
<1>6. FilesTyped'
  BY <1>0, <1>1, <1>3 DEF FilesTyped
<1>7. backlog' \in [Listeners -> Seq(Games \cup {Knock})]
  BY <1>0, <1>1 DEF BacklogTyped
<1>8. quits' \in 0 .. MaxQuits
  BY <1>0, <1>1, SocketAssumption DEF ServersTyped, SocketAssumption
<1>9. parked' \in [Servers -> BOOLEAN] /\ closes' \in [Servers -> Nat]
  BY <1>0, <1>1 DEF ServersTyped
<1>10. \A r \in Servers : ServerHeld(r)'
  BY <1>4, ServerStays DEF ServerHeld, Down
<1>11. ASSUME NEW g \in Games PROVE VisitHeld(g)'
  <2>1. CASE visit'[g] = IdleGame
    BY <2>1, VisitStays
  <2>2. CASE visit'[g] = visit[g] /\ visit[g].by # s
    <3>1. VisitHeld(g)
      BY DEF SocketsTyped, Held
    <3>2. visit[g].at \in {"served", "closing"} => server'[visit[g].by] = server[visit[g].by]
      BY <2>2, <3>1, <1>4 DEF VisitHeld
    <3> QED
      BY <2>2, <3>1, <3>2 DEF VisitHeld
  <2> QED
    BY <1>2, <2>1, <2>2
<1>12. ASSUME NEW t \in Threads PROVE TaskHeld(t)'
  <2>1. CASE task'[t] = NoTask
    BY <2>1 DEF TaskHeld, NoTask
  <2>2. CASE task'[t] = task[t] /\ task[t].by # s
    <3>1. TaskHeld(t)
      BY DEF SocketsTyped, Held
    <3>2. task[t].at # "none" => server'[task[t].by] = server[task[t].by]
      BY <2>2, <3>1, <1>4 DEF TaskHeld
    <3> QED
      BY <2>2, <3>1, <3>2 DEF TaskHeld
  <2> QED
    BY <1>5, <2>1, <2>2
<1>13. ServersTyped' /\ BacklogTyped' /\ ThreadsTyped'
  BY <1>2, <1>4, <1>5, <1>7, <1>8, <1>9 DEF ServersTyped, BacklogTyped, ThreadsTyped
<1>14. ~server'[s].on /\ server'[s].sock = None
  BY <1>4 DEF Down
<1>15. \A t \in Threads : task'[t] = task[t] \/ task'[t].at = "none"
  BY <1>5 DEF NoTask
<1> QED
  BY <1>1, <1>4, <1>6, <1>10, <1>11, <1>12, <1>13, <1>14, <1>15, SocketJoin DEF Ends

\* The steps that leave the paths, the servers and the search alone.
LEMMA StepVisit ==
  ASSUME SocketAssumption, SocketsTyped,
         \/ \E s \in Servers : Accept(s) \/ Park(s)
         \/ \E g \in Games : ConnectGame(g) \/ LeaveGame(g)
  PROVE  SocketsTyped' /\ Looks
<1>0. /\ FilesTyped /\ ServersTyped /\ BacklogTyped /\ ThreadsTyped
  BY SocketParts, SocketTypes DEF SocketsTyped, Threads
<1>1. UNCHANGED <<file, made, holder, server, task, closes, quits>>
  BY DEF Accept, Park, ConnectGame, LeaveGame
<1>2. FilesTyped' /\ Looks
  BY <1>0, <1>1 DEF FilesTyped, Looks
<1>3. /\ \A t \in Threads : TaskHeld(t)'
      /\ \A s \in Servers : ServerHeld(s)'
  BY <1>1, TaskStays, ServerStays
<1>4. ASSUME NEW s \in Servers, Accept(s) PROVE SocketsTyped'
  <2> DEFINE l == server[s].sock
  <2>1. /\ l \in Listeners /\ backlog[l] # <<>>
        /\ backlog' = [backlog EXCEPT ![l] = Tail(@)]
        /\ visit' = [g \in Games |-> IF g = Head(backlog[l])
                                        THEN [visit[g] EXCEPT !.at = "served", !.by = s]
                                        ELSE visit[g]]
        /\ parked' = [parked EXCEPT ![s] = FALSE] /\ server[s].on
    BY <1>4 DEF Accept, SocketsTyped, Held, ServerHeld
  <2> HIDE DEF l
  <2>2. Tail(backlog[l]) \in Seq(Games \cup {Knock})
    BY <1>0, <2>1, HeadTailProperties DEF BacklogTyped
  <2>3. BacklogTyped' /\ ServersTyped'
    BY <1>0, <1>1, <2>1, <2>2 DEF BacklogTyped, ServersTyped
  <2>4. \A g \in Games : [visit[g] EXCEPT !.at = "served", !.by = s] \in Visits
    BY <1>0 DEF ThreadsTyped, Visits
  <2>5. ThreadsTyped'
    BY <1>0, <1>1, <2>1, <2>4 DEF ThreadsTyped
  <2>6. ASSUME NEW g \in Games PROVE VisitHeld(g)'
    <3>1. CASE g = Head(backlog[l])
      <4>1. visit'[g].at = "served" /\ visit'[g].by = s
        BY <1>0, <2>1, <3>1 DEF ThreadsTyped, Visits
      <4> QED
        BY <1>1, <2>1, <4>1 DEF VisitHeld
    <3>2. CASE g # Head(backlog[l])
      BY <1>1, <2>1, <3>2, VisitStays
    <3> QED
      BY <3>1, <3>2
  <2> QED
    BY <1>2, <1>3, <2>3, <2>5, <2>6, SocketJoin
<1>5. ASSUME NEW s \in Servers, Park(s) PROVE SocketsTyped'
  <2>1. parked' = [parked EXCEPT ![s] = TRUE] /\ UNCHANGED <<backlog, visit>>
    BY <1>5 DEF Park
  <2>2. BacklogTyped' /\ ServersTyped' /\ ThreadsTyped'
    BY <1>0, <1>1, <2>1 DEF BacklogTyped, ServersTyped, ThreadsTyped
  <2> QED
    BY <1>1, <1>2, <1>3, <2>1, <2>2, VisitStays, SocketJoin
<1>6. ASSUME NEW g \in Games, ConnectGame(g) PROVE SocketsTyped'
  <2>1. PICK i \in Indices :
          /\ Open(i)
          /\ visit' = [visit EXCEPT ![g] = [at |-> "waiting", sock |-> file[i], by |-> None]]
          /\ backlog' = [backlog EXCEPT ![file[i]] = Append(@, g)]
    BY <1>6 DEF ConnectGame
  <2>2. file[i] \in Listeners
    BY <1>0, <2>1 DEF Open, FilesTyped
  <2>3. Append(backlog[file[i]], g) \in Seq(Games \cup {Knock})
    BY <1>0, <2>2, AppendProperties DEF BacklogTyped
  <2>4. BacklogTyped'
    BY <1>0, <2>1, <2>2, <2>3 DEF BacklogTyped
  <2>5. [at |-> "waiting", sock |-> file[i], by |-> None] \in Visits
    BY <2>2 DEF Visits
  <2>6. ThreadsTyped' /\ visit'[g].at = "waiting" /\ visit'[g].sock = file[i]
        /\ \A h \in Games \ {g} : visit'[h] = visit[h]
    BY <1>0, <1>1, <2>1, <2>5 DEF ThreadsTyped
  <2>7. ServersTyped'
    BY <1>0, <1>1, <1>6 DEF ServersTyped, ConnectGame
  <2>8. \A h \in Games : VisitHeld(h)'
    BY <1>1, <2>2, <2>6, VisitStays DEF VisitHeld
  <2> QED
    BY <1>2, <1>3, <2>4, <2>6, <2>7, <2>8, SocketJoin
<1>7. ASSUME NEW g \in Games, LeaveGame(g) PROVE SocketsTyped'
  <2>1. visit' = [visit EXCEPT ![g] = IdleGame] /\ UNCHANGED <<backlog, parked>>
    BY <1>7 DEF LeaveGame
  <2>2. BacklogTyped' /\ ServersTyped' /\ ThreadsTyped'
    BY <1>0, <1>1, <2>1, SocketTypes DEF BacklogTyped, ServersTyped, ThreadsTyped
  <2>3. \A h \in Games : visit'[h] = visit[h] \/ visit'[h] = IdleGame
    BY <1>0, <2>1 DEF ThreadsTyped
  <2> QED
    BY <1>1, <1>2, <1>3, <2>2, <2>3, VisitStays, SocketJoin
<1> QED
  BY <1>2, <1>4, <1>5, <1>6, <1>7

\* Every step keeps the types, and is one of the moves.
LEMMA SocketStep ==
  ASSUME SocketAssumption, SocketsTyped, SocketsNext
  PROVE  SocketsTyped' /\ SocketMove
<1>1. ASSUME NEW t \in Threads, CreateSocket(t) PROVE SocketsTyped' /\ SocketMove
  BY <1>1, StepOfSearch DEF SocketMove
<1>2. ASSUME NEW s \in Servers, Start(s) PROVE SocketsTyped' /\ SocketMove
  BY <1>2, StepStart DEF SocketMove
<1>3. ASSUME NEW s \in Servers, Listen(s) PROVE SocketsTyped' /\ SocketMove
  BY <1>3, StepListen DEF SocketMove
<1>4. ASSUME NEW s \in Servers, Accept(s) \/ Park(s) PROVE SocketsTyped' /\ SocketMove
  BY <1>4, StepVisit DEF SocketMove
<1>5. ASSUME NEW s \in Servers, Quit(s) PROVE SocketsTyped' /\ SocketMove
  BY <1>5, StepQuit DEF SocketMove
<1>6. ASSUME NEW g \in Games, Install(g) PROVE SocketsTyped' /\ SocketMove
  BY <1>6, StepInstall DEF SocketMove
<1>7. ASSUME NEW g \in Games, ConnectGame(g) \/ LeaveGame(g)
      PROVE  SocketsTyped' /\ SocketMove
  BY <1>7, StepVisit DEF SocketMove
<1>8. ASSUME NEW g \in Games, SendClose(g) PROVE SocketsTyped' /\ SocketMove
  BY <1>8, StepSendClose DEF SocketMove
<1> QED
  BY <1>1, <1>2, <1>3, <1>4, <1>5, <1>6, <1>7, <1>8 DEF SocketsNext

-----------------------------------------------------------------------------
(* Sockets: who holds a path.                                               *)

\* One thread at a time looks for a path; listeners are new; nobody is
\* condemned who runs; the listener a thread has made is at its path, and
\* nobody's yet.
OneLooks == \A t, u \in Threads : task[t].at # "none" /\ task[u].at # "none" => t = u
SocketsOld ==
  /\ \A s \in Servers : server[s].on => server[s].sock <= made
  /\ \A t \in Threads : task[t].at = "install" => task[t].sock <= made
SocketsOwn ==
  \A r, s \in Servers : server[r].on /\ server[s].on /\ server[r].sock = server[s].sock => r = s
NoneCondemned ==
  \A t \in Threads : task[t].at = "remove" =>
    \A s \in Servers : server[s].on => server[s].sock # file[task[t].index]
MadeHolds ==
  \A t \in Threads : task[t].at = "install" =>
    /\ file[task[t].index] = task[t].sock
    /\ \A s \in Servers : server[s].on => server[s].sock # task[t].sock

PathInv ==
  /\ SocketsTyped /\ OneLooks /\ SocketsOld /\ SocketsOwn /\ NoneCondemned /\ MadeHolds
  /\ AllFound

\* At first there is no file, so no path is anybody's.
LEMMA PathInit ==
  ASSUME SocketAssumption, SocketsInit
  PROVE  PathInv
<1>1. \A t \in Threads : task[t] = NoTask
  BY DEF SocketsInit
<1>2. \A s \in Servers : server[s] = Down
  BY DEF SocketsInit
<1>3. FilesTyped
  BY SocketAssumption DEF SocketsInit, FilesTyped, SocketAssumption
<1>4. ServersTyped
  BY SocketAssumption, SocketTypes DEF SocketsInit, ServersTyped, SocketAssumption
<1>5. BacklogTyped /\ ThreadsTyped
  BY SocketTypes DEF SocketsInit, BacklogTyped, ThreadsTyped
<1>6. \A g \in Games : VisitHeld(g)
  BY DEF SocketsInit, VisitHeld, IdleGame
<1>7. \A s \in Servers : ServerHeld(s) /\ ~server[s].on
  BY <1>2 DEF ServerHeld, Down
<1>8. \A t \in Threads : TaskHeld(t) /\ task[t].at = "none"
  BY <1>1 DEF TaskHeld, NoTask
<1> QED
  BY <1>3, <1>4, <1>5, <1>6, <1>7, <1>8, SocketParts
     DEF PathInv, SocketsTyped, Held, OneLooks, SocketsOld, SocketsOwn, NoneCondemned,
         MadeHolds, AllFound

\* PathInv is inductive, and a server that runs loses its path to a new
\* listener of its own only.
LEMMA PathStep ==
  ASSUME SocketAssumption, Serial = TRUE, PathInv, SocketsTyped', SocketMove
  PROVE  PathInv' /\ \A i \in Indices : \A s \in Servers :
           /\ server[s].on /\ file[i] = server[s].sock /\ file[i] # file'[i]
           => server'[s].sock # server[s].sock
<1> DEFINE Left == \A i \in Indices : \A s \in Servers :
             /\ server[s].on /\ file[i] = server[s].sock /\ file[i] # file'[i]
             => server'[s].sock # server[s].sock
<1>0. /\ OneLooks /\ SocketsOld /\ SocketsOwn /\ NoneCondemned /\ MadeHolds
      /\ \A s \in Servers : server[s].on => file[server[s].path] = server[s].sock
  BY DEF PathInv, AllFound, Found
<1>1. /\ \A t \in Threads : task[t] \in Tasks /\ task'[t] \in Tasks
      /\ \A t \in Threads : task[t].index \in Indices /\ task'[t].index \in Indices
      /\ file \in [Indices -> Listeners \cup {None}] /\ made \in Nat
      /\ None \notin Listeners
      /\ \A l \in Listeners : l \in Nat
      /\ \A s \in Servers : server[s].on =>
           server[s].sock \in Listeners /\ server[s].path \in Indices
      /\ \A t \in Threads : task[t].at = "install" => task[t].sock \in Listeners
  BY SocketParts, SocketTypes
     DEF PathInv, SocketsTyped, ThreadsTyped, FilesTyped, Tasks, Held, ServerHeld, TaskHeld, Listeners
<1>2. ASSUME NEW t \in Threads, GoesOn(t) PROVE OneLooks'
  BY <1>0, <1>2 DEF OneLooks, GoesOn, Free
<1>3. ASSUME NEW t \in Threads, GoesOn(t), task'[t].at # "install"
      PROVE  \A u \in Threads : task'[u].at = "install" => u # t /\ task'[u] = task[u]
  BY <1>3 DEF GoesOn
<1>4. ASSUME NEW t \in Threads, GoesOn(t), task'[t].at # "none"
      PROVE  \A u \in Threads \ {t} : task'[u].at = "none"
  BY <1>0, <1>4 DEF GoesOn, OneLooks, Free
<1>5. ASSUME OneLooks', SocketsOld', SocketsOwn', NoneCondemned', MadeHolds', AllFound', Left
      PROVE  PathInv' /\ Left
  BY <1>5 DEF PathInv
<1>6. CASE Looks
  <2>1. file' = file /\ made' = made /\ server' = server
    BY <1>6 DEF Looks
  <2>2. \A u \in Threads : task'[u] = task[u] \/ task'[u].at \in {"none", "bind", "probe"}
    BY <1>6 DEF Looks, GoesOn
  <2>3. OneLooks'
    BY <1>0, <1>2, <1>6 DEF Looks, OneLooks
  <2>4. SocketsOld' /\ SocketsOwn' /\ AllFound' /\ Left
    BY <1>0, <2>1, <2>2 DEF SocketsOld, SocketsOwn, AllFound, Found
  <2>5. NoneCondemned' /\ MadeHolds'
    BY <1>0, <2>1, <2>2 DEF NoneCondemned, MadeHolds
  <2> QED
    BY <1>5, <2>3, <2>4, <2>5
<1>7. ASSUME NEW t \in Threads, Condemns(t) PROVE PathInv' /\ Left
  <2>1. /\ file' = file /\ made' = made /\ server' = server /\ GoesOn(t)
        /\ ~Alive(file[task[t].index])
        /\ task'[t].at = "remove" /\ task'[t].index = task[t].index
    BY <1>1, <1>7 DEF Condemns, Tasks
  <2>2. OneLooks' /\ \A u \in Threads \ {t} : task'[u].at = "none"
    BY <1>2, <1>4, <2>1
  <2>3. SocketsOld' /\ SocketsOwn' /\ AllFound' /\ Left
    BY <1>0, <2>1, <2>2 DEF SocketsOld, SocketsOwn, AllFound, Found
  <2>4. NoneCondemned'
    BY <1>1, <2>1, <2>2 DEF NoneCondemned, Alive, Answering
  <2>5. MadeHolds'
    BY <2>1, <2>2 DEF MadeHolds
  <2> QED
    BY <1>5, <2>2, <2>3, <2>4, <2>5
<1>8. ASSUME NEW t \in Threads, Clears(t) PROVE PathInv' /\ Left
  <2>1. /\ file' = [file EXCEPT ![task[t].index] = None] /\ made' = made
        /\ server' = server /\ GoesOn(t) /\ task[t].at = "remove"
        /\ task'[t].at = "rebind" /\ task'[t].index = task[t].index
    BY <1>1, <1>8 DEF Clears, Tasks
  <2>2. OneLooks' /\ \A u \in Threads \ {t} : task'[u].at = "none"
    BY <1>2, <1>4, <2>1
  <2>3. \A s \in Servers : server[s].on => file[task[t].index] # server[s].sock
    BY <1>0, <2>1 DEF NoneCondemned
  <2>4. SocketsOld' /\ SocketsOwn'
    BY <1>0, <2>1, <2>2 DEF SocketsOld, SocketsOwn
  <2>5. AllFound' /\ Left
    BY <1>0, <1>1, <2>1, <2>3 DEF AllFound, Found
  <2>6. NoneCondemned' /\ MadeHolds'
    BY <2>1, <2>2 DEF NoneCondemned, MadeHolds
  <2> QED
    BY <1>5, <2>2, <2>4, <2>5, <2>6
<1>9. ASSUME NEW t \in Threads, Makes(t) PROVE PathInv' /\ Left
  <2>1. /\ file' = [file EXCEPT ![task[t].index] = made + 1] /\ made' = made + 1
        /\ made + 1 \in Listeners /\ file[task[t].index] = None
        /\ server' = server /\ GoesOn(t)
        /\ task'[t].at = "install" /\ task'[t].index = task[t].index
        /\ task'[t].sock = made + 1
    BY <1>1, <1>9 DEF Makes, Tasks
  <2>2. OneLooks' /\ \A u \in Threads \ {t} : task'[u].at = "none"
    BY <1>2, <1>4, <2>1
  <2>3. \A s \in Servers : server[s].on => server[s].sock <= made /\ server[s].sock # made + 1
    BY <1>0, <1>1 DEF SocketsOld
  <2>4. SocketsOld'
    BY <1>1, <2>1, <2>2, <2>3 DEF SocketsOld
  <2>5. SocketsOwn'
    BY <1>0, <2>1 DEF SocketsOwn
  <2>6. AllFound' /\ Left
    BY <1>0, <1>1, <2>1, <2>3 DEF AllFound, Found
  <2>7. NoneCondemned'
    BY <2>1, <2>2 DEF NoneCondemned
  <2>8. MadeHolds'
    BY <1>1, <2>1, <2>2, <2>3 DEF MadeHolds
  <2> QED
    BY <1>5, <2>2, <2>4, <2>5, <2>6, <2>7, <2>8
<1>10. ASSUME NEW s \in Servers, Takes(s) PROVE PathInv' /\ Left
  <2>1. /\ s \in Threads /\ task[s].at = "install" /\ file' = file /\ made' = made
        /\ \A r \in Servers \ {s} : server'[r] = server[r]
        /\ server'[s].sock = task[s].sock /\ server'[s].path = task[s].index
        /\ GoesOn(s) /\ task'[s].at = "none"
    BY <1>10 DEF Takes, Threads
  <2>2. OneLooks' /\ \A u \in Threads : task'[u].at = "none"
    BY <1>0, <1>2, <2>1 DEF GoesOn, OneLooks
  <2>3. /\ task[s].sock <= made /\ file[task[s].index] = task[s].sock
        /\ \A r \in Servers : server[r].on => server[r].sock # task[s].sock
    BY <1>0, <2>1 DEF SocketsOld, MadeHolds
  <2>4. SocketsOld' /\ SocketsOwn'
    BY <1>0, <2>1, <2>2, <2>3 DEF SocketsOld, SocketsOwn
  <2>5. AllFound' /\ Left
    BY <1>0, <2>1, <2>3 DEF AllFound, Found
  <2>6. NoneCondemned' /\ MadeHolds'
    BY <2>2 DEF NoneCondemned, MadeHolds
  <2> QED
    BY <1>5, <2>2, <2>4, <2>5, <2>6
<1>11. ASSUME NEW g \in Games, Replaces(g) PROVE PathInv' /\ Left
  <2> DEFINE s == task[g].by
  <2>1. /\ g \in Threads /\ task[g].at = "install" /\ s \in Servers /\ server[s].on
        /\ file' = [file EXCEPT ![server[s].path] = None] /\ made' = made
        /\ \A r \in Servers \ {s} : server'[r] = server[r]
        /\ server'[s].sock = task[g].sock /\ server'[s].path = task[g].index
        /\ GoesOn(g) /\ task'[g].at = "none"
    BY <1>11 DEF Replaces, Threads
  <2> HIDE DEF s
  <2>2. OneLooks' /\ \A u \in Threads : task'[u].at = "none"
    BY <1>0, <1>2, <2>1 DEF GoesOn, OneLooks
  <2>3. /\ task[g].sock <= made /\ file[task[g].index] = task[g].sock
        /\ \A r \in Servers : server[r].on => server[r].sock # task[g].sock
        /\ task[g].index # server[s].path
    BY <1>0, <2>1 DEF SocketsOld, MadeHolds
  <2>4. SocketsOld' /\ SocketsOwn'
    BY <1>0, <2>1, <2>2, <2>3 DEF SocketsOld, SocketsOwn
  <2>5. \A r \in Servers \ {s} : server[r].on => server[r].path # server[s].path
    BY <1>0, <2>1 DEF SocketsOwn
  <2>6. AllFound'
    BY <1>0, <1>1, <2>1, <2>3, <2>5 DEF AllFound, Found
  <2>7. Left
    <3> SUFFICES ASSUME NEW i \in Indices, NEW r \in Servers, server[r].on,
                        file[i] = server[r].sock, file[i] # file'[i]
                 PROVE  server'[r].sock # server[r].sock
      OBVIOUS
    <3>1. i = server[s].path
      BY <1>1, <2>1
    <3>2. r = s
      BY <1>0, <2>1, <3>1 DEF SocketsOwn
    <3> QED
      BY <2>1, <2>3, <3>2
  <2>8. NoneCondemned' /\ MadeHolds'
    BY <2>2 DEF NoneCondemned, MadeHolds
  <2> QED
    BY <1>5, <2>2, <2>4, <2>6, <2>7, <2>8
<1>12. ASSUME NEW s \in Servers, Ends(s) PROVE PathInv' /\ Left
  <2>1. /\ \/ file' = file
           \/ server[s].on /\ file' = [file EXCEPT ![server[s].path] = None]
        /\ made' = made
        /\ \A r \in Servers \ {s} : server'[r] = server[r]
        /\ ~server'[s].on /\ server'[s].sock = None
        /\ \A t \in Threads : task'[t] = task[t] \/ task'[t].at = "none"
    BY <1>12 DEF Ends
  <2>2. OneLooks'
    BY <1>0, <2>1 DEF OneLooks
  <2>3. SocketsOld' /\ SocketsOwn'
    BY <1>0, <2>1 DEF SocketsOld, SocketsOwn
  <2>4. \A i \in Indices : file'[i] = file[i] \/ (server[s].on /\ file[i] = server[s].sock /\ file'[i] = None)
    BY <1>0, <1>1, <2>1
  <2>5. \A r \in Servers \ {s} : server[r].on => file'[server[r].path] = server[r].sock
    BY <1>0, <1>1, <2>4 DEF SocketsOwn
  <2>6. AllFound'
    BY <2>1, <2>5 DEF AllFound, Found
  <2>7. Left
    <3> SUFFICES ASSUME NEW i \in Indices, NEW r \in Servers, server[r].on,
                        file[i] = server[r].sock, file[i] # file'[i]
                 PROVE  server'[r].sock # server[r].sock
      OBVIOUS
    <3>1. r = s
      BY <1>0, <2>4 DEF SocketsOwn
    <3> QED
      BY <1>1, <2>1, <3>1
  <2>8. ASSUME NEW t \in Threads, task'[t].at = "remove", NEW r \in Servers, server'[r].on
        PROVE  server'[r].sock # file'[task'[t].index]
    <3>1. task'[t] = task[t] /\ r # s /\ server'[r] = server[r] /\ task[t].at = "remove"
      BY <2>1, <2>8
    <3>2. server[r].on /\ server[r].sock # file[task[t].index] /\ server[r].sock # None
      BY <1>0, <1>1, <2>8, <3>1 DEF NoneCondemned
    <3> QED
      BY <1>1, <2>4, <3>1, <3>2
  <2>9. ASSUME NEW t \in Threads, task'[t].at = "install"
        PROVE  /\ file'[task'[t].index] = task'[t].sock
               /\ \A r \in Servers : server'[r].on => server'[r].sock # task'[t].sock
    <3>1. task'[t] = task[t] /\ task[t].at = "install"
      BY <2>1, <2>9
    <3>2. /\ file[task[t].index] = task[t].sock
          /\ \A r \in Servers : server[r].on => server[r].sock # task[t].sock
      BY <1>0, <3>1 DEF MadeHolds
    <3>3. file'[task[t].index] = file[task[t].index]
      BY <1>1, <2>4, <3>2
    <3> QED
      BY <2>1, <3>1, <3>2, <3>3
  <2>10. NoneCondemned' /\ MadeHolds'
    BY <2>8, <2>9 DEF NoneCondemned, MadeHolds
  <2> QED
    BY <1>5, <2>2, <2>3, <2>6, <2>7, <2>10
<1>13. PathInv' /\ Left
  BY <1>6, <1>7, <1>8, <1>9, <1>10, <1>11, <1>12 DEF SocketMove
<1> QED
  BY <1>13

\* A step that changes nothing keeps it all.
LEMMA PathStutter ==
  ASSUME PathInv, UNCHANGED socketVars
  PROVE  PathInv'
<1>1. /\ file' = file /\ made' = made /\ holder' = holder /\ server' = server
      /\ parked' = parked /\ backlog' = backlog /\ task' = task /\ visit' = visit
      /\ closes' = closes /\ quits' = quits
  BY DEF socketVars
<1>2. SocketsTyped'
  BY <1>1 DEF PathInv, SocketsTyped, SocketsTypeOK, Held, TaskHeld, ServerHeld, VisitHeld
<1>3. OneLooks' /\ SocketsOld' /\ SocketsOwn' /\ NoneCondemned' /\ MadeHolds' /\ AllFound'
  BY <1>1 DEF PathInv, OneLooks, SocketsOld, SocketsOwn, NoneCondemned, MadeHolds, AllFound, Found
<1> QED
  BY <1>2, <1>3 DEF PathInv

\* The variables of the sockets keep their types, however many threads look for
\* a path at a time.
THEOREM SocketsTypeCorrect ==
  ASSUME SocketAssumption
  PROVE  SocketsSpec => []SocketsTypeOK
<1>1. SocketsInit => SocketsTyped
  BY PathInit DEF PathInv
<1>2. SocketsTyped /\ [SocketsNext]_socketVars => SocketsTyped'
  <2> SUFFICES ASSUME SocketsTyped, [SocketsNext]_socketVars PROVE SocketsTyped'
    OBVIOUS
  <2>1. CASE SocketsNext
    BY <2>1, SocketStep
  <2>2. CASE UNCHANGED socketVars
    <3>1. /\ file' = file /\ made' = made /\ holder' = holder /\ server' = server
          /\ parked' = parked /\ backlog' = backlog /\ task' = task /\ visit' = visit
          /\ closes' = closes /\ quits' = quits
      BY <2>2 DEF socketVars
    <3> QED
      BY <3>1 DEF SocketsTyped, SocketsTypeOK, Held, TaskHeld, ServerHeld, VisitHeld
  <2> QED
    BY <2>1, <2>2
<1>3. SocketsTyped => SocketsTypeOK
  BY DEF SocketsTyped
<1> QED
  BY <1>1, <1>2, <1>3, PTL DEF SocketsSpec

\* A server that runs can be found, for any number of servers, games and paths,
\* when one thread at a time looks for a path: its path leads to its listener
\* (create_socket, recreate_socket).
THEOREM ServersFound ==
  ASSUME SocketAssumption, Serial = TRUE
  PROVE  SocketsSpec => [](SocketsTypeOK /\ AllFound)
<1>1. SocketsInit => PathInv
  BY PathInit
<1>2. PathInv /\ [SocketsNext]_socketVars => PathInv'
  BY PathStep, PathStutter, SocketStep DEF PathInv
<1>3. PathInv => SocketsTypeOK /\ AllFound
  BY DEF PathInv, SocketsTyped
<1> QED
  BY <1>1, <1>2, <1>3, PTL DEF SocketsSpec

\* A path leads away from a server that answers on it only when that server
\* itself has moved or ended (socket_holder_alive).
THEOREM NobodyDisplaced ==
  ASSUME SocketAssumption, Serial = TRUE
  PROVE  SocketsSpec => LiveLeftAlone
<1> DEFINE Left == \A i \in Indices : \A s \in Servers :
             /\ server[s].on /\ file[i] = server[s].sock /\ file[i] # file'[i]
             => server'[s].sock # server[s].sock
<1>1. SocketsInit => PathInv
  BY PathInit
<1>2. PathInv /\ [SocketsNext]_socketVars => PathInv'
  BY PathStep, PathStutter, SocketStep DEF PathInv
<1>3. PathInv /\ [SocketsNext]_socketVars => [Left]_socketVars
  BY PathStep, SocketStep DEF PathInv
<1> QED
  BY <1>1, <1>2, <1>3, PTL DEF SocketsSpec, LiveLeftAlone

-----------------------------------------------------------------------------
(* Sequences: the elements of a set, in their order.                         *)

\* kept is what Among(s, S) goes through, over n elements of s.
FilterSteps(kept, s, S, n) ==
  kept = [i \in 0 .. n |-> IF i = 0 THEN <<>> ELSE Plus(kept[i - 1], s[i], S)]

\* Adding an element where it is in S yields a sequence again.
LEMMA WithType ==
  ASSUME NEW D, NEW kept \in Seq(D), NEW e \in D, NEW S
  PROVE  Plus(kept, e, S) \in Seq(D)
BY AppendProperties DEF Plus

\* One element more.
LEMMA OneMore ==
  ASSUME NEW D, NEW s \in Seq(D), NEW S, NEW n \in 1 .. Len(s),
         NEW k \in [0 .. n - 1 -> Seq(D)], FilterSteps(k, s, S, n - 1)
  PROVE  \E kept \in [0 .. n -> Seq(D)] : FilterSteps(kept, s, S, n)
<1> DEFINE e == Plus(k[n - 1], s[n], S)
           kk == [i \in 0 .. n |-> IF i = n THEN e ELSE k[i]]
<1>0. Len(s) \in Nat /\ s[n] \in D
  BY ElementOfSeq, LenProperties
<1>1. k[n - 1] \in Seq(D)
  BY <1>0
<1>2. e \in Seq(D)
  BY <1>0, <1>1, WithType
<1>3. ASSUME NEW i \in 0 .. n
      PROVE  kk[i] = IF i = 0 THEN <<>> ELSE Plus(kk[i - 1], s[i], S)
  <2>1. CASE i = n
    <3>1. kk[i] = e /\ kk[i - 1] = k[n - 1] /\ i # 0
      BY <1>0, <2>1
    <3> QED
      BY <2>1, <3>1
  <2>2. CASE i # n
    <3>1. kk[i] = k[i] /\ i \in 0 .. n - 1
      BY <1>0, <2>2
    <3>2. k[i] = IF i = 0 THEN <<>> ELSE Plus(k[i - 1], s[i], S)
      BY <3>1 DEF FilterSteps
    <3>3. i # 0 => kk[i - 1] = k[i - 1]
      BY <1>0, <3>1
    <3> QED
      BY <3>1, <3>2, <3>3
  <2> QED
    BY <2>1, <2>2
<1>4. kk \in [0 .. n -> Seq(D)]
  <2> HIDE DEF e
  <2> QED
    BY <1>0, <1>2
<1>5. kk = [i \in 0 .. n |-> kk[i]]
  OBVIOUS
<1> HIDE DEF kk
<1>6. FilterSteps(kk, s, S, n)
  BY <1>3, <1>5 DEF FilterSteps
<1> QED
  BY <1>4, <1>6

\* The filter's stages exist: one sequence for each position of s.
LEMMA FilterStepsExist ==
  ASSUME NEW D, NEW s \in Seq(D), NEW S
  PROVE  \E kept \in [0 .. Len(s) -> Seq(D)] : FilterSteps(kept, s, S, Len(s))
<1> DEFINE P(n) == \E kept \in [0 .. n -> Seq(D)] : FilterSteps(kept, s, S, n)
           T == {n \in 0 .. Len(s) : ~P(n)}
<1>0. Len(s) \in Nat
  BY LenProperties
<1>1. P(0)
  <2> DEFINE k0 == [i \in 0 .. 0 |-> <<>>]
  <2>1. k0 \in [0 .. 0 -> Seq(D)]
    BY EmptySeq
  <2>2. FilterSteps(k0, s, S, 0)
    BY DEF FilterSteps
  <2> QED
    BY <2>1, <2>2
<1>2. ASSUME NEW n \in 1 .. Len(s), P(n - 1) PROVE P(n)
  BY <1>2, OneMore
<1> HIDE DEF P
<1>3. T = {}
  <2> SUFFICES ASSUME T # {} PROVE FALSE
    OBVIOUS
  <2>1. T \in SUBSET Nat
    BY <1>0
  <2>2. PICK m \in T : \A n \in T : m <= n
    BY <2>1, Least
  <2>3. m # 0 /\ m \in 1 .. Len(s) /\ ~P(m)
    BY <1>0, <1>1, <2>2
  <2>4. m - 1 \in 0 .. Len(s) /\ m - 1 \notin T
    BY <1>0, <2>2, <2>3
  <2> QED
    BY <1>2, <2>3, <2>4
<1>4. P(Len(s))
  BY <1>0, <1>3
<1> QED
  BY <1>4 DEF P

\* What Among computes, step by step.
Chosen(kept, s, S) ==
  /\ kept[0] = <<>>
  /\ \A i \in 1 .. Len(s) : kept[i] = Plus(kept[i - 1], s[i], S)
  /\ Among(s, S) = kept[Len(s)]

\* The same for the whole of s, whose last stage is what Among picks.
LEMMA AmongSteps ==
  ASSUME NEW D, NEW s \in Seq(D), NEW S
  PROVE  \E kept \in [0 .. Len(s) -> Seq(D)] : Chosen(kept, s, S)
<1> DEFINE K == CHOOSE kept : FilterSteps(kept, s, S, Len(s))
<1>0. Len(s) \in Nat
  BY LenProperties
<1>1. \E kept : FilterSteps(kept, s, S, Len(s))
  BY FilterStepsExist
<1>2. FilterSteps(K, s, S, Len(s))
  BY <1>1
<1>3. Among(s, S) = K[Len(s)]
  BY DEF Among, FilterSteps
<1> HIDE DEF K
<1>4. K = [i \in 0 .. Len(s) |-> IF i = 0 THEN <<>> ELSE Plus(K[i - 1], s[i], S)]
  BY <1>2 DEF FilterSteps
<1>5. /\ K[0] = <<>>
      /\ \A i \in 1 .. Len(s) : K[i] = Plus(K[i - 1], s[i], S)
  BY <1>0, <1>4
<1> DEFINE T == {i \in 0 .. Len(s) : K[i] \notin Seq(D)}
<1>6. T = {}
  <2> SUFFICES ASSUME T # {} PROVE FALSE
    OBVIOUS
  <2>1. T \in SUBSET Nat
    BY <1>0
  <2>2. PICK m \in T : \A n \in T : m <= n
    BY <2>1, Least
  <2>3. m # 0
    BY <1>5, <2>2, EmptySeq
  <2>4. m \in 1 .. Len(s) /\ K[m] \notin Seq(D)
    BY <1>0, <2>2, <2>3
  <2>5. m - 1 \in 0 .. Len(s) /\ m - 1 \notin T
    BY <1>0, <2>2, <2>4
  <2>6. K[m - 1] \in Seq(D) /\ s[m] \in D
    BY <2>4, <2>5, ElementOfSeq
  <2> QED
    BY <1>5, <2>4, <2>6, WithType
<1>7. \A i \in 0 .. Len(s) : K[i] \in Seq(D)
  BY <1>6
<1>8. K \in [0 .. Len(s) -> Seq(D)]
  <2>1. DOMAIN K = 0 .. Len(s) /\ K = [i \in 0 .. Len(s) |-> K[i]]
    BY <1>4
  <2> QED
    BY <1>7, <2>1
<1>9. Chosen(K, s, S)
  BY <1>3, <1>5 DEF Chosen
<1> QED
  BY <1>8, <1>9

\* What is chosen from a sequence is a sequence over the same set.
LEMMA AmongType ==
  ASSUME NEW D, NEW s \in Seq(D), NEW S
  PROVE  Among(s, S) \in Seq(D)
<1>1. Len(s) \in Nat /\ Len(s) \in 0 .. Len(s)
  BY LenProperties
<1>2. PICK k \in [0 .. Len(s) -> Seq(D)] : Chosen(k, s, S)
  BY AmongSteps
<1> QED
  BY <1>1, <1>2 DEF Chosen

\* Nothing is chosen from the empty sequence.
LEMMA AmongEmpty ==
  ASSUME NEW S
  PROVE  Among(<<>>, S) = <<>>
<1> DEFINE s == <<>>
<1>1. s \in Seq({}) /\ Len(s) = 0
  BY EmptySeq
<1> HIDE DEF s
<1>2. PICK k \in [0 .. Len(s) -> Seq({})] : Chosen(k, s, S)
  BY <1>1, AmongSteps
<1>3. Among(s, S) = <<>>
  BY <1>1, <1>2 DEF Chosen
<1> QED
  BY <1>3 DEF s

\* An element more at the end.
LEMMA AmongAppend ==
  ASSUME NEW D, NEW s \in Seq(D), NEW S, NEW e \in D
  PROVE  Among(Append(s, e), S) = Plus(Among(s, S), e, S)
<1> DEFINE r == Append(s, e)
<1>0. /\ Len(s) \in Nat /\ r \in Seq(D) /\ Len(r) = Len(s) + 1
      /\ \A i \in 1 .. Len(s) : r[i] = s[i]
      /\ r[Len(s) + 1] = e
  BY AppendProperties, LenProperties
<1> HIDE DEF r
<1>1. PICK k \in [0 .. Len(s) -> Seq(D)] : Chosen(k, s, S)
  BY AmongSteps
<1>2. PICK l \in [0 .. Len(r) -> Seq(D)] : Chosen(l, r, S)
  BY <1>0, AmongSteps
<1> DEFINE T == {i \in 0 .. Len(s) : k[i] # l[i]}
<1>3. T = {}
  <2> SUFFICES ASSUME T # {} PROVE FALSE
    OBVIOUS
  <2>1. T \in SUBSET Nat
    BY <1>0
  <2>2. PICK m \in T : \A n \in T : m <= n
    BY <2>1, Least
  <2>3. k[0] = l[0]
    BY <1>1, <1>2 DEF Chosen
  <2>4. m \in 1 .. Len(s) /\ k[m] # l[m]
    BY <1>0, <2>2, <2>3
  <2>5. m - 1 \in 0 .. Len(s) /\ m - 1 \notin T
    <3>1. m \in Int /\ m >= 1 /\ m <= Len(s) /\ ~(m <= m - 1)
      BY <1>0, <2>4
    <3>2. m - 1 \in 0 .. Len(s)
      BY <1>0, <3>1
    <3> HIDE DEF T
    <3> QED
      BY <2>2, <3>1, <3>2
  <2>6. k[m - 1] = l[m - 1] /\ r[m] = s[m] /\ m \in 1 .. Len(r)
    BY <1>0, <2>4, <2>5
  <2>7. k[m] = Plus(k[m - 1], s[m], S)
    BY <1>1, <2>4 DEF Chosen
  <2>8. l[m] = Plus(l[m - 1], r[m], S)
    BY <1>2, <2>6 DEF Chosen
  <2> QED
    BY <2>4, <2>6, <2>7, <2>8
<1>4. Len(s) \in 0 .. Len(s) /\ l[Len(s)] = k[Len(s)] /\ Len(s) + 1 \in 1 .. Len(r)
  BY <1>0, <1>3
<1>5. l[Len(s) + 1] = Plus(l[Len(s)], e, S)
  <2>1. l[Len(s) + 1] = Plus(l[Len(s) + 1 - 1], r[Len(s) + 1], S)
    BY <1>2, <1>4 DEF Chosen
  <2>2. Len(s) + 1 - 1 = Len(s)
    BY <1>0
  <2> QED
    BY <1>0, <2>1, <2>2
<1> QED
  BY <1>0, <1>1, <1>2, <1>4, <1>5 DEF Chosen, r

\* Adding at the end does not mind what stands in front.
LEMMA WithConcat ==
  ASSUME NEW D, NEW h \in Seq(D), NEW kept \in Seq(D), NEW e \in D, NEW S
  PROVE  Plus(h \o kept, e, S) = h \o Plus(kept, e, S)
<1>1. Append(h \o kept, e) = h \o Append(kept, e)
  <2>1. Append(h \o kept, e) = (h \o kept) \o <<e>> /\ Append(kept, e) = kept \o <<e>>
    BY ConcatProperties, AppendIsConcat
  <2>2. <<e>> \in Seq(D)
    OBVIOUS
  <2> QED
    BY <2>1, <2>2, ConcatAssociative
<1> QED
  BY <1>1 DEF Plus

\* An element less in front.
LEMMA AmongTail ==
  ASSUME NEW D, NEW s \in Seq(D), NEW S, s # <<>>
  PROVE  Among(s, S) = Plus(<<>>, Head(s), S) \o Among(Tail(s), S)
<1> DEFINE r == Tail(s)
           h == Plus(<<>>, Head(s), S)
<1>0. /\ Len(s) \in Nat /\ Len(s) >= 1 /\ r \in Seq(D) /\ Len(r) = Len(s) - 1
      /\ \A i \in 1 .. Len(r) : r[i] = s[i + 1]
      /\ Head(s) = s[1] /\ Head(s) \in D
  BY HeadTailProperties, LenProperties
<1>1. h \in Seq(D)
  BY <1>0, EmptySeq, WithType
<1>2. PICK k \in [0 .. Len(s) -> Seq(D)] : Chosen(k, s, S)
  BY AmongSteps
<1>3. PICK l \in [0 .. Len(r) -> Seq(D)] : Chosen(l, r, S)
  BY <1>0, AmongSteps
<1>4. k[1] = h
  <2>1. 1 \in 1 .. Len(s) /\ 1 - 1 = 0
    BY <1>0
  <2>2. k[1] = Plus(k[1 - 1], s[1], S) /\ k[0] = <<>>
    BY <1>2, <2>1 DEF Chosen
  <2> QED
    BY <1>0, <2>1, <2>2
<1> HIDE DEF r, h
<1> DEFINE J(i) == k[i + 1] = h \o l[i]
           T == {i \in 0 .. Len(r) : ~J(i)}
<1>5. J(0)
  <2>1. l[0] = <<>> /\ 0 + 1 = 1
    BY <1>3 DEF Chosen
  <2> QED
    BY <1>1, <1>4, <2>1, ConcatEmptySeq
<1>6. ASSUME NEW m \in 1 .. Len(r), J(m - 1) PROVE J(m)
  <2>1. m - 1 + 1 = m /\ m + 1 - 1 = m /\ m + 1 \in 1 .. Len(s) /\ m - 1 \in 0 .. Len(r)
    BY <1>0
  <2>2. r[m] = s[m + 1] /\ r[m] \in D
    BY <1>0, ElementOfSeq
  <2>3. k[m] = h \o l[m - 1]
    BY <1>6, <2>1
  <2>4. k[m + 1] = Plus(k[m + 1 - 1], s[m + 1], S)
    BY <1>2, <2>1 DEF Chosen
  <2>5. l[m] = Plus(l[m - 1], r[m], S)
    BY <1>3 DEF Chosen
  <2>6. l[m - 1] \in Seq(D)
    BY <2>1
  <2>7. Plus(h \o l[m - 1], r[m], S) = h \o Plus(l[m - 1], r[m], S)
    <3>1. ASSUME NEW kept \in Seq(D), NEW e \in D
          PROVE  Plus(h \o kept, e, S) = h \o Plus(kept, e, S)
      BY <1>1, WithConcat
    <3> QED
      BY <2>2, <2>6, <3>1
  <2>8. Plus(k[m], r[m], S) = Plus(h \o l[m - 1], r[m], S)
    BY <2>3
  <2>9. k[m + 1] = Plus(k[m], r[m], S)
    BY <2>1, <2>2, <2>4
  <2> QED
    BY <2>5, <2>7, <2>8, <2>9
<1> HIDE DEF J
<1>7. T = {}
  <2> SUFFICES ASSUME T # {} PROVE FALSE
    OBVIOUS
  <2>1. T \in SUBSET Nat
    BY <1>0
  <2>2. PICK m \in T : \A n \in T : m <= n
    BY <2>1, Least
  <2>3. m # 0 /\ m \in 1 .. Len(r) /\ ~J(m)
    BY <1>0, <1>5, <2>2
  <2>4. m - 1 \in 0 .. Len(r) /\ m - 1 \notin T
    BY <1>0, <2>2, <2>3
  <2> QED
    BY <1>6, <2>3, <2>4
<1>8. Len(r) \in 0 .. Len(r) /\ Len(r) + 1 = Len(s)
  BY <1>0
<1>9. J(Len(r))
  BY <1>7, <1>8
<1>10. k[Len(s)] = h \o l[Len(r)]
  BY <1>8, <1>9 DEF J
<1> QED
  BY <1>2, <1>3, <1>10 DEF r, h, Chosen

\* Nothing is chosen where no element is in S.
LEMMA AmongNone ==
  ASSUME NEW D, NEW s \in Seq(D), NEW S, \A i \in 1 .. Len(s) : s[i] \notin S
  PROVE  Among(s, S) = <<>>
<1>0. Len(s) \in Nat
  BY LenProperties
<1>1. PICK k \in [0 .. Len(s) -> Seq(D)] : Chosen(k, s, S)
  BY AmongSteps
<1> DEFINE T == {i \in 0 .. Len(s) : k[i] # <<>>}
<1>2. T = {}
  <2> SUFFICES ASSUME T # {} PROVE FALSE
    OBVIOUS
  <2>1. T \in SUBSET Nat
    BY <1>0
  <2>2. PICK m \in T : \A n \in T : m <= n
    BY <2>1, Least
  <2>3. m # 0
    BY <1>1, <2>2 DEF Chosen
  <2>4. m \in 1 .. Len(s) /\ m - 1 \in 0 .. Len(s) /\ m - 1 \notin T
    BY <1>0, <2>2, <2>3
  <2>5. k[m - 1] = <<>> /\ k[m] = Plus(k[m - 1], s[m], S)
    BY <1>1, <2>4 DEF Chosen
  <2> QED
    BY <2>2, <2>4, <2>5 DEF Plus
<1> QED
  BY <1>0, <1>1, <1>2 DEF Chosen

-----------------------------------------------------------------------------
(* The WebSocket connector: types, and the order of the events.             *)

HubEvent == [kind : {"connect", "message", "disconnect"}, of : WsClients,
             what : Command \cup {None}]
Peer == [at : {"away", "open", "closing", "gone"}, query : Query \cup {None},
         asked : Seq(Command), got : Seq(Command \cup {Ready})]

ConnectorTyped ==
  /\ connector \in [at : {"bind", "built", "up", "failed"},
                    port : FirstPort .. (LastPort + 1), others : SUBSET Ports]
  /\ connector.at = "bind" => FirstPort .. (connector.port - 1) \subseteq connector.others
  /\ connector.at \in {"built", "up"} => connector.port \in Ports \ connector.others
  /\ connector.at = "failed" => Ports \subseteq connector.others
HubTyped == hub \in Seq(HubEvent)
CardsTyped == cards \subseteq (WsApps \cup {None}) \X (WsPids \cup {NoWsPid})
PeersTyped == peer \in [WsClients -> Peer]
ClientsTyped == clients \in [WsClients -> Entry \cup {None}]

\* What is known of a client is what it connected with.
Met(c) ==
  /\ peer[c].at # "away" => peer[c].query \in WsQueries[c]
  /\ peer[c].at = "away" => peer[c].asked = <<>> /\ peer[c].got = <<>>
  /\ clients[c] # None => /\ peer[c].at # "away" /\ peer[c].query.valid
                          /\ clients[c].app = peer[c].query.app
                          /\ clients[c].origin = peer[c].query.origin

\* Events come of clients that came, who say what they may; the connect of
\* each comes first and once.
FromOpen(i) ==
  /\ peer[hub[i].of].at # "away"
  /\ hub[i].kind = "message" => hub[i].what \in WsCommands[hub[i].of]
Introduces(i) ==
  hub[i].kind = "connect" =>
    /\ clients[hub[i].of] = None /\ peer[hub[i].of].got = <<>>
    /\ \A j \in 1 .. Len(hub) : hub[j].of = hub[i].of => i <= j

WsShape ==
  /\ ConnectorTyped /\ HubTyped /\ CardsTyped /\ PeersTyped /\ ClientsTyped
  /\ \A c \in WsClients : Met(c)
  /\ \A i \in 1 .. Len(hub) : FromOpen(i) /\ Introduces(i)

\* WsShape is stronger than the type invariant of the runs.
LEMMA ShapeTyped ==
  ASSUME WsAssumption, WsShape
  PROVE  WsTypeOK
<1>1. /\ connector.at \in {"bind", "built", "up", "failed"}
      /\ connector.port \in Ports \cup {LastPort + 1}
      /\ connector.at \in {"built", "up"} => connector.port \in Ports \ connector.others
      /\ connector.at = "failed" => Ports \subseteq connector.others
  BY DEF WsShape, ConnectorTyped, WsAssumption, Ports
<1>2. ASSUME NEW c \in WsClients
      PROVE  /\ peer[c].at \in {"away", "open", "closing", "gone"}
             /\ peer[c].query \in Query \cup {None}
             /\ clients[c] # None => /\ peer[c].query.valid
                                     /\ clients[c].last \in Command \cup {None}
  BY DEF WsShape, PeersTyped, Peer, ClientsTyped, Met, Entry
<1> QED
  BY <1>1, <1>2 DEF WsTypeOK, WsShape, CardsTyped

\* Appending to the hub's channel keeps its type and what is in it.
LEMMA HubGrows ==
  ASSUME HubTyped, NEW e \in HubEvent, hub' = Append(hub, e)
  PROVE  /\ HubTyped' /\ Len(hub) \in Nat /\ Len(hub') = Len(hub) + 1
         /\ \A i \in 1 .. Len(hub) : hub'[i] = hub[i] /\ hub[i] \in HubEvent
         /\ hub'[Len(hub) + 1] = e
BY AppendProperties, LenProperties, ElementOfSeq DEF HubTyped

\* Taking the first event of the channel moves the others up by one.
LEMMA HubShrinks ==
  ASSUME HubTyped, hub # <<>>, hub' = Tail(hub)
  PROVE  /\ HubTyped' /\ Len(hub) \in Nat /\ Len(hub') = Len(hub) - 1
         /\ \A i \in 1 .. Len(hub') : hub'[i] = hub[i + 1] /\ i + 1 \in 1 .. Len(hub)
         /\ Head(hub) = hub[1] /\ 1 \in 1 .. Len(hub) /\ Head(hub) \in HubEvent
<1>1. Len(hub) \in Nat /\ Len(hub) >= 1 /\ Head(hub) = hub[1] /\ Head(hub) \in HubEvent
      /\ Tail(hub) \in Seq(HubEvent) /\ Len(Tail(hub)) = Len(hub) - 1
      /\ \A i \in 1 .. Len(Tail(hub)) : Tail(hub)[i] = hub[i + 1]
  BY HeadTailProperties, LenProperties DEF HubTyped
<1> QED
  BY <1>1 DEF HubTyped

\* An event is queued.
LEMMA ShapeGrows ==
  ASSUME WsAssumption, WsShape, NEW c \in WsClients, NEW e \in HubEvent, e.of = c,
         hub' = Append(hub, e), UNCHANGED <<connector, clients, cards>>,
         PeersTyped', \A d \in WsClients \ {c} : peer'[d] = peer[d],
         peer'[c].at # "away", peer'[c].got = peer[c].got, Met(c)',
         e.kind = "message" => e.what \in WsCommands[c],
         e.kind = "connect" => peer[c].at = "away"
  PROVE  WsShape'
<1>1. /\ HubTyped' /\ Len(hub) \in Nat /\ Len(hub') = Len(hub) + 1
      /\ \A i \in 1 .. Len(hub) : hub'[i] = hub[i] /\ hub[i] \in HubEvent
      /\ hub'[Len(hub) + 1] = e
  BY HubGrows DEF WsShape
<1>2. ConnectorTyped' /\ CardsTyped' /\ ClientsTyped'
  BY DEF WsShape, ConnectorTyped, CardsTyped, ClientsTyped
<1>3. \A d \in WsClients : Met(d)'
  BY DEF WsShape, Met
<1>4. \A i \in 1 .. Len(hub) : FromOpen(i) /\ Introduces(i) /\ hub[i].of \in WsClients
  BY <1>1 DEF WsShape, HubEvent
<1>5. \A i \in 1 .. Len(hub') : i \in 1 .. Len(hub) \/ i = Len(hub) + 1
  BY <1>1
<1>6. ASSUME NEW i \in 1 .. Len(hub') PROVE FromOpen(i)'
  <2>1. CASE i \in 1 .. Len(hub)
    <3>1. hub'[i] = hub[i] /\ FromOpen(i) /\ hub[i].of \in WsClients
      BY <1>1, <1>4, <2>1
    <3> QED
      BY <3>1 DEF FromOpen
  <2>2. CASE i = Len(hub) + 1
    BY <1>1, <2>2 DEF FromOpen
  <2> QED
    BY <1>5, <2>1, <2>2
<1>7. ASSUME NEW i \in 1 .. Len(hub'), hub'[i].kind = "connect"
      PROVE  /\ clients'[hub'[i].of] = None /\ peer'[hub'[i].of].got = <<>>
             /\ \A j \in 1 .. Len(hub') : hub'[j].of = hub'[i].of => i <= j
  <2>1. CASE i \in 1 .. Len(hub)
    <3>1. hub'[i] = hub[i] /\ Introduces(i) /\ hub[i].of \in WsClients
      BY <1>1, <1>4, <2>1
    <3>2. clients[hub[i].of] = None /\ peer'[hub[i].of].got = <<>>
      BY <1>7, <3>1 DEF Introduces
    <3>3. ASSUME NEW j \in 1 .. Len(hub'), hub'[j].of = hub'[i].of PROVE i <= j
      BY <1>1, <1>5, <1>7, <2>1, <3>1, <3>3 DEF Introduces
    <3> QED
      BY <3>1, <3>2, <3>3
  <2>2. CASE i = Len(hub) + 1
    <3>1. hub'[i] = e /\ peer[c].at = "away"
      BY <1>1, <1>7, <2>2
    <3>2. clients[c] = None /\ peer[c].got = <<>>
      BY <3>1 DEF WsShape, Met
    <3>3. \A j \in 1 .. Len(hub) : hub'[j].of # c
      BY <1>1, <1>4, <3>1 DEF FromOpen
    <3>4. \A j \in 1 .. Len(hub') : hub'[j].of = c => i <= j
      BY <1>5, <2>2, <3>3, <1>1
    <3> QED
      BY <3>1, <3>2, <3>4
  <2> QED
    BY <1>5, <2>1, <2>2
<1>8. \A i \in 1 .. Len(hub') : Introduces(i)'
  BY <1>7 DEF Introduces
<1> QED
  BY <1>1, <1>2, <1>3, <1>6, <1>8 DEF WsShape

\* The event at the head is handled.
LEMMA ShapeShrinks ==
  ASSUME WsAssumption, WsShape, hub # <<>>, hub' = Tail(hub), connector' = connector,
         NEW c \in WsClients, c = Head(hub).of, PeersTyped', ClientsTyped', CardsTyped',
         \A d \in WsClients \ {c} : peer'[d] = peer[d] /\ clients'[d] = clients[d],
         peer'[c].at # "away", Met(c)'
  PROVE  WsShape'
<1>1. /\ HubTyped' /\ Len(hub) \in Nat /\ Len(hub') = Len(hub) - 1
      /\ \A i \in 1 .. Len(hub') : hub'[i] = hub[i + 1] /\ i + 1 \in 1 .. Len(hub)
      /\ Head(hub) = hub[1] /\ 1 \in 1 .. Len(hub)
  BY HubShrinks DEF WsShape
<1>2. ConnectorTyped'
  BY DEF WsShape, ConnectorTyped
<1>3. \A d \in WsClients : Met(d)'
  BY DEF WsShape, Met
<1>4. \A i \in 1 .. Len(hub) : FromOpen(i) /\ Introduces(i) /\ hub[i] \in HubEvent
  BY <1>1, ElementOfSeq DEF WsShape, HubTyped
<1>5. \A i \in 1 .. Len(hub) : hub[i].of \in WsClients
  BY <1>4 DEF HubEvent
<1>6. ASSUME NEW i \in 1 .. Len(hub') PROVE FromOpen(i)'
  <2>1. hub'[i] = hub[i + 1] /\ FromOpen(i + 1) /\ hub[i + 1].of \in WsClients
    BY <1>1, <1>4, <1>5
  <2> QED
    BY <2>1 DEF FromOpen
<1>7. ASSUME NEW i \in 1 .. Len(hub'), hub'[i].kind = "connect"
      PROVE  /\ clients'[hub'[i].of] = None /\ peer'[hub'[i].of].got = <<>>
             /\ \A j \in 1 .. Len(hub') : hub'[j].of = hub'[i].of => i <= j
  <2>1. hub'[i] = hub[i + 1] /\ Introduces(i + 1) /\ hub[i + 1].of \in WsClients
        /\ i \in Nat /\ i >= 1
    BY <1>1, <1>4, <1>5
  <2>2. hub[i + 1].of # c
    BY <1>1, <1>7, <2>1 DEF Introduces
  <2>3. \A j \in 1 .. Len(hub) : hub[j].of = hub[i + 1].of => i + 1 <= j
    BY <1>7, <2>1 DEF Introduces
  <2>4. ASSUME NEW j \in 1 .. Len(hub'), hub'[j].of = hub'[i].of PROVE i <= j
    <3>1. j + 1 \in 1 .. Len(hub) /\ hub[j + 1].of = hub[i + 1].of
      BY <1>1, <2>1, <2>4
    <3>2. i + 1 <= j + 1
      BY <2>3, <3>1
    <3> QED
      BY <1>1, <2>1, <3>2
  <2> QED
    BY <1>7, <2>1, <2>2, <2>4 DEF Introduces
<1>8. \A i \in 1 .. Len(hub') : Introduces(i)'
  BY <1>7 DEF Introduces
<1> QED
  BY <1>1, <1>2, <1>3, <1>6, <1>8 DEF WsShape

\* WsShape holds at first.
LEMMA ShapeInit ==
  ASSUME WsAssumption, WsInit
  PROVE  WsShape
<1>1. ConnectorTyped
  <2>1. connector \in [at : {"bind"}, port : {FirstPort}, others : HeldPorts]
    BY DEF WsInit
  <2>2. connector.at = "bind" /\ connector.port = FirstPort /\ connector.others \in SUBSET Ports
    BY <2>1 DEF WsAssumption
  <2>3. FirstPort \in FirstPort .. (LastPort + 1) /\ FirstPort .. (FirstPort - 1) = {}
    BY DEF WsAssumption
  <2>4. connector \in [at : {"bind", "built", "up", "failed"},
                       port : FirstPort .. (LastPort + 1), others : SUBSET Ports]
    BY <2>1, <2>2, <2>3
  <2> QED
    BY <2>2, <2>3, <2>4 DEF ConnectorTyped
<1>2. HubTyped /\ Len(hub) = 0
  BY EmptySeq DEF WsInit, HubTyped
<1>3. Nowhere \in Peer
  BY EmptySeq DEF Nowhere, Peer
<1>4. PeersTyped /\ ClientsTyped /\ CardsTyped
  BY <1>3 DEF WsInit, PeersTyped, ClientsTyped, CardsTyped
<1>5. \A c \in WsClients : Met(c)
  BY DEF WsInit, Met, Nowhere
<1> QED
  BY <1>1, <1>2, <1>4, <1>5 DEF WsShape

\* A command completed from its client's query differs in the application
\* and pid.
LEMMA CompletedType ==
  ASSUME WsAssumption, WsShape, NEW c \in WsClients, clients[c] # None, NEW k \in Command
  PROVE  /\ Completed(c, k) \in Command
         /\ Completed(c, k).kind = k.kind /\ Completed(c, k).args = k.args
         /\ Completed(c, k).pid = k.pid /\ Completed(c, k).activity = k.activity
         /\ Completed(c, k).app = IF k.app = None THEN clients[c].app ELSE k.app
<1>1. clients[c].app \in WsApps \cup {None}
  BY DEF WsShape, ClientsTyped, Entry
<1> QED
  BY <1>1 DEF Completed, Command

\* The card of a command is a slot: an application and a pid, or none.
LEMMA CardType ==
  ASSUME NEW k \in Command
  PROVE  Card(k) \in (WsApps \cup {None}) \X (WsPids \cup {NoWsPid})
BY DEF Card, Command

\* Binding leaves the clients alone.
LEMMA StepBinding ==
  ASSUME WsAssumption, WsShape, TryPort \/ StartPolling
  PROVE  WsShape' /\ UNCHANGED <<peer, hub, clients, cards>>
<1>1. UNCHANGED <<peer, hub, clients, cards>>
  BY DEF TryPort, StartPolling
<1>2. ConnectorTyped
  BY DEF WsShape
<1> DEFINE Ats == {"bind", "built", "up", "failed"}
           C == [at : Ats, port : FirstPort .. (LastPort + 1), others : SUBSET Ports]
<1>3. connector \in C /\ connector.port \in Int
  BY <1>2 DEF ConnectorTyped, WsAssumption
<1>4. ConnectorTyped'
  <2>1. CASE StartPolling
    <3>1. connector.at = "built" /\ connector' = [connector EXCEPT !.at = "up"]
      BY <2>1 DEF StartPolling
    <3>2. /\ connector' \in C /\ connector'.at = "up" /\ connector'.port = connector.port
          /\ connector'.others = connector.others
      BY <1>3, <3>1
    <3> QED
      BY <1>2, <3>1, <3>2 DEF ConnectorTyped
  <2>2. CASE TryPort /\ connector.port > LastPort
    <3>1. connector.at = "bind" /\ connector' = [connector EXCEPT !.at = "failed"]
      BY <2>2 DEF TryPort
    <3>2. /\ connector' \in C /\ connector'.at = "failed" /\ connector'.port = connector.port
          /\ connector'.others = connector.others
      BY <1>3, <3>1
    <3>3. FirstPort .. LastPort \subseteq FirstPort .. (connector.port - 1)
      BY <1>3, <2>2 DEF WsAssumption
    <3>4. Ports \subseteq connector.others
      BY <1>2, <3>1, <3>3 DEF ConnectorTyped, Ports
    <3> QED
      BY <3>2, <3>4 DEF ConnectorTyped
  <2>3. CASE TryPort /\ ~(connector.port > LastPort) /\ connector.port \in connector.others
    <3>1. connector.at = "bind" /\ connector' = [connector EXCEPT !.port = @ + 1]
      BY <2>3 DEF TryPort
    <3>2. connector.port + 1 \in FirstPort .. (LastPort + 1)
      BY <1>3, <2>3 DEF WsAssumption
    <3>3. /\ connector' \in C /\ connector'.at = "bind"
          /\ connector'.port = connector.port + 1
          /\ connector'.others = connector.others
      BY <1>3, <3>1, <3>2
    <3>4. \A p \in FirstPort .. (connector.port + 1 - 1) :
            p \in FirstPort .. (connector.port - 1) \/ p = connector.port
      BY <1>3 DEF WsAssumption
    <3>5. FirstPort .. (connector'.port - 1) \subseteq connector'.others
      BY <1>2, <2>3, <3>1, <3>3, <3>4 DEF ConnectorTyped
    <3> QED
      BY <3>3, <3>5 DEF ConnectorTyped
  <2>4. CASE TryPort /\ ~(connector.port > LastPort) /\ connector.port \notin connector.others
    <3>1. connector.at = "bind" /\ connector' = [connector EXCEPT !.at = "built"]
      BY <2>4 DEF TryPort
    <3>2. /\ connector' \in C /\ connector'.at = "built" /\ connector'.port = connector.port
          /\ connector'.others = connector.others
      BY <1>3, <3>1
    <3>3. connector.port \in Ports
      BY <1>3, <2>4 DEF WsAssumption, Ports
    <3> QED
      BY <2>4, <3>2, <3>3 DEF ConnectorTyped
  <2> QED
    BY <2>1, <2>2, <2>3, <2>4
<1> QED
  BY <1>1, <1>4
     DEF WsShape, HubTyped, CardsTyped, PeersTyped, ClientsTyped, Met, FromOpen, Introduces

\* A client that connects queues its connect event.
LEMMA StepOpen ==
  ASSUME WsAssumption, WsShape, NEW c \in WsClients, NEW q \in WsQueries[c], OpenWs(c, q)
  PROVE  WsShape'
<1> DEFINE e == [kind |-> "connect", of |-> c, what |-> None]
<1>1. /\ hub' = Append(hub, e) /\ UNCHANGED <<connector, clients, cards>>
      /\ peer[c].at = "away"
      /\ peer' = [peer EXCEPT ![c] = [peer[c] EXCEPT !.at = "open", !.query = q]]
  BY DEF OpenWs, Queued
<1>2. e \in HubEvent
  BY DEF HubEvent
<1>3. q \in Query /\ peer[c] \in Peer
  BY DEF WsAssumption, WsShape, PeersTyped
<1>4. [peer[c] EXCEPT !.at = "open", !.query = q] \in Peer
  BY <1>3 DEF Peer
<1>5. PeersTyped' /\ \A d \in WsClients \ {c} : peer'[d] = peer[d]
  BY <1>1, <1>4 DEF WsShape, PeersTyped
<1>6. /\ peer'[c].at = "open" /\ peer'[c].query = q /\ peer'[c].got = peer[c].got
      /\ peer'[c].asked = peer[c].asked
  BY <1>1, <1>3 DEF WsShape, PeersTyped, Peer
<1>7. Met(c)'
  BY <1>1, <1>6 DEF WsShape, Met
<1> QED
  BY <1>1, <1>2, <1>5, <1>6, <1>7, ShapeGrows

\* A client that sends a command queues it, and has asked one more.
LEMMA StepSay ==
  ASSUME WsAssumption, WsShape, NEW c \in WsClients, NEW k \in WsCommands[c], Say(c, k)
  PROVE  WsShape' /\ k \in Command /\ peer'[c] = [peer[c] EXCEPT !.asked = Append(@, k)]
         /\ \A d \in WsClients \ {c} : peer'[d] = peer[d]
<1> DEFINE e == [kind |-> "message", of |-> c, what |-> k]
<1>0. k \in Command
  BY DEF WsAssumption
<1>1. /\ hub' = Append(hub, e) /\ UNCHANGED <<connector, clients, cards>>
      /\ peer[c].at = "open"
      /\ peer' = [peer EXCEPT ![c] = [peer[c] EXCEPT !.asked = Append(@, k)]]
  BY DEF Say, Queued
<1>2. e \in HubEvent
  BY <1>0 DEF HubEvent
<1>3. peer[c] \in Peer
  BY DEF WsShape, PeersTyped
<1>4. [peer[c] EXCEPT !.asked = Append(@, k)] \in Peer
  BY <1>0, <1>3, AppendProperties DEF Peer
<1>5. /\ PeersTyped' /\ \A d \in WsClients \ {c} : peer'[d] = peer[d]
      /\ peer'[c] = [peer[c] EXCEPT !.asked = Append(@, k)]
  BY <1>1, <1>4 DEF WsShape, PeersTyped
<1>6. /\ peer'[c].at = "open" /\ peer'[c].query = peer[c].query /\ peer'[c].got = peer[c].got
  BY <1>1, <1>3, <1>5 DEF Peer
<1>7. Met(c)'
  BY <1>1, <1>6 DEF WsShape, Met
<1> QED
  BY <1>0, <1>1, <1>2, <1>5, <1>6, <1>7, ShapeGrows

\* A client that hangs up queues its disconnect event, behind all it has
\* said.
LEMMA StepHangup ==
  ASSUME WsAssumption, WsShape, NEW c \in WsClients, Hangup(c)
  PROVE  WsShape' /\ peer'[c] = [peer[c] EXCEPT !.at = "gone"]
         /\ \A d \in WsClients \ {c} : peer'[d] = peer[d]
<1> DEFINE e == [kind |-> "disconnect", of |-> c, what |-> None]
<1>1. /\ hub' = Append(hub, e) /\ UNCHANGED <<connector, clients, cards>>
      /\ peer[c].at # "away"
      /\ peer' = [peer EXCEPT ![c] = [peer[c] EXCEPT !.at = "gone"]]
  BY DEF Hangup, Queued
<1>2. e \in HubEvent
  BY DEF HubEvent
<1>3. peer[c] \in Peer /\ [peer[c] EXCEPT !.at = "gone"] \in Peer
  BY DEF WsShape, PeersTyped, Peer
<1>5. /\ PeersTyped' /\ \A d \in WsClients \ {c} : peer'[d] = peer[d]
      /\ peer'[c] = [peer[c] EXCEPT !.at = "gone"]
  BY <1>1, <1>3 DEF WsShape, PeersTyped
<1>6. /\ peer'[c].at = "gone" /\ peer'[c].query = peer[c].query /\ peer'[c].got = peer[c].got
      /\ peer'[c].asked = peer[c].asked
  BY <1>1, <1>3, <1>5 DEF Peer
<1>7. Met(c)'
  BY <1>1, <1>6 DEF WsShape, Met
<1> QED
  BY <1>1, <1>2, <1>5, <1>6, <1>7, ShapeGrows

\* The event at the head: of a client that came.
LEMMA AtHead ==
  ASSUME WsAssumption, WsShape, NEW kind, Polled(kind)
  PROVE  /\ hub # <<>> /\ hub' = Tail(hub) /\ connector' = connector
         /\ Head(hub) \in HubEvent /\ Head(hub).kind = kind
         /\ Head(hub).of \in WsClients /\ peer[Head(hub).of].at # "away"
         /\ peer[Head(hub).of] \in Peer /\ peer[Head(hub).of].query \in Query
         /\ kind = "message" => Head(hub).what \in Command
                                /\ Head(hub).what \in WsCommands[Head(hub).of]
         /\ kind = "connect" => clients[Head(hub).of] = None /\ peer[Head(hub).of].got = <<>>
<1>1. hub # <<>> /\ hub' = Tail(hub) /\ connector' = connector /\ Head(hub).kind = kind
  BY DEF Polled
<1>2. Head(hub) = hub[1] /\ 1 \in 1 .. Len(hub) /\ Head(hub) \in HubEvent
  BY <1>1, HubShrinks DEF WsShape
<1>3. Head(hub).of \in WsClients /\ FromOpen(1) /\ Introduces(1)
  BY <1>2 DEF WsShape, HubEvent
<1>4. peer[Head(hub).of] \in Peer /\ Met(Head(hub).of)
  BY <1>3 DEF WsShape, PeersTyped
<1>5. /\ peer[Head(hub).of].at # "away"
      /\ kind = "message" => Head(hub).what \in WsCommands[Head(hub).of]
  BY <1>1, <1>2, <1>3 DEF FromOpen
<1>6. peer[Head(hub).of].query \in Query
  BY <1>3, <1>4, <1>5 DEF Met, WsAssumption
<1>7. kind = "connect" => clients[Head(hub).of] = None /\ peer[Head(hub).of].got = <<>>
  BY <1>1, <1>2, <1>3 DEF Introduces
<1>8. kind = "message" => Head(hub).what \in Command
  BY <1>3, <1>5 DEF WsAssumption
<1> QED
  BY <1>1, <1>2, <1>3, <1>4, <1>5, <1>6, <1>7, <1>8

\* A step of the polling thread for client c, with the order of the events kept.
Handles(c) ==
  /\ c \in WsClients /\ c = Head(hub).of
  /\ hub # <<>> /\ hub' = Tail(hub) /\ connector' = connector
  /\ \A d \in WsClients \ {c} : peer'[d] = peer[d] /\ clients'[d] = clients[d]
  /\ peer'[c].query = peer[c].query /\ peer'[c].asked = peer[c].asked

\* What the handling of a connect, a disconnect and a message comes to.
Connects(c) ==
  /\ Handles(c) /\ Head(hub).kind = "connect" /\ cards' = cards
  /\ clients[c] = None /\ peer[c].got = <<>>
  /\ \/ /\ clients'[c] # None /\ clients'[c].last = None
        /\ peer'[c].got = Append(peer[c].got, Ready)
     \/ clients'[c] = None /\ peer'[c].got = peer[c].got
Disconnects(c) ==
  /\ Handles(c) /\ Head(hub).kind = "disconnect"
  /\ peer' = peer /\ clients'[c] = None
  /\ cards' = IF clients[c] # None /\ clients[c].last # None
                THEN Cleared(clients[c]) ELSE cards
AnsweredBy(c, k) ==
  /\ Handles(c) /\ Head(hub).kind = "message" /\ Head(hub).what = k /\ k \in WsCommands[c]
  /\ clients'[c] # None <=> clients[c] # None
  /\ peer'[c].got = IF clients[c] # None /\ Answerable(c, k)
                      THEN Append(peer[c].got, k) ELSE peer[c].got
  /\ IF clients[c] # None /\ k.kind = "set" /\ clients[c].origin # "other" /\ SetActivityOn
       THEN /\ clients'[c].last = Completed(c, k)
            /\ cards' = Applied(Completed(c, k))
       ELSE clients' = clients /\ cards' = cards

\* An answer goes to one client, and changes only what that one got.
LEMMA GotGrows ==
  ASSUME WsAssumption, WsShape, NEW c \in WsClients, NEW a \in Command \cup {Ready},
         peer' = [peer EXCEPT ![c].got = Append(@, a)]
  PROVE  /\ PeersTyped' /\ \A d \in WsClients \ {c} : peer'[d] = peer[d]
         /\ peer'[c].got = Append(peer[c].got, a)
         /\ peer'[c].at = peer[c].at /\ peer'[c].query = peer[c].query
         /\ peer'[c].asked = peer[c].asked
<1>1. peer[c] \in Peer /\ peer' = [peer EXCEPT ![c] = [peer[c] EXCEPT !.got = Append(@, a)]]
  BY DEF WsShape, PeersTyped
<1>2. [peer[c] EXCEPT !.got = Append(@, a)] \in Peer
  BY <1>1, AppendProperties DEF Peer
<1>3. /\ PeersTyped' /\ \A d \in WsClients \ {c} : peer'[d] = peer[d]
      /\ peer'[c] = [peer[c] EXCEPT !.got = Append(@, a)]
  BY <1>1, <1>2 DEF WsShape, PeersTyped
<1> QED
  BY <1>1, <1>3 DEF Peer

\* poll_loop takes a connect event: the client gets READY, or is left out.
LEMMA StepPollConnect ==
  ASSUME WsAssumption, WsShape, PollConnect, NEW c, c = Head(hub).of
  PROVE  WsShape' /\ Connects(c)
<1> DEFINE q == peer[c].query
           new == [last |-> None, app |-> q.app, origin |-> q.origin]
<1>1. /\ hub # <<>> /\ hub' = Tail(hub) /\ connector' = connector
      /\ c \in WsClients /\ peer[c].at # "away" /\ Head(hub).kind = "connect"
      /\ peer[c] \in Peer /\ q \in Query
      /\ clients[c] = None /\ peer[c].got = <<>>
  <2>1. Polled("connect")
    BY DEF PollConnect
  <2> QED
    BY <2>1, AtHead
<1>2. cards' = cards /\ CardsTyped'
  BY DEF PollConnect, WsShape, CardsTyped
<1>3. CASE Welcome(q)
  <2>1. clients' = [clients EXCEPT ![c] = new] /\ peer' = [peer EXCEPT ![c].got = Append(@, Ready)]
    BY <1>3 DEF PollConnect, Replied
  <2>2. /\ PeersTyped' /\ \A d \in WsClients \ {c} : peer'[d] = peer[d]
        /\ peer'[c].got = Append(peer[c].got, Ready)
        /\ peer'[c].at = peer[c].at /\ peer'[c].query = q
        /\ peer'[c].asked = peer[c].asked
    <3>1. Ready \in Command \cup {Ready}
      OBVIOUS
    <3> QED
      BY <1>1, <2>1, <3>1, GotGrows
  <2>3. new \in Entry /\ new # None
    <3>1. new \in Entry
      BY <1>1 DEF Entry, Query
    <3> QED
      BY <3>1 DEF WsAssumption
  <2>4. /\ ClientsTyped' /\ \A d \in WsClients \ {c} : clients'[d] = clients[d]
        /\ clients'[c] = new
    BY <1>1, <2>1, <2>3 DEF WsShape, ClientsTyped
  <2>5. Met(c)'
    <3>1. /\ clients'[c].app = q.app /\ clients'[c].origin = q.origin /\ q.valid
          /\ q \in WsQueries[c]
      BY <1>1, <1>3, <2>4 DEF Welcome, WsShape, Met
    <3> QED
      BY <1>1, <2>2, <3>1 DEF Met
  <2>6. clients'[c] # None /\ clients'[c].last = None
    BY <2>3, <2>4
  <2>7. WsShape'
    BY <1>1, <1>2, <2>2, <2>4, <2>5, ShapeShrinks
  <2>8. Connects(c)
    BY <1>1, <1>2, <2>2, <2>4, <2>6 DEF Connects, Handles
  <2> QED
    BY <1>1, <2>7, <2>8
<1>4. CASE ~Welcome(q)
  <2> DEFINE p == [peer[c] EXCEPT !.at = IF @ = "open" THEN "closing" ELSE @]
  <2>1. clients' = clients /\ peer' = [peer EXCEPT ![c] = p]
    BY <1>4 DEF PollConnect
  <2>2. p \in Peer /\ p.at # "away" /\ p.got = peer[c].got /\ p.asked = peer[c].asked /\ p.query = q
    BY <1>1 DEF Peer
  <2>3. PeersTyped' /\ \A d \in WsClients \ {c} : peer'[d] = peer[d] /\ clients'[d] = clients[d]
    BY <2>1, <2>2 DEF WsShape, PeersTyped
  <2>4. peer'[c] = p /\ clients'[c] = None /\ ClientsTyped'
    BY <1>1, <2>1 DEF WsShape, PeersTyped, ClientsTyped
  <2>5. Met(c)'
    BY <1>1, <2>2, <2>4 DEF Met, WsShape
  <2>6. WsShape'
    BY <1>1, <1>2, <2>2, <2>3, <2>4, <2>5, ShapeShrinks
  <2>7. Connects(c)
    BY <1>1, <1>2, <2>2, <2>3, <2>4 DEF Connects, Handles
  <2> QED
    BY <1>1, <2>6, <2>7
<1> QED
  BY <1>3, <1>4

\* poll_loop takes a disconnect event: the client leaves the table, and the
\* card it set last is cleared.
LEMMA StepPollDisconnect ==
  ASSUME WsAssumption, WsShape, PollDisconnect, NEW c, c = Head(hub).of
  PROVE  WsShape' /\ Disconnects(c)
<1>1. /\ hub # <<>> /\ hub' = Tail(hub) /\ connector' = connector
      /\ c \in WsClients /\ peer[c].at # "away" /\ Head(hub).kind = "disconnect"
  <2>1. Polled("disconnect")
    BY DEF PollDisconnect
  <2> QED
    BY <2>1, AtHead
<1>2. /\ peer' = peer /\ clients' = [clients EXCEPT ![c] = None]
      /\ cards' = IF clients[c] # None /\ clients[c].last # None
                    THEN Cleared(clients[c]) ELSE cards
  BY DEF PollDisconnect
<1>3. PeersTyped' /\ ClientsTyped' /\ clients'[c] = None
      /\ \A d \in WsClients \ {c} : peer'[d] = peer[d] /\ clients'[d] = clients[d]
  BY <1>1, <1>2 DEF WsShape, PeersTyped, ClientsTyped
<1>4. CardsTyped'
  BY <1>2 DEF WsShape, CardsTyped, Cleared
<1>5. Met(c)'
  BY <1>1, <1>2, <1>3 DEF WsShape, Met
<1>6. WsShape'
  BY <1>1, <1>2, <1>3, <1>4, <1>5, ShapeShrinks
<1>7. Disconnects(c)
  BY <1>1, <1>2, <1>3 DEF Disconnects, Handles
<1> QED
  BY <1>1, <1>6, <1>7

\* The cards after a command are slots.
LEMMA AppliedType ==
  ASSUME WsShape, NEW k \in Command
  PROVE  Applied(k) \subseteq (WsApps \cup {None}) \X (WsPids \cup {NoWsPid})
BY CardType DEF WsShape, CardsTyped, Applied

\* poll_loop takes a command, applies it and answers.
LEMMA StepPollMessage ==
  ASSUME WsAssumption, WsShape, PollMessage, NEW c, c = Head(hub).of,
         NEW k, k = Head(hub).what
  PROVE  WsShape' /\ k \in Command /\ AnsweredBy(c, k)
<1> DEFINE s == Completed(c, k)
<1>1. /\ hub # <<>> /\ hub' = Tail(hub) /\ connector' = connector
      /\ c \in WsClients /\ peer[c].at # "away" /\ Head(hub).kind = "message"
      /\ peer[c] \in Peer /\ k \in Command /\ k \in WsCommands[c]
  <2>1. Polled("message")
    BY DEF PollMessage
  <2> QED
    BY <2>1, AtHead
<1>2. clients[c] # None => /\ peer[c].query.valid
                           /\ clients[c].origin = peer[c].query.origin
                           /\ clients[c] \in Entry
  BY <1>1 DEF WsShape, Met, ClientsTyped
<1>3. Answerable(c, k) <=> /\ peer[c].query.valid /\ peer[c].query.origin # "other"
                           /\ \/ k.kind = "ask"
                              \/ k.kind = "browse" /\ SecondaryOn
                              \/ k.kind = "set" /\ SetActivityOn /\ k.args
  BY DEF Answerable
<1>4. Met(c)
  BY <1>1 DEF WsShape
<1> DEFINE ans == clients[c] # None /\ Answerable(c, k)
<1>5. ASSUME ~ans, peer' = peer
      PROVE  /\ PeersTyped' /\ \A d \in WsClients \ {c} : peer'[d] = peer[d]
             /\ peer'[c].got = IF ans THEN Append(peer[c].got, k) ELSE peer[c].got
             /\ peer'[c].at = peer[c].at /\ peer'[c].query = peer[c].query
             /\ peer'[c].asked = peer[c].asked
  BY <1>5 DEF WsShape, PeersTyped
<1>6. ASSUME ans, Replied(c, k)
      PROVE  /\ PeersTyped' /\ \A d \in WsClients \ {c} : peer'[d] = peer[d]
             /\ peer'[c].got = IF ans THEN Append(peer[c].got, k) ELSE peer[c].got
             /\ peer'[c].at = peer[c].at /\ peer'[c].query = peer[c].query
             /\ peer'[c].asked = peer[c].asked
  <2>1. peer' = [peer EXCEPT ![c].got = Append(@, k)] /\ k \in Command \cup {Ready}
    BY <1>1, <1>6 DEF Replied
  <2>2. /\ PeersTyped' /\ \A d \in WsClients \ {c} : peer'[d] = peer[d]
        /\ peer'[c].got = Append(peer[c].got, k)
        /\ peer'[c].at = peer[c].at /\ peer'[c].query = peer[c].query
        /\ peer'[c].asked = peer[c].asked
    BY <1>1, <2>1, GotGrows
  <2> QED
    BY <1>6, <2>2
<1> DEFINE told == /\ PeersTyped' /\ \A d \in WsClients \ {c} : peer'[d] = peer[d]
                   /\ peer'[c].got = IF ans THEN Append(peer[c].got, k) ELSE peer[c].got
                   /\ peer'[c].at = peer[c].at /\ peer'[c].query = peer[c].query
                   /\ peer'[c].asked = peer[c].asked
           shows == clients[c] # None /\ k.kind = "set" /\ clients[c].origin # "other" /\ SetActivityOn
<1>7. CASE ~Accepted(c, k)
  <2>1. UNCHANGED <<peer, clients, cards>> /\ ~ans /\ ~shows
    BY <1>2, <1>3, <1>7 DEF PollMessage, Accepted
  <2>2. told
    BY <1>5, <2>1
  <2>3. ClientsTyped' /\ CardsTyped' /\ Met(c)'
    BY <1>1, <1>4, <2>1, <2>2 DEF WsShape, ClientsTyped, CardsTyped, Met
  <2>4. WsShape'
    BY <1>1, <2>1, <2>2, <2>3, ShapeShrinks
  <2>5. AnsweredBy(c, k)
    BY <1>1, <2>1, <2>2 DEF AnsweredBy, Handles
  <2> QED
    BY <1>1, <2>4, <2>5
<1>8. CASE Accepted(c, k) /\ k.kind = "set" /\ SetActivityOn
  <2>1. /\ clients' = [clients EXCEPT ![c] = [clients[c] EXCEPT !.last = s]]
        /\ cards' = Applied(s)
        /\ IF k.args THEN Replied(c, k) ELSE peer' = peer
        /\ shows /\ (ans <=> k.args)
    BY <1>2, <1>3, <1>8 DEF PollMessage, Accepted
  <2>2. told
    BY <1>5, <1>6, <2>1
  <2>3. s \in Command /\ clients[c] # None
    BY <1>1, <2>1, CompletedType
  <2>4. [clients[c] EXCEPT !.last = s] \in Entry /\ [clients[c] EXCEPT !.last = s] # None
    <3>1. [clients[c] EXCEPT !.last = s] \in Entry
      BY <1>2, <2>3 DEF Entry
    <3> QED
      BY <3>1 DEF WsAssumption
  <2>5. /\ ClientsTyped' /\ clients'[c] = [clients[c] EXCEPT !.last = s]
        /\ \A d \in WsClients \ {c} : clients'[d] = clients[d]
    BY <1>1, <2>1, <2>4 DEF WsShape, ClientsTyped
  <2>6. clients'[c].last = s /\ clients'[c].app = clients[c].app
        /\ clients'[c].origin = clients[c].origin /\ clients'[c] # None
    BY <1>2, <2>3, <2>4, <2>5 DEF Entry
  <2>7. CardsTyped'
    BY <2>1, <2>3, AppliedType DEF CardsTyped
  <2>8. Met(c)'
    BY <1>1, <1>4, <2>2, <2>3, <2>6 DEF Met
  <2>9. WsShape'
    BY <1>1, <2>2, <2>5, <2>7, <2>8, ShapeShrinks
  <2>10. AnsweredBy(c, k)
    BY <1>1, <2>1, <2>2, <2>3, <2>5, <2>6 DEF AnsweredBy, Handles
  <2> QED
    BY <1>1, <2>9, <2>10
<1>9. CASE Accepted(c, k) /\ ~(k.kind = "set" /\ SetActivityOn)
  <2>1. /\ UNCHANGED <<clients, cards>>
        /\ IF k.kind = "ask" \/ (k.kind = "browse" /\ SecondaryOn)
             THEN Replied(c, k) ELSE peer' = peer
        /\ ~shows /\ (ans <=> k.kind = "ask" \/ (k.kind = "browse" /\ SecondaryOn))
    BY <1>2, <1>3, <1>9 DEF PollMessage, Accepted
  <2>2. told
    BY <1>5, <1>6, <2>1
  <2>3. ClientsTyped' /\ CardsTyped' /\ Met(c)'
    BY <1>1, <1>4, <2>1, <2>2 DEF WsShape, ClientsTyped, CardsTyped, Met
  <2>4. WsShape'
    BY <1>1, <2>1, <2>2, <2>3, ShapeShrinks
  <2>5. AnsweredBy(c, k)
    BY <1>1, <2>1, <2>2 DEF AnsweredBy, Handles
  <2> QED
    BY <1>1, <2>4, <2>5
<1> QED
  BY <1>7, <1>8, <1>9

\* An event is queued by c.
Queues(c, e) ==
  /\ c \in WsClients /\ e \in HubEvent /\ e.of = c
  /\ hub' = Append(hub, e) /\ clients' = clients /\ cards' = cards
  /\ \A d \in WsClients \ {c} : peer'[d] = peer[d]
  /\ peer'[c].got = peer[c].got
  /\ IF e.kind = "connect"
       THEN peer[c].at = "away" /\ peer'[c].asked = peer[c].asked
       ELSE peer'[c].query = peer[c].query
  /\ e.kind = "message" => e.what \in Command /\ peer'[c].asked = Append(peer[c].asked, e.what)
  /\ e.kind = "disconnect" => peer'[c].asked = peer[c].asked

\* Every step queues an event or handles the first one; WsShape is
\* inductive.
LEMMA WsMoves ==
  ASSUME WsAssumption, WsShape, [WsNext]_wsVars
  PROVE  /\ WsShape'
         /\ \/ UNCHANGED <<peer, hub, clients, cards>>
            \/ \E c \in WsClients : \E e \in HubEvent : Queues(c, e)
            \/ \E c \in WsClients : Connects(c) \/ Disconnects(c)
            \/ \E c \in WsClients : \E k \in Command : AnsweredBy(c, k)
<1>1. CASE UNCHANGED wsVars
  BY <1>1 DEF wsVars, WsShape, ConnectorTyped, HubTyped, CardsTyped, PeersTyped, ClientsTyped,
              Met, FromOpen, Introduces
<1>2. CASE TryPort \/ StartPolling
  BY <1>2, StepBinding
<1>3. ASSUME NEW c \in WsClients, NEW q \in WsQueries[c], OpenWs(c, q)
      PROVE  WsShape' /\ \E e \in HubEvent : Queues(c, e)
  <2> DEFINE e == [kind |-> "connect", of |-> c, what |-> None]
             p == [peer[c] EXCEPT !.at = "open", !.query = q]
  <2>1. /\ hub' = Append(hub, e) /\ clients' = clients /\ cards' = cards
        /\ peer[c].at = "away" /\ peer' = [peer EXCEPT ![c] = p]
    BY <1>3 DEF OpenWs, Queued
  <2>2. e \in HubEvent /\ e.of = c /\ e.kind = "connect"
    BY DEF HubEvent
  <2>3. peer[c] \in Peer /\ p.got = peer[c].got /\ p.asked = peer[c].asked
    BY DEF WsShape, PeersTyped, Peer
  <2>4. peer'[c] = p /\ \A d \in WsClients \ {c} : peer'[d] = peer[d]
    BY <2>1 DEF WsShape, PeersTyped
  <2>5. Queues(c, e)
    BY <2>1, <2>2, <2>3, <2>4 DEF Queues
  <2> QED
    BY <1>3, <2>2, <2>5, StepOpen
<1>4. ASSUME NEW c \in WsClients, NEW k \in WsCommands[c], Say(c, k)
      PROVE  WsShape' /\ \E e \in HubEvent : Queues(c, e)
  <2> DEFINE e == [kind |-> "message", of |-> c, what |-> k]
             p == [peer[c] EXCEPT !.asked = Append(@, k)]
  <2>1. hub' = Append(hub, e) /\ clients' = clients /\ cards' = cards
    BY <1>4 DEF Say, Queued
  <2>2. WsShape' /\ k \in Command /\ peer'[c] = p /\ \A d \in WsClients \ {c} : peer'[d] = peer[d]
    BY <1>4, StepSay
  <2>3. e \in HubEvent /\ e.of = c /\ e.kind = "message" /\ e.what = k
    BY <2>2 DEF HubEvent
  <2>4. peer[c] \in Peer /\ p.got = peer[c].got /\ p.query = peer[c].query
        /\ p.asked = Append(peer[c].asked, k)
    BY DEF WsShape, PeersTyped, Peer
  <2>5. Queues(c, e)
    BY <2>1, <2>2, <2>3, <2>4 DEF Queues
  <2> QED
    BY <2>2, <2>3, <2>5
<1>5. ASSUME NEW c \in WsClients, Hangup(c)
      PROVE  WsShape' /\ \E e \in HubEvent : Queues(c, e)
  <2> DEFINE e == [kind |-> "disconnect", of |-> c, what |-> None]
             p == [peer[c] EXCEPT !.at = "gone"]
  <2>1. hub' = Append(hub, e) /\ clients' = clients /\ cards' = cards
    BY <1>5 DEF Hangup, Queued
  <2>2. WsShape' /\ peer'[c] = p /\ \A d \in WsClients \ {c} : peer'[d] = peer[d]
    BY <1>5, StepHangup
  <2>3. e \in HubEvent /\ e.of = c /\ e.kind = "disconnect"
    BY DEF HubEvent
  <2>4. peer[c] \in Peer /\ p.got = peer[c].got /\ p.query = peer[c].query
        /\ p.asked = peer[c].asked
    BY DEF WsShape, PeersTyped, Peer
  <2>5. Queues(c, e)
    BY <2>1, <2>2, <2>3, <2>4 DEF Queues
  <2> QED
    BY <2>2, <2>3, <2>5
<1>6. CASE PollConnect
  BY <1>6, StepPollConnect DEF Connects, Handles
<1>7. CASE PollDisconnect
  BY <1>7, StepPollDisconnect DEF Disconnects, Handles
<1>8. CASE PollMessage
  <2> DEFINE c == Head(hub).of
             k == Head(hub).what
  <2>1. WsShape' /\ k \in Command /\ AnsweredBy(c, k)
    BY <1>8, StepPollMessage
  <2> QED
    BY <2>1 DEF AnsweredBy, Handles
<1>9. WsNext \/ UNCHANGED wsVars
  OBVIOUS
<1> QED
  BY <1>1, <1>2, <1>3, <1>4, <1>5, <1>6, <1>7, <1>8, <1>9 DEF WsNext, WsPeers, WsThread

\* Every variable has its type, and whoever is polled has the port it tried
\* last (websocket.rs: new, start, and what the event loop keeps).
THEOREM WsTypeCorrect ==
  ASSUME WsAssumption
  PROVE  WsSpec => []WsTypeOK
<1>1. WsInit => WsShape
  BY ShapeInit
<1>2. WsShape /\ [WsNext]_wsVars => WsShape'
  BY WsMoves
<1>3. WsShape => WsTypeOK
  BY ShapeTyped
<1> QED
  BY <1>1, <1>2, <1>3, PTL DEF WsSpec

-----------------------------------------------------------------------------
(* The WebSocket connector: the lock-step and the cards.                    *)

\* The part of a queue of events that Unread(c, S) is for the hub.
Part(h, c, S) == Whats(Among(h, Messages(c, S)))

\* The commands of a list of events are as many as the events.
LEMMA WhatsType ==
  ASSUME NEW m \in Seq(HubEvent)
  PROVE  /\ Whats(m) \in Seq(Command \cup {None}) /\ Len(Whats(m)) = Len(m)
         /\ \A i \in 1 .. Len(m) : Whats(m)[i] = m[i].what
<1> DEFINE W == Command \cup {None}
<1>0. /\ Len(m) \in Nat /\ DOMAIN m = 1 .. Len(m)
      /\ \A i \in 1 .. Len(m) : m[i] \in HubEvent
  BY LenProperties, ElementOfSeq
<1>1. \A i \in 1 .. Len(m) : m[i].what \in W
  BY <1>0 DEF HubEvent
<1>2. Whats(m) = [i \in 1 .. Len(m) |-> m[i].what]
  BY <1>0 DEF Whats
<1>3. Whats(m) \in [1 .. Len(m) -> W]
  BY <1>1, <1>2
<1> QED
  BY <1>0, <1>2, <1>3, SeqDef, LenProperties

\* One event more at either end is one command more.
LEMMA WhatsOfWith ==
  ASSUME NEW m \in Seq(HubEvent), NEW e \in HubEvent
  PROVE  /\ Whats(Append(m, e)) = Append(Whats(m), e.what)
         /\ Whats(<<e>> \o m) = <<e.what>> \o Whats(m)
<1> DEFINE W == Command \cup {None}
<1>0. /\ Len(m) \in Nat /\ DOMAIN m = 1 .. Len(m)
      /\ \A i \in 1 .. Len(m) : m[i] \in HubEvent
  BY LenProperties, ElementOfSeq
<1>1. e.what \in W /\ \A i \in 1 .. Len(m) : m[i].what \in W
  BY <1>0 DEF HubEvent
<1>2. /\ Whats(m) \in Seq(W) /\ Len(Whats(m)) = Len(m)
      /\ \A i \in 1 .. Len(m) : Whats(m)[i] = m[i].what
  BY WhatsType
<1>3. Whats(Append(m, e)) = Append(Whats(m), e.what)
  <2> DEFINE a == Append(m, e)
             b == Append(Whats(m), e.what)
  <2>1. /\ a \in Seq(HubEvent) /\ Len(a) = Len(m) + 1 /\ DOMAIN a = 1 .. Len(a)
        /\ \A i \in 1 .. Len(m) : a[i] = m[i]
        /\ a[Len(m) + 1] = e
    BY AppendProperties, LenProperties
  <2>2. /\ b \in Seq(W) /\ Len(b) = Len(m) + 1 /\ DOMAIN b = 1 .. Len(b)
        /\ \A i \in 1 .. Len(m) : b[i] = Whats(m)[i]
        /\ b[Len(m) + 1] = e.what
    BY <1>1, <1>2, AppendProperties, LenProperties
  <2> HIDE DEF a, b
  <2>3. \A i \in 1 .. Len(m) + 1 : a[i].what = b[i]
    BY <1>0, <1>2, <2>1, <2>2
  <2>4. Whats(a) = [i \in 1 .. Len(m) + 1 |-> b[i]]
    BY <2>1, <2>3 DEF Whats
  <2>5. b = [i \in 1 .. Len(m) + 1 |-> b[i]]
    BY <2>2
  <2> QED
    BY <2>4, <2>5 DEF a, b
<1>4. Whats(<<e>> \o m) = <<e.what>> \o Whats(m)
  <2> DEFINE a == <<e>> \o m
             b == <<e.what>> \o Whats(m)
  <2>0. <<e>> \in Seq(HubEvent) /\ <<e.what>> \in Seq(W) /\ Len(<<e>>) = 1 /\ Len(<<e.what>>) = 1
        /\ <<e>>[1] = e /\ <<e.what>>[1] = e.what
    BY <1>1
  <2>1. /\ a \in Seq(HubEvent) /\ Len(a) = 1 + Len(m) /\ DOMAIN a = 1 .. Len(a)
        /\ \A i \in 1 .. Len(a) : a[i] = IF i <= 1 THEN <<e>>[i] ELSE m[i - 1]
    BY <2>0, ConcatProperties, LenProperties
  <2>2. /\ b \in Seq(W) /\ Len(b) = 1 + Len(m) /\ DOMAIN b = 1 .. Len(b)
        /\ \A i \in 1 .. Len(b) : b[i] = IF i <= 1 THEN <<e.what>>[i] ELSE Whats(m)[i - 1]
    BY <1>2, <2>0, ConcatProperties, LenProperties
  <2> HIDE DEF a, b
  <2>3. \A i \in 1 .. 1 + Len(m) : a[i].what = b[i]
    <3> TAKE i \in 1 .. 1 + Len(m)
    <3>1. CASE i = 1
      BY <2>0, <2>1, <2>2, <3>1
    <3>2. CASE i # 1
      <4>1. i - 1 \in 1 .. Len(m) /\ ~(i <= 1)
        BY <1>0, <3>2
      <4> QED
        BY <1>2, <2>1, <2>2, <4>1
    <3> QED
      BY <3>1, <3>2
  <2>4. Whats(a) = [i \in 1 .. 1 + Len(m) |-> b[i]]
    BY <2>1, <2>3 DEF Whats
  <2>5. b = [i \in 1 .. 1 + Len(m) |-> b[i]]
    BY <2>2
  <2> QED
    BY <2>4, <2>5 DEF a, b
<1> QED
  BY <1>2, <1>3, <1>4

\* The commands of one client in the channel form a sequence.
LEMMA PartType ==
  ASSUME NEW h \in Seq(HubEvent), NEW c, NEW S
  PROVE  Part(h, c, S) \in Seq(Command \cup {None})
<1> DEFINE M == Messages(c, S)
<1>1. Among(h, M) \in Seq(HubEvent)
  BY AmongType
<1> HIDE DEF M
<1>2. Whats(Among(h, M)) \in Seq(Command \cup {None})
  BY <1>1, WhatsType
<1> QED
  BY <1>2 DEF Part, M

\* An event is a command of c in S just when its fields say so.
LEMMA OfMessages ==
  ASSUME NEW e \in HubEvent, NEW c, NEW S
  PROVE  e \in Messages(c, S) <=> e.kind = "message" /\ e.of = c /\ e.what \in S
BY DEF HubEvent, Messages

\* An event more, an event less, none of the client's.
LEMMA PartGrows ==
  ASSUME NEW h \in Seq(HubEvent), NEW e \in HubEvent, NEW c, NEW S
  PROVE  Part(Append(h, e), c, S) =
           IF e.kind = "message" /\ e.of = c THEN Plus(Part(h, c, S), e.what, S)
           ELSE Part(h, c, S)
<1> DEFINE M == Messages(c, S)
           m == Among(h, M)
<1>1. m \in Seq(HubEvent)
  BY AmongType
<1>2. Among(Append(h, e), M) = Plus(m, e, M)
  BY AmongAppend
<1>3. e \in M <=> e.kind = "message" /\ e.of = c /\ e.what \in S
  BY OfMessages
<1>4. Part(h, c, S) = Whats(m) /\ Part(Append(h, e), c, S) = Whats(Plus(m, e, M))
  BY <1>2 DEF Part
<1> HIDE DEF M, m
<1>5. Whats(Append(m, e)) = Append(Whats(m), e.what)
  BY <1>1, WhatsOfWith
<1> QED
  BY <1>3, <1>4, <1>5 DEF Plus

\* Taking the first event takes one command of its client, and none of the
\* others.
LEMMA PartShrinks ==
  ASSUME NEW h \in Seq(HubEvent), h # <<>>, NEW c, NEW S
  PROVE  Part(h, c, S) =
           IF Head(h).kind = "message" /\ Head(h).of = c
             THEN Plus(<<>>, Head(h).what, S) \o Part(Tail(h), c, S)
             ELSE Part(Tail(h), c, S)
<1> DEFINE M == Messages(c, S)
           e == Head(h)
           m == Among(Tail(h), M)
<1>1. Tail(h) \in Seq(HubEvent) /\ e \in HubEvent
  BY HeadTailProperties
<1>2. m \in Seq(HubEvent)
  BY <1>1, AmongType
<1>3. Among(h, M) = Plus(<<>>, e, M) \o m
  BY AmongTail
<1>4. e \in M <=> e.kind = "message" /\ e.of = c /\ e.what \in S
  BY <1>1, OfMessages
<1>5. Part(Tail(h), c, S) = Whats(m) /\ Part(h, c, S) = Whats(Plus(<<>>, e, M) \o m)
  BY <1>3 DEF Part
<1> HIDE DEF M, m, e
<1>6. Whats(<<e>> \o m) = <<e.what>> \o Whats(m) /\ Whats(m) \in Seq(Command \cup {None})
  BY <1>1, <1>2, WhatsOfWith, WhatsType
<1>7. <<>> \o m = m /\ <<>> \o Whats(m) = Whats(m)
  BY <1>2, <1>6, ConcatEmptySeq
<1>8. CASE e \in M
  <2>1. Plus(<<>>, e, M) = <<e>> /\ Plus(<<>>, e.what, S) = <<e.what>>
    BY <1>4, <1>8 DEF Plus
  <2> QED
    BY <1>4, <1>5, <1>6, <1>8, <2>1 DEF e
<1>9. CASE e \notin M
  <2>1. Plus(<<>>, e, M) = <<>> /\ (e.what \notin S => Plus(<<>>, e.what, S) = <<>>)
    BY <1>9 DEF Plus
  <2>2. Part(h, c, S) = Whats(m)
    BY <1>5, <1>7, <2>1
  <2> QED
    BY <1>4, <1>5, <1>7, <1>9, <2>1, <2>2 DEF e
<1> QED
  BY <1>8, <1>9

\* A client without events in the channel has no commands there.
LEMMA PartNone ==
  ASSUME NEW h \in Seq(HubEvent), NEW c, NEW S, \A i \in 1 .. Len(h) : h[i].of # c
  PROVE  Part(h, c, S) = <<>>
<1>1. \A i \in 1 .. Len(h) : h[i] \in HubEvent
  BY ElementOfSeq
<1>2. \A i \in 1 .. Len(h) : h[i] \notin Messages(c, S)
  BY <1>1, OfMessages
<1>3. Among(h, Messages(c, S)) = <<>>
  BY <1>2, AmongNone
<1> QED
  BY <1>3 DEF Part, Whats

\* What c asked for and what waits for it; whether its connect still does.
Asked(c) == Among(peer[c].asked, Asks(c))
Owed(c) == Part(hub, c, Asks(c))
Joining(c) == \E i \in 1 .. Len(hub) : hub[i].of = c /\ hub[i].kind = "connect"

\* Nothing is lost before the client is known, or after.
InOrder(c) ==
  /\ Joining(c) => Asked(c) = Owed(c)
  /\ clients[c] # None => <<Ready>> \o Asked(c) = peer[c].got \o Owed(c)

Words == Command \cup {None, Ready}

\* What a client asked, is owed and got are sequences of the same words.
LEMMA WordsTyped ==
  ASSUME WsShape, NEW c \in WsClients
  PROVE  /\ Asked(c) \in Seq(Words) /\ Owed(c) \in Seq(Words)
         /\ peer[c].got \in Seq(Words) /\ <<Ready>> \in Seq(Words)
         /\ peer[c].asked \in Seq(Command) /\ hub \in Seq(HubEvent)
<1>1. peer[c].asked \in Seq(Command) /\ peer[c].got \in Seq(Command \cup {Ready})
      /\ hub \in Seq(HubEvent)
  BY DEF WsShape, PeersTyped, Peer, HubTyped
<1>2. Asked(c) \in Seq(Command) /\ Owed(c) \in Seq(Command \cup {None})
  BY <1>1, AmongType, PartType DEF Asked, Owed
<1> QED
  BY <1>1, <1>2 DEF Words

Then(a, b) == a \o b

\* A command asked and queued at once keeps the two sides equal.
LEMMA LineGrows ==
  ASSUME NEW l \in Seq(Words), NEW a \in Seq(Words), NEW g \in Seq(Words),
         NEW w \in Seq(Words), NEW k \in Words, NEW S, Then(l, a) = Then(g, w)
  PROVE  Then(l, Plus(a, k, S)) = Then(g, Plus(w, k, S))
<1>1. ASSUME NEW h \in Seq(Words), NEW r \in Seq(Words)
      PROVE  Plus(h \o r, k, S) = h \o Plus(r, k, S)
  BY WithConcat
<1>2. \A h, r \in Seq(Words) : Plus(Then(h, r), k, S) = Then(h, Plus(r, k, S))
  BY <1>1 DEF Then
<1> QED
  BY <1>2

\* An answer moves from what is owed to what was got without a change of
\* order.
LEMMA LineShrinks ==
  ASSUME NEW g \in Seq(Words), NEW w \in Seq(Words), NEW k \in Words, NEW S
  PROVE  Then(Plus(g, k, S), w) = Then(g, Then(Plus(<<>>, k, S), w))
<1> DEFINE o == Plus(<<>>, k, S)
<1>1. ASSUME NEW h \in Seq(Words), NEW r \in Seq(Words)
      PROVE  Plus(h \o r, k, S) = h \o Plus(r, k, S)
  BY WithConcat
<1>2. <<>> \in Seq(Words) /\ o \in Seq(Words)
  BY EmptySeq, WithType
<1>3. Plus(g \o <<>>, k, S) = g \o o /\ g \o <<>> = g
  BY <1>1, <1>2, ConcatEmptySeq
<1> HIDE DEF o
<1>4. g \o (o \o w) = (g \o o) \o w
  BY <1>2, ConcatAssociative, SMTT(30)
<1> QED
  BY <1>3, <1>4 DEF o, Then

\* The others are not concerned.
LEMMA OrderAside ==
  ASSUME WsShape, WsShape', NEW d \in WsClients, InOrder(d),
         peer'[d] = peer[d], clients'[d] = clients[d], Owed(d)' = Owed(d),
         Joining(d)' => Joining(d)
  PROVE  InOrder(d)'
<1>1. Asks(d)' = Asks(d) /\ Asked(d)' = Asked(d)
  BY DEF Asks, Answerable, Asked
<1> QED
  BY <1>1 DEF InOrder

\* Queueing an event keeps the order of every client.
LEMMA OrderQueues ==
  ASSUME WsAssumption, WsShape, WsShape', NEW c, NEW e, Queues(c, e),
         NEW d \in WsClients, InOrder(d)
  PROVE  InOrder(d)'
<1>1. /\ HubTyped' /\ Len(hub) \in Nat /\ Len(hub') = Len(hub) + 1
      /\ \A i \in 1 .. Len(hub) : hub'[i] = hub[i] /\ hub[i] \in HubEvent
      /\ hub'[Len(hub) + 1] = e
  BY HubGrows DEF WsShape, Queues
<1>2. /\ hub \in Seq(HubEvent) /\ e \in HubEvent /\ e.of = c /\ c \in WsClients
      /\ hub' = Append(hub, e) /\ clients' = clients
  BY DEF WsShape, HubTyped, Queues
<1>3. ASSUME e.of # d \/ e.kind # "connect", Joining(d)' PROVE Joining(d)
  <2>1. PICK i \in 1 .. Len(hub') : hub'[i].of = d /\ hub'[i].kind = "connect"
    BY <1>3 DEF Joining
  <2>2. i \in 1 .. Len(hub)
    BY <1>1, <1>3, <2>1
  <2> QED
    BY <1>1, <2>1, <2>2 DEF Joining
<1>4. CASE d # c
  <2>1. peer'[d] = peer[d]
    BY <1>4 DEF Queues
  <2>2. Asks(d)' = Asks(d)
    BY <2>1 DEF Asks, Answerable
  <2>3. Part(hub', d, Asks(d)) = Part(hub, d, Asks(d))
    BY <1>2, <1>4, PartGrows
  <2>4. Owed(d)' = Owed(d)
    BY <2>2, <2>3 DEF Owed
  <2> QED
    BY <1>2, <1>3, <1>4, <2>1, <2>4, OrderAside
<1>5. CASE d = c /\ e.kind = "connect"
  <2> DEFINE S == Asks(d)'
  <2>1. peer[d].at = "away" /\ peer'[d].asked = peer[d].asked
    BY <1>5 DEF Queues
  <2>2. peer[d].asked = <<>> /\ clients[d] = None
    BY <2>1 DEF WsShape, Met
  <2>3. \A i \in 1 .. Len(hub) : hub[i].of # d
    BY <2>1 DEF WsShape, FromOpen
  <2>4. Part(hub, d, S) = <<>>
    BY <1>2, <2>3, PartNone
  <2>5. Part(hub', d, S) = <<>>
    BY <1>2, <1>5, <2>4, PartGrows
  <2>6. Among(<<>>, S) = <<>>
    BY AmongEmpty
  <2>7. Asked(d)' = <<>> /\ Owed(d)' = <<>>
    BY <2>1, <2>2, <2>5, <2>6 DEF Asked, Owed
  <2>8. clients'[d] = None
    BY <1>2, <2>2
  <2> QED
    BY <2>7, <2>8 DEF InOrder
<1>6. CASE d = c /\ e.kind = "message"
  <2> DEFINE S == Asks(d)
             k == e.what
  <2>1. peer'[d].query = peer[d].query /\ peer'[d].got = peer[d].got
        /\ peer'[d].asked = Append(peer[d].asked, k) /\ k \in Command
    BY <1>6 DEF Queues
  <2>2. Asks(d)' = S
    BY <2>1 DEF Asks, Answerable
  <2>3. Part(hub', d, S) = Plus(Part(hub, d, S), k, S)
    BY <1>2, <1>6, PartGrows
  <2>4. peer[d].asked \in Seq(Command)
    BY WordsTyped
  <2>5. Among(Append(peer[d].asked, k), S) = Plus(Among(peer[d].asked, S), k, S)
    BY <2>1, <2>4, AmongAppend
  <2>6. Asked(d)' = Plus(Asked(d), k, S) /\ Owed(d)' = Plus(Owed(d), k, S)
    BY <2>1, <2>2, <2>3, <2>5 DEF Asked, Owed
  <2>7. /\ Asked(d) \in Seq(Words) /\ Owed(d) \in Seq(Words) /\ k \in Words
        /\ peer[d].got \in Seq(Words) /\ <<Ready>> \in Seq(Words)
    BY <2>1, WordsTyped DEF Words
  <2>8. /\ <<Ready>> \o Asked(d) = peer[d].got \o Owed(d) =>
             <<Ready>> \o Plus(Asked(d), k, S) = peer[d].got \o Plus(Owed(d), k, S)
        /\ Asked(d) = Owed(d) => Plus(Asked(d), k, S) = Plus(Owed(d), k, S)
    <3> DEFINE l == <<Ready>>
               g == peer[d].got
    <3>1. l \in Seq(Words) /\ g \in Seq(Words)
      BY <2>7
    <3> HIDE DEF l, g
    <3>2. ASSUME Then(l, Asked(d)) = Then(g, Owed(d))
          PROVE  Then(l, Plus(Asked(d), k, S)) = Then(g, Plus(Owed(d), k, S))
      BY <2>7, <3>1, <3>2, LineGrows
    <3> QED
      BY <3>2 DEF Then, l, g
  <2>9. clients'[d] = clients[d]
    BY <1>2
  <2> QED
    BY <1>3, <1>6, <2>1, <2>6, <2>8, <2>9 DEF InOrder
<1>7. CASE d = c /\ e.kind = "disconnect"
  <2>1. peer'[d].query = peer[d].query /\ peer'[d].got = peer[d].got
        /\ peer'[d].asked = peer[d].asked
    BY <1>7 DEF Queues
  <2>2. Asks(d)' = Asks(d)
    BY <2>1 DEF Asks, Answerable
  <2>3. Part(hub', d, Asks(d)) = Part(hub, d, Asks(d))
    BY <1>2, <1>7, PartGrows
  <2>4. Asked(d)' = Asked(d) /\ Owed(d)' = Owed(d)
    BY <2>1, <2>2, <2>3 DEF Asked, Owed
  <2>5. clients'[d] = clients[d]
    BY <1>2
  <2> QED
    BY <1>3, <1>7, <2>1, <2>4, <2>5 DEF InOrder
<1>8. e.kind \in {"connect", "message", "disconnect"}
  BY <1>2 DEF HubEvent
<1> QED
  BY <1>4, <1>5, <1>6, <1>7, <1>8

\* The event at the head goes: what becomes of the others' and of its client's.
LEMMA OrderHandles ==
  ASSUME WsAssumption, WsShape, NEW c, Handles(c), NEW d \in WsClients
  PROVE  /\ Joining(d)' => Joining(d) /\ d # c
         /\ peer'[d].query = peer[d].query => Asks(d)' = Asks(d)
         /\ d # c => Part(hub, d, Asks(d)) = Part(hub', d, Asks(d))
         /\ Head(hub).kind = "connect" => Joining(c)
         /\ d = c /\ Head(hub).kind # "message" =>
              Part(hub, d, Asks(d)) = Part(hub', d, Asks(d))
         /\ d = c /\ Head(hub).kind = "message" =>
              Part(hub, d, Asks(d)) =
                Plus(<<>>, Head(hub).what, Asks(d)) \o Part(hub', d, Asks(d))
<1>1. /\ HubTyped' /\ Len(hub) \in Nat /\ Len(hub') = Len(hub) - 1
      /\ \A i \in 1 .. Len(hub') : hub'[i] = hub[i + 1] /\ i + 1 \in 1 .. Len(hub)
      /\ Head(hub) = hub[1] /\ 1 \in 1 .. Len(hub) /\ Head(hub) \in HubEvent
  BY HubShrinks DEF WsShape, Handles
<1>2. hub \in Seq(HubEvent) /\ hub # <<>> /\ hub' = Tail(hub) /\ c = Head(hub).of
  BY DEF WsShape, HubTyped, Handles
<1>3. ASSUME Joining(d)' PROVE Joining(d) /\ d # c
  <2>1. PICK i \in 1 .. Len(hub') : hub'[i].of = d /\ hub'[i].kind = "connect"
    BY <1>3 DEF Joining
  <2>2. hub[i + 1].of = d /\ hub[i + 1].kind = "connect" /\ i + 1 \in 1 .. Len(hub)
    BY <1>1, <2>1
  <2>3. \A j \in 1 .. Len(hub) : hub[j].of = d => i + 1 <= j
    BY <2>2 DEF WsShape, Introduces
  <2>4. ~(i + 1 <= 1)
    BY <1>1, <2>1
  <2> QED
    BY <1>1, <1>2, <2>2, <2>3, <2>4 DEF Joining
<1>4. peer'[d].query = peer[d].query => Asks(d)' = Asks(d)
  BY DEF Asks, Answerable
<1>5. Head(hub).kind = "connect" => Joining(c)
  BY <1>1, <1>2 DEF Joining
<1> QED
  BY <1>2, <1>3, <1>4, <1>5, PartShrinks

\* Every step does.
LEMMA OrderStep ==
  ASSUME WsAssumption, WsShape, [WsNext]_wsVars, NEW d \in WsClients, InOrder(d)
  PROVE  InOrder(d)'
<1>0. WsShape'
  BY WsMoves
<1>1. CASE UNCHANGED <<peer, hub, clients, cards>>
  BY <1>1 DEF InOrder, Joining, Asked, Owed, Asks, Answerable
<1>2. ASSUME NEW c, NEW e, Queues(c, e) PROVE InOrder(d)'
  BY <1>0, <1>2, OrderQueues
<1>3. ASSUME NEW c, Handles(c), d # c PROVE InOrder(d)'
  <2>1. peer'[d] = peer[d] /\ clients'[d] = clients[d]
    BY <1>3 DEF Handles
  <2>2. Owed(d)' = Owed(d) /\ (Joining(d)' => Joining(d))
    BY <1>3, <2>1, OrderHandles DEF Owed
  <2> QED
    BY <1>0, <2>1, <2>2, OrderAside
<1>4. ASSUME Connects(d) PROVE InOrder(d)'
  <2>1. Handles(d) /\ Head(hub).kind = "connect"
    BY <1>4 DEF Connects
  <2>2. peer'[d].query = peer[d].query /\ peer'[d].asked = peer[d].asked
    BY <2>1 DEF Handles
  <2>3. ~Joining(d)' /\ Joining(d) /\ Asks(d)' = Asks(d)
        /\ Part(hub, d, Asks(d)) = Part(hub', d, Asks(d))
    BY <2>1, <2>2, OrderHandles
  <2>4. Asked(d)' = Asked(d) /\ Owed(d)' = Owed(d) /\ Asked(d) = Owed(d)
    BY <2>2, <2>3 DEF Asked, Owed, InOrder
  <2>5. clients'[d] # None => peer'[d].got = <<Ready>>
    BY <1>4 DEF Connects
  <2> QED
    BY <2>3, <2>4, <2>5 DEF InOrder
<1>5. ASSUME Disconnects(d) PROVE InOrder(d)'
  <2>1. Handles(d) /\ clients'[d] = None
    BY <1>5 DEF Disconnects
  <2>2. ~Joining(d)'
    BY <2>1, OrderHandles
  <2> QED
    BY <2>1, <2>2 DEF InOrder
<1>6. ASSUME NEW k \in Command, AnsweredBy(d, k) PROVE InOrder(d)'
  <2>1. Handles(d) /\ Head(hub).kind = "message" /\ Head(hub).what = k
        /\ (clients'[d] # None <=> clients[d] # None)
    BY <1>6 DEF AnsweredBy
  <2>2. peer'[d].query = peer[d].query /\ peer'[d].asked = peer[d].asked
    BY <2>1 DEF Handles
  <2> DEFINE S == Asks(d)
             w == Part(hub', d, S)
             g == peer[d].got
             o == Plus(<<>>, k, S)
  <2>3. ~Joining(d)' /\ Asks(d)' = S /\ Owed(d) = o \o w
    BY <2>1, <2>2, OrderHandles DEF Owed
  <2>4. Asked(d)' = Asked(d) /\ Owed(d)' = w
    BY <2>2, <2>3 DEF Asked, Owed
  <2>5. CASE clients[d] = None
    BY <2>1, <2>3, <2>5 DEF InOrder
  <2>6. CASE clients[d] # None
    <3>1. peer'[d].got = Plus(g, k, S)
      BY <1>6, <2>6 DEF AnsweredBy, Plus, Asks
    <3>2. g \in Seq(Words) /\ k \in Words
      BY WordsTyped DEF Words
    <3>3. w \in Seq(Words)
      <4>1. hub' \in Seq(HubEvent)
        BY <1>0 DEF WsShape, HubTyped
      <4> QED
        BY <4>1, PartType DEF Words
    <3>4. <<Ready>> \o Asked(d) = g \o (o \o w)
      BY <2>3, <2>6 DEF InOrder
    <3> HIDE DEF w, g
    <3>5. Plus(g, k, S) \o w = g \o (o \o w)
      <4>1. Then(Plus(g, k, S), w) = Then(g, Then(o, w))
        BY <3>2, <3>3, LineShrinks
      <4> QED
        BY <4>1 DEF Then
    <3> QED
      BY <2>3, <2>4, <3>1, <3>4, <3>5 DEF InOrder
  <2> QED
    BY <2>5, <2>6
<1>7. ASSUME NEW c \in WsClients, Connects(c) \/ Disconnects(c) PROVE InOrder(d)'
  BY <1>3, <1>4, <1>5, <1>7 DEF Connects, Disconnects
<1>8. ASSUME NEW c \in WsClients, NEW k \in Command, AnsweredBy(c, k) PROVE InOrder(d)'
  BY <1>3, <1>6, <1>8 DEF AnsweredBy
<1> QED
  BY <1>1, <1>2, <1>7, <1>8, WsMoves

\* Lock-step: the answers a client has and those still queued for it are those
\* it asked for, in their order, after its READY (websocket.rs: the event loop),
\* whoever comes, says and goes.
THEOREM WsLockStep ==
  ASSUME WsAssumption
  PROVE  WsSpec => []AnsweredInOrder
<1> DEFINE Inv == WsShape /\ \A d \in WsClients : InOrder(d)
<1>1. WsInit => Inv
  <2> SUFFICES ASSUME WsInit PROVE Inv
    OBVIOUS
  <2>1. hub = <<>> /\ Len(hub) = 0 /\ \A d \in WsClients : clients[d] = None
    BY DEF WsInit
  <2>2. WsShape
    BY ShapeInit
  <2> QED
    BY <2>1, <2>2 DEF InOrder, Joining
<1>2. Inv /\ [WsNext]_wsVars => Inv'
  BY WsMoves, OrderStep
<1>3. Inv => AnsweredInOrder
  BY DEF InOrder, Asked, Owed, Part, Unread, AnsweredInOrder
<1> HIDE DEF Inv
<1> QED
  BY <1>1, <1>2, <1>3, PTL DEF WsSpec

\* No two clients share a card, and each keeps to its own: every activity it may
\* set names the application and the pid own[c], itself or by its query.
OwnCards(own) ==
  /\ own \in [WsClients -> (WsApps \cup {None}) \X WsPids]
  /\ \A c, d \in WsClients : own[c] = own[d] => c = d
  /\ \A c \in WsClients : \A k \in WsCommands[c] : \A q \in WsQueries[c] :
       k.kind = "set" /\ q.valid /\ q.origin # "other" =>
         k.args /\ own[c] = <<IF k.app = None THEN q.app ELSE k.app, k.pid>>

\* What is remembered of c is of its card; the cards are of those who show one.
KeepsTo(c, own) ==
  clients[c] # None /\ clients[c].last # None =>
    clients[c].last.args /\ Card(clients[c].last) = own[c]
Mirrors(own) == \A x : x \in cards <=> \E c \in WsClients : Shows(c) /\ x = own[c]

\* A SET_ACTIVITY of a client with a card of its own is about that card.
LEMMA OwnSet ==
  ASSUME WsAssumption, WsShape, NEW own, OwnCards(own), NEW c \in WsClients,
         clients[c] # None, clients[c].origin # "other",
         NEW k \in WsCommands[c], k.kind = "set"
  PROVE  LET s == Completed(c, k) IN
           /\ s \in Command /\ s # None /\ s.args /\ Card(s) = own[c]
           /\ s.pid # NoWsPid /\ s.activity = k.activity
<1> DEFINE s == Completed(c, k)
           q == peer[c].query
<1>1. k \in Command
  BY DEF WsAssumption
<1>2. /\ q \in WsQueries[c] /\ q.valid /\ q.origin # "other" /\ clients[c].app = q.app
  BY DEF WsShape, Met
<1>3. k.args /\ own[c] = <<IF k.app = None THEN q.app ELSE k.app, k.pid>>
  BY <1>2 DEF OwnCards
<1>4. /\ s \in Command /\ s.args = k.args /\ s.pid = k.pid /\ s.activity = k.activity
      /\ s.app = IF k.app = None THEN q.app ELSE k.app
  BY <1>1, <1>2, CompletedType
<1>5. own[c][2] \in WsPids
  BY DEF OwnCards
<1>6. k.pid \in WsPids
  BY <1>3, <1>5
<1>7. k.pid # NoWsPid
  BY <1>6 DEF WsAssumption
<1> HIDE DEF s
<1>8. s # None
  BY <1>4 DEF WsAssumption
<1>9. Card(s) = own[c]
  BY <1>3, <1>4 DEF Card
<1> QED
  BY <1>3, <1>4, <1>7, <1>8, <1>9 DEF s

\* Every step keeps clients to their cards, and the cards to the last each
\* has set.
LEMMA MirrorStep ==
  ASSUME WsAssumption, WsShape, [WsNext]_wsVars, NEW own, OwnCards(own),
         \A c \in WsClients : KeepsTo(c, own), Mirrors(own)
  PROVE  (\A c \in WsClients : KeepsTo(c, own)') /\ Mirrors(own)'
<1>1. CASE UNCHANGED <<peer, hub, clients, cards>>
  BY <1>1 DEF KeepsTo, Mirrors, Shows
<1>2. ASSUME NEW c \in WsClients, NEW e \in HubEvent, Queues(c, e)
      PROVE  (\A d \in WsClients : KeepsTo(d, own)') /\ Mirrors(own)'
  BY <1>2 DEF Queues, KeepsTo, Mirrors, Shows
<1>3. ASSUME NEW c \in WsClients, Handles(c), KeepsTo(c, own)',
             \A x : x \in cards' <=> IF x = own[c] THEN Shows(c)' ELSE x \in cards
      PROVE  (\A d \in WsClients : KeepsTo(d, own)') /\ Mirrors(own)'
  <2>1. \A d \in WsClients \ {c} : clients'[d] = clients[d]
    BY <1>3 DEF Handles
  <2>2. \A d \in WsClients \ {c} : KeepsTo(d, own)' /\ (Shows(d)' <=> Shows(d)) /\ own[d] # own[c]
    BY <2>1 DEF KeepsTo, Shows, OwnCards
  <2>3. ASSUME NEW x
        PROVE  x \in cards' <=> \E d \in WsClients : Shows(d)' /\ x = own[d]
    <3>1. CASE x = own[c]
      BY <1>3, <2>2, <3>1
    <3>2. CASE x # own[c]
      BY <1>3, <2>2, <3>2 DEF Mirrors
    <3> QED
      BY <3>1, <3>2
  <2> QED
    BY <1>3, <2>2, <2>3 DEF Mirrors
<1>4. \A c \in WsClients : own[c] \in cards <=> Shows(c)
  BY DEF Mirrors, OwnCards
<1>5. ASSUME NEW c \in WsClients, Connects(c)
      PROVE  (\A d \in WsClients : KeepsTo(d, own)') /\ Mirrors(own)'
  <2>1. Handles(c) /\ cards' = cards /\ ~Shows(c) /\ ~Shows(c)' /\ KeepsTo(c, own)'
    BY <1>5 DEF Connects, Shows, KeepsTo
  <2>2. \A x : x \in cards' <=> IF x = own[c] THEN Shows(c)' ELSE x \in cards
    BY <1>4, <2>1
  <2> QED
    BY <1>3, <2>1, <2>2
<1>6. ASSUME NEW c \in WsClients, Disconnects(c)
      PROVE  (\A d \in WsClients : KeepsTo(d, own)') /\ Mirrors(own)'
  <2>1. Handles(c) /\ ~Shows(c)' /\ KeepsTo(c, own)'
    BY <1>6 DEF Disconnects, Shows, KeepsTo
  <2>2. CASE clients[c] # None /\ clients[c].last # None
    <3>1. cards' = Cleared(clients[c]) /\ Card(clients[c].last) = own[c]
      BY <1>6, <2>2 DEF Disconnects, KeepsTo
    <3>2. own[c][2] \in WsPids
      BY DEF OwnCards
    <3>3. cards' = cards \ {own[c]}
      BY <3>1, <3>2 DEF Cleared, WsAssumption
    <3>4. \A x : x \in cards' <=> IF x = own[c] THEN Shows(c)' ELSE x \in cards
      BY <2>1, <3>3
    <3> QED
      BY <1>3, <2>1, <3>4
  <2>3. CASE ~(clients[c] # None /\ clients[c].last # None)
    <3>1. cards' = cards /\ ~Shows(c)
      BY <1>6, <2>3 DEF Disconnects, Shows
    <3>2. \A x : x \in cards' <=> IF x = own[c] THEN Shows(c)' ELSE x \in cards
      BY <1>4, <2>1, <3>1
    <3> QED
      BY <1>3, <2>1, <3>2
  <2> QED
    BY <2>2, <2>3
<1>7. ASSUME NEW c \in WsClients, NEW k \in Command, AnsweredBy(c, k)
      PROVE  (\A d \in WsClients : KeepsTo(d, own)') /\ Mirrors(own)'
  <2> DEFINE s == Completed(c, k)
             sets == clients[c] # None /\ k.kind = "set" /\ clients[c].origin # "other"
                     /\ SetActivityOn
  <2>1. Handles(c) /\ k \in WsCommands[c] /\ (clients'[c] # None <=> clients[c] # None)
    BY <1>7 DEF AnsweredBy
  <2>2. CASE sets
    <3>1. clients'[c].last = s /\ cards' = Applied(s)
      BY <1>7, <2>2 DEF AnsweredBy
    <3>2. s \in Command /\ s # None /\ s.args /\ Card(s) = own[c] /\ s.pid # NoWsPid
      BY <2>1, <2>2, OwnSet
    <3> HIDE DEF s
    <3>3. cards' = IF s.activity THEN cards \cup {own[c]} ELSE cards \ {own[c]}
      BY <3>1, <3>2 DEF Applied
    <3>4. KeepsTo(c, own)' /\ (Shows(c)' <=> s.activity)
      BY <2>1, <2>2, <3>1, <3>2 DEF KeepsTo, Shows
    <3>5. \A x : x \in cards' <=> IF x = own[c] THEN Shows(c)' ELSE x \in cards
      BY <3>2, <3>3, <3>4 DEF Command
    <3> QED
      BY <1>3, <2>1, <3>4, <3>5
  <2>3. CASE ~sets
    <3>1. clients' = clients /\ cards' = cards
      BY <1>7, <2>3 DEF AnsweredBy
    <3> QED
      BY <3>1 DEF KeepsTo, Mirrors, Shows
  <2> QED
    BY <2>2, <2>3
<1> QED
  BY <1>1, <1>2, <1>5, <1>6, <1>7, WsMoves

\* The cards are those the connected clients set last, through any interleaving
\* of their commands and ends, where no two share one and each keeps to its own
\* (websocket.rs: handle_set_activity, handle_disconnect).
THEOREM WsCardsMirrorClients ==
  ASSUME WsAssumption, NEW own, OwnCards(own)
  PROVE  WsSpec => []CardsMirrorClients
<1> DEFINE Inv == WsShape /\ (\A c \in WsClients : KeepsTo(c, own)) /\ Mirrors(own)
<1>1. WsInit => Inv
  BY ShapeInit DEF WsInit, KeepsTo, Mirrors, Shows
<1>2. Inv /\ [WsNext]_wsVars => Inv'
  BY WsMoves, MirrorStep
<1>3. Inv => CardsMirrorClients
  <2> SUFFICES ASSUME Inv PROVE CardsMirrorClients
    OBVIOUS
  <2>1. \A c \in WsClients : Shows(c) => Card(clients[c].last) = own[c]
    BY DEF Shows, KeepsTo
  <2>2. \A x : x \in cards <=> \E c \in WsClients : Shows(c) /\ x = Card(clients[c].last)
    BY <2>1 DEF Mirrors
  <2> QED
    BY <2>2 DEF CardsMirrorClients
<1> HIDE DEF Inv
<1> QED
  BY <1>1, <1>2, <1>3, PTL DEF WsSpec

-----------------------------------------------------------------------------
(* Numbers modulo the kernel's.                                             *)

\* A remainder is known by its range.
LEMMA Remainder ==
  ASSUME NEW M \in Nat, M > 1, NEW q \in Int, NEW r \in 0 .. M - 1
  PROVE  (M * q + r) % M = r
<1> DEFINE x == M * q + r
           p == x \div M
           s == x % M
<1>1. x \in Int
  OBVIOUS
<1> HIDE DEF x
<1>2. x = M * p + s /\ p \in Int /\ s \in 0 .. M - 1
  BY <1>1
<1> HIDE DEF p, s
<1>3. M * (q - p) = s - r
  BY <1>2 DEF x
<1>4. q - p >= 1 => M * (q - p) >= M
  BY <1>2
<1>5. q - p <= -1 => M * (q - p) <= -M
  BY <1>2
<1>6. q = p
  BY <1>2, <1>3, <1>4, <1>5
<1>7. s = r
  BY <1>2, <1>3, <1>6
<1> QED
  BY <1>7 DEF s, x

\* What is added before a remainder is added after it.
LEMMA AddLater ==
  ASSUME NEW M \in Nat, M > 1, NEW x \in Int, NEW a \in Int
  PROVE  ((x % M) + a) % M = (x + a) % M
<1> DEFINE r == x % M
           p == x \div M
           y == (r + a) % M
           q == (r + a) \div M
<1>1. x = M * p + r /\ p \in Int /\ r \in 0 .. M - 1
  OBVIOUS
<1> HIDE DEF r, p
<1>2. r + a = M * q + y /\ q \in Int /\ y \in 0 .. M - 1
  BY <1>1
<1> HIDE DEF y, q
<1>3. x + a = M * (p + q) + y
  BY <1>1, <1>2
<1>4. (M * (p + q) + y) % M = y
  BY <1>1, <1>2, Remainder
<1> QED
  BY <1>3, <1>4 DEF y, r

\* The distance from the number expected.
LEMMA Distance ==
  ASSUME NEW M \in Nat, M > 1, NEW l \in Int, NEW a \in 0 .. M - 1
  PROVE  (((l + 1 + a) % M) - ((l + 1) % M)) % M = a
<1> DEFINE e == (l + 1) % M
           s == (l + 1 + a) % M
<1>1. e \in 0 .. M - 1
  OBVIOUS
<1>2. s = (e + a) % M
  <2>1. l + 1 \in Int /\ a \in Int
    OBVIOUS
  <2> QED
    BY <2>1, AddLater
<1> HIDE DEF e, s
<1>3. CASE e + a \in 0 .. M - 1
  <2>1. s = e + a
    BY <1>1, <1>2, <1>3
  <2>2. s - e = a
    BY <1>1, <2>1
  <2> QED
    BY <2>2 DEF e, s
<1>4. CASE e + a \in M .. 2 * M - 1
  <2> DEFINE x == e + a
  <2>0. x \in M .. 2 * M - 1
    BY <1>4
  <2> HIDE DEF x
  <2>1. x % M = x - M
    BY <2>0
  <2> USE DEF x
  <2>2. s - e = a - M /\ s - e \in (-M) .. -1
    BY <1>1, <1>2, <1>4, <2>1
  <2>3. (s - e) % M = s - e + M
    BY <2>2
  <2>4. (s - e) % M = a
    BY <2>2, <2>3
  <2> QED
    BY <2>4 DEF e, s
<1>5. e + a \in 0 .. M - 1 \/ e + a \in M .. 2 * M - 1
  BY <1>1
<1> QED
  BY <1>3, <1>4, <1>5

Half == (Modulus - 1) \div 2

\* Two halves of the range are less than the range.
LEMMA HalfIsLess ==
  ASSUME ProcAssumption
  PROVE  Half \in Nat /\ 2 * Half <= Modulus - 1 /\ Modulus \in Nat /\ Modulus > 1
BY DEF ProcAssumption, Half

\* What note counts as missed is what there was between two numbers.
LEMMA MissedBetween ==
  ASSUME ProcAssumption, NEW last \in Numbers, NEW a \in 0 .. Half,
         NEW seq, seq = (last + 1 + a) % Modulus
  PROVE  Missed(last, seq) = a
<1>1. last \in Int /\ a \in 0 .. Modulus - 1 /\ Modulus \in Nat /\ Modulus > 1
  BY HalfIsLess DEF Numbers
<1>2. (seq - ((last + 1) % Modulus)) % Modulus = a
  BY <1>1, Distance
<1> QED
  BY <1>2 DEF Missed, Gap, Expected, Half

\* What a jump of the numbers is taken for is an integer.
LEMMA MissedType ==
  ASSUME ProcAssumption, NEW last \in Numbers, NEW seq \in Numbers
  PROVE  Missed(last, seq) \in Int
<1>1. last \in Int /\ seq \in Int /\ Modulus \in Nat /\ Modulus > 1
  BY HalfIsLess DEF Numbers
<1>2. (last + 1) % Modulus \in Int
  BY <1>1
<1> DEFINE x == seq - ((last + 1) % Modulus)
<1>3. x \in Int
  BY <1>1, <1>2
<1> HIDE DEF x
<1>4. x % Modulus \in Int
  BY <1>1, <1>3
<1>5. Gap(last, seq) \in Int
  BY <1>4 DEF Gap, Expected, x
<1> QED
  BY <1>5 DEF Missed

-----------------------------------------------------------------------------
(* The reader of process events: types.                                     *)

Message == [cpu : Cpus, seq : Numbers, after : Nat, forwarded : BOOLEAN]
Trackers == [last : [Cpus -> Numbers \cup {None}], missed : Int, lost : Nat]

\* A datagram: messages of one cpu in their order, with no loss between them.
Datagram(d) ==
  /\ d \in Seq(Message) /\ Len(d) >= 1
  /\ \A i \in 1 .. Len(d) :
       /\ d[i].cpu = d[1].cpu
       /\ i > 1 => d[i].after = 0 /\ d[i].seq = (d[i - 1].seq + 1) % Modulus

KernelTyped ==
  /\ counter \in [Cpus -> Numbers]
  /\ gone \in [Cpus -> Nat] /\ spent \in 0 .. MaxMessages
  /\ \A c \in Cpus : gone[c] <= spent
WireTyped ==
  /\ wire \in Seq(Seq(Message)) /\ Len(wire) <= MaxInFlight
  /\ \A i \in 1 .. Len(wire) : Datagram(wire[i])
WatcherTyped ==
  /\ watcher \in [at : {"off", "ack", "test", "live", "failed", "closed"}, rounds : 0 .. ROUNDS]
  /\ watcher.at \in {"off", "ack", "test"} => watcher.rounds > 0
TrackerTyped ==
  /\ tracker \in Trackers
  /\ watcher.at \in {"off", "ack", "test"} => \A c \in Cpus : tracker.last[c] = None

ProcShape == KernelTyped /\ WireTyped /\ WatcherTyped /\ TrackerTyped

\* ProcShape is stronger than the type invariant of the runs.
LEMMA ProcShapeTyped ==
  ASSUME ProcAssumption, ProcShape
  PROVE  ProcTypeOK
<1>1. gone \in [Cpus -> 0 .. MaxMessages]
  BY DEF ProcShape, KernelTyped, ProcAssumption
<1> QED
  BY <1>1 DEF ProcShape, KernelTyped, WireTyped, WatcherTyped, TrackerTyped, Trackers, ProcTypeOK

\* Noting a message moves its cpu's number, and counts from the second
\* message on.
LEMMA NoteType ==
  ASSUME ProcAssumption, NEW t \in Trackers, NEW m \in Message
  PROVE  /\ Note(t, m) \in Trackers
         /\ Note(t, m).last = [t.last EXCEPT ![m.cpu] = m.seq]
         /\ t.last[m.cpu] = None =>
              Note(t, m).missed = t.missed /\ Note(t, m).lost = t.lost
         /\ t.last[m.cpu] # None =>
              /\ Note(t, m).missed = t.missed + Missed(t.last[m.cpu], m.seq)
              /\ Note(t, m).lost = t.lost + m.after
<1> DEFINE c == m.cpu
           new == [t.last EXCEPT ![c] = m.seq]
<1>1. c \in Cpus /\ m.seq \in Numbers /\ m.after \in Nat
      /\ t.last \in [Cpus -> Numbers \cup {None}] /\ t.missed \in Int /\ t.lost \in Nat
  BY DEF Message, Trackers
<1>2. new \in [Cpus -> Numbers \cup {None}]
  BY <1>1
<1>3. CASE t.last[c] = None
  <2>1. Note(t, m) = [t EXCEPT !.last = new]
    BY <1>1, <1>3 DEF Note, Trackers
  <2> QED
    BY <1>1, <1>2, <1>3, <2>1 DEF Trackers
<1>4. CASE t.last[c] # None
  <2> DEFINE a == Missed(t.last[c], m.seq)
  <2>1. a \in Int
    <3>1. t.last[c] \in Numbers
      BY <1>1, <1>4
    <3> QED
      BY <1>1, <3>1, MissedType
  <2>2. Note(t, m) = [t EXCEPT !.last = new, !.missed = t.missed + a, !.lost = t.lost + m.after]
    BY <1>1, <1>4 DEF Note, Trackers
  <2> HIDE DEF a
  <2>3. t.missed + a \in Int /\ t.lost + m.after \in Nat
    BY <1>1, <2>1
  <2> QED
    BY <1>1, <1>2, <1>4, <2>2, <2>3 DEF Trackers, a
<1> QED
  BY <1>3, <1>4

-----------------------------------------------------------------------------
(* walk_proc_messages, a message at a time.                                 *)

Stages(k, t, d, n) ==
  k = [i \in 0 .. n |-> IF i = 0 THEN t ELSE Note(k[i - 1], d[i])]

\* One message more.
LEMMA NextStage ==
  ASSUME ProcAssumption, NEW t \in Trackers, NEW d \in Seq(Message), NEW n \in 1 .. Len(d),
         NEW k \in [0 .. n - 1 -> Trackers], Stages(k, t, d, n - 1)
  PROVE  \E l \in [0 .. n -> Trackers] : Stages(l, t, d, n)
<1> DEFINE e == Note(k[n - 1], d[n])
           l == [i \in 0 .. n |-> IF i = n THEN e ELSE k[i]]
<1>0. Len(d) \in Nat /\ d[n] \in Message
  BY ElementOfSeq, LenProperties
<1>1. k[n - 1] \in Trackers
  BY <1>0
<1>2. e \in Trackers
  BY <1>0, <1>1, NoteType
<1>3. ASSUME NEW i \in 0 .. n
      PROVE  l[i] = IF i = 0 THEN t ELSE Note(l[i - 1], d[i])
  <2>1. CASE i = n
    <3>1. l[i] = e /\ l[i - 1] = k[n - 1] /\ i # 0
      BY <1>0, <2>1
    <3> QED
      BY <2>1, <3>1
  <2>2. CASE i # n
    <3>1. l[i] = k[i] /\ i \in 0 .. n - 1
      BY <1>0, <2>2
    <3>2. k[i] = IF i = 0 THEN t ELSE Note(k[i - 1], d[i])
      BY <3>1 DEF Stages
    <3>3. i # 0 => l[i - 1] = k[i - 1]
      BY <1>0, <3>1
    <3> QED
      BY <3>1, <3>2, <3>3
  <2> QED
    BY <2>1, <2>2
<1>4. l \in [0 .. n -> Trackers]
  <2> HIDE DEF e
  <2> QED
    BY <1>0, <1>2
<1>5. l = [i \in 0 .. n |-> l[i]]
  OBVIOUS
<1> HIDE DEF l
<1>6. Stages(l, t, d, n)
  BY <1>3, <1>5 DEF Stages
<1> QED
  BY <1>4, <1>6

\* The walk's stages exist: one tracker for each message of the datagram.
LEMMA StagesExist ==
  ASSUME ProcAssumption, NEW t \in Trackers, NEW d \in Seq(Message)
  PROVE  \E k \in [0 .. Len(d) -> Trackers] : Stages(k, t, d, Len(d))
<1> DEFINE P(n) == \E k \in [0 .. n -> Trackers] : Stages(k, t, d, n)
           T == {n \in 0 .. Len(d) : ~P(n)}
<1>0. Len(d) \in Nat
  BY LenProperties
<1>1. P(0)
  <2> DEFINE k0 == [i \in 0 .. 0 |-> t]
  <2>1. k0 \in [0 .. 0 -> Trackers] /\ Stages(k0, t, d, 0)
    BY DEF Stages
  <2> QED
    BY <2>1
<1>2. ASSUME NEW n \in 1 .. Len(d), P(n - 1) PROVE P(n)
  BY <1>2, NextStage
<1> HIDE DEF P
<1>3. T = {}
  <2> SUFFICES ASSUME T # {} PROVE FALSE
    OBVIOUS
  <2>1. T \in SUBSET Nat
    BY <1>0
  <2>2. PICK m \in T : \A n \in T : m <= n
    BY <2>1, Least
  <2>3. m # 0 /\ m \in 1 .. Len(d) /\ ~P(m)
    BY <1>0, <1>1, <2>2
  <2>4. m - 1 \in 0 .. Len(d) /\ m - 1 \notin T
    BY <1>0, <2>2, <2>3
  <2> QED
    BY <1>2, <2>3, <2>4
<1>4. P(Len(d))
  BY <1>0, <1>3
<1> QED
  BY <1>4 DEF P

\* What Walked computes, step by step.
Steps(k, t, d) ==
  /\ k[0] = t
  /\ \A i \in 1 .. Len(d) : k[i] = Note(k[i - 1], d[i])
  /\ Walked(t, d) = k[Len(d)]

\* The same for the whole datagram, whose last stage is what Walked returns.
LEMMA WalkedSteps ==
  ASSUME ProcAssumption, NEW t \in Trackers, NEW d \in Seq(Message)
  PROVE  \E k \in [0 .. Len(d) -> Trackers] : Steps(k, t, d)
<1> DEFINE K == CHOOSE k : Stages(k, t, d, Len(d))
<1>0. Len(d) \in Nat
  BY LenProperties
<1>1. \E k : Stages(k, t, d, Len(d))
  BY StagesExist
<1>2. Stages(K, t, d, Len(d))
  BY <1>1
<1>3. Walked(t, d) = K[Len(d)]
  BY DEF Walked, Stages
<1> HIDE DEF K
<1>4. K = [i \in 0 .. Len(d) |-> IF i = 0 THEN t ELSE Note(K[i - 1], d[i])]
  BY <1>2 DEF Stages
<1>5. /\ K[0] = t
      /\ \A i \in 1 .. Len(d) : K[i] = Note(K[i - 1], d[i])
  BY <1>0, <1>4
<1> DEFINE T == {i \in 0 .. Len(d) : K[i] \notin Trackers}
<1>6. T = {}
  <2> SUFFICES ASSUME T # {} PROVE FALSE
    OBVIOUS
  <2>1. T \in SUBSET Nat
    BY <1>0
  <2>2. PICK m \in T : \A n \in T : m <= n
    BY <2>1, Least
  <2>3. m # 0
    BY <1>5, <2>2
  <2>4. m \in 1 .. Len(d) /\ K[m] \notin Trackers
    BY <1>0, <2>2, <2>3
  <2>5. m - 1 \in 0 .. Len(d) /\ m - 1 \notin T
    BY <1>0, <2>2, <2>4
  <2>6. K[m - 1] \in Trackers /\ d[m] \in Message
    BY <2>4, <2>5, ElementOfSeq
  <2>7. Note(K[m - 1], d[m]) \in Trackers
    BY <2>6, ProcAssumption, NoteType
  <2>8. K[m] = Note(K[m - 1], d[m])
    BY <1>5, <2>4, Zenon
  <2> QED
    BY <2>4, <2>7, <2>8
<1>7. \A i \in 0 .. Len(d) : K[i] \in Trackers
  BY <1>6
<1>8. K \in [0 .. Len(d) -> Trackers]
  <2>1. DOMAIN K = 0 .. Len(d) /\ K = [i \in 0 .. Len(d) |-> K[i]]
    BY <1>4
  <2> QED
    BY <1>7, <2>1
<1>9. Steps(K, t, d)
  BY <1>3, <1>5 DEF Steps
<1> QED
  BY <1>8, <1>9

\* A walk ends in a tracker.
LEMMA WalkedType ==
  ASSUME ProcAssumption, NEW t \in Trackers, NEW d, Datagram(d)
  PROVE  Walked(t, d) \in Trackers
<1>1. d \in Seq(Message) /\ Len(d) \in Nat
  BY LenProperties DEF Datagram
<1>2. PICK k \in [0 .. Len(d) -> Trackers] : Steps(k, t, d)
  BY <1>1, WalkedSteps
<1> QED
  BY <1>1, <1>2 DEF Steps

\* A number that goes on from another, with the losses there were in between.
Follows(last, seq, after) == after <= Half /\ seq = (last + 1 + after) % Modulus

\* A datagram is noted: its cpu's last number moves to its last, and what is
\* counted as missed is what was lost.
LEMMA WalkedDatagram ==
  ASSUME ProcAssumption, NEW t \in Trackers, NEW d, Datagram(d),
         t.last[d[1].cpu] # None => Follows(t.last[d[1].cpu], d[1].seq, d[1].after)
  PROVE  /\ Walked(t, d) \in Trackers
         /\ Walked(t, d).last = [t.last EXCEPT ![d[1].cpu] = d[Len(d)].seq]
         /\ t.missed = t.lost => Walked(t, d).missed = Walked(t, d).lost
<1> DEFINE c == d[1].cpu
<1>0. /\ d \in Seq(Message) /\ Len(d) \in Nat /\ Len(d) >= 1
      /\ \A i \in 1 .. Len(d) : d[i] \in Message /\ d[i].cpu = c /\ d[i].seq \in Numbers
                                /\ d[i].after \in Nat
      /\ \A i \in 2 .. Len(d) : d[i].after = 0 /\ d[i].seq = (d[i - 1].seq + 1) % Modulus
  <2>1. d \in Seq(Message) /\ Len(d) \in Nat /\ Len(d) >= 1
    BY LenProperties DEF Datagram
  <2>2. \A i \in 1 .. Len(d) : d[i] \in Message /\ d[i].cpu = c
    BY <2>1, ElementOfSeq DEF Datagram
  <2>3. \A i \in 1 .. Len(d) : d[i].seq \in Numbers /\ d[i].after \in Nat
    BY <2>2 DEF Message
  <2>4. \A i \in 2 .. Len(d) : d[i].after = 0 /\ d[i].seq = (d[i - 1].seq + 1) % Modulus
    <3> TAKE i \in 2 .. Len(d)
    <3>1. i \in 1 .. Len(d) /\ i > 1
      BY <2>1
    <3> QED
      BY <3>1 DEF Datagram
  <2> QED
    BY <2>1, <2>2, <2>3, <2>4
<1>1. PICK k \in [0 .. Len(d) -> Trackers] : Steps(k, t, d)
  BY <1>0, WalkedSteps
<1>2. c \in Cpus /\ t.last \in [Cpus -> Numbers \cup {None}]
  BY <1>0 DEF Message, Trackers
<1> DEFINE J(i) == /\ k[i].last = IF i = 0 THEN t.last ELSE [t.last EXCEPT ![c] = d[i].seq]
                   /\ t.missed = t.lost => k[i].missed = k[i].lost
           T == {i \in 0 .. Len(d) : ~J(i)}
<1>3. J(0)
  BY <1>1 DEF Steps
<1>4. ASSUME NEW m \in 1 .. Len(d), J(m - 1) PROVE J(m)
  <2> DEFINE u == k[m - 1]
  <2>1. u \in Trackers /\ k[m] = Note(u, d[m]) /\ d[m] \in Message /\ d[m].cpu = c
    BY <1>0, <1>1, SMTT(30) DEF Steps
  <2>2. /\ k[m].last = [u.last EXCEPT ![c] = d[m].seq]
        /\ u.last[c] = None => k[m].missed = u.missed /\ k[m].lost = u.lost
        /\ u.last[c] # None => /\ k[m].missed = u.missed + Missed(u.last[c], d[m].seq)
                               /\ k[m].lost = u.lost + d[m].after
    BY <2>1, NoteType, SMTT(30)
  <2>3. u.last = IF m - 1 = 0 THEN t.last ELSE [t.last EXCEPT ![c] = d[m - 1].seq]
    BY <1>4
  <2>4. k[m].last = [t.last EXCEPT ![c] = d[m].seq]
    BY <1>2, <2>2, <2>3
  <2>5. u.last[c] # None => Missed(u.last[c], d[m].seq) = d[m].after
    <3>1. CASE m = 1
      <4>1. u.last[c] = t.last[c] /\ d[m] = d[1]
        BY <2>3, <3>1
      <4>2. ASSUME t.last[c] # None
            PROVE  Missed(t.last[c], d[1].seq) = d[1].after
        <5>1. t.last[c] \in Numbers
          BY <1>2, <4>2
        <5>2. Follows(t.last[c], d[1].seq, d[1].after)
          BY <1>0, <4>2, Zenon
        <5>3. d[1].after <= Half /\ d[1].seq = (t.last[c] + 1 + d[1].after) % Modulus
          BY <5>2 DEF Follows
        <5>4. 1 \in 1 .. Len(d)
          BY <1>0
        <5>5. d[1].after \in Nat
          BY <1>0, <5>4, Zenon
        <5>6. d[1].after \in 0 .. Half
          BY <5>3, <5>5, HalfIsLess
        <5> QED
          BY <5>1, <5>3, <5>6, MissedBetween
      <4> QED
        BY <4>1, <4>2
    <3>2. CASE m # 1
      <4>1. m - 1 \in 1 .. Len(d) /\ m \in 2 .. Len(d) /\ m - 1 # 0
        BY <1>0, <3>2
      <4>2. u.last[c] = d[m - 1].seq /\ d[m - 1].seq \in Numbers
        BY <1>0, <1>2, <2>3, <4>1
      <4>3. d[m].after = 0 /\ d[m].seq = (d[m - 1].seq + 1) % Modulus
        BY <1>0, <4>1
      <4>4. 0 \in 0 .. Half /\ d[m].seq = (d[m - 1].seq + 1 + 0) % Modulus
        BY <4>2, <4>3, HalfIsLess DEF Numbers
      <4> QED
        BY <4>2, <4>3, <4>4, MissedBetween
    <3> QED
      BY <3>1, <3>2
  <2>6. t.missed = t.lost => k[m].missed = k[m].lost
    BY <1>4, <2>2, <2>5
  <2>7. m # 0
    BY <1>0
  <2> QED
    BY <2>4, <2>6, <2>7
<1> HIDE DEF J
<1>5. T = {}
  <2> SUFFICES ASSUME T # {} PROVE FALSE
    OBVIOUS
  <2>1. T \in SUBSET Nat
    BY <1>0
  <2>2. PICK m \in T : \A n \in T : m <= n
    BY <2>1, Least
  <2>3. m # 0 /\ m \in 1 .. Len(d) /\ ~J(m)
    BY <1>0, <1>3, <2>2
  <2>4. m - 1 \in 0 .. Len(d) /\ m - 1 \notin T
    BY <1>0, <2>2, <2>3
  <2> QED
    BY <1>4, <2>3, <2>4
<1>6. J(Len(d)) /\ Len(d) # 0
  BY <1>0, <1>5
<1>7. Walked(t, d) = k[Len(d)] /\ k[Len(d)] \in Trackers
  BY <1>0, <1>1 DEF Steps
<1> QED
  BY <1>6, <1>7 DEF J

-----------------------------------------------------------------------------
(* What the steps come to.                                                  *)

Emits(c, d) ==
  /\ c \in Cpus /\ Datagram(d) /\ d[1].cpu = c
  /\ d[1].seq = counter[c] /\ d[1].after = gone[c]
  /\ (d[Len(d)].seq + 1) % Modulus = counter'[c]
  /\ wire' = Append(wire, d) /\ tracker' = tracker
  /\ counter' = [counter EXCEPT ![c] = counter'[c]]
  /\ gone' = [gone EXCEPT ![c] = 0]
Loses(c) ==
  /\ c \in Cpus
  /\ counter' = [counter EXCEPT ![c] = (counter[c] + 1) % Modulus]
  /\ gone' = [gone EXCEPT ![c] = gone[c] + 1]
  /\ UNCHANGED <<wire, tracker>>
Drops ==
  /\ wire # <<>> /\ wire' = Tail(wire)
  /\ \A c \in Cpus : tracker.last[c] = None
  /\ UNCHANGED <<counter, gone, tracker>>
Notes ==
  /\ wire # <<>> /\ wire' = Tail(wire)
  /\ tracker' = Walked(tracker, wire[1])
  /\ UNCHANGED <<counter, gone>>
Rests == UNCHANGED <<counter, gone, wire, tracker>>

\* The datagram of a batch.
Batch(c, kinds) ==
  [i \in 1 .. Len(kinds) |-> [cpu |-> c, seq |-> (counter[c] + i - 1) % Modulus,
                              after |-> IF i = 1 THEN gone[c] ELSE 0,
                              forwarded |-> kinds[i]]]

\* What a cpu emits at once has consecutive numbers, and all its losses
\* before the first.
LEMMA BatchIsDatagram ==
  ASSUME ProcAssumption, KernelTyped, NEW c \in Cpus, NEW kinds \in Batches
  PROVE  LET d == Batch(c, kinds)
             n == Len(kinds)
         IN /\ Datagram(d) /\ Len(d) = n /\ n \in Nat /\ n >= 1
            /\ d[1].cpu = c /\ d[1].seq = counter[c] /\ d[1].after = gone[c]
            /\ (d[Len(d)].seq + 1) % Modulus = (counter[c] + n) % Modulus
            /\ (counter[c] + n) % Modulus \in Numbers
<1> DEFINE d == Batch(c, kinds)
           n == Len(kinds)
<1>0. /\ Modulus \in Nat /\ Modulus > 1 /\ counter[c] \in 0 .. Modulus - 1
      /\ counter[c] \in Int /\ gone[c] \in Nat
  BY HalfIsLess DEF KernelTyped, Numbers
<1>1. n \in Nat /\ n >= 1 /\ \A i \in 1 .. n : kinds[i] \in BOOLEAN
  <2>1. PICK m \in 1 .. MaxBatch : kinds \in [1 .. m -> BOOLEAN]
    BY DEF Batches
  <2>2. m \in Nat /\ m >= 1
    BY <2>1 DEF ProcAssumption
  <2>3. kinds \in Seq(BOOLEAN) /\ Len(kinds) = m
    BY <2>1, <2>2, SeqDef, LenProperties
  <2> QED
    BY <2>1, <2>2, <2>3
<1> DEFINE seq(i) == (counter[c] + i - 1) % Modulus
<1>2. \A i \in 1 .. n : seq(i) \in Numbers
  <2> TAKE i \in 1 .. n
  <2> DEFINE x == counter[c] + i - 1
  <2>1. x \in Int
    BY <1>0, <1>1
  <2> HIDE DEF x
  <2>2. x % Modulus \in 0 .. Modulus - 1
    BY <1>0, <2>1
  <2> QED
    BY <2>2 DEF x, Numbers
<1>3. \A i \in 1 .. n : (seq(i) + 1) % Modulus = (counter[c] + i) % Modulus
  <2> TAKE i \in 1 .. n
  <2> DEFINE x == counter[c] + i - 1
  <2>1. x \in Int /\ 1 \in Int /\ x + 1 = counter[c] + i
    BY <1>0, <1>1
  <2> HIDE DEF x
  <2>2. ((x % Modulus) + 1) % Modulus = (x + 1) % Modulus
    BY <1>0, <2>1, AddLater
  <2>3. x % Modulus = seq(i)
    BY DEF x
  <2> HIDE DEF seq
  <2> QED
    BY <2>1, <2>2, <2>3
<1>4. seq(1) = counter[c]
  BY <1>0
<1>5. \A i \in 1 .. n : i > 1 => seq(i) = (seq(i - 1) + 1) % Modulus
  <2> TAKE i \in 1 .. n
  <2> HAVE i > 1
  <2>1. i - 1 \in 1 .. n
    BY <1>1
  <2>2. (seq(i - 1) + 1) % Modulus = (counter[c] + (i - 1)) % Modulus
    BY <1>3, <2>1
  <2>3. counter[c] + (i - 1) = counter[c] + i - 1
    BY <1>0, <1>1
  <2>4. seq(i) = (counter[c] + (i - 1)) % Modulus
    BY <2>3
  <2> HIDE DEF seq
  <2> QED
    BY <2>2, <2>4
<1>6. (counter[c] + n) % Modulus \in Numbers
  <2> DEFINE x == counter[c] + n
  <2>1. x \in Int
    BY <1>0, <1>1
  <2> HIDE DEF x
  <2>2. x % Modulus \in 0 .. Modulus - 1
    BY <1>0, <2>1
  <2> QED
    BY <2>2 DEF x, Numbers
<1>7. d = [i \in 1 .. n |-> [cpu |-> c, seq |-> seq(i), after |-> IF i = 1 THEN gone[c] ELSE 0,
                             forwarded |-> kinds[i]]]
  BY DEF Batch
<1> HIDE DEF d, n, seq
<1>8. \A i \in 1 .. n : d[i] \in Message
  BY <1>0, <1>1, <1>2, <1>7 DEF Message
<1>9. d \in Seq(Message) /\ Len(d) = n
  <2>1. d \in [1 .. n -> Message]
    BY <1>7, <1>8
  <2> QED
    BY <1>1, <2>1, SeqDef, LenProperties
<1>10. \A i \in 1 .. n : d[i].cpu = c /\ d[i].seq = seq(i)
                         /\ d[i].after = IF i = 1 THEN gone[c] ELSE 0
  BY <1>7
<1>11. \A i \in 1 .. n : i > 1 => d[i].after = 0 /\ d[i].seq = (d[i - 1].seq + 1) % Modulus
  <2> TAKE i \in 1 .. n
  <2> HAVE i > 1
  <2>1. i - 1 \in 1 .. n /\ i # 1
    BY <1>1
  <2>2. d[i - 1].seq = seq(i - 1) /\ d[i].seq = seq(i) /\ d[i].after = 0
    BY <1>10, <2>1
  <2> QED
    BY <1>5, <2>2
<1>12. 1 \in 1 .. n /\ n \in 1 .. n
  BY <1>1
<1>13. Datagram(d)
  BY <1>1, <1>9, <1>10, <1>11, <1>12 DEF Datagram
<1>14. d[1].cpu = c /\ d[1].seq = counter[c] /\ d[1].after = gone[c]
  BY <1>4, <1>10, <1>12
<1>15. (d[Len(d)].seq + 1) % Modulus = (counter[c] + n) % Modulus
  BY <1>3, <1>9, <1>10, <1>12
<1> QED
  BY <1>1, <1>6, <1>9, <1>13, <1>14, <1>15 DEF d, n

\* One datagram more keeps the wire's type.
LEMMA WireGrows ==
  ASSUME WireTyped, NEW d, Datagram(d), wire' = Append(wire, d), Len(wire) < MaxInFlight,
         MaxInFlight \in Nat
  PROVE  WireTyped'
<1>1. /\ wire \in Seq(Seq(Message)) /\ d \in Seq(Message) /\ Len(wire) \in Nat
      /\ \A i \in 1 .. Len(wire) : Datagram(wire[i])
  BY LenProperties DEF WireTyped, Datagram
<1>2. /\ wire' \in Seq(Seq(Message)) /\ Len(wire') = Len(wire) + 1
      /\ \A i \in 1 .. Len(wire) : wire'[i] = wire[i]
      /\ wire'[Len(wire) + 1] = d
  BY <1>1, AppendProperties
<1>3. \A i \in 1 .. Len(wire') : i \in 1 .. Len(wire) \/ i = Len(wire) + 1
  BY <1>1, <1>2
<1>4. \A i \in 1 .. Len(wire') : Datagram(wire'[i])
  BY <1>1, <1>2, <1>3
<1>5. Len(wire') <= MaxInFlight
  BY <1>1, <1>2
<1>6. \A i \in 1 .. Len(wire') : Datagram(wire[i])'
  BY <1>4 DEF Datagram
<1> QED
  BY <1>2, <1>5, <1>6 DEF WireTyped

\* Reading a datagram moves the others up by one.
LEMMA WireShrinks ==
  ASSUME WireTyped, wire # <<>>, wire' = Tail(wire), MaxInFlight \in Nat
  PROVE  /\ WireTyped' /\ Len(wire) \in Nat /\ Len(wire) >= 1 /\ Len(wire') = Len(wire) - 1
         /\ \A i \in 1 .. Len(wire') : wire'[i] = wire[i + 1] /\ i + 1 \in 1 .. Len(wire)
         /\ Head(wire) = wire[1] /\ Datagram(wire[1])
<1>1. /\ wire \in Seq(Seq(Message)) /\ Len(wire) \in Nat /\ Len(wire) >= 1
      /\ wire' \in Seq(Seq(Message)) /\ Len(wire') = Len(wire) - 1
      /\ \A i \in 1 .. Len(wire') : wire'[i] = wire[i + 1]
      /\ Head(wire) = wire[1]
  BY HeadTailProperties, LenProperties DEF WireTyped
<1>2. \A i \in 1 .. Len(wire') : i + 1 \in 1 .. Len(wire)
  BY <1>1
<1>3. \A i \in 1 .. Len(wire') : Datagram(wire'[i])
  BY <1>1, <1>2 DEF WireTyped
<1>4. Len(wire') <= MaxInFlight
  BY <1>1 DEF WireTyped
<1>5. \A i \in 1 .. Len(wire') : Datagram(wire[i])'
  BY <1>3 DEF Datagram
<1>6. WireTyped'
  BY <1>1, <1>4, <1>5 DEF WireTyped
<1>7. 1 \in 1 .. Len(wire)
  BY <1>1
<1>8. Datagram(wire[1])
  BY <1>7 DEF WireTyped
<1> QED
  BY <1>1, <1>2, <1>6, <1>8

\* A cpu that emits appends one datagram.
LEMMA StepEmit ==
  ASSUME ProcAssumption, ProcShape, NEW c \in Cpus, NEW kinds \in Batches, Emit(c, kinds)
  PROVE  ProcShape' /\ \E d : Emits(c, d)
<1> DEFINE d == Batch(c, kinds)
           n == Len(kinds)
           num == (counter[c] + n) % Modulus
<1>1. /\ Datagram(d) /\ Len(d) = n /\ n \in Nat /\ n >= 1
      /\ d[1].cpu = c /\ d[1].seq = counter[c] /\ d[1].after = gone[c]
      /\ (d[Len(d)].seq + 1) % Modulus = num
      /\ num \in Numbers
  BY BatchIsDatagram DEF ProcShape
<1>2. /\ Len(wire) < MaxInFlight /\ spent + n <= MaxMessages /\ spent' = spent + n
      /\ wire' = Append(wire, d)
      /\ counter' = [counter EXCEPT ![c] = num]
      /\ gone' = [gone EXCEPT ![c] = 0]
      /\ UNCHANGED <<kernel, watcher, tracker, unforwarded>>
  BY DEF Emit, Batch
<1> HIDE DEF d, n, num
<1>3. MaxMessages \in Nat /\ MaxInFlight \in Nat
  BY DEF ProcAssumption
<1>4. KernelTyped'
  BY <1>1, <1>2, <1>3 DEF ProcShape, KernelTyped
<1>5. WireTyped'
  BY <1>1, <1>2, <1>3, WireGrows DEF ProcShape
<1>6. WatcherTyped' /\ TrackerTyped'
  BY <1>2 DEF ProcShape, WatcherTyped, TrackerTyped
<1>7. counter'[c] = num
  BY <1>2 DEF ProcShape, KernelTyped
<1>8. Emits(c, d)
  BY <1>1, <1>2, <1>7 DEF Emits
<1> QED
  BY <1>4, <1>5, <1>6, <1>8 DEF ProcShape

\* An event the kernel could not deliver costs a number and nothing else.
LEMMA StepLose ==
  ASSUME ProcAssumption, ProcShape, NEW c \in Cpus, Lose(c)
  PROVE  ProcShape' /\ Loses(c)
<1>0. /\ Modulus \in Nat /\ Modulus > 1 /\ counter[c] \in Int /\ MaxMessages \in Nat
  BY HalfIsLess DEF ProcAssumption, ProcShape, KernelTyped, Numbers
<1> DEFINE num == (counter[c] + 1) % Modulus
<1>1. num \in Numbers
  BY <1>0 DEF Numbers
<1>2. /\ spent < MaxMessages /\ spent' = spent + 1
      /\ counter' = [counter EXCEPT ![c] = num]
      /\ gone' = [gone EXCEPT ![c] = gone[c] + 1]
      /\ UNCHANGED <<wire, watcher, tracker>>
  BY DEF Lose
<1>3. Loses(c)
  BY <1>2 DEF Loses
<1> HIDE DEF num
<1>4. KernelTyped'
  BY <1>0, <1>1, <1>2 DEF ProcShape, KernelTyped
<1>5. WireTyped' /\ WatcherTyped' /\ TrackerTyped'
  BY <1>2 DEF ProcShape, WireTyped, WatcherTyped, TrackerTyped, Datagram
<1> QED
  BY <1>3, <1>4, <1>5 DEF ProcShape

\* A cpu starts its numbers anew only where Restarting allows it.
LEMMA StepRestart ==
  ASSUME ProcAssumption, ProcShape, NEW c \in Cpus, Restart(c)
  PROVE  ProcShape' /\ Restarting
<1>1. /\ Restarting /\ spent < MaxMessages /\ spent' = spent + 1
      /\ counter' = [counter EXCEPT ![c] = 0] /\ gone' = [gone EXCEPT ![c] = 0]
      /\ UNCHANGED <<wire, watcher, tracker>>
  BY DEF Restart
<1>2. 0 \in Numbers /\ MaxMessages \in Nat
  BY DEF ProcAssumption, Numbers
<1>3. KernelTyped'
  BY <1>1, <1>2 DEF ProcShape, KernelTyped
<1>4. WireTyped' /\ WatcherTyped' /\ TrackerTyped'
  BY <1>1 DEF ProcShape, WireTyped, WatcherTyped, TrackerTyped, Datagram
<1> QED
  BY <1>1, <1>3, <1>4 DEF ProcShape

\* Where the watcher goes, and with what rounds.
LEMMA WatcherGoes ==
  ASSUME ProcAssumption, WatcherTyped,
         \/ \E to \in {"ack", "failed"} : watcher.at = "off" /\ Moves(to)
         \/ \E to \in {"test", "failed"} : watcher.at = "ack" /\ Moves(to)
         \/ \E live \in BOOLEAN : watcher.at = "test" /\ Round(live)
         \/ \E to \in {"failed", "closed"} : watcher.at \in {"test", "live"} /\ Moves(to)
         \/ UNCHANGED watcher
  PROVE  /\ WatcherTyped'
         /\ watcher'.at \in {"off", "ack", "test"} => watcher.at \in {"off", "ack", "test"}
<1>0. /\ watcher \in [at : {"off", "ack", "test", "live", "failed", "closed"}, rounds : 0 .. ROUNDS]
      /\ watcher.at \in {"off", "ack", "test"} => watcher.rounds > 0
      /\ ROUNDS \in Nat
  BY DEF WatcherTyped, ProcAssumption
<1>1. CASE \E live \in BOOLEAN : watcher.at = "test" /\ Round(live)
  <2>1. PICK live \in BOOLEAN : watcher.at = "test" /\ Round(live)
    BY <1>1
  <2>2. watcher' = [watcher EXCEPT !.at = AfterRound(live), !.rounds = watcher.rounds - 1]
    BY <2>1 DEF Round
  <2>3. /\ AfterRound(live) \in {"live", "failed", "test"}
        /\ AfterRound(live) = "test" => watcher.rounds # 1
    BY DEF AfterRound
  <2>4. watcher.rounds - 1 \in 0 .. ROUNDS
    BY <1>0, <2>1
  <2>5. /\ watcher' \in [at : {"off", "ack", "test", "live", "failed", "closed"}, rounds : 0 .. ROUNDS]
        /\ watcher'.at = AfterRound(live) /\ watcher'.rounds = watcher.rounds - 1
    BY <1>0, <2>2, <2>3, <2>4
  <2> QED
    BY <1>0, <2>1, <2>3, <2>5 DEF WatcherTyped
<1>2. ASSUME NEW to \in {"ack", "test", "failed", "closed"}, Moves(to),
             to = "ack" => watcher.at = "off", to = "test" => watcher.at = "ack"
      PROVE  /\ WatcherTyped'
             /\ watcher'.at \in {"off", "ack", "test"} => watcher.at \in {"off", "ack", "test"}
  <2>1. /\ watcher' \in [at : {"off", "ack", "test", "live", "failed", "closed"}, rounds : 0 .. ROUNDS]
        /\ watcher'.at = to /\ watcher'.rounds = watcher.rounds
    BY <1>0, <1>2 DEF Moves
  <2> QED
    BY <1>0, <1>2, <2>1 DEF WatcherTyped
<1>3. CASE UNCHANGED watcher
  BY <1>3 DEF WatcherTyped
<1> QED
  BY <1>1, <1>2, <1>3

\* A step of the reader drops a datagram, notes one, or leaves the numbers
\* alone.
LEMMA StepWatch ==
  ASSUME ProcAssumption, ProcShape, Watch
  PROVE  ProcShape' /\ (Drops \/ Notes \/ Rests)
<1>1. UNCHANGED <<counter, gone, spent>>
  BY DEF Watch, Subscribe, Acknowledge, SelfTest, TestBroken, Forward, Drained, Broken, Quiet
<1>2. KernelTyped'
  BY <1>1 DEF ProcShape, KernelTyped
<1>3. /\ WatcherTyped'
      /\ watcher'.at \in {"off", "ack", "test"} => watcher.at \in {"off", "ack", "test"}
  <2>1. \/ \E to \in {"ack", "failed"} : watcher.at = "off" /\ Moves(to)
        \/ \E to \in {"test", "failed"} : watcher.at = "ack" /\ Moves(to)
        \/ \E live \in BOOLEAN : watcher.at = "test" /\ Round(live)
        \/ \E to \in {"failed", "closed"} : watcher.at \in {"test", "live"} /\ Moves(to)
        \/ UNCHANGED watcher
    BY DEF Watch, Subscribe, Acknowledge, SelfTest, TestBroken, Forward, Drained, Broken, Parses
  <2> QED
    BY <2>1, WatcherGoes DEF ProcShape
<1>4. CASE Received /\ tracker' = tracker /\ watcher.at \in {"ack", "test"}
  <2>1. wire # <<>> /\ wire' = Tail(wire)
    BY <1>4 DEF Received
  <2>2. WireTyped'
    BY <2>1, WireShrinks DEF ProcShape, ProcAssumption
  <2>3. TrackerTyped' /\ Drops
    BY <1>1, <1>4, <2>1 DEF ProcShape, TrackerTyped, Drops
  <2> QED
    BY <1>2, <1>3, <2>2, <2>3 DEF ProcShape
<1>5. CASE Forward
  <2>1. wire # <<>> /\ wire' = Tail(wire) /\ tracker' = Walked(tracker, Head(wire))
        /\ watcher.at = "live"
    BY <1>5 DEF Forward, Received
  <2>2. WireTyped' /\ Head(wire) = wire[1] /\ Datagram(wire[1])
    BY <2>1, WireShrinks DEF ProcShape, ProcAssumption
  <2>3. tracker' \in Trackers
    BY <2>1, <2>2, WalkedType DEF ProcShape, TrackerTyped
  <2>4. TrackerTyped'
    BY <1>3, <2>1, <2>3 DEF TrackerTyped
  <2>5. Notes
    BY <1>1, <2>1, <2>2 DEF Notes
  <2> QED
    BY <1>2, <1>3, <2>2, <2>4, <2>5 DEF ProcShape
<1>6. CASE UNCHANGED <<wire, tracker>>
  <2>1. WireTyped' /\ TrackerTyped'
    BY <1>3, <1>6 DEF ProcShape, WireTyped, TrackerTyped, Datagram
  <2> QED
    BY <1>1, <1>2, <1>3, <1>6, <2>1 DEF ProcShape, Rests
<1>7. \/ Received /\ tracker' = tracker /\ watcher.at \in {"ack", "test"}
      \/ Forward
      \/ UNCHANGED <<wire, tracker>>
  BY DEF Watch, Subscribe, Acknowledge, SelfTest, TestBroken, Drained, Broken, Quiet
<1> QED
  BY <1>4, <1>5, <1>6, <1>7

\* Every step is one of the moves; ProcShape is inductive.
LEMMA ProcMoves ==
  ASSUME ProcAssumption, ProcShape, [ProcNext]_procVars
  PROVE  /\ ProcShape'
         /\ \/ \E c, d : Emits(c, d)
            \/ \E c \in Cpus : Loses(c)
            \/ Drops \/ Notes \/ Rests
            \/ Restarting
<1>1. CASE UNCHANGED procVars
  BY <1>1 DEF procVars, ProcShape, KernelTyped, WireTyped, WatcherTyped, TrackerTyped, Datagram,
              Rests
<1>2. CASE ProcNext
  <2>1. CASE Watch
    BY <2>1, StepWatch
  <2>2. CASE Kernel
    <3>1. PICK c \in Cpus : (\E kinds \in Batches : Emit(c, kinds)) \/ Lose(c) \/ Restart(c)
      BY <2>2 DEF Kernel
    <3> QED
      BY <3>1, StepEmit, StepLose, StepRestart
  <2> QED
    BY <1>2, <2>1, <2>2 DEF ProcNext
<1> QED
  BY <1>1, <1>2

\* ProcShape holds at first.
LEMMA ProcShapeInit ==
  ASSUME ProcAssumption, ProcInit
  PROVE  ProcShape
<1>1. KernelTyped
  BY DEF ProcInit, ProcAssumption, KernelTyped
<1>2. wire = <<>> /\ Len(wire) = 0 /\ wire \in Seq(Seq(Message))
  BY EmptySeq DEF ProcInit
<1>3. WireTyped
  BY <1>2 DEF WireTyped, ProcAssumption
<1>4. WatcherTyped /\ TrackerTyped
  BY DEF ProcInit, ProcAssumption, WatcherTyped, TrackerTyped, Trackers
<1> QED
  BY <1>1, <1>3, <1>4 DEF ProcShape

\* Every variable has its type, and a self-test that goes on has rounds left
\* (proc_events.rs: watch, self_test, SeqTracker).
THEOREM ProcTypeCorrect ==
  ASSUME ProcAssumption
  PROVE  ProcSpec => []ProcTypeOK
<1>1. ProcInit => ProcShape
  BY ProcShapeInit
<1>2. ProcShape /\ [ProcNext]_procVars => ProcShape'
  BY ProcMoves
<1>3. ProcShape => ProcTypeOK
  BY ProcShapeTyped
<1> QED
  BY <1>1, <1>2, <1>3, PTL DEF ProcSpec

-----------------------------------------------------------------------------
(* The numbers of a cpu, from the last that was noted to the next.          *)

\* Position 0 is the tracker, the datagrams follow, and the kernel comes last:
\* the number a position leaves behind, and the one it goes on with.
Out(i, c) == IF i = 0 THEN tracker.last[c] ELSE wire[i][Len(wire[i])].seq
Leaves(i, c) == IF i = 0 THEN tracker.last[c] # None ELSE wire[i][1].cpu = c
In(j, c) == IF j = Len(wire) + 1 THEN counter[c] ELSE wire[j][1].seq
After(j, c) == IF j = Len(wire) + 1 THEN gone[c] ELSE wire[j][1].after
Enters(j, c) == j = Len(wire) + 1 \/ wire[j][1].cpu = c

\* Where one goes on from the other, with nothing of the cpu in between.
Link(i, j, c) ==
  Leaves(i, c) /\ Enters(j, c) /\ (\A k \in i + 1 .. j - 1 : ~Leaves(k, c)) =>
    In(j, c) = (Out(i, c) + 1 + After(j, c)) % Modulus

Linked ==
  \A c \in Cpus : \A i \in 0 .. Len(wire) : \A j \in 1 .. Len(wire) + 1 :
    i < j => Link(i, j, c)

\* Half the numbers were never lost between two messages of a cpu.
FewGone == \A c \in Cpus : gone[c] <= Half
FewBefore == \A i \in 1 .. Len(wire) : wire[i][1].after <= Half

\* The numbers Linked is about are integers.
LEMMA LinkTypes ==
  ASSUME ProcAssumption, ProcShape
  PROVE  /\ Len(wire) \in Nat /\ Modulus \in Nat /\ Modulus > 1 /\ Numbers \subseteq Int
         /\ \A c \in Cpus : counter[c] \in Int /\ gone[c] \in Nat
         /\ \A i \in 1 .. Len(wire) :
              /\ Len(wire[i]) \in Nat /\ Len(wire[i]) >= 1 /\ wire[i][1].cpu \in Cpus
              /\ wire[i][1].seq \in Int /\ wire[i][1].after \in Nat
              /\ wire[i][Len(wire[i])].seq \in Int
         /\ \A c \in Cpus : \A i \in 0 .. Len(wire) : Leaves(i, c) => Out(i, c) \in Int
<1>1. Len(wire) \in Nat /\ Modulus \in Nat /\ Modulus > 1 /\ Numbers \subseteq Int
  BY HalfIsLess, LenProperties DEF ProcShape, WireTyped, Numbers
<1>2. \A c \in Cpus : counter[c] \in Int /\ gone[c] \in Nat
  BY <1>1 DEF ProcShape, KernelTyped
<1>3. ASSUME NEW i \in 1 .. Len(wire)
      PROVE  /\ Len(wire[i]) \in Nat /\ Len(wire[i]) >= 1 /\ wire[i][1].cpu \in Cpus
             /\ wire[i][1].seq \in Int /\ wire[i][1].after \in Nat
             /\ wire[i][Len(wire[i])].seq \in Int
  <2>1. Datagram(wire[i])
    BY DEF ProcShape, WireTyped
  <2>2. wire[i] \in Seq(Message) /\ Len(wire[i]) \in Nat /\ Len(wire[i]) >= 1
    BY <2>1, LenProperties DEF Datagram
  <2>3. 1 \in 1 .. Len(wire[i]) /\ Len(wire[i]) \in 1 .. Len(wire[i])
    BY <2>2
  <2>4. wire[i][1] \in Message /\ wire[i][Len(wire[i])] \in Message
    BY <2>2, <2>3, ElementOfSeq
  <2> QED
    BY <1>1, <2>2, <2>4 DEF Message
<1>4. ASSUME NEW c \in Cpus, NEW i \in 0 .. Len(wire), Leaves(i, c) PROVE Out(i, c) \in Int
  <2>1. CASE i = 0
    <3>1. tracker.last[c] # None /\ tracker.last \in [Cpus -> Numbers \cup {None}]
      BY <1>4, <2>1 DEF Leaves, ProcShape, TrackerTyped, Trackers
    <3> QED
      BY <1>1, <2>1, <3>1 DEF Out
  <2>2. CASE i # 0
    <3>1. i \in 1 .. Len(wire)
      BY <1>1, <2>2
    <3> QED
      BY <1>3, <2>2, <3>1 DEF Out
  <2> QED
    BY <2>1, <2>2
<1> QED
  BY <1>1, <1>2, <1>3, <1>4

\* A datagram links up with the one of its cpu before it.
LEMMA LinkEmits ==
  ASSUME ProcAssumption, ProcShape, Linked, NEW c, NEW d, Emits(c, d),
         NEW L, L = Len(wire)
  PROVE  Linked'
<1>1. /\ L \in Nat /\ c \in Cpus /\ Datagram(d) /\ d[1].cpu = c
      /\ d[1].seq = counter[c] /\ d[1].after = gone[c]
      /\ (d[Len(d)].seq + 1) % Modulus = counter'[c]
      /\ tracker' = tracker
  BY LinkTypes DEF Emits
<1>2. /\ Len(wire') = L + 1 /\ wire'[L + 1] = d
      /\ \A i \in 1 .. L : wire'[i] = wire[i]
  <2>1. wire \in Seq(Seq(Message)) /\ d \in Seq(Message) /\ wire' = Append(wire, d)
    BY <1>1 DEF ProcShape, WireTyped, Datagram, Emits
  <2> QED
    BY <2>1, AppendProperties
<1>3. /\ gone'[c] = 0
      /\ \A b \in Cpus \ {c} : counter'[b] = counter[b] /\ gone'[b] = gone[b]
  BY <1>1 DEF ProcShape, KernelTyped, Emits
<1>4. d[Len(d)].seq \in Int
  <2>1. d \in Seq(Message) /\ Len(d) \in 1 .. Len(d)
    BY <1>1, LenProperties DEF Datagram
  <2>2. d[Len(d)] \in Message
    BY <2>1, ElementOfSeq
  <2> QED
    BY <2>2, HalfIsLess DEF Message, Numbers
<1> SUFFICES ASSUME NEW b \in Cpus, NEW i \in 0 .. L + 1, NEW j \in 1 .. L + 2, i < j
             PROVE  Link(i, j, b)'
  BY <1>1, <1>2 DEF Linked
<1>5. i \in 0 .. L => Out(i, b)' = Out(i, b)
  BY <1>1, <1>2 DEF Out
<1>6. \A k \in 0 .. L : Leaves(k, b)' <=> Leaves(k, b)
  BY <1>1, <1>2 DEF Leaves
<1>7. CASE j \in 1 .. L
  <2>1. /\ In(j, b)' = In(j, b) /\ After(j, b)' = After(j, b) /\ (Enters(j, b)' <=> Enters(j, b))
    BY <1>1, <1>2, <1>7 DEF In, After, Enters
  <2>2. i \in 0 .. L /\ i + 1 .. j - 1 \subseteq 0 .. L
    BY <1>1, <1>7
  <2>3. Link(i, j, b)
    BY <1>1, <1>7, <2>2 DEF Linked
  <2> QED
    BY <1>5, <1>6, <2>1, <2>2, <2>3 DEF Link
<1>8. CASE j = L + 1
  <2>1. i \in 0 .. L /\ i + 1 .. j - 1 \subseteq 0 .. L
    BY <1>1, <1>8
  <2>2. Link(i, j, b)
    BY <1>1, <1>8, <2>1 DEF Linked
  <2>3. In(j, b)' = d[1].seq /\ After(j, b)' = d[1].after /\ (Enters(j, b)' <=> b = c)
    BY <1>1, <1>2, <1>8 DEF In, After, Enters
  <2>4. In(j, b) = counter[b] /\ After(j, b) = gone[b] /\ Enters(j, b)
    BY <1>8 DEF In, After, Enters
  <2> QED
    BY <1>1, <1>5, <1>6, <2>1, <2>2, <2>3, <2>4 DEF Link
<1>9. CASE j = L + 2
  <2>1. In(j, b)' = counter'[b] /\ After(j, b)' = gone'[b]
    BY <1>1, <1>2, <1>9 DEF In, After
  <2>2. CASE b = c /\ i = L + 1
    <3>1. Out(i, b)' = d[Len(d)].seq
      BY <1>1, <1>2, <2>2 DEF Out
    <3>2. d[Len(d)].seq + 1 = d[Len(d)].seq + 1 + 0
      BY <1>4
    <3> QED
      BY <1>1, <1>3, <2>1, <2>2, <3>1, <3>2 DEF Link
  <2>3. CASE b = c /\ i # L + 1
    <3>1. L + 1 \in i + 1 .. j - 1
      BY <1>1, <1>9, <2>3
    <3>2. Leaves(L + 1, b)'
      BY <1>1, <1>2, <2>3 DEF Leaves
    <3> QED
      BY <3>1, <3>2 DEF Link
  <2>4. CASE b # c /\ i = L + 1
    <3>1. ~Leaves(i, b)'
      BY <1>1, <1>2, <2>4 DEF Leaves
    <3> QED
      BY <3>1 DEF Link
  <2>5. CASE b # c /\ i # L + 1
    <3>1. i \in 0 .. L /\ L + 1 \in 1 .. L + 1 /\ i < L + 1
          /\ (\A k \in i + 1 .. L + 1 - 1 : k \in i + 1 .. j - 1 /\ k \in 0 .. L)
      BY <1>1, <1>9, <2>5
    <3>2. Link(i, L + 1, b)
      BY <3>1 DEF Linked
    <3>3. In(L + 1, b) = counter[b] /\ After(L + 1, b) = gone[b] /\ Enters(L + 1, b)
      BY DEF In, After, Enters
    <3>4. counter'[b] = counter[b] /\ gone'[b] = gone[b]
      BY <1>3, <2>5
    <3>5. Out(i, b)' = Out(i, b) /\ (Leaves(i, b)' <=> Leaves(i, b))
      BY <1>5, <1>6, <3>1
    <3>6. (\A k \in i + 1 .. j - 1 : ~Leaves(k, b)') => \A k \in i + 1 .. L + 1 - 1 : ~Leaves(k, b)
      BY <1>6, <3>1
    <3> QED
      BY <2>1, <3>2, <3>3, <3>4, <3>5, <3>6 DEF Link
  <2> QED
    BY <2>2, <2>3, <2>4, <2>5
<1>10. j \in 1 .. L \/ j = L + 1 \/ j = L + 2
  BY <1>1
<1> QED
  BY <1>7, <1>8, <1>9, <1>10

\* A loss moves the counter and the count of what is gone alike.
LEMMA LinkLoses ==
  ASSUME ProcAssumption, ProcShape, Linked, NEW c, Loses(c),
         NEW L, L = Len(wire)
  PROVE  Linked'
<1>1. /\ L \in Nat /\ c \in Cpus /\ wire' = wire /\ tracker' = tracker
      /\ counter'[c] = (counter[c] + 1) % Modulus /\ gone'[c] = gone[c] + 1
      /\ \A b \in Cpus \ {c} : counter'[b] = counter[b] /\ gone'[b] = gone[b]
  BY LinkTypes DEF Loses, ProcShape, KernelTyped
<1> SUFFICES ASSUME NEW b \in Cpus, NEW i \in 0 .. L, NEW j \in 1 .. L + 1, i < j
             PROVE  Link(i, j, b)'
  BY <1>1 DEF Linked
<1>2. Link(i, j, b)
  BY DEF Linked
<1>3. /\ Out(i, b)' = Out(i, b) /\ (Enters(j, b)' <=> Enters(j, b))
      /\ \A k : Leaves(k, b)' <=> Leaves(k, b)
  BY <1>1 DEF Out, Enters, Leaves
<1>4. CASE j # L + 1 \/ b # c
  <2>1. In(j, b)' = In(j, b) /\ After(j, b)' = After(j, b)
    BY <1>1, <1>4 DEF In, After
  <2> QED
    BY <1>2, <1>3, <2>1 DEF Link
<1>5. CASE j = L + 1 /\ b = c
  <2>1. /\ In(j, b)' = (counter[c] + 1) % Modulus /\ After(j, b)' = gone[c] + 1
        /\ In(j, b) = counter[c] /\ After(j, b) = gone[c]
    BY <1>1, <1>5 DEF In, After
  <2>2. ASSUME Leaves(i, b), counter[c] = (Out(i, b) + 1 + gone[c]) % Modulus
        PROVE  (counter[c] + 1) % Modulus = (Out(i, b) + 1 + (gone[c] + 1)) % Modulus
    <3> DEFINE x == Out(i, b) + 1 + gone[c]
    <3>0. Out(i, b) \in Int /\ gone[c] \in Nat /\ Modulus \in Nat /\ Modulus > 1
      BY <1>1, <2>2, LinkTypes
    <3>1. x \in Int /\ 1 \in Int /\ x + 1 = Out(i, b) + 1 + (gone[c] + 1)
      BY <3>0
    <3>2. counter[c] = x % Modulus
      BY <2>2
    <3> HIDE DEF x
    <3>3. ((x % Modulus) + 1) % Modulus = (x + 1) % Modulus
      BY <3>0, <3>1, AddLater
    <3> QED
      BY <3>1, <3>2, <3>3
  <2> QED
    BY <1>2, <1>3, <2>1, <2>2 DEF Link
<1> QED
  BY <1>4, <1>5

\* The datagram in front goes: what was linked past it, from p, stays linked.
LEMMA LinkShifts ==
  ASSUME ProcAssumption, ProcShape, Linked, wire # <<>>, wire' = Tail(wire),
         UNCHANGED <<counter, gone>>, NEW b \in Cpus, NEW L, L = Len(wire),
         NEW i \in 0 .. L - 1, NEW j \in 1 .. L, i < j,
         NEW p \in 0 .. L, p <= i + 1,
         Leaves(i, b)' => Leaves(p, b) /\ Out(i, b)' = Out(p, b),
         \A k \in p + 1 .. i + 1 : ~Leaves(k, b)
  PROVE  Link(i, j, b)'
<1>1. /\ L \in Nat /\ Len(wire') = L - 1
      /\ \A k \in 1 .. L - 1 : wire'[k] = wire[k + 1] /\ k + 1 \in 1 .. L
  BY WireShrinks DEF ProcShape, ProcAssumption
<1>2. Link(p, j + 1, b)
  <2>1. j + 1 \in 1 .. L + 1 /\ p < j + 1
    BY <1>1
  <2> QED
    BY <2>1 DEF Linked
<1>3. /\ In(j, b)' = In(j + 1, b) /\ After(j, b)' = After(j + 1, b)
      /\ (Enters(j, b)' <=> Enters(j + 1, b))
  <2>1. CASE j = L
    BY <1>1, <2>1 DEF In, After, Enters
  <2>2. CASE j # L
    <3>1. j \in 1 .. L - 1 /\ j + 1 # L + 1
      BY <1>1, <2>2
    <3> QED
      BY <1>1, <2>2, <3>1 DEF In, After, Enters
  <2> QED
    BY <2>1, <2>2
<1>4. ASSUME \A k \in i + 1 .. j - 1 : ~Leaves(k, b)', NEW k \in p + 1 .. j + 1 - 1
      PROVE  ~Leaves(k, b)
  <2>1. CASE k <= i + 1
    <3>1. k \in p + 1 .. i + 1
      BY <1>1, <2>1
    <3> QED
      BY <3>1
  <2>2. CASE ~(k <= i + 1)
    <3>1. k - 1 \in i + 1 .. j - 1 /\ k - 1 \in 1 .. L - 1 /\ k # 0 /\ k - 1 # 0 /\ k - 1 + 1 = k
      BY <1>1, <2>2
    <3>2. wire'[k - 1] = wire[k]
      BY <1>1, <3>1
    <3>3. Leaves(k - 1, b)' <=> Leaves(k, b)
      BY <3>1, <3>2 DEF Leaves
    <3> QED
      BY <1>4, <3>1, <3>3
  <2> QED
    BY <1>1, <2>1, <2>2
<1> QED
  BY <1>2, <1>3, <1>4 DEF Link

\* A datagram is dropped only while no cpu has a number noted: no link ends
\* in it.
LEMMA LinkDrops ==
  ASSUME ProcAssumption, ProcShape, Linked, Drops
  PROVE  Linked'
<1> SUFFICES ASSUME NEW L, L = Len(wire), NEW b \in Cpus,
                    NEW i \in 0 .. L - 1, NEW j \in 1 .. L, i < j
             PROVE  Link(i, j, b)'
  <2>1. Len(wire') = Len(wire) - 1 /\ Len(wire) \in Nat
    BY WireShrinks DEF Drops, ProcShape, ProcAssumption
  <2> QED
    BY <2>1 DEF Linked
<1>1. /\ L \in Nat
      /\ \A k \in 1 .. L - 1 : wire'[k] = wire[k + 1] /\ k + 1 \in 1 .. L
      /\ wire # <<>> /\ wire' = Tail(wire) /\ UNCHANGED <<counter, gone, tracker>>
      /\ tracker.last[b] = None
  BY WireShrinks DEF Drops, ProcShape, ProcAssumption
<1>2. i + 1 \in 0 .. L /\ i + 1 <= i + 1 /\ i + 1 + 1 .. i + 1 = {}
  BY <1>1
<1>3. Leaves(i, b)' => Leaves(i + 1, b) /\ Out(i, b)' = Out(i + 1, b)
  <2>1. CASE i = 0
    BY <1>1, <2>1 DEF Leaves
  <2>2. CASE i # 0
    <3>1. wire'[i] = wire[i + 1] /\ i + 1 # 0
      BY <1>1, <2>2
    <3> QED
      BY <2>2, <3>1 DEF Leaves, Out
  <2> QED
    BY <2>1, <2>2
<1> QED
  BY <1>1, <1>2, <1>3, LinkShifts

\* A datagram that is noted is counted for what was lost before it.
LEMMA LinkNotes ==
  ASSUME ProcAssumption, ProcShape, Linked, FewBefore, Notes
  PROVE  /\ Linked'
         /\ tracker.missed = tracker.lost => tracker'.missed = tracker'.lost
<1> DEFINE d == wire[1]
<1>1. /\ Len(wire) \in Nat /\ Len(wire) >= 1 /\ Datagram(d)
      /\ Len(wire') = Len(wire) - 1
      /\ \A k \in 1 .. Len(wire) - 1 : wire'[k] = wire[k + 1] /\ k + 1 \in 1 .. Len(wire)
      /\ wire # <<>> /\ wire' = Tail(wire) /\ UNCHANGED <<counter, gone>>
      /\ tracker' = Walked(tracker, d) /\ tracker \in Trackers
  BY WireShrinks DEF Notes, ProcShape, ProcAssumption, TrackerTyped
<1> HIDE DEF d
<1>2. d[1].cpu \in Cpus
  BY <1>1, LinkTypes DEF d
<1>3. ASSUME tracker.last[d[1].cpu] # None
      PROVE  Follows(tracker.last[d[1].cpu], d[1].seq, d[1].after)
  <2>1. Link(0, 1, d[1].cpu)
    <3>1. 0 \in 0 .. Len(wire) /\ 1 \in 1 .. Len(wire) + 1 /\ 0 < 1
      BY <1>1
    <3> QED
      BY <1>2, <3>1 DEF Linked
  <2>2. Leaves(0, d[1].cpu) /\ Enters(1, d[1].cpu) /\ 0 + 1 .. 1 - 1 = {}
    BY <1>3 DEF Leaves, Enters, d
  <2>3. In(1, d[1].cpu) = (Out(0, d[1].cpu) + 1 + After(1, d[1].cpu)) % Modulus
    BY <2>1, <2>2 DEF Link
  <2>4. In(1, d[1].cpu) = d[1].seq /\ After(1, d[1].cpu) = d[1].after
        /\ Out(0, d[1].cpu) = tracker.last[d[1].cpu]
    BY <1>1 DEF In, After, Out, d
  <2>5. d[1].after <= Half
    BY <1>1 DEF FewBefore, d
  <2> QED
    BY <2>3, <2>4, <2>5 DEF Follows
<1>4. /\ tracker'.last = [tracker.last EXCEPT ![d[1].cpu] = d[Len(d)].seq]
      /\ tracker.missed = tracker.lost => tracker'.missed = tracker'.lost
  BY <1>1, <1>3, WalkedDatagram
<1>5. Linked'
  <2> SUFFICES ASSUME NEW L, L = Len(wire), NEW b \in Cpus,
                      NEW i \in 0 .. L - 1, NEW j \in 1 .. L, i < j
               PROVE  Link(i, j, b)'
    BY <1>1 DEF Linked
  <2>1. tracker.last \in [Cpus -> Numbers \cup {None}]
    BY <1>1 DEF Trackers
  <2>2. CASE i # 0
    <3>1. i + 1 \in 0 .. L /\ i + 1 <= i + 1 /\ i + 1 + 1 .. i + 1 = {}
      BY <1>1
    <3>2. wire'[i] = wire[i + 1] /\ i + 1 # 0
      BY <1>1, <2>2
    <3>3. Leaves(i, b)' => Leaves(i + 1, b) /\ Out(i, b)' = Out(i + 1, b)
      BY <2>2, <3>2 DEF Leaves, Out
    <3> QED
      BY <1>1, <3>1, <3>3, LinkShifts
  <2>3. CASE i = 0 /\ b = d[1].cpu
    <3>1. 1 \in 0 .. L /\ 1 <= i + 1 /\ 1 + 1 .. i + 1 = {}
      BY <1>1, <2>3
    <3>2. Leaves(1, b) /\ Out(i, b)' = Out(1, b)
      BY <1>2, <1>4, <2>1, <2>3 DEF Leaves, Out, d
    <3> QED
      BY <1>1, <3>1, <3>2, LinkShifts
  <2>4. CASE i = 0 /\ b # d[1].cpu
    <3>1. 0 \in 0 .. L /\ 0 <= i + 1 /\ \A k \in 0 + 1 .. i + 1 : k = 1
      BY <1>1, <2>4
    <3>2. Leaves(i, b)' => Leaves(0, b) /\ Out(i, b)' = Out(0, b)
      BY <1>2, <1>4, <2>1, <2>4 DEF Leaves, Out
    <3>3. ~Leaves(1, b)
      BY <2>4 DEF Leaves, d
    <3>4. \A k \in 0 + 1 .. i + 1 : ~Leaves(k, b)
      BY <3>1, <3>3
    <3> QED
      BY <1>1, <3>1, <3>2, <3>4, LinkShifts
  <2> QED
    BY <2>2, <2>3, <2>4
<1> QED
  BY <1>4, <1>5

\* The same link, and nothing it speaks of has moved.
LEMMA LinkRests ==
  ASSUME ProcAssumption, ProcShape, Linked, FewBefore, Rests
  PROVE  Linked' /\ FewBefore'
<1>1. /\ wire' = wire /\ tracker' = tracker /\ counter' = counter /\ gone' = gone
  BY DEF Rests
<1>2. FewBefore'
  BY <1>1 DEF FewBefore
<1>3. Linked'
  BY <1>1 DEF Linked, Link, Leaves, Enters, In, Out, After
<1> QED
  BY <1>2, <1>3

\* No datagram follows half the numbers, if no cpu ever lost that many.
LEMMA FewFollow ==
  ASSUME ProcAssumption, ProcShape, FewBefore, FewGone,
         \/ \E c, d : Emits(c, d)
         \/ \E c \in Cpus : Loses(c)
         \/ Drops \/ Notes
  PROVE  FewBefore'
<1>1. CASE \E c, d : Emits(c, d)
  <2>1. PICK c, d : Emits(c, d)
    BY <1>1
  <2>2. wire \in Seq(Seq(Message)) /\ d \in Seq(Message) /\ wire' = Append(wire, d)
        /\ c \in Cpus /\ d[1].after = gone[c]
    BY <2>1 DEF ProcShape, WireTyped, Datagram, Emits
  <2>3. Len(wire) \in Nat /\ Len(wire') = Len(wire) + 1 /\ wire'[Len(wire) + 1] = d
        /\ \A i \in 1 .. Len(wire) : wire'[i] = wire[i]
    BY <2>2, AppendProperties, LenProperties
  <2>4. ASSUME NEW i \in 1 .. Len(wire') PROVE wire'[i][1].after <= Half
    <3>1. CASE i = Len(wire) + 1
      BY <2>2, <2>3, <3>1 DEF FewGone
    <3>2. CASE i # Len(wire) + 1
      <4>1. i \in 1 .. Len(wire)
        BY <2>3, <3>2
      <4> QED
        BY <2>3, <4>1 DEF FewBefore
    <3> QED
      BY <3>1, <3>2
  <2> QED
    BY <2>4 DEF FewBefore, Half
<1>2. CASE \E c \in Cpus : Loses(c)
  BY <1>2 DEF Loses, FewBefore, Half
<1>3. CASE Drops \/ Notes
  <2>1. wire # <<>> /\ wire' = Tail(wire)
    BY <1>3 DEF Drops, Notes
  <2>2. /\ Len(wire') = Len(wire) - 1 /\ Len(wire) \in Nat
        /\ \A k \in 1 .. Len(wire) - 1 : wire'[k] = wire[k + 1] /\ k + 1 \in 1 .. Len(wire)
    BY <2>1, WireShrinks DEF ProcShape, ProcAssumption
  <2> QED
    BY <2>2 DEF FewBefore, Half
<1> QED
  BY <1>1, <1>2, <1>3

\* Nothing is linked at first: no cpu has a number noted or on its way.
LEMMA LinkedAtFirst ==
  ASSUME ProcAssumption, ProcInit
  PROVE  Linked /\ FewBefore /\ MissedIsLost
<1>1. Len(wire) = 0 /\ \A c \in Cpus : tracker.last[c] = None
  BY EmptySeq DEF ProcInit
<1>2. ASSUME NEW c \in Cpus, NEW i \in 0 .. Len(wire), NEW j \in 1 .. Len(wire) + 1
      PROVE  Link(i, j, c)
  BY <1>1 DEF Link, Leaves
<1>3. Linked
  BY <1>2 DEF Linked
<1>4. FewBefore /\ MissedIsLost
  BY <1>1 DEF FewBefore, MissedIsLost, ProcInit
<1> QED
  BY <1>3, <1>4

LinkedWell == ProcShape /\ Linked /\ FewBefore /\ MissedIsLost

\* Every step keeps the links and the count.
LEMMA LinkedMoves ==
  ASSUME ProcAssumption, Restarting = FALSE, LinkedWell, FewGone, [ProcNext]_procVars
  PROVE  LinkedWell'
<1>0. ProcShape /\ Linked /\ FewBefore /\ MissedIsLost
  BY DEF LinkedWell
<1>1. /\ ProcShape'
      /\ \/ \E c, d : Emits(c, d)
         \/ \E c \in Cpus : Loses(c)
         \/ Drops \/ Notes \/ Rests
  BY <1>0, ProcMoves
<1>2. CASE \E c, d : Emits(c, d)
  <2>1. PICK c, d : Emits(c, d)
    BY <1>2
  <2>2. Linked'
    BY <1>0, <2>1, LinkEmits
  <2>3. MissedIsLost'
    BY <1>0, <2>1 DEF Emits, MissedIsLost
  <2> QED
    BY <1>0, <1>1, <1>2, <2>2, <2>3, FewFollow DEF LinkedWell
<1>3. CASE \E c \in Cpus : Loses(c)
  <2>1. PICK c \in Cpus : Loses(c)
    BY <1>3
  <2>2. Linked'
    BY <1>0, <2>1, LinkLoses
  <2>3. MissedIsLost'
    BY <1>0, <2>1 DEF Loses, MissedIsLost
  <2> QED
    BY <1>0, <1>1, <1>3, <2>2, <2>3, FewFollow DEF LinkedWell
<1>4. CASE Drops
  <2>1. Linked' /\ FewBefore'
    BY <1>0, <1>4, LinkDrops, FewFollow
  <2>2. MissedIsLost'
    BY <1>0, <1>4 DEF Drops, MissedIsLost
  <2> QED
    BY <1>1, <2>1, <2>2 DEF LinkedWell
<1>5. CASE Notes
  <2>1. Linked' /\ FewBefore'
    BY <1>0, <1>5, LinkNotes, FewFollow
  <2>2. MissedIsLost'
    BY <1>0, <1>5, LinkNotes DEF MissedIsLost
  <2> QED
    BY <1>1, <2>1, <2>2 DEF LinkedWell
<1>6. CASE Rests
  <2>1. Linked' /\ FewBefore'
    BY <1>0, <1>6, LinkRests
  <2>2. MissedIsLost'
    BY <1>0, <1>6 DEF Rests, MissedIsLost
  <2> QED
    BY <1>1, <2>1, <2>2 DEF LinkedWell
<1> QED
  BY <1>1, <1>2, <1>3, <1>4, <1>5, <1>6

\* The losses reported are the losses there were, over the wrap of every counter,
\* as long as no cpu loses half its numbers (2^31) between two of its messages and
\* none starts its numbers anew (SeqTracker::note, walk_proc_messages).
THEOREM LossesCounted ==
  ASSUME ProcAssumption, Restarting = FALSE
  PROVE  ProcSpec /\ []FewGone => []MissedIsLost
<1>1. ProcInit => LinkedWell
  BY ProcShapeInit, LinkedAtFirst DEF LinkedWell
<1>2. LinkedWell /\ FewGone /\ [ProcNext]_procVars => LinkedWell'
  BY LinkedMoves
<1>3. LinkedWell => MissedIsLost
  BY DEF LinkedWell
<1> QED
  BY <1>1, <1>2, <1>3, PTL DEF ProcSpec

-----------------------------------------------------------------------------
(* The IPC connections: types.                                              *)

Handlers ==
  [at : {"off", "read", "send", "reply", "recreate", "refused", "ended"},
   greeted : BOOLEAN, app : Apps \cup {None}, pid : PidKeys,
   event : Events \cup {None}, then : {"read", "reply", "recreate", "ended"},
   answered : Packet \cup {None}]
Players ==
  [on : BOOLEAN, ready : BOOLEAN, asked : Packet \cup {None},
   echoed : Packet \cup {None}, written : Nat]

\* What is in the pipe was written or is a tail, what is sent is an event, and what
\* is answered was read.
Written(c) == \A i \in 1 .. Len(pipe[c]) : pipe[c][i] \in Packets[c] \cup {Cut}
Handling(c) ==
  /\ handler[c].at = "send" => handler[c].event \in Events
  /\ (handler[c].at = "reply" \/ (handler[c].at = "send" /\ handler[c].then = "reply"))
       => handler[c].answered \in Packets[c]
ConnsTyped ==
  /\ pipe \in [Conns -> Seq(Packet)]
  /\ game \in [Conns -> Players]
  /\ handler \in [Conns -> Handlers]
  /\ \A c \in Conns : Written(c) /\ Handling(c)
LoopTyped ==
  /\ queue \in Seq(Events) /\ Len(queue) <= QueueCap
  /\ shown \in [PidKeys -> Acts \cup {None}]
  /\ owner \in [Apps -> PidKeys \cup {None}]

SessionShape == ConnsTyped /\ LoopTyped

-----------------------------------------------------------------------------
(* What the steps make of the game and the thread of a connection.          *)

Joins(g) == [g EXCEPT !.on = TRUE]
Quits(g) == [g EXCEPT !.on = FALSE, !.asked = None]
Wrote(g, k) == [g EXCEPT !.written = g.written + 1, !.asked = IF Awaits(k) THEN k ELSE g.asked]
Heard(g, k) ==
  [g EXCEPT !.asked = IF g.asked = k THEN None ELSE g.asked,
            !.ready = g.ready \/ k.kind = "hello",
            !.echoed = IF k.kind = "frame" THEN k ELSE g.echoed]

Goes(h, at) == [h EXCEPT !.at = at]
Greets(h, k) == [h EXCEPT !.greeted = TRUE, !.app = k.app, !.at = "reply", !.answered = k]
Replies(h, k) == [h EXCEPT !.at = "reply", !.answered = k]
Sends(h, e, then) == [h EXCEPT !.at = "send", !.event = e, !.then = then]
Publishes(h, k) ==
  [h EXCEPT !.at = "send", !.then = "reply", !.event = Event(h.app, k.pid, k.act),
            !.answered = k, !.pid = k.pid]
Handed(h) == [h EXCEPT !.at = h.then, !.event = None]
Freed(h) == [h EXCEPT !.at = "read", !.answered = None]
Reset(h) == [h EXCEPT !.at = "ended", !.greeted = FALSE, !.app = None, !.pid = NoPid]

\* What a game does moves one of its fields.
LEMMA OfGame ==
  ASSUME NEW g \in Players, NEW k \in Packet
  PROVE  /\ Joins(g) \in Players /\ Joins(g).echoed = g.echoed /\ Joins(g).on
         /\ Quits(g) \in Players /\ Quits(g).echoed = g.echoed /\ ~Quits(g).on
         /\ Wrote(g, k) \in Players /\ Wrote(g, k).echoed = g.echoed /\ Wrote(g, k).on = g.on
         /\ Heard(g, k) \in Players /\ Heard(g, k).on = g.on
         /\ Heard(g, k).echoed = IF k.kind = "frame" THEN k ELSE g.echoed
<1>1. /\ Joins(g) \in Players /\ Joins(g).echoed = g.echoed /\ Joins(g).on
      /\ Quits(g) \in Players /\ Quits(g).echoed = g.echoed /\ ~Quits(g).on
  BY DEF Players, Joins, Quits
<1>2. Wrote(g, k) \in Players /\ Wrote(g, k).echoed = g.echoed /\ Wrote(g, k).on = g.on
  <2>1. (IF Awaits(k) THEN k ELSE g.asked) \in Packet \cup {None} /\ g.written + 1 \in Nat
    BY DEF Players
  <2> QED
    BY <2>1 DEF Players, Wrote
<1>3. /\ Heard(g, k) \in Players /\ Heard(g, k).on = g.on
      /\ Heard(g, k).echoed = IF k.kind = "frame" THEN k ELSE g.echoed
  <2>1. /\ (IF g.asked = k THEN None ELSE g.asked) \in Packet \cup {None}
        /\ (IF k.kind = "frame" THEN k ELSE g.echoed) \in Packet \cup {None}
        /\ (g.ready \/ k.kind = "hello") \in BOOLEAN
    BY DEF Players
  <2> QED
    BY <2>1 DEF Players, Heard
<1> QED
  BY <1>1, <1>2, <1>3

\* A thread that goes on keeps what its connection is known by.
LEMMA OfGoes ==
  ASSUME NEW h \in Handlers, NEW at \in {"read", "refused"}
  PROVE  /\ Goes(h, at) \in Handlers /\ Goes(h, at).at = at
         /\ Goes(h, at).greeted = h.greeted /\ Goes(h, at).app = h.app /\ Goes(h, at).pid = h.pid
BY DEF Handlers, Goes

\* A handshake gives the connection its application.
LEMMA OfGreets ==
  ASSUME NEW h \in Handlers, NEW k \in Packet
  PROVE  /\ Greets(h, k) \in Handlers /\ Greets(h, k).at = "reply" /\ Greets(h, k).answered = k
         /\ Greets(h, k).greeted /\ Greets(h, k).app = k.app /\ Greets(h, k).pid = h.pid
BY DEF Handlers, Greets, Packet

\* A thread about to answer remembers the packet.
LEMMA OfReplies ==
  ASSUME NEW h \in Handlers, NEW k \in Packet
  PROVE  /\ Replies(h, k) \in Handlers /\ Replies(h, k).at = "reply" /\ Replies(h, k).answered = k
         /\ Replies(h, k).greeted = h.greeted /\ Replies(h, k).app = h.app
         /\ Replies(h, k).pid = h.pid
BY DEF Handlers, Replies

\* A thread about to send an event remembers it, and where it goes on.
LEMMA OfSends ==
  ASSUME NEW h \in Handlers, NEW e \in Events, NEW then \in {"read", "ended", "recreate"}
  PROVE  /\ Sends(h, e, then) \in Handlers /\ Sends(h, e, then).at = "send"
         /\ Sends(h, e, then).event = e /\ Sends(h, e, then).then = then
         /\ Sends(h, e, then).greeted = h.greeted /\ Sends(h, e, then).app = h.app
         /\ Sends(h, e, then).pid = h.pid
BY DEF Handlers, Sends

\* A SET_ACTIVITY is sent with the application of the connection, and its
\* pid remembered.
LEMMA OfPublishes ==
  ASSUME NEW h \in Handlers, NEW k \in Packet
  PROVE  /\ Publishes(h, k) \in Handlers /\ Publishes(h, k).at = "send"
         /\ Publishes(h, k).event = Event(h.app, k.pid, k.act)
         /\ Event(h.app, k.pid, k.act) \in Events
         /\ Publishes(h, k).then = "reply" /\ Publishes(h, k).answered = k
         /\ Publishes(h, k).greeted = h.greeted /\ Publishes(h, k).app = h.app
         /\ Publishes(h, k).pid = k.pid
<1>1. Event(h.app, k.pid, k.act) \in Events
  BY DEF Event, Events, Handlers, Packet
<1> QED
  BY <1>1 DEF Handlers, Publishes, Packet

\* A thread that has sent, or freed its connection, goes on with the rest
\* unchanged.
LEMMA OfEnds ==
  ASSUME IpcAssumption, NEW h \in Handlers
  PROVE  /\ Handed(h) \in Handlers /\ Handed(h).at = h.then /\ Handed(h).answered = h.answered
         /\ Handed(h).greeted = h.greeted /\ Handed(h).app = h.app /\ Handed(h).pid = h.pid
         /\ Freed(h) \in Handlers /\ Freed(h).at = "read"
         /\ Freed(h).greeted = h.greeted /\ Freed(h).app = h.app /\ Freed(h).pid = h.pid
         /\ Reset(h) \in Handlers /\ Reset(h).at = "ended" /\ ~Reset(h).greeted
         /\ Reset(h).app = None /\ Reset(h).pid = NoPid
BY DEF Handlers, Handed, Freed, Reset, PidKeys

\* A frame cut short is read as one too large.
LEMMA CutType == Cut \in Packet /\ Cut.kind = "huge"
BY DEF Cut, Simple, Packet, Kinds, PidKeys

\* Nothing but what belongs to c changes, apart from the queue.
Only(c) ==
  /\ pipe' = [pipe EXCEPT ![c] = pipe'[c]] /\ game' = [game EXCEPT ![c] = game'[c]]
  /\ handler' = [handler EXCEPT ![c] = handler'[c]] /\ shown' = shown /\ owner' = owner
TakesOne(c) ==
  /\ handler[c].at = "read" /\ game'[c] = game[c] /\ queue' = queue
  /\ pipe'[c] \in {pipe[c], <<>>, <<Cut>>}

Starts(c) ==
  /\ handler[c].at = "off" /\ handler'[c] = Goes(handler[c], "read")
  /\ game'[c] = Joins(game[c]) /\ pipe'[c] = pipe[c] /\ queue' = queue
Stops(c) ==
  game'[c] = Quits(game[c]) /\ UNCHANGED <<handler, pipe, queue>>
Puts(c, k) ==
  /\ k \in Packets[c] /\ game'[c] = Wrote(game[c], k) /\ pipe'[c] = Append(pipe[c], k)
  /\ UNCHANGED <<handler, queue>>
Skips(c) == TakesOne(c) /\ handler' = handler
Denies(c) == TakesOne(c) /\ handler'[c] = Goes(handler[c], "refused")
Greeted(c, k) ==
  /\ TakesOne(c) /\ k \in Packets[c] /\ k.kind = "hello"
  /\ handler'[c] = Greets(handler[c], k)
Responds(c, k) ==
  /\ TakesOne(c) /\ k \in Packets[c] /\ k.kind # "frame"
  /\ handler'[c] = Replies(handler[c], k)
Issues(c, k) ==
  /\ TakesOne(c) /\ k \in Packets[c] /\ k.kind = "frame" /\ handler[c].greeted
  /\ handler'[c] = Publishes(handler[c], k)
Wipes(c) ==
  /\ TakesOne(c)
  /\ \/ /\ handler'[c] = Sends(handler[c], SendEmpty(handler[c].pid), "read")
        /\ \E k \in Packets[c] : k.kind = "bare"
     \/ handler'[c] = Sends(handler[c], SendEmpty(handler[c].pid), "ended")
     \/ handler'[c] = Sends(handler[c], CloseEvent(c), "recreate")
Enqueues(c) ==
  /\ handler[c].at = "send" /\ handler'[c] = Handed(handler[c])
  /\ queue' = Append(queue, handler[c].event) /\ Len(queue) < QueueCap
  /\ game' = game /\ pipe' = pipe
Tells(c) ==
  /\ handler[c].at = "reply" /\ handler'[c] = Freed(handler[c])
  /\ game'[c] = IF game[c].on THEN Heard(game[c], handler[c].answered) ELSE game[c]
  /\ pipe' = pipe /\ queue' = queue
Renews(c) ==
  /\ handler[c].at = "recreate" /\ handler'[c] = Reset(handler[c])
  /\ UNCHANGED <<game, pipe, queue>>

Turn(c) ==
  /\ Only(c)
  /\ \/ Starts(c) \/ Stops(c) \/ Skips(c) \/ Denies(c) \/ Wipes(c)
     \/ Enqueues(c) \/ Tells(c) \/ Renews(c)
     \/ \E k \in Packets[c] : Puts(c, k) \/ Greeted(c, k) \/ Responds(c, k) \/ Issues(c, k)

\* Every step of a game is a turn of its connection.
LEMMA TurnsOfGame ==
  ASSUME ConnsTyped, NEW c \in Conns, Game(c)
  PROVE  Turn(c)
<1>1. CASE Connect(c)
  <2>1. /\ handler' = [handler EXCEPT ![c] = Goes(handler[c], "read")]
        /\ game' = [game EXCEPT ![c] = Joins(game[c])] /\ handler[c].at = "off"
        /\ UNCHANGED <<pipe, queue, shown, owner>>
    BY <1>1 DEF Connect, Goes, Joins, At
  <2>2. Only(c) /\ Starts(c)
    BY <2>1 DEF ConnsTyped, Only, Starts
  <2> QED
    BY <2>2 DEF Turn
<1>2. CASE Leave(c)
  <2>1. /\ game' = [game EXCEPT ![c] = Quits(game[c])]
        /\ UNCHANGED <<pipe, handler, queue, shown, owner>>
    BY <1>2 DEF Leave, Quits
  <2>2. Only(c) /\ Stops(c)
    BY <2>1 DEF ConnsTyped, Only, Stops
  <2> QED
    BY <2>2 DEF Turn
<1>3. CASE \E k \in Packets[c] : Write(c, k)
  <2>1. PICK k \in Packets[c] : Write(c, k)
    BY <1>3
  <2>2. /\ game' = [game EXCEPT ![c] = Wrote(game[c], k)]
        /\ pipe' = [pipe EXCEPT ![c] = Append(pipe[c], k)]
        /\ UNCHANGED <<handler, queue, shown, owner>>
    BY <2>1 DEF Write, Wrote
  <2>3. Only(c) /\ Puts(c, k)
    BY <2>2 DEF ConnsTyped, Only, Puts
  <2> QED
    BY <2>3 DEF Turn
<1> QED
  BY <1>1, <1>2, <1>3 DEF Game

\* The packet read is one that was written, or a tail.
LEMMA ReadsWhat ==
  ASSUME ConnsTyped, NEW c \in Conns, NEW kinds, Reads(c, kinds)
  PROVE  /\ Got(c) \in Packets[c] \cup {Cut} /\ Got(c).kind \in kinds /\ handler[c].at = "read"
         /\ pipe' = [pipe EXCEPT ![c] = pipe'[c]] /\ pipe'[c] \in {<<>>, <<Cut>>}
<1>1. /\ pipe[c] \in Seq(Packet) /\ pipe[c] # <<>> /\ Got(c).kind \in kinds
      /\ handler[c].at = "read" /\ Written(c)
  BY DEF ConnsTyped, Reads, At
<1>2. Got(c) = pipe[c][1] /\ 1 \in 1 .. Len(pipe[c])
  BY <1>1, HeadTailProperties, EmptySeq, LenProperties DEF Got
<1>3. pipe' = [pipe EXCEPT ![c] = <<>>] \/ pipe' = [pipe EXCEPT ![c] = <<Cut>>]
  BY DEF Reads
<1> QED
  BY <1>1, <1>2, <1>3 DEF ConnsTyped, Written

\* Every step of a thread is a turn of its connection.
LEMMA TurnsOfThread ==
  ASSUME ConnsTyped, NEW c \in Conns, Handle(c)
  PROVE  Turn(c)
<1>1. CASE HangUp(c)
  <2>1. /\ handler' = [handler EXCEPT ![c] = Sends(handler[c], SendEmpty(handler[c].pid), "ended")]
        /\ handler[c].at = "read" /\ UNCHANGED <<pipe, game, queue, shown, owner>>
    BY <1>1 DEF HangUp, Send, Sends, At
  <2>2. Only(c) /\ Wipes(c)
    BY <2>1 DEF ConnsTyped, Only, Wipes, TakesOne
  <2> QED
    BY <2>2 DEF Turn
<1>2. CASE Refuse(c)
  <2>1. /\ handler' = [handler EXCEPT ![c] = Goes(handler[c], "refused")]
        /\ UNCHANGED <<game, queue, shown, owner>>
    BY <1>2 DEF Refuse, Goes
  <2>2. Only(c) /\ Denies(c)
    BY <1>2, <2>1, ReadsWhat DEF Refuse, ConnsTyped, Only, Denies, TakesOne
  <2> QED
    BY <2>2 DEF Turn
<1>3. CASE Handshake(c)
  <2>1. UNCHANGED <<game, queue, shown, owner>>
    BY <1>3 DEF Handshake
  <2>2. CASE Reads(c, {"odd"}) /\ handler' = handler
    <3>1. Only(c) /\ Skips(c)
      BY <2>1, <2>2, ReadsWhat DEF ConnsTyped, Only, Skips, TakesOne
    <3> QED
      BY <3>1 DEF Turn
  <2>3. CASE Reads(c, {"hello"}) /\ handler' = [handler EXCEPT ![c] = Greets(handler[c], Got(c))]
    <3>1. Got(c) \in Packets[c] /\ Got(c).kind = "hello"
      BY <2>3, ReadsWhat, CutType
    <3>2. Only(c) /\ Greeted(c, Got(c))
      BY <2>1, <2>3, <3>1, ReadsWhat DEF ConnsTyped, Only, Greeted, TakesOne
    <3> QED
      BY <3>1, <3>2 DEF Turn
  <2> QED
    BY <1>3, <2>2, <2>3 DEF Handshake, Continue, Greets
<1>4. CASE HandleFrame(c)
  <2>1. UNCHANGED <<game, queue, shown, owner>> /\ Reads(c, FrameKinds)
    BY <1>4 DEF HandleFrame
  <2>2. Got(c) \in Packets[c] /\ Got(c).kind \in FrameKinds
    BY <2>1, ReadsWhat, CutType DEF FrameKinds
  <2>3. CASE handler' = handler
    <3>1. Only(c) /\ Skips(c)
      BY <2>1, <2>3, ReadsWhat DEF ConnsTyped, Only, Skips, TakesOne
    <3> QED
      BY <3>1 DEF Turn
  <2>4. CASE /\ handler' = [handler EXCEPT ![c] = Sends(handler[c], SendEmpty(handler[c].pid), "read")]
             /\ Got(c).kind = "bare"
    <3>1. Only(c) /\ Wipes(c)
      BY <2>1, <2>2, <2>4, ReadsWhat DEF ConnsTyped, Only, Wipes, TakesOne
    <3> QED
      BY <3>1 DEF Turn
  <2>5. CASE /\ handler' = [handler EXCEPT ![c] = Publishes(handler[c], Got(c))]
             /\ Got(c).kind = "frame" /\ handler[c].greeted
    <3>1. Only(c) /\ Issues(c, Got(c))
      BY <2>1, <2>2, <2>5, ReadsWhat DEF ConnsTyped, Only, Issues, TakesOne
    <3> QED
      BY <2>2, <3>1 DEF Turn
  <2>6. CASE /\ handler' = [handler EXCEPT ![c] = Replies(handler[c], Got(c))]
             /\ Got(c).kind \in {"local", "relay"}
    <3>1. Only(c) /\ Responds(c, Got(c))
      BY <2>1, <2>2, <2>6, ReadsWhat DEF ConnsTyped, Only, Responds, TakesOne
    <3> QED
      BY <2>2, <3>1 DEF Turn
  <2> QED
    BY <1>4, <2>3, <2>4, <2>5, <2>6
       DEF HandleFrame, Continue, SetActivity, Send, Answer, Sends, Publishes, Replies
<1>5. CASE Close(c)
  <2>1. /\ handler' = [handler EXCEPT ![c] = Sends(handler[c], CloseEvent(c), "recreate")]
        /\ UNCHANGED <<game, queue, shown, owner>> /\ Reads(c, {"close"})
    BY <1>5 DEF Close, Send, Sends
  <2>2. Only(c) /\ Wipes(c)
    BY <2>1, ReadsWhat DEF ConnsTyped, Only, Wipes, TakesOne
  <2> QED
    BY <2>2 DEF Turn
<1>6. CASE Ping(c)
  <2>1. UNCHANGED <<game, queue, shown, owner>>
    BY <1>6 DEF Ping
  <2>2. CASE Reads(c, {"pong"}) /\ handler' = handler
    <3>1. Only(c) /\ Skips(c)
      BY <2>1, <2>2, ReadsWhat DEF ConnsTyped, Only, Skips, TakesOne
    <3> QED
      BY <3>1 DEF Turn
  <2>3. CASE Reads(c, {"ping"}) /\ handler' = [handler EXCEPT ![c] = Replies(handler[c], Got(c))]
    <3>1. Got(c) \in Packets[c] /\ Got(c).kind # "frame"
      BY <2>3, ReadsWhat, CutType
    <3>2. Only(c) /\ Responds(c, Got(c))
      BY <2>1, <2>3, <3>1, ReadsWhat DEF ConnsTyped, Only, Responds, TakesOne
    <3> QED
      BY <3>1, <3>2 DEF Turn
  <2> QED
    BY <1>6, <2>2, <2>3 DEF Ping, Answer, Continue, Replies
<1>7. CASE Enqueue(c)
  <2>1. /\ handler' = [handler EXCEPT ![c] = Handed(handler[c])] /\ handler[c].at = "send"
        /\ queue' = Append(queue, handler[c].event) /\ Len(queue) < QueueCap
        /\ UNCHANGED <<pipe, game, shown, owner>>
    BY <1>7 DEF Enqueue, Handed, At
  <2>2. Only(c) /\ Enqueues(c)
    BY <2>1 DEF ConnsTyped, Only, Enqueues
  <2> QED
    BY <2>2 DEF Turn
<1>8. CASE Reply(c)
  <2>1. /\ handler' = [handler EXCEPT ![c] = Freed(handler[c])] /\ handler[c].at = "reply"
        /\ game' = IF ~game[c].on THEN game
                   ELSE [game EXCEPT ![c] = Heard(game[c], handler[c].answered)]
        /\ UNCHANGED <<pipe, queue, shown, owner>>
    BY <1>8 DEF Reply, Freed, Heard, At
  <2>2. Only(c) /\ Tells(c)
    BY <2>1 DEF ConnsTyped, Only, Tells
  <2> QED
    BY <2>2 DEF Turn
<1>9. CASE Recreate(c)
  <2>1. /\ handler' = [handler EXCEPT ![c] = Reset(handler[c])] /\ handler[c].at = "recreate"
        /\ UNCHANGED <<pipe, game, queue, shown, owner>>
    BY <1>9 DEF Recreate, Reset, At
  <2>2. Only(c) /\ Renews(c)
    BY <2>1 DEF ConnsTyped, Only, Renews
  <2> QED
    BY <2>2 DEF Turn
<1> QED
  BY <1>1, <1>2, <1>3, <1>4, <1>5, <1>6, <1>7, <1>8, <1>9 DEF Handle

-----------------------------------------------------------------------------
(* The connections keep their types.                                        *)

\* The events a thread can send are of its pid.
LEMMA OfEvents ==
  ASSUME IpcAssumption, NEW h \in Handlers
  PROVE  /\ SendEmpty(h.pid) \in Events /\ SendEmpty(h.pid).pid = h.pid
         /\ SendEmpty(h.pid).app = None /\ SendEmpty(h.pid).act = None
         /\ Event(h.app, h.pid, None) \in Events /\ Event(h.app, h.pid, None).pid = h.pid
         /\ Event(h.app, h.pid, None).app = h.app /\ Event(h.app, h.pid, None).act = None
BY DEF SendEmpty, Event, Events, Handlers

\* The thread: typed, and what it holds is what its place says.
LEMMA TurnOfHandler ==
  ASSUME IpcAssumption, ConnsTyped, NEW c \in Conns, Turn(c)
  PROVE  handler'[c] \in Handlers /\ Handling(c)'
<1>0. /\ handler[c] \in Handlers /\ Handling(c) /\ NoPid \in PidKeys
      /\ \A k \in Packets[c] : k \in Packet
  BY DEF ConnsTyped, IpcAssumption, PidKeys
<1>1. CASE Starts(c) \/ Denies(c)
  BY <1>0, <1>1, OfGoes DEF Starts, Denies, Handling
<1>2. CASE handler' = handler
  BY <1>0, <1>2 DEF Handling
<1>3. CASE Wipes(c)
  <2>1. PICK e \in Events, then \in {"read", "ended", "recreate"} :
          handler'[c] = Sends(handler[c], e, then)
    BY <1>0, <1>3, OfEvents DEF Wipes, CloseEvent
  <2>2. handler'[c] \in Handlers /\ handler'[c].at = "send" /\ handler'[c].event = e
        /\ handler'[c].then = then
    BY <1>0, <2>1, OfSends, SMTT(30)
  <2> QED
    BY <2>2 DEF Handling
<1>4. CASE Enqueues(c)
  <2>1. /\ handler'[c] \in Handlers /\ handler'[c].at = handler[c].then
        /\ handler'[c].answered = handler[c].answered /\ handler[c].at = "send"
    <3>1. handler'[c] = Handed(handler[c]) /\ handler[c].at = "send"
      BY <1>4 DEF Enqueues
    <3>2. /\ Handed(handler[c]) \in Handlers /\ Handed(handler[c]).at = handler[c].then
          /\ Handed(handler[c]).answered = handler[c].answered
      BY <1>0, OfEnds
    <3> QED
      BY <3>1, <3>2
  <2>2. handler[c].then # "send"
    BY <1>0 DEF Handlers
  <2> QED
    BY <1>0, <2>1, <2>2 DEF Handling
<1>5. CASE Tells(c) \/ Renews(c)
  BY <1>0, <1>5, OfEnds DEF Tells, Renews, Handling
<1>6. ASSUME NEW k \in Packets[c], Greeted(c, k) \/ Responds(c, k) \/ Issues(c, k)
      PROVE  handler'[c] \in Handlers /\ Handling(c)'
  <2>1. k \in Packet /\ handler[c] \in Handlers
    BY <1>0
  <2>2. CASE Greeted(c, k)
    <3>1. handler'[c] = Greets(handler[c], k)
      BY <2>2 DEF Greeted
    <3> QED
      BY <2>1, <3>1, OfGreets DEF Handling
  <2>3. CASE Responds(c, k)
    <3>1. handler'[c] = Replies(handler[c], k)
      BY <2>3 DEF Responds
    <3> QED
      BY <2>1, <3>1, OfReplies DEF Handling
  <2>4. CASE Issues(c, k)
    <3>1. handler'[c] = Publishes(handler[c], k)
      BY <2>4 DEF Issues
    <3> QED
      BY <2>1, <3>1, OfPublishes DEF Handling
  <2> QED
    BY <1>6, <2>2, <2>3, <2>4
<1> QED
  BY <1>1, <1>2, <1>3, <1>4, <1>5, <1>6 DEF Turn, Stops, Skips, Puts

\* A turn leaves the game well typed.
LEMMA TurnOfGame ==
  ASSUME IpcAssumption, ConnsTyped, NEW c \in Conns, Turn(c)
  PROVE  game'[c] \in Players
<1>0. /\ handler[c] \in Handlers /\ Handling(c) /\ game[c] \in Players
      /\ \A k \in Packets[c] : k \in Packet
  BY DEF ConnsTyped, IpcAssumption
<1>1. handler[c].at = "reply" => handler[c].answered \in Packet
  BY <1>0 DEF Handling
<1>2. CASE game'[c] = Joins(game[c]) \/ game'[c] = Quits(game[c])
  <2>1. Joins(game[c]) \in Players /\ Quits(game[c]) \in Players
    BY <1>0, CutType, OfGame
  <2> QED
    BY <1>2, <2>1
<1>3. ASSUME NEW k \in Packets[c], Puts(c, k) PROVE game'[c] \in Players
  <2>1. k \in Packet /\ game'[c] = Wrote(game[c], k)
    BY <1>0, <1>3 DEF Puts
  <2> QED
    BY <1>0, <2>1, OfGame
<1>4. CASE Tells(c)
  <2>1. /\ handler[c].answered \in Packet
        /\ game'[c] = IF game[c].on THEN Heard(game[c], handler[c].answered) ELSE game[c]
    BY <1>1, <1>4 DEF Tells
  <2> QED
    BY <1>0, <2>1, OfGame
<1>5. CASE game'[c] = game[c]
  BY <1>0, <1>5
<1> QED
  BY <1>2, <1>3, <1>4, <1>5 DEF Turn, Starts, Stops, Skips, Denies, Wipes, Greeted, Responds, Issues, TakesOne,
         Enqueues, Renews

\* A turn leaves packets in the pipe, all of which the game may have
\* written.
LEMMA TurnOfPipe ==
  ASSUME IpcAssumption, ConnsTyped, NEW c \in Conns, Turn(c)
  PROVE  pipe'[c] \in Seq(Packet) /\ Written(c)'
<1>0. pipe[c] \in Seq(Packet) /\ Written(c) /\ \A k \in Packets[c] : k \in Packet
  BY DEF ConnsTyped, IpcAssumption
<1>1. CASE pipe'[c] = pipe[c]
  BY <1>0, <1>1 DEF Written
<1>2. CASE pipe'[c] = <<>>
  BY <1>2, EmptySeq DEF Written
<1>3. CASE pipe'[c] = <<Cut>>
  BY <1>3, CutType DEF Written
<1>4. ASSUME NEW k \in Packets[c], pipe'[c] = Append(pipe[c], k)
      PROVE  pipe'[c] \in Seq(Packet) /\ Written(c)'
  <2>1. /\ Append(pipe[c], k) \in Seq(Packet) /\ Len(pipe[c]) \in Nat
        /\ Len(Append(pipe[c], k)) = Len(pipe[c]) + 1
        /\ Append(pipe[c], k)[Len(pipe[c]) + 1] = k
        /\ \A i \in 1 .. Len(pipe[c]) : Append(pipe[c], k)[i] = pipe[c][i]
    BY <1>0, AppendProperties, LenProperties
  <2>2. ASSUME NEW i \in 1 .. Len(pipe'[c]) PROVE pipe'[c][i] \in Packets[c] \cup {Cut}
    BY <1>0, <1>4, <2>1 DEF Written
  <2> QED
    BY <1>4, <2>1, <2>2 DEF Written
<1> QED
  BY <1>1, <1>2, <1>3, <1>4
     DEF Turn, Starts, Stops, Puts, Skips, Denies, Wipes, Greeted, Responds, Issues, TakesOne,
         Enqueues, Tells, Renews

\* A turn keeps SessionShape.
LEMMA TypesOfTurn ==
  ASSUME IpcAssumption, SessionShape, NEW c \in Conns, Turn(c)
  PROVE  SessionShape'
<1>1. /\ ConnsTyped /\ LoopTyped /\ shown' = shown /\ owner' = owner
      /\ pipe' = [pipe EXCEPT ![c] = pipe'[c]] /\ game' = [game EXCEPT ![c] = game'[c]]
      /\ handler' = [handler EXCEPT ![c] = handler'[c]]
  BY DEF SessionShape, Turn, Only
<1>2. /\ pipe'[c] \in Seq(Packet) /\ Written(c)' /\ game'[c] \in Players
      /\ handler'[c] \in Handlers /\ Handling(c)'
  BY <1>1, TurnOfHandler, TurnOfGame, TurnOfPipe
<1>3. /\ pipe' \in [Conns -> Seq(Packet)] /\ game' \in [Conns -> Players]
      /\ handler' \in [Conns -> Handlers]
  BY <1>1, <1>2 DEF ConnsTyped
<1>4. ASSUME NEW d \in Conns, d # c PROVE Written(d)' /\ Handling(d)'
  <2>1. Written(d) /\ Handling(d) /\ pipe'[d] = pipe[d] /\ handler'[d] = handler[d]
    BY <1>1, <1>4 DEF ConnsTyped
  <2> QED
    BY <2>1 DEF Written, Handling
<1>5. queue' = queue \/ Enqueues(c)
  BY DEF Turn, Starts, Stops, Puts, Skips, Denies, Wipes, Greeted, Responds, Issues, TakesOne,
         Tells, Renews
<1>6. queue' \in Seq(Events) /\ Len(queue') <= QueueCap
  <2>1. CASE Enqueues(c)
    <3>1. queue \in Seq(Events) /\ handler[c].event \in Events /\ Len(queue) < QueueCap
          /\ queue' = Append(queue, handler[c].event)
      BY <1>1, <2>1 DEF LoopTyped, ConnsTyped, Handling, Enqueues
    <3> QED
      BY <3>1, AppendProperties, LenProperties DEF IpcAssumption
  <2> QED
    BY <1>1, <1>5, <2>1 DEF LoopTyped
<1> QED
  BY <1>1, <1>2, <1>3, <1>4, <1>6 DEF SessionShape, ConnsTyped, LoopTyped

\* The event loop applies the event in front.
LEMMA AppliesWhat ==
  ASSUME IpcAssumption, SessionShape, Apply, NEW e, e = queue[1]
  PROVE  /\ e \in Events /\ queue # <<>> /\ queue' = Tail(queue) /\ Len(queue) \in Nat
         /\ Len(queue) >= 1 /\ Len(queue') = Len(queue) - 1
         /\ \A i \in 1 .. Len(queue) - 1 : queue'[i] = queue[i + 1] /\ i + 1 \in 1 .. Len(queue)
         /\ shown' = [shown EXCEPT ![e.pid] = e.act]
         /\ owner' = IF e.act = None THEN Released(e) ELSE [owner EXCEPT ![e.app] = e.pid]
         /\ UNCHANGED <<pipe, game, handler>>
<1>1. queue \in Seq(Events) /\ queue # <<>> /\ queue' = Tail(queue)
  BY DEF SessionShape, LoopTyped, Apply
<1>2. /\ Head(queue) = e /\ e \in Events /\ Len(queue) \in Nat /\ Len(queue) >= 1
  BY <1>1, HeadTailProperties, EmptySeq, LenProperties, ElementOfSeq
<1>3. /\ Len(queue') = Len(queue) - 1
      /\ \A i \in 1 .. Len(queue) - 1 : queue'[i] = queue[i + 1] /\ i + 1 \in 1 .. Len(queue)
  BY <1>1, <1>2, HeadTailProperties
<1> QED
  BY <1>1, <1>2, <1>3 DEF Apply

\* The bridge's taking an event keeps SessionShape.
LEMMA TypesOfApply ==
  ASSUME IpcAssumption, SessionShape, Apply
  PROVE  SessionShape'
<1> DEFINE e == queue[1]
<1>1. /\ e \in Events /\ queue # <<>> /\ queue' = Tail(queue) /\ Len(queue) \in Nat
      /\ Len(queue') = Len(queue) - 1
      /\ shown' = [shown EXCEPT ![e.pid] = e.act]
      /\ owner' = IF e.act = None THEN Released(e) ELSE [owner EXCEPT ![e.app] = e.pid]
      /\ pipe' = pipe /\ game' = game /\ handler' = handler
  BY AppliesWhat
<1> HIDE DEF e
<1>2. queue' \in Seq(Events) /\ Len(queue') <= QueueCap
  BY <1>1, HeadTailProperties DEF SessionShape, LoopTyped, IpcAssumption
<1>3. shown' \in [PidKeys -> Acts \cup {None}]
  BY <1>1 DEF SessionShape, LoopTyped, Events
<1>4. owner' \in [Apps -> PidKeys \cup {None}]
  BY <1>1 DEF SessionShape, LoopTyped, Events, Released
<1>5. ConnsTyped'
  BY <1>1 DEF SessionShape, ConnsTyped, Written, Handling
<1> QED
  BY <1>2, <1>3, <1>4, <1>5 DEF SessionShape, LoopTyped

\* Every step is a turn or takes an event; SessionShape is inductive.
LEMMA SessionSteps ==
  ASSUME IpcAssumption, SessionShape, [SessionNext]_sessionVars
  PROVE  /\ SessionShape'
         /\ (\E c \in Conns : Turn(c)) \/ Apply \/ UNCHANGED sessionVars
<1>1. CASE UNCHANGED sessionVars
  BY <1>1 DEF sessionVars, SessionShape, ConnsTyped, LoopTyped, Written, Handling
<1>2. CASE Apply
  BY <1>2, TypesOfApply
<1>3. ASSUME NEW c \in Conns, Game(c) \/ Handle(c) PROVE SessionShape' /\ Turn(c)
  <2>1. Turn(c)
    BY <1>3, TurnsOfGame, TurnsOfThread DEF SessionShape
  <2> QED
    BY <2>1, TypesOfTurn
<1> QED
  BY <1>1, <1>2, <1>3 DEF SessionNext, Done

\* SessionShape holds at first.
LEMMA SessionShapeInit ==
  ASSUME IpcAssumption, SessionInit
  PROVE  SessionShape
<1>1. pipe \in [Conns -> Seq(Packet)] /\ \A c \in Conns : Len(pipe[c]) = 0
  BY EmptySeq DEF SessionInit
<1>2. game \in [Conns -> Players] /\ handler \in [Conns -> Handlers]
  BY DEF SessionInit, Away, Idle, Players, Handlers, PidKeys
<1>3. \A c \in Conns : Written(c) /\ Handling(c)
  BY <1>1 DEF SessionInit, Idle, Written, Handling
<1>4. queue \in Seq(Events) /\ Len(queue) <= QueueCap
  BY EmptySeq DEF SessionInit, IpcAssumption
<1>5. shown \in [PidKeys -> Acts \cup {None}] /\ owner \in [Apps -> PidKeys \cup {None}]
  BY DEF SessionInit
<1> QED
  BY <1>1, <1>2, <1>3, <1>4, <1>5 DEF SessionShape, ConnsTyped, LoopTyped

\* Every variable has its type (ipc_utils.rs: handle_stream).
THEOREM SessionTypeCorrect ==
  ASSUME IpcAssumption
  PROVE  SessionSpec => []SessionTypeOK
<1>1. SessionInit => SessionShape
  BY SessionShapeInit
<1>2. SessionShape /\ [SessionNext]_sessionVars => SessionShape'
  BY SessionSteps
<1>3. SessionShape => SessionTypeOK
  BY DEF SessionShape, ConnsTyped, LoopTyped, Handlers, Players, SessionTypeOK
<1> QED
  BY <1>1, <1>2, <1>3, PTL DEF SessionSpec

-----------------------------------------------------------------------------
(* The card of a pid, once the queue is applied.                            *)

\* The last event of p in q says x, or none is of p and the card says x.
Settles(q, s, p, x) ==
  \/ \E i \in 1 .. Len(q) :
       q[i].pid = p /\ q[i].act = x /\ \A j \in i + 1 .. Len(q) : q[j].pid # p
  \/ (\A i \in 1 .. Len(q) : q[i].pid # p) /\ s[p] = x

\* With no event on its way a card is what it will be.
LEMMA SettlesEmpty ==
  ASSUME NEW s, NEW p, NEW x, NEW q, q = <<>>, Settles(q, s, p, x)
  PROVE  s[p] = x
BY EmptySeq DEF Settles

\* An event behind the others settles the card of its pid, and no other.
LEMMA SettlesAppend ==
  ASSUME NEW q \in Seq(Events), NEW e \in Events, NEW s, NEW p, NEW x
  PROVE  /\ e.pid = p /\ e.act = x => Settles(Append(q, e), s, p, x)
         /\ e.pid # p /\ Settles(q, s, p, x) => Settles(Append(q, e), s, p, x)
<1> DEFINE r == Append(q, e)
<1>1. /\ Len(q) \in Nat /\ Len(r) = Len(q) + 1 /\ r[Len(q) + 1] = e
      /\ \A i \in 1 .. Len(q) : r[i] = q[i]
  BY AppendProperties, LenProperties
<1> HIDE DEF r
<1>2. ASSUME e.pid = p, e.act = x PROVE Settles(r, s, p, x)
  <2>1. \A j \in (Len(q) + 1) + 1 .. Len(r) : r[j].pid # p
    BY <1>1
  <2> QED
    BY <1>1, <1>2, <2>1 DEF Settles
<1>3. ASSUME e.pid # p, Settles(q, s, p, x) PROVE Settles(r, s, p, x)
  <2>1. CASE (\A i \in 1 .. Len(q) : q[i].pid # p) /\ s[p] = x
    <3>1. ASSUME NEW i \in 1 .. Len(r) PROVE r[i].pid # p
      BY <1>1, <1>3, <2>1
    <3> QED
      BY <2>1, <3>1 DEF Settles
  <2>2. ASSUME NEW i \in 1 .. Len(q), q[i].pid = p, q[i].act = x,
               \A j \in i + 1 .. Len(q) : q[j].pid # p
        PROVE  Settles(r, s, p, x)
    <3>1. ASSUME NEW j \in i + 1 .. Len(r) PROVE r[j].pid # p
      BY <1>1, <1>3, <2>2
    <3>2. i \in 1 .. Len(r) /\ r[i].pid = p /\ r[i].act = x
      BY <1>1, <2>2
    <3> QED
      BY <3>1, <3>2 DEF Settles
  <2> QED
    BY <1>3, <2>1, <2>2 DEF Settles
<1> QED
  BY <1>2, <1>3 DEF r

\* Applying the event in front changes nothing of it.
LEMMA SettlesApply ==
  ASSUME IpcAssumption, SessionShape, Apply, NEW p \in PidKeys, NEW x,
         Settles(queue, shown, p, x)
  PROVE  Settles(queue', shown', p, x)
<1> DEFINE e == queue[1]
<1>1. /\ e \in Events /\ Len(queue) \in Nat /\ Len(queue) >= 1
      /\ Len(queue') = Len(queue) - 1
      /\ \A i \in 1 .. Len(queue) - 1 : queue'[i] = queue[i + 1] /\ i + 1 \in 1 .. Len(queue)
      /\ shown' = [shown EXCEPT ![e.pid] = e.act]
      /\ shown \in [PidKeys -> Acts \cup {None}]
  BY AppliesWhat DEF SessionShape, LoopTyped
<1>2. /\ queue[1].pid = p => shown'[p] = queue[1].act
      /\ queue[1].pid # p => shown'[p] = shown[p]
  BY <1>1
<1> HIDE DEF e
<1>3. CASE (\A i \in 1 .. Len(queue) : queue[i].pid # p) /\ shown[p] = x
  <2>1. \A i \in 1 .. Len(queue') : queue'[i].pid # p
    BY <1>1, <1>3
  <2> QED
    BY <1>1, <1>2, <1>3, <2>1 DEF Settles
<1>4. ASSUME NEW i \in 1 .. Len(queue), queue[i].pid = p, queue[i].act = x,
             \A j \in i + 1 .. Len(queue) : queue[j].pid # p
      PROVE  Settles(queue', shown', p, x)
  <2>1. CASE i = 1
    <3>1. \A j \in 1 .. Len(queue') : queue'[j].pid # p
      BY <1>1, <1>4, <2>1
    <3> QED
      BY <1>2, <1>4, <2>1, <3>1 DEF Settles
  <2>2. CASE i # 1
    <3>1. /\ i - 1 \in 1 .. Len(queue') /\ queue'[i - 1] = queue[i]
      BY <1>1, <2>2
    <3>2. \A j \in (i - 1) + 1 .. Len(queue') : queue'[j].pid # p
      BY <1>1, <1>4, <2>2
    <3> QED
      BY <1>4, <3>1, <3>2 DEF Settles
  <2> QED
    BY <2>1, <2>2
<1> QED
  BY <1>3, <1>4 DEF Settles

-----------------------------------------------------------------------------
(* Sessions: every connection is of one application and one pid of its own. *)

\* A game shakes hands for one application and puts one pid in its frames, its own;
\* one that sends SET_ACTIVITY without args puts none.
Sessions(of) ==
  /\ of \in [Conns -> [app : Apps, pid : PidKeys]]
  /\ \A c \in Conns : \A k \in Packets[c] :
       /\ k.kind = "hello" => k.app = of[c].app
       /\ k.kind = "frame" => k.pid = of[c].pid
       /\ k.kind = "bare"  => of[c].pid = NoPid
  /\ \A c, d \in Conns : of[c].pid = of[d].pid => c = d \/ of[c].pid = NoPid

\* The thread knows the application and the pid of its game, or none yet.
Named(of, c) ==
  /\ handler[c].app \in {None, of[c].app} /\ handler[c].pid \in {NoPid, of[c].pid}
  /\ handler[c].greeted => handler[c].app = of[c].app
\* What it answers is of the pid that it knows.
Replying(of, c) ==
  handler[c].at = "reply" => (handler[c].answered.kind = "frame" => handler[c].pid = of[c].pid)
\* What a game was told is a frame, and it was told since it connected.
Echoes(c) ==
  /\ handler[c].at = "off" => game[c].echoed = None
  /\ game[c].echoed # None => game[c].echoed \in Packets[c] /\ game[c].echoed.kind = "frame"
\* What it sends is of its pid: the frame it answers behind, or a clear.
Sending(of, c) ==
  handler[c].at = "send" =>
    LET e == handler[c].event IN
      /\ e.pid = handler[c].pid /\ e.app \in {None, of[c].app}
      /\ handler[c].then = "reply" =>
           /\ handler[c].answered.kind = "frame" /\ handler[c].answered.act = e.act
           /\ e.app = of[c].app /\ e.pid = of[c].pid
      /\ handler[c].then # "reply" => e.act = None
      /\ handler[c].then = "read" => of[c].pid = NoPid
\* What the game was told of is what its card will say.
Told(of, c) ==
  of[c].pid # NoPid /\ game[c].on =>
    /\ (handler[c].at = "read" \/ (handler[c].at = "reply" /\ handler[c].answered.kind # "frame"))
       => (game[c].echoed # None => Settles(queue, shown, of[c].pid, game[c].echoed.act))
    /\ (handler[c].at = "reply" /\ handler[c].answered.kind = "frame")
       => Settles(queue, shown, of[c].pid, handler[c].answered.act)

\* An event is of a connection's pid and application, or of no pid.
Belongs(of, e) ==
  e.pid # NoPid =>
    \E c \in Conns : /\ of[c].pid = e.pid /\ e.app \in {None, of[c].app}
                     /\ e.act # None => e.app = of[c].app
\* A card stays only while a connection is there to clear it.
Tended(of, p) ==
  \/ Settles(queue, shown, p, None)
  \/ \E c \in Conns : /\ handler[c].at \in {"read", "send", "reply", "refused"}
                       /\ handler[c].pid = p /\ of[c].pid = p
\* An application is owned by a pid with a card, of a connection of the application.
OwnedBy(of, a) ==
  owner[a] \in Pids =>
    shown[owner[a]] # None /\ \E c \in Conns : of[c].pid = owner[a] /\ of[c].app = a

Conned(of) == \A c \in Conns : Named(of, c) /\ Replying(of, c) /\ Echoes(c) /\ Sending(of, c)
Settled(of) ==
  /\ \A c \in Conns : Told(of, c)
  /\ \A i \in 1 .. Len(queue) : Belongs(of, queue[i])
  /\ \A p \in PidKeys : Tended(of, p)
  /\ \A a \in Apps : OwnedBy(of, a)

\* The first part, which speaks of a connection alone.
LEMMA ConnedTurn ==
  ASSUME IpcAssumption, SessionShape, NEW of, Sessions(of), Conned(of), NEW c \in Conns, Turn(c)
  PROVE  Conned(of)'
<1>0. /\ handler[c] \in Handlers /\ game[c] \in Players /\ Handling(c) /\ c \in Conns
      /\ Named(of, c) /\ Replying(of, c) /\ Echoes(c) /\ Sending(of, c)
      /\ \A k \in Packets[c] : k \in Packet
      /\ of[c].app \in Apps /\ of[c].pid \in PidKeys
      /\ \A k \in Packets[c] : /\ k.kind = "hello" => k.app = of[c].app
                               /\ k.kind = "frame" => k.pid = of[c].pid
                               /\ k.kind = "bare"  => of[c].pid = NoPid
  BY DEF SessionShape, ConnsTyped, Conned, IpcAssumption, Sessions
<1>1. ASSUME NEW d \in Conns, d # c
      PROVE  Named(of, d)' /\ Replying(of, d)' /\ Echoes(d)' /\ Sending(of, d)'
  <2>1. /\ handler'[d] = handler[d] /\ game'[d] = game[d]
        /\ Named(of, d) /\ Replying(of, d) /\ Echoes(d) /\ Sending(of, d)
    BY <1>1 DEF Turn, Only, SessionShape, ConnsTyped, Conned
  <2> QED
    BY <2>1 DEF Named, Replying, Echoes, Sending
<1>2. CASE Starts(c)
  <2>1. handler'[c] = Goes(handler[c], "read") /\ game'[c] = Joins(game[c])
    BY <1>2 DEF Starts
  <2>2. /\ handler'[c].at = "read" /\ handler'[c].greeted = handler[c].greeted
        /\ handler'[c].app = handler[c].app /\ handler'[c].pid = handler[c].pid
        /\ game'[c].echoed = game[c].echoed
    BY <1>0, <2>1, CutType, OfGoes, OfGame
  <2> QED
    BY <1>0, <1>1, <2>2 DEF Conned, Named, Replying, Echoes, Sending
<1>3. CASE Stops(c) \/ \E k \in Packets[c] : Puts(c, k)
  <2>1. game'[c].echoed = game[c].echoed /\ handler' = handler
    BY <1>0, <1>3, CutType, OfGame DEF Stops, Puts
  <2> QED
    BY <1>0, <1>1, <2>1 DEF Conned, Named, Replying, Echoes, Sending
<1>4. CASE Skips(c)
  <2>1. game'[c] = game[c] /\ handler' = handler
    BY <1>4 DEF Skips, TakesOne
  <2> QED
    BY <1>0, <1>1, <2>1 DEF Conned, Named, Replying, Echoes, Sending
<1>5. CASE Denies(c)
  <2>1. handler'[c] = Goes(handler[c], "refused") /\ game'[c] = game[c]
    BY <1>5 DEF Denies, TakesOne
  <2>2. /\ handler'[c].at = "refused" /\ handler'[c].greeted = handler[c].greeted
        /\ handler'[c].app = handler[c].app /\ handler'[c].pid = handler[c].pid
    BY <1>0, <2>1, OfGoes
  <2> QED
    BY <1>0, <1>1, <2>1, <2>2 DEF Conned, Named, Replying, Echoes, Sending
<1>6. CASE Wipes(c)
  <2>1. PICK e \in Events, then \in {"read", "ended", "recreate"} :
          /\ handler'[c] = Sends(handler[c], e, then) /\ e.pid = handler[c].pid
          /\ e.app \in {None, handler[c].app} /\ e.act = None
          /\ then = "read" => of[c].pid = NoPid
    BY <1>0, <1>6, OfEvents DEF Wipes, CloseEvent
  <2>2. /\ handler'[c].at = "send" /\ handler'[c].greeted = handler[c].greeted
        /\ handler'[c].app = handler[c].app /\ handler'[c].pid = handler[c].pid
        /\ handler'[c].event = e /\ handler'[c].then = then /\ game'[c] = game[c]
    BY <1>0, <1>6, <2>1, OfSends DEF Wipes, TakesOne
  <2>3. Sending(of, c)'
    BY <1>0, <2>1, <2>2 DEF Named, Sending
  <2> QED
    BY <1>0, <1>1, <2>2, <2>3 DEF Conned, Named, Replying, Echoes
<1>7. CASE Enqueues(c)
  <2>1. handler'[c] = Handed(handler[c]) /\ game' = game /\ handler[c].at = "send"
    BY <1>7 DEF Enqueues
  <2>2. /\ handler'[c].at = handler[c].then /\ handler'[c].greeted = handler[c].greeted
        /\ handler'[c].app = handler[c].app /\ handler'[c].pid = handler[c].pid
        /\ handler[c].then \in {"read", "reply", "recreate", "ended"}
    <3>1. LET h == Handed(handler[c]) IN
            /\ h.at = handler[c].then /\ h.greeted = handler[c].greeted
            /\ h.app = handler[c].app /\ h.pid = handler[c].pid
      BY <1>0, OfEnds
    <3>2. handler[c].then \in {"read", "reply", "recreate", "ended"}
      BY <1>0 DEF Handlers
    <3> QED
      BY <2>1, <3>1, <3>2
  <2>3. Replying(of, c)'
    BY <1>0, <2>1, <2>2 DEF Sending, Replying
  <2>4. Sending(of, c)' /\ Echoes(c)'
    BY <1>0, <2>1, <2>2 DEF Sending, Echoes
  <2> QED
    BY <1>0, <1>1, <2>2, <2>3, <2>4 DEF Conned, Named
<1>8. CASE Tells(c)
  <2>1. /\ handler'[c] = Freed(handler[c]) /\ handler[c].at = "reply"
        /\ handler[c].answered \in Packets[c] /\ handler[c].answered \in Packet
        /\ game'[c] = IF game[c].on THEN Heard(game[c], handler[c].answered) ELSE game[c]
    BY <1>0, <1>8 DEF Tells, Handling
  <2>2. /\ handler'[c].at = "read" /\ handler'[c].greeted = handler[c].greeted
        /\ handler'[c].app = handler[c].app /\ handler'[c].pid = handler[c].pid
    <3>1. LET h == Freed(handler[c]) IN
            /\ h.at = "read" /\ h.greeted = handler[c].greeted
            /\ h.app = handler[c].app /\ h.pid = handler[c].pid
      BY <1>0, OfEnds
    <3> QED
      BY <2>1, <3>1
  <2>3. \/ game'[c].echoed = game[c].echoed
        \/ game'[c].echoed = handler[c].answered /\ handler[c].answered.kind = "frame"
    BY <1>0, <2>1, OfGame
  <2>4. Echoes(c)'
    BY <1>0, <2>1, <2>2, <2>3 DEF Echoes
  <2> QED
    BY <1>0, <1>1, <2>2, <2>4 DEF Conned, Named, Replying, Sending
<1>9. CASE Renews(c)
  <2>1. handler'[c] = Reset(handler[c]) /\ game' = game
    BY <1>9 DEF Renews
  <2>2. /\ handler'[c].at = "ended" /\ ~handler'[c].greeted
        /\ handler'[c].app = None /\ handler'[c].pid = NoPid
    <3>1. LET h == Reset(handler[c]) IN
            h.at = "ended" /\ ~h.greeted /\ h.app = None /\ h.pid = NoPid
      BY <1>0, OfEnds
    <3> QED
      BY <2>1, <3>1
  <2> QED
    BY <1>0, <1>1, <2>1, <2>2 DEF Conned, Named, Replying, Echoes, Sending
<1>10. ASSUME NEW k \in Packets[c], Greeted(c, k) PROVE Conned(of)'
  <2>1. /\ handler'[c] = Greets(handler[c], k) /\ game'[c] = game[c] /\ k \in Packet
        /\ k.kind = "hello"
    BY <1>0, <1>10 DEF Greeted, TakesOne
  <2>2. /\ handler'[c].at = "reply" /\ handler'[c].app = k.app
        /\ handler'[c].pid = handler[c].pid /\ handler'[c].answered = k
    BY <1>0, <2>1, OfGreets
  <2> QED
    BY <1>0, <1>1, <2>1, <2>2 DEF Conned, Named, Replying, Echoes, Sending
<1>11. ASSUME NEW k \in Packets[c], Responds(c, k) PROVE Conned(of)'
  <2>1. /\ handler'[c] = Replies(handler[c], k) /\ game'[c] = game[c] /\ k \in Packet
        /\ k.kind # "frame"
    BY <1>0, <1>11 DEF Responds, TakesOne
  <2>2. /\ handler'[c].at = "reply" /\ handler'[c].app = handler[c].app
        /\ handler'[c].pid = handler[c].pid /\ handler'[c].answered = k
        /\ handler'[c].greeted = handler[c].greeted
    BY <1>0, <2>1, OfReplies
  <2> QED
    BY <1>0, <1>1, <2>1, <2>2 DEF Conned, Named, Replying, Echoes, Sending
<1>12. ASSUME NEW k \in Packets[c], Issues(c, k) PROVE Conned(of)'
  <2>1. /\ handler'[c] = Publishes(handler[c], k) /\ game'[c] = game[c] /\ k \in Packet
        /\ k.kind = "frame" /\ handler[c].greeted
    BY <1>0, <1>12 DEF Issues, TakesOne
  <2>2. /\ handler'[c].at = "send" /\ handler'[c].app = handler[c].app
        /\ handler'[c].pid = k.pid /\ handler'[c].answered = k
        /\ handler'[c].greeted = handler[c].greeted /\ handler'[c].then = "reply"
        /\ handler'[c].event = Event(handler[c].app, k.pid, k.act)
    <3>1. LET h == Publishes(handler[c], k) IN
            /\ h.at = "send" /\ h.app = handler[c].app /\ h.pid = k.pid /\ h.answered = k
            /\ h.greeted = handler[c].greeted /\ h.then = "reply"
            /\ h.event = Event(handler[c].app, k.pid, k.act)
      <4>1. k \in Packet /\ handler[c] \in Handlers
        BY <1>0
      <4> QED
        BY <4>1, OfPublishes
    <3> QED
      BY <2>1, <3>1
  <2>3. Sending(of, c)'
    BY <1>0, <2>1, <2>2 DEF Named, Sending, Event
  <2> QED
    BY <1>0, <1>1, <2>1, <2>2, <2>3 DEF Conned, Named, Replying, Echoes
<1> QED
  BY <1>2, <1>3, <1>4, <1>5, <1>6, <1>7, <1>8, <1>9, <1>10, <1>11, <1>12 DEF Turn

\* The second part: a connection puts an event behind the others.
LEMMA ShowsEnqueue ==
  ASSUME IpcAssumption, SessionShape, NEW of, Sessions(of), Conned(of), Settled(of),
         NEW c \in Conns, Only(c), Enqueues(c)
  PROVE  Settled(of)'
<1> DEFINE e == handler[c].event
<1>0. /\ handler[c] \in Handlers /\ queue \in Seq(Events) /\ e \in Events
      /\ handler[c].at = "send" /\ queue' = Append(queue, e) /\ shown' = shown /\ owner' = owner
      /\ game' = game /\ Named(of, c) /\ Sending(of, c)
      /\ of[c].app \in Apps /\ of[c].pid \in PidKeys
  BY DEF SessionShape, ConnsTyped, LoopTyped, Handling, Enqueues, Only, Conned, Sessions
<1>1. /\ e.pid = handler[c].pid /\ e.app \in {None, of[c].app}
      /\ handler[c].then = "reply" =>
           /\ handler[c].answered.kind = "frame" /\ handler[c].answered.act = e.act
           /\ e.app = of[c].app /\ e.pid = of[c].pid
      /\ handler[c].then # "reply" => e.act = None
      /\ handler[c].then = "read" => of[c].pid = NoPid
      /\ e.pid \in {NoPid, of[c].pid}
  BY <1>0 DEF Sending, Named
<1>2. /\ handler'[c].at = handler[c].then /\ handler'[c].answered = handler[c].answered
      /\ handler'[c].pid = handler[c].pid
  <2>1. LET h == Handed(handler[c]) IN
          h.at = handler[c].then /\ h.answered = handler[c].answered /\ h.pid = handler[c].pid
    BY <1>0, OfEnds
  <2> QED
    BY <2>1 DEF Enqueues
<1>3. ASSUME NEW d \in Conns, d # c
      PROVE  handler'[d] = handler[d] /\ game'[d] = game[d]
  BY <1>0, <1>3 DEF Only, SessionShape, ConnsTyped
<1> HIDE DEF e
<1>4. ASSUME NEW d \in Conns PROVE Told(of, d)'
  <2>1. CASE d = c
    <3>1. CASE handler[c].then = "reply"
      <4>1. Settles(queue', shown', of[c].pid, handler'[c].answered.act)
        BY <1>0, <1>1, <1>2, <3>1, SettlesAppend
      <4> QED
        BY <1>1, <1>2, <2>1, <3>1, <4>1 DEF Told
    <3>2. CASE handler[c].then # "reply"
      BY <1>1, <1>2, <2>1, <3>2 DEF Told
    <3> QED
      BY <3>1, <3>2
  <2>2. CASE d # c /\ of[d].pid # NoPid
    <3>1. e.pid # of[d].pid
      BY <1>1, <2>2 DEF Sessions
    <3>2. \A x : Settles(queue, shown, of[d].pid, x) => Settles(queue', shown', of[d].pid, x)
      BY <1>0, <3>1, SettlesAppend
    <3>3. Told(of, d)
      BY DEF Settled
    <3> QED
      BY <1>3, <2>2, <3>2, <3>3 DEF Told
  <2>3. CASE of[d].pid = NoPid
    BY <2>3 DEF Told
  <2> QED
    BY <2>1, <2>2, <2>3
<1>5. \A i \in 1 .. Len(queue') : Belongs(of, queue'[i])
  <2>1. Belongs(of, e)
    BY <1>0, <1>1 DEF Belongs
  <2>2. /\ Len(queue) \in Nat /\ Len(queue') = Len(queue) + 1 /\ queue'[Len(queue) + 1] = e
        /\ \A i \in 1 .. Len(queue) : queue'[i] = queue[i]
    BY <1>0, AppendProperties, LenProperties
  <2>3. \A i \in 1 .. Len(queue) : Belongs(of, queue[i])
    BY DEF Settled
  <2>4. ASSUME NEW i \in 1 .. Len(queue') PROVE Belongs(of, queue'[i])
    <3>1. CASE i = Len(queue) + 1
      BY <2>1, <2>2, <3>1
    <3>2. CASE i # Len(queue) + 1
      <4>1. i \in 1 .. Len(queue)
        BY <2>2, <3>2
      <4> QED
        BY <2>2, <2>3, <4>1
    <3> QED
      BY <3>1, <3>2
  <2> QED
    BY <2>4
<1>6. ASSUME NEW p \in PidKeys PROVE Tended(of, p)'
  <2>0. Tended(of, p)
    BY DEF Settled
  <2>1. CASE e.pid = p /\ e.act = None
    <3>1. Settles(queue', shown', p, None)
      BY <1>0, <2>1, SettlesAppend
    <3> QED
      BY <3>1 DEF Tended
  <2>2. CASE e.pid = p /\ e.act # None
    BY <1>1, <1>2, <2>2 DEF Tended
  <2>3. CASE e.pid # p
    <3>1. CASE Settles(queue, shown, p, None)
      <4>1. Settles(queue', shown', p, None)
        BY <1>0, <2>3, <3>1, SettlesAppend
      <4> QED
        BY <4>1 DEF Tended
    <3>2. ASSUME NEW d \in Conns, handler[d].at \in {"read", "send", "reply", "refused"},
                 handler[d].pid = p, of[d].pid = p
          PROVE  Tended(of, p)'
      <4>1. d # c
        BY <1>1, <2>3, <3>2
      <4> QED
        BY <1>3, <3>2, <4>1 DEF Tended
    <3> QED
      BY <2>0, <3>1, <3>2 DEF Tended
  <2> QED
    BY <2>1, <2>2, <2>3
<1>7. \A a \in Apps : OwnedBy(of, a)'
  BY <1>0 DEF Settled, OwnedBy
<1> QED
  BY <1>4, <1>5, <1>6, <1>7 DEF Settled

\* Any other step of a connection leaves the queue and the cards alone.
LEMMA ShowsTurn ==
  ASSUME IpcAssumption, SessionShape, NEW of, Sessions(of), Conned(of), Settled(of),
         NEW c \in Conns, Turn(c), queue' = queue
  PROVE  Settled(of)'
<1>0. /\ handler[c] \in Handlers /\ game[c] \in Players /\ Handling(c)
      /\ Named(of, c) /\ Replying(of, c) /\ Echoes(c) /\ Told(of, c)
      /\ shown' = shown /\ owner' = owner /\ of[c].pid \in PidKeys
      /\ \A k \in Packets[c] : k \in Packet /\ (k.kind = "frame" => k.pid = of[c].pid)
  BY DEF SessionShape, ConnsTyped, Turn, Only, Conned, Settled, Sessions, IpcAssumption
<1>1. ASSUME NEW d \in Conns, d # c
      PROVE  handler'[d] = handler[d] /\ game'[d] = game[d]
  BY <1>1 DEF Turn, Only, SessionShape, ConnsTyped
\* What the step makes of the thread and the game of c.
<1> DEFINE Living(h) == h.at \in {"read", "send", "reply", "refused"} /\ h.pid = of[c].pid
<1>2. /\ Told(of, c)'
      /\ Living(handler[c]) => Living(handler'[c])
  <2>1. CASE Starts(c)
    <3>1. handler'[c] = Goes(handler[c], "read") /\ game'[c] = Joins(game[c]) /\ handler[c].at = "off"
      BY <2>1 DEF Starts
    <3>2. handler'[c].at = "read" /\ game'[c].echoed = game[c].echoed
      BY <1>0, <3>1, CutType, OfGoes, OfGame
    <3> QED
      BY <1>0, <3>1, <3>2 DEF Told, Echoes
  <2>2. CASE Stops(c)
    <3>1. handler' = handler /\ ~game'[c].on
      BY <1>0, <2>2, CutType, OfGame DEF Stops
    <3> QED
      BY <3>1 DEF Told
  <2>3. CASE \E k \in Packets[c] : Puts(c, k)
    <3>1. handler' = handler /\ game'[c].on = game[c].on /\ game'[c].echoed = game[c].echoed
      <4>1. PICK k \in Packets[c] : game'[c] = Wrote(game[c], k) /\ handler' = handler
        BY <2>3 DEF Puts
      <4>2. /\ Wrote(game[c], k).on = game[c].on
            /\ Wrote(game[c], k).echoed = game[c].echoed
        BY <1>0, <4>1, OfGame
      <4> QED
        BY <4>1, <4>2
    <3> QED
      BY <1>0, <3>1 DEF Told
  <2>4. CASE Skips(c)
    <3>1. handler' = handler /\ game'[c] = game[c]
      BY <2>4 DEF Skips, TakesOne
    <3> QED
      BY <1>0, <3>1 DEF Told
  <2>5. CASE Denies(c)
    <3>1. handler'[c] = Goes(handler[c], "refused")
      BY <2>5 DEF Denies
    <3>2. handler'[c].at = "refused" /\ handler'[c].pid = handler[c].pid
      BY <1>0, <3>1, OfGoes
    <3> QED
      BY <3>2 DEF Told
  <2>6. CASE Wipes(c)
    <3>1. PICK e \in Events, then \in {"read", "ended", "recreate"} :
            handler'[c] = Sends(handler[c], e, then)
      BY <1>0, <2>6, OfEvents DEF Wipes, CloseEvent
    <3>2. handler'[c].at = "send" /\ handler'[c].pid = handler[c].pid
      BY <1>0, <3>1, OfSends
    <3> QED
      BY <3>2 DEF Told
  <2>7. CASE Tells(c)
    <3>1. /\ handler'[c] = Freed(handler[c]) /\ handler[c].at = "reply"
          /\ handler[c].answered \in Packet
          /\ game'[c] = IF game[c].on THEN Heard(game[c], handler[c].answered) ELSE game[c]
      BY <1>0, <2>7 DEF Tells, Handling
    <3>2. handler'[c].at = "read" /\ handler'[c].pid = handler[c].pid
      <4>1. Freed(handler[c]).at = "read" /\ Freed(handler[c]).pid = handler[c].pid
        BY <1>0, OfEnds
      <4> QED
        BY <3>1, <4>1
    <3>3. /\ game'[c].on = game[c].on
          /\ game[c].on => game'[c].echoed = IF handler[c].answered.kind = "frame"
                                               THEN handler[c].answered ELSE game[c].echoed
      BY <1>0, <3>1, OfGame
    <3> QED
      BY <1>0, <3>1, <3>2, <3>3 DEF Told
  <2>8. CASE Renews(c)
    <3>1. handler[c].at = "recreate" /\ handler'[c] = Reset(handler[c])
      BY <2>8 DEF Renews
    <3>2. handler'[c].at = "ended"
      <4>1. Reset(handler[c]).at = "ended"
        BY <1>0, OfEnds
      <4> QED
        BY <3>1, <4>1
    <3> QED
      BY <3>1, <3>2 DEF Told
  <2>9. ASSUME NEW k \in Packets[c], Greeted(c, k) \/ Responds(c, k)
        PROVE  Told(of, c)' /\ (Living(handler[c]) => Living(handler'[c]))
    <3>1. /\ handler'[c] = Greets(handler[c], k) \/ handler'[c] = Replies(handler[c], k)
          /\ game'[c] = game[c] /\ handler[c].at = "read" /\ k \in Packet /\ k.kind # "frame"
      BY <1>0, <2>9 DEF Greeted, Responds, TakesOne
    <3>2. handler'[c].at = "reply" /\ handler'[c].pid = handler[c].pid /\ handler'[c].answered = k
      <4>1. Greets(handler[c], k).at = "reply" /\ Greets(handler[c], k).pid = handler[c].pid
            /\ Greets(handler[c], k).answered = k
        BY <1>0, <3>1, OfGreets
      <4>2. Replies(handler[c], k).at = "reply" /\ Replies(handler[c], k).pid = handler[c].pid
            /\ Replies(handler[c], k).answered = k
        BY <1>0, <3>1, OfReplies
      <4> QED
        BY <3>1, <4>1, <4>2
    <3> QED
      BY <1>0, <3>1, <3>2 DEF Told
  <2>10. ASSUME NEW k \in Packets[c], Issues(c, k)
         PROVE  Told(of, c)' /\ (Living(handler[c]) => Living(handler'[c]))
    <3>1. handler'[c] = Publishes(handler[c], k) /\ k \in Packet /\ k.pid = of[c].pid
      BY <1>0, <2>10 DEF Issues
    <3>2. handler'[c].at = "send" /\ handler'[c].pid = of[c].pid
      <4>1. Publishes(handler[c], k).at = "send" /\ Publishes(handler[c], k).pid = k.pid
        BY <1>0, <3>1, OfPublishes
      <4> QED
        BY <3>1, <4>1
    <3> QED
      BY <3>2 DEF Told
  <2>11. ~Enqueues(c)
    <3>1. queue \in Seq(Events) /\ (Enqueues(c) => handler[c].event \in Events)
      BY <1>0 DEF SessionShape, LoopTyped, Handling, Enqueues
    <3>2. ASSUME Enqueues(c) PROVE FALSE
      BY <3>1, <3>2, AppendProperties, LenProperties DEF Enqueues
    <3> QED
      BY <3>2
  <2> QED
    BY <2>1, <2>2, <2>3, <2>4, <2>5, <2>6, <2>7, <2>8, <2>9, <2>10, <2>11 DEF Turn
<1>3. ASSUME NEW d \in Conns PROVE Told(of, d)'
  <2>1. CASE d # c
    BY <1>0, <1>1, <2>1 DEF Settled, Told
  <2> QED
    BY <1>2, <2>1
<1>4. ASSUME NEW p \in PidKeys PROVE Tended(of, p)'
  <2>1. CASE Settles(queue, shown, p, None)
    BY <1>0, <2>1 DEF Tended
  <2>2. ASSUME NEW d \in Conns, handler[d].at \in {"read", "send", "reply", "refused"},
               handler[d].pid = p, of[d].pid = p
        PROVE  Tended(of, p)'
    <3>1. CASE d = c
      BY <1>2, <2>2, <3>1 DEF Tended
    <3>2. CASE d # c
      BY <1>1, <2>2, <3>2 DEF Tended
    <3> QED
      BY <3>1, <3>2
  <2> QED
    BY <2>1, <2>2 DEF Settled, Tended
<1>5. \A i \in 1 .. Len(queue') : Belongs(of, queue'[i])
  BY DEF Settled
<1>6. \A a \in Apps : OwnedBy(of, a)'
  BY <1>0 DEF Settled, OwnedBy
<1> QED
  BY <1>3, <1>4, <1>5, <1>6 DEF Settled

\* The event loop applies an event.
LEMMA ShowsApply ==
  ASSUME IpcAssumption, SessionShape, NEW of, Sessions(of), Settled(of), Apply
  PROVE  Settled(of)'
<1> DEFINE e == queue[1]
<1>1. /\ e \in Events /\ Len(queue) \in Nat /\ Len(queue) >= 1 /\ Len(queue') = Len(queue) - 1
      /\ \A i \in 1 .. Len(queue) - 1 : queue'[i] = queue[i + 1] /\ i + 1 \in 1 .. Len(queue)
      /\ shown' = [shown EXCEPT ![e.pid] = e.act]
      /\ owner' = IF e.act = None THEN Released(e) ELSE [owner EXCEPT ![e.app] = e.pid]
      /\ game' = game /\ handler' = handler
  BY AppliesWhat
<1>2. /\ of \in [Conns -> [app : Apps, pid : PidKeys]] /\ Belongs(of, e)
      /\ shown \in [PidKeys -> Acts \cup {None}] /\ owner \in [Apps -> PidKeys \cup {None}]
  <2>1. 1 \in 1 .. Len(queue)
    BY <1>1
  <2> QED
    BY <2>1 DEF Settled, Sessions, SessionShape, LoopTyped
<1> HIDE DEF e
<1>3. ASSUME NEW d \in Conns PROVE Told(of, d)'
  <2>1. of[d].pid \in PidKeys /\ Told(of, d)
    BY <1>2 DEF Settled
  <2>2. \A x : Settles(queue, shown, of[d].pid, x) => Settles(queue', shown', of[d].pid, x)
    BY <2>1, SettlesApply
  <2> QED
    BY <1>1, <2>1, <2>2 DEF Told
<1>4. \A i \in 1 .. Len(queue') : Belongs(of, queue'[i])
  <2>1. ASSUME NEW i \in 1 .. Len(queue') PROVE Belongs(of, queue'[i])
    <3>1. queue'[i] = queue[i + 1] /\ i + 1 \in 1 .. Len(queue)
      BY <1>1
    <3> QED
      BY <3>1 DEF Settled
  <2> QED
    BY <2>1
<1>5. ASSUME NEW p \in PidKeys PROVE Tended(of, p)'
  <2>1. Settles(queue, shown, p, None) => Settles(queue', shown', p, None)
    BY SettlesApply
  <2> QED
    BY <1>1, <2>1 DEF Settled, Tended
<1>6. ASSUME NEW a \in Apps, owner'[a] \in Pids
      PROVE  shown'[owner'[a]] # None /\ \E c \in Conns : of[c].pid = owner'[a] /\ of[c].app = a
  <2>1. OwnedBy(of, a) /\ NoPid \notin Pids /\ None \notin Pids /\ Pids \subseteq PidKeys
    BY DEF Settled, IpcAssumption, PidKeys
  <2>2. CASE e.act # None
    <3>1. CASE e.app = a
      <4>1. owner'[a] = e.pid /\ shown'[e.pid] = e.act /\ e.pid # NoPid
        BY <1>1, <1>2, <1>6, <2>1, <2>2, <3>1 DEF Events
      <4> QED
        BY <1>2, <2>2, <3>1, <4>1 DEF Belongs
    <3>2. CASE e.app # a
      <4>1. owner'[a] = owner[a]
        BY <1>1, <1>2, <2>2, <3>2
      <4>2. owner[a] \in PidKeys /\ shown[owner[a]] # None
            /\ \E c \in Conns : of[c].pid = owner[a] /\ of[c].app = a
        BY <1>6, <2>1, <4>1 DEF OwnedBy
      <4>3. shown'[owner[a]] # None
        BY <1>1, <1>2, <2>2, <4>2
      <4> QED
        BY <4>1, <4>2, <4>3
    <3> QED
      BY <3>1, <3>2
  <2>3. CASE e.act = None
    <3>1. owner'[a] = owner[a] /\ ~(owner[a] = e.pid /\ e.pid # NoPid /\ e.app \in {a, None})
      BY <1>1, <1>6, <2>1, <2>3 DEF Released
    <3>2. PICK c \in Conns : of[c].pid = owner[a] /\ of[c].app = a
      BY <1>6, <2>1, <3>1 DEF OwnedBy
    <3>3. shown[owner[a]] # None /\ owner[a] \in PidKeys
      BY <1>6, <2>1, <3>1 DEF OwnedBy
    <3>4. e.pid # owner[a]
      <4>1. ASSUME e.pid = owner[a] PROVE FALSE
        <5>1. e.pid # NoPid
          BY <1>6, <2>1, <3>1, <4>1
        <5>2. PICK d \in Conns : of[d].pid = e.pid /\ e.app \in {None, of[d].app}
          BY <1>2, <5>1 DEF Belongs
        <5>3. d = c
          BY <3>2, <4>1, <5>1, <5>2 DEF Sessions
        <5> QED
          BY <3>1, <3>2, <4>1, <5>1, <5>2, <5>3
      <4> QED
        BY <4>1
    <3>5. shown'[owner[a]] = shown[owner[a]]
      BY <1>1, <1>2, <3>3, <3>4
    <3> QED
      BY <3>1, <3>2, <3>3, <3>5
  <2> QED
    BY <2>2, <2>3
<1>7. \A a \in Apps : OwnedBy(of, a)'
  BY <1>6 DEF OwnedBy
<1> QED
  BY <1>3, <1>4, <1>5, <1>7 DEF Settled

\* At first no connection is up and no card is shown.
LEMMA SessionsInit ==
  ASSUME IpcAssumption, NEW of, Sessions(of), SessionInit
  PROVE  Conned(of) /\ Settled(of)
<1>1. /\ \A c \in Conns : handler[c] = Idle /\ game[c] = Away
      /\ Len(queue) = 0 /\ \A p \in PidKeys : shown[p] = None
      /\ \A a \in Apps : owner[a] = None
  BY EmptySeq DEF SessionInit
<1>2. None \notin Pids /\ (\A p \in PidKeys : Settles(queue, shown, p, None))
  BY <1>1 DEF IpcAssumption, PidKeys, Settles
<1>3. Conned(of)
  BY <1>1 DEF Conned, Named, Replying, Echoes, Sending, Idle, Away
<1> QED
  BY <1>1, <1>2, <1>3 DEF Settled, Told, Tended, OwnedBy, Idle, Away

\* Conned and Settled are inductive.
LEMMA SessionsStep ==
  ASSUME IpcAssumption, SessionShape, NEW of, Sessions(of), Conned(of), Settled(of),
         [SessionNext]_sessionVars
  PROVE  Conned(of)' /\ Settled(of)'
<1>1. CASE UNCHANGED sessionVars
  BY <1>1 DEF sessionVars, Conned, Settled, Named, Replying, Echoes, Sending, Told, Tended, OwnedBy
<1>2. CASE Apply
  <2>1. game' = game /\ handler' = handler
    BY <1>2 DEF Apply
  <2>2. Conned(of)'
    BY <2>1 DEF Conned, Named, Replying, Echoes, Sending
  <2> QED
    BY <1>2, <2>2, ShowsApply
<1>3. ASSUME NEW c \in Conns, Turn(c) PROVE Conned(of)' /\ Settled(of)'
  <2>1. queue' = queue \/ (Only(c) /\ Enqueues(c))
    BY <1>3 DEF Turn, Starts, Stops, Puts, Skips, Denies, Wipes, Greeted, Responds, Issues,
                TakesOne, Tells, Renews
  <2> QED
    BY <1>3, <2>1, ConnedTurn, ShowsEnqueue, ShowsTurn
<1> QED
  BY <1>1, <1>2, <1>3, SessionSteps

\* They say that the cards follow the sessions.
LEMMA SessionsMean ==
  ASSUME IpcAssumption, SessionShape, NEW of, Sessions(of), Conned(of), Settled(of)
  PROVE  CardsFollowSessions
<1>1. EchoedIsShown
  <2>1. ASSUME NEW c \in Conns, game[c].on, handler[c].at = "read", queue = <<>>,
               game[c].echoed # None, game[c].echoed.pid \in Pids
        PROVE  shown[game[c].echoed.pid] = game[c].echoed.act
    <3>1. Told(of, c) /\ Echoes(c) /\ NoPid \notin Pids
      BY DEF Conned, Settled, IpcAssumption
    <3>2. of[c].pid = game[c].echoed.pid /\ of[c].pid # NoPid
      BY <2>1, <3>1 DEF Echoes, Sessions
    <3>3. Settles(queue, shown, of[c].pid, game[c].echoed.act)
      BY <2>1, <3>1, <3>2 DEF Told
    <3> QED
      BY <2>1, <3>2, <3>3, SettlesEmpty
  <2> QED
    BY <2>1 DEF EchoedIsShown, EchoedShown, At
<1>2. ClearedAtEnd
  <2>1. SUFFICES ASSUME \A c \in Conns : handler[c].at \in {"off", "recreate", "ended"},
                        queue = <<>>
                 PROVE  /\ \A p \in PidKeys : shown[p] = None
                        /\ \A a \in Apps : owner[a] \in {None, NoPid}
    BY DEF ClearedAtEnd
  <2>2. ASSUME NEW p \in PidKeys PROVE shown[p] = None
    <3>1. Settles(queue, shown, p, None)
      BY <2>1 DEF Settled, Tended
    <3> QED
      BY <2>1, <3>1, SettlesEmpty
  <2>3. ASSUME NEW a \in Apps PROVE owner[a] \in {None, NoPid}
    <3>1. OwnedBy(of, a) /\ owner[a] \in Pids \cup {NoPid, None} /\ Pids \subseteq PidKeys
      BY DEF Settled, SessionShape, LoopTyped, PidKeys
    <3> QED
      BY <2>2, <3>1 DEF OwnedBy
  <2> QED
    BY <2>2, <2>3
<1> QED
  BY <1>1, <1>2 DEF CardsFollowSessions

\* Where every game has one application and a pid of its own, what a game was told
\* is what the bridge shows, and no card and no owner outlives the connections
\* (ipc_utils.rs: handle_stream, handle_set_activity, and the clears it sends).
THEOREM CardsFollow ==
  ASSUME IpcAssumption, NEW of, Sessions(of)
  PROVE  SessionSpec => []CardsFollowSessions
<1>1. SessionInit => SessionShape /\ Conned(of) /\ Settled(of)
  BY SessionShapeInit, SessionsInit
<1>2. SessionShape /\ Conned(of) /\ Settled(of) /\ [SessionNext]_sessionVars
        => (SessionShape /\ Conned(of) /\ Settled(of))'
  BY SessionSteps, SessionsStep
<1>3. SessionShape /\ Conned(of) /\ Settled(of) => CardsFollowSessions
  BY SessionsMean
<1> QED
  BY <1>1, <1>2, <1>3, PTL DEF SessionSpec

-----------------------------------------------------------------------------
(* The detection database.  What follows rests on its assumption.           *)

USE DetectablesAssumption

-----------------------------------------------------------------------------
(* Types.                                                                   *)

\* A start takes its content and the overrides, or nothing when that does
\* not build.
LEMMA InitialType ==
  ASSUME NEW content \in Contents, NEW overrides \in SUBSET OverrideNames
  PROVE  /\ Initial(content, overrides).list \in Contents
         /\ Initial(content, overrides).custom \in SUBSET OverrideNames
         /\ Buildable(content) => /\ Initial(content, overrides).list = content
                                  /\ Initial(content, overrides).custom = overrides
BY DEF Initial, Blind

\* DetectTyped holds at first.
LEMMA InitTyped == DetectInit => DetectTyped
<1> SUFFICES ASSUME DetectInit PROVE DetectTyped
  OBVIOUS
<1>1. remote.body \in Bodies /\ remote.body.content \in Contents
  BY DEF DetectInit, Responses, Bodies
<1>2. /\ list \in Contents /\ raw \in Bodies \cup {None} /\ trimmed \in Contents \cup {None}
      /\ raw = None <=> trimmed = None
  BY <1>1 DEF DetectInit, BootFetched, BootBundled
<1>3. call.at = "idle" /\ refresh.at = "off"
  BY DEF DetectInit
<1> QED
  BY <1>2, <1>3 DEF DetectInit, DetectTyped, DetectTypeOK, Rebuilding

\* The steps of a check: what is known is a body or nothing.
LEMMA KnownType ==
  ASSUME remote \in Responses, Known
  PROVE  /\ raw' \in Bodies /\ trimmed' \in Contents
         /\ raw' # None /\ trimmed' # None /\ remote.body.content \in Contents
BY DEF Known, Responses, Bodies

\* DetectTyped is inductive.
LEMMA NextTyped == DetectTyped /\ [DetectNext]_detectVars => DetectTyped'
<1> SUFFICES ASSUME DetectTyped, [DetectNext]_detectVars PROVE DetectTyped'
  OBVIOUS
<1> USE DEF DetectTyped, DetectTypeOK, Rebuilding
<1>1. CASE StartServer
  <2>1. list' \in Contents /\ custom' \in SUBSET OverrideNames
    BY <1>1, InitialType DEF StartServer
  <2> QED
    BY <1>1, <2>1 DEF StartServer
<1>2. ASSUME NEW n \in OverrideNames, StageAppend(n) PROVE DetectTyped'
  BY <1>2 DEF StageAppend
<1>3. ASSUME NEW n \in OverrideNames, Append1(n) \/ RemoveName(n) PROVE DetectTyped'
  BY <1>3 DEF Append1, RemoveName, Change
<1>4. CASE RebuildList
  BY <1>4 DEF RebuildList
<1>5. CASE RebuildSwap
  BY <1>5 DEF RebuildSwap
<1>6. CASE Serve
  BY <1>6 DEF Serve
<1>7. CASE RefreshExclusions
  BY <1>7 DEF RefreshExclusions, Waiting
<1>8. CASE FetchFailed
  BY <1>8 DEF FetchFailed, Fetched
<1>9. CASE FetchUnchanged
  BY <1>9 DEF FetchUnchanged, Fetched
<1>10. CASE FetchSame
  BY <1>10, KnownType DEF FetchSame, Fetched
<1>11. CASE FetchUpdated
  BY <1>11, KnownType DEF FetchUpdated, Fetched
<1>12. CASE UpdateRead
  BY <1>12 DEF UpdateRead
<1>13. CASE UpdateSwap
  BY <1>13 DEF UpdateSwap
<1>14. CASE UNCHANGED detectVars
  BY <1>14 DEF detectVars
<1> QED
  BY <1>1, <1>2, <1>3, <1>4, <1>5, <1>6, <1>7, <1>8, <1>9, <1>10, <1>11, <1>12, <1>13, <1>14
     DEF DetectNext, Api, RefreshThread, FetchDone

\* Every variable keeps its type, and the refresh thread knows the bytes of a
\* database exactly when it knows what the scanner reads of it.
THEOREM DetectTypeCorrect == DetectSpec => []DetectTypeOK
<1>1. DetectTyped => DetectTypeOK
  BY DEF DetectTyped
<1> QED
  BY <1>1, InitTyped, NextTyped, PTL DEF DetectSpec

-----------------------------------------------------------------------------
(* Reads, builds and writes of the API and of the refresh, one at a time.   *)

\* Without races one of API and refresh is at work.
LEMMA NextSerial ==
  ASSUME Racing = FALSE
  PROVE  DetectTyped /\ OneAtATime /\ [DetectNext]_detectVars => OneAtATime'
<1> SUFFICES ASSUME DetectTyped, OneAtATime, [DetectNext]_detectVars PROVE OneAtATime'
  OBVIOUS
<1> USE DEF OneAtATime, DetectTyped, DetectTypeOK, Rebuilding
<1>1. CASE StartServer
  BY <1>1 DEF StartServer
<1>2. ASSUME NEW n \in OverrideNames, StageAppend(n) PROVE OneAtATime'
  BY <1>2 DEF StageAppend
<1>3. ASSUME NEW n \in OverrideNames, Append1(n) \/ RemoveName(n) PROVE OneAtATime'
  BY <1>3 DEF Append1, RemoveName, Change
<1>4. CASE RebuildList \/ RebuildSwap
  BY <1>4 DEF RebuildList, RebuildSwap
<1>5. CASE Serve \/ RefreshExclusions
  BY <1>5 DEF Serve, RefreshExclusions
<1>6. CASE FetchFailed \/ FetchUnchanged \/ FetchSame \/ FetchUpdated
  BY <1>6 DEF FetchFailed, FetchUnchanged, FetchSame, FetchUpdated, Fetched
<1>7. CASE UpdateRead \/ UpdateSwap
  BY <1>7 DEF UpdateRead, UpdateSwap
<1>8. CASE UNCHANGED detectVars
  BY <1>8 DEF detectVars
<1> QED
  BY <1>1, <1>2, <1>3, <1>4, <1>5, <1>6, <1>7, <1>8
     DEF DetectNext, Api, RefreshThread, FetchDone

\* No refresh and no call takes the games away from a daemon that has some
\* (update_main_detectables refuses an empty or unbuildable database).
THEOREM NoRefreshBlinds ==
  ASSUME Racing = FALSE
  PROVE  DetectSpec => NeverBlinded
<1>1. DetectInit => OneAtATime
  BY DEF DetectInit, OneAtATime
<1>2. ASSUME DetectTyped, OneAtATime, DetectNext, started, list # NoGames
      PROVE  list' # NoGames
  <2>1. CASE RebuildSwap
    BY <1>2, <2>1 DEF RebuildSwap, OneAtATime
  <2>2. CASE UpdateSwap
    BY <1>2, <2>2 DEF UpdateSwap, DetectTyped, HasGames
  <2>3. CASE ~(RebuildSwap \/ UpdateSwap)
    <3>1. list' = list
      BY <1>2, <2>3 DEF DetectNext, StartServer, Api, StageAppend, Append1, RemoveName, Change,
         RebuildList, Serve, RefreshThread, RefreshExclusions, FetchFailed, FetchDone,
         FetchUnchanged, FetchSame, FetchUpdated, Fetched, UpdateRead
    <3> QED
      BY <1>2, <3>1
  <2> QED
    BY <2>1, <2>2, <2>3
<1>3. DetectTyped /\ OneAtATime /\ [DetectNext]_detectVars
        => [started /\ list # NoGames => list' # NoGames]_detectVars
  BY <1>2
<1> QED
  BY <1>1, <1>3, InitTyped, NextTyped, NextSerial, PTL DEF DetectSpec, NeverBlinded

\* Without races what the API has read is still in force when it swaps.
LEMMA NextAsked ==
  ASSUME Racing = FALSE
  PROVE  DetectTyped /\ OneAtATime /\ AskedIsHeld /\ [DetectNext]_detectVars => AskedIsHeld'
<1> SUFFICES ASSUME DetectTyped, OneAtATime, AskedIsHeld, [DetectNext]_detectVars
             PROVE  AskedIsHeld'
  OBVIOUS
<1> USE DEF AskedIsHeld, OneAtATime, DetectTyped, DetectTypeOK, Rebuilding
<1>1. CASE StartServer
  <2>1. custom' = staged /\ call.at = "idle"
    BY <1>1, InitialType DEF StartServer
  <2> QED
    BY <1>1, <2>1 DEF StartServer
<1>2. ASSUME NEW n \in OverrideNames, StageAppend(n) PROVE AskedIsHeld'
  BY <1>2 DEF StageAppend
<1>3. ASSUME NEW n \in OverrideNames, Append1(n) \/ RemoveName(n) PROVE AskedIsHeld'
  <2>1. started /\ call.at = "idle" /\ custom = asked
    BY <1>3 DEF Append1, RemoveName, Change
  <2>2. call'.at = "list" /\ call'.custom = asked' /\ started'
    <3>1. CASE Append1(n)
      BY <2>1, <3>1 DEF Append1, Change
    <3>2. CASE RemoveName(n)
      BY <2>1, <3>2 DEF RemoveName, Change
    <3> QED
      BY <1>3, <3>1, <3>2
  <2> QED
    BY <2>2
<1>4. CASE RebuildList \/ RebuildSwap
  BY <1>4 DEF RebuildList, RebuildSwap
<1>5. CASE Serve \/ RefreshExclusions
  BY <1>5 DEF Serve, RefreshExclusions
<1>6. CASE FetchFailed \/ FetchUnchanged \/ FetchSame \/ FetchUpdated
  BY <1>6 DEF FetchFailed, FetchUnchanged, FetchSame, FetchUpdated, Fetched
<1>7. CASE UpdateRead \/ UpdateSwap
  BY <1>7 DEF UpdateRead, UpdateSwap
<1>8. CASE UNCHANGED detectVars
  BY <1>8 DEF detectVars
<1> QED
  BY <1>1, <1>2, <1>3, <1>4, <1>5, <1>6, <1>7, <1>8
     DEF DetectNext, Api, RefreshThread, FetchDone

-----------------------------------------------------------------------------
(* parse_exclusions.  The sums of a list's prefixes are a function; a least *)
(* counterexample shows what it is.                                         *)

Sums(s, g) ==
  /\ g \in [0 .. Len(s) -> Nat] /\ g[0] = 0
  /\ \A i \in 1 .. Len(s) : g[i] = g[i - 1] + s[i]

\* The equation that defines the local function of Program.
Total(s, f) == f = [i \in 0 .. Len(s) |-> IF i = 0 THEN 0 ELSE f[i - 1] + s[i]]

\* A list of numbers has its running sums.
LEMMA SumsExist ==
  ASSUME NEW s \in Seq(Nat)
  PROVE  \E g : Sums(s, g)
<1> DEFINE Upto(n, g) == /\ g \in [0 .. n -> Nat] /\ g[0] = 0
                         /\ \A i \in 1 .. n : g[i] = g[i - 1] + s[i]
<1> DEFINE Bad == {n \in 0 .. Len(s) : ~\E g : Upto(n, g)}
<1>0. Len(s) \in Nat /\ s \in [1 .. Len(s) -> Nat]
  OBVIOUS
<1>1. Bad = {}
  <2> SUFFICES ASSUME Bad # {} PROVE FALSE
    OBVIOUS
  <2>1. Bad \in SUBSET Nat
    BY <1>0
  <2>2. PICK m \in Bad : \A n \in Bad : m <= n
    BY <2>1, Least
  <2>3. m \in 0 .. Len(s) /\ ~\E g : Upto(m, g)
    OBVIOUS
  <2>4. CASE m = 0
    <3>1. Upto(0, [i \in 0 .. 0 |-> 0])
      OBVIOUS
    <3> QED
      BY <2>3, <2>4, <3>1
  <2>5. CASE m > 0
    <3>1. m - 1 \in 0 .. Len(s)
      BY <1>0, <2>3, <2>5
    <3>2. ~(m <= m - 1)
      BY <2>3
    <3>3. m - 1 \notin Bad
      BY <2>2, <3>2
    <3>4. PICK g : Upto(m - 1, g)
      BY <3>1, <3>3
    <3> DEFINE h == [i \in 0 .. m |-> IF i < m THEN g[i] ELSE g[m - 1] + s[m]]
    <3>5. g \in [0 .. (m - 1) -> Nat] /\ g[0] = 0 /\ \A i \in 1 .. (m - 1) : g[i] = g[i - 1] + s[i]
      BY <3>4
    <3>6. h \in [0 .. m -> Nat] /\ h[0] = 0
      BY <1>0, <2>3, <2>5, <3>5
    <3>7. \A i \in 1 .. m : h[i] = h[i - 1] + s[i]
      BY <1>0, <2>3, <2>5, <3>5
    <3> QED
      BY <2>3, <3>6, <3>7
  <2> QED
    BY <2>3, <2>4, <2>5
<1>2. Len(s) \notin Bad
  BY <1>1
<1>3. \E g : Upto(Len(s), g)
  BY <1>0, <1>2
<1> QED
  BY <1>3 DEF Sums

\* Program is the last of the sums.
LEMMA ProgramIs ==
  ASSUME NEW s \in Seq(Nat), NEW g, Sums(s, g)
  PROVE  Program(s) = g[Len(s)]
<1> DEFINE f == CHOOSE f : Total(s, f)
<1>0. Len(s) \in Nat
  OBVIOUS
<1>1. Program(s) = f[Len(s)]
  BY DEF Program, Total
<1>2. Total(s, g)
  BY <1>0 DEF Sums, Total
<1>3. Total(s, f)
  BY <1>2
<1> HIDE DEF f
<1>4. /\ f[0] = 0 /\ \A i \in 1 .. Len(s) : f[i] = f[i - 1] + s[i]
  BY <1>0, <1>3 DEF Total
<1> DEFINE Bad == {n \in 0 .. Len(s) : f[n] # g[n]}
<1>5. Bad = {}
  <2> SUFFICES ASSUME Bad # {} PROVE FALSE
    OBVIOUS
  <2>1. Bad \in SUBSET Nat
    BY <1>0
  <2>2. PICK m \in Bad : \A n \in Bad : m <= n
    BY <2>1, Least
  <2>3. m \in 0 .. Len(s) /\ f[m] # g[m]
    OBVIOUS
  <2>4. m # 0
    BY <1>4, <2>3 DEF Sums
  <2>5. m - 1 \in 0 .. Len(s) /\ m \in 1 .. Len(s) /\ ~(m <= m - 1)
    BY <1>0, <2>3, <2>4
  <2>6. f[m - 1] = g[m - 1]
    BY <2>2, <2>5
  <2> QED
    BY <1>4, <2>3, <2>5, <2>6 DEF Sums
<1> QED
  BY <1>0, <1>1, <1>5

\* A longer prefix takes no less.
LEMMA SumsGrow ==
  ASSUME NEW s \in Seq(Nat), NEW g, Sums(s, g), NEW k \in 0 .. Len(s)
  PROVE  \A n \in 0 .. Len(s) : k <= n => g[k] <= g[n]
<1> DEFINE Bad == {n \in 0 .. Len(s) : k <= n /\ ~(g[k] <= g[n])}
<1>0. Len(s) \in Nat /\ s \in [1 .. Len(s) -> Nat]
  OBVIOUS
<1>1. Bad = {}
  <2> SUFFICES ASSUME Bad # {} PROVE FALSE
    OBVIOUS
  <2>1. Bad \in SUBSET Nat
    BY <1>0
  <2>2. PICK m \in Bad : \A n \in Bad : m <= n
    BY <2>1, Least
  <2>3. m \in 0 .. Len(s) /\ k <= m /\ ~(g[k] <= g[m])
    OBVIOUS
  <2>4. m # k
    <3>1. g[k] \in Nat
      BY DEF Sums
    <3> QED
      BY <2>3, <3>1
  <2>5. m - 1 \in 0 .. Len(s) /\ m \in 1 .. Len(s) /\ k <= m - 1 /\ ~(m <= m - 1)
    BY <1>0, <2>3, <2>4
  <2>6. g[k] <= g[m - 1]
    BY <2>2, <2>5
  <2>7. /\ g[m] = g[m - 1] + s[m] /\ s[m] \in Nat /\ g[m - 1] \in Nat /\ g[k] \in Nat
        /\ g[m] \in Nat
    BY <1>0, <2>5 DEF Sums
  <2> QED
    BY <2>3, <2>6, <2>7
<1> QED
  BY <1>0, <1>1

\* A prefix fits when its sum is within the budget.
LEMMA FitsIs ==
  ASSUME NEW s \in Seq(Nat), NEW g, Sums(s, g), NEW n \in 0 .. Len(s)
  PROVE  Fits(s, n) <=> g[n] <= MAX_PATTERN_BYTES
<1> DEFINE t == SubSeq(s, 1, n)
<1> DEFINE h == [i \in 0 .. n |-> g[i]]
<1>0. Len(s) \in Nat /\ n \in Nat /\ n <= Len(s)
  OBVIOUS
<1>1. t \in Seq(Nat) /\ Len(t) = n /\ \A i \in 1 .. n : t[i] = s[i]
  BY <1>0, SubSeqProperties
<1> HIDE DEF t
<1>2. Sums(t, h)
  <2>1. \A i \in 0 .. n : i \in 0 .. Len(s)
    BY <1>0
  <2>2. h \in [0 .. n -> Nat] /\ h[0] = 0
    <3>1. \A i \in 0 .. Len(s) : g[i] \in Nat
      BY DEF Sums
    <3>2. \A i \in 0 .. n : g[i] \in Nat
      BY <2>1, <3>1
    <3>3. 0 \in 0 .. n /\ g[0] = 0
      BY <1>0 DEF Sums
    <3> QED
      BY <3>2, <3>3
  <2>3. ASSUME NEW i \in 1 .. n PROVE h[i] = h[i - 1] + t[i]
    <3>1. i \in 1 .. Len(s) /\ i \in 0 .. n /\ i - 1 \in 0 .. n
      BY <1>0
    <3> QED
      BY <1>1, <3>1 DEF Sums
  <2> QED
    BY <1>1, <2>2, <2>3 DEF Sums
<1>3. Program(t) = h[n]
  BY <1>1, <1>2, ProgramIs
<1> QED
  BY <1>0, <1>3 DEF Fits, t

\* The equation that defines the search of Kept, and what solves it: the
\* greatest prefix that fits, within the range that is still searched.
FitSearch(s, f) ==
  f = [range \in (0 .. Len(s)) \X (0 .. Len(s)) |->
         LET lo  == range[1]
             hi  == range[2]
             mid == (lo + hi + 1) \div 2
         IN  IF lo >= hi THEN lo
             ELSE IF Fits(s, mid) THEN f[<<mid, hi>>]
             ELSE f[<<lo, mid - 1>>]]

Clamp(k, lo, hi) == IF lo >= hi \/ k <= lo THEN lo ELSE IF k >= hi THEN hi ELSE k

\* k is where the prefixes stop fitting.
Greatest(s, k) ==
  /\ k \in 0 .. Len(s)
  /\ \A n \in 0 .. Len(s) : Fits(s, n) <=> n <= k

\* Some prefix of a list is the longest that fits.
LEMMA GreatestExists ==
  ASSUME NEW s \in Seq(Nat)
  PROVE  \E k : Greatest(s, k)
<1>0. Len(s) \in Nat
  OBVIOUS
<1>1. PICK g : Sums(s, g)
  BY SumsExist
<1> DEFINE T == {n \in 0 .. Len(s) : n = Len(s) \/ ~Fits(s, n + 1)}
<1>2. T \in SUBSET Nat /\ Len(s) \in T
  BY <1>0
<1>3. PICK k \in T : \A n \in T : k <= n
  BY <1>2, Least
<1>4. k \in 0 .. Len(s) /\ (k = Len(s) \/ ~Fits(s, k + 1))
  OBVIOUS
<1>5. ASSUME NEW n \in 0 .. Len(s), n <= k PROVE Fits(s, n)
  <2>1. CASE n = 0
    <3>1. g[0] = 0 /\ 0 \in 0 .. Len(s) /\ 0 <= MAX_PATTERN_BYTES
      BY <1>0, <1>1 DEF Sums
    <3> QED
      BY <1>1, <2>1, <3>1, FitsIs
  <2>2. CASE n # 0
    <3>1. n - 1 \in 0 .. Len(s) /\ n - 1 < k /\ (n - 1) + 1 = n /\ n - 1 # Len(s)
      BY <1>0, <1>4, <1>5, <2>2
    <3>2. n - 1 \notin T
      <4> SUFFICES ASSUME n - 1 \in T PROVE FALSE
        OBVIOUS
      <4>1. k <= n - 1
        BY <1>3
      <4> QED
        BY <1>4, <3>1, <4>1
    <3> QED
      BY <3>1, <3>2
  <2> QED
    BY <2>1, <2>2
<1>6. ASSUME NEW n \in 0 .. Len(s), n > k PROVE ~Fits(s, n)
  <2>1. k + 1 \in 0 .. Len(s) /\ k + 1 <= n /\ k # Len(s)
    BY <1>0, <1>4, <1>6
  <2>2. ~(g[k + 1] <= MAX_PATTERN_BYTES)
    BY <1>1, <1>4, <2>1, FitsIs
  <2>3. g[k + 1] <= g[n] /\ g[k + 1] \in Nat /\ g[n] \in Nat
    BY <1>1, <2>1, SumsGrow DEF Sums
  <2>4. ~(g[n] <= MAX_PATTERN_BYTES)
    BY <2>2, <2>3
  <2> QED
    BY <1>1, <2>4, FitsIs
<1>7. Greatest(s, k)
  <2>1. \A n \in 0 .. Len(s) : n <= k \/ n > k
    BY <1>0, <1>4
  <2> QED
    BY <1>4, <1>5, <1>6, <2>1 DEF Greatest
<1> QED
  BY <1>7

\* The middle of a range to search is inside it, and above its lower end.
LEMMA MiddleInRange ==
  ASSUME NEW L \in Nat, NEW lo \in 0 .. L, NEW hi \in 0 .. L, lo < hi
  PROVE  /\ (lo + hi + 1) \div 2 \in 0 .. L
         /\ lo < (lo + hi + 1) \div 2 /\ (lo + hi + 1) \div 2 <= hi
         /\ (lo + hi + 1) \div 2 - 1 \in 0 .. L
OBVIOUS

\* The search, one step at a time.
LEMMA SearchUnfolds ==
  ASSUME NEW s, Len(s) \in Nat, NEW f, FitSearch(s, f),
         NEW lo \in 0 .. Len(s), NEW hi \in 0 .. Len(s)
  PROVE  /\ lo >= hi => f[<<lo, hi>>] = lo
         /\ ~(lo >= hi) /\ Fits(s, (lo + hi + 1) \div 2)
              => f[<<lo, hi>>] = f[<<(lo + hi + 1) \div 2, hi>>]
         /\ ~(lo >= hi) /\ ~Fits(s, (lo + hi + 1) \div 2)
              => f[<<lo, hi>>] = f[<<lo, (lo + hi + 1) \div 2 - 1>>]
BY DEF FitSearch

\* The greatest prefix that fits solves the equation of the search.
LEMMA SearchSolved ==
  ASSUME NEW s, Len(s) \in Nat, NEW k, Greatest(s, k)
  PROVE  FitSearch(s, [range \in (0 .. Len(s)) \X (0 .. Len(s)) |-> Clamp(k, range[1], range[2])])
<1> DEFINE L == Len(s)
<1> DEFINE f == [range \in (0 .. L) \X (0 .. L) |-> Clamp(k, range[1], range[2])]
<1>1. \A lo, hi \in 0 .. L : f[<<lo, hi>>] = Clamp(k, lo, hi)
  OBVIOUS
<1>2. ASSUME NEW lo \in 0 .. L, NEW hi \in 0 .. L
      PROVE  Clamp(k, lo, hi) =
               LET mid == (lo + hi + 1) \div 2
               IN  IF lo >= hi THEN lo
                   ELSE IF Fits(s, mid) THEN Clamp(k, mid, hi) ELSE Clamp(k, lo, mid - 1)
  <2> DEFINE mid == (lo + hi + 1) \div 2
  <2>1. CASE lo >= hi
    BY <2>1 DEF Clamp
  <2>2. CASE ~(lo >= hi)
    <3>1. mid \in 0 .. L /\ lo < mid /\ mid <= hi /\ k \in 0 .. L
      BY <2>2, MiddleInRange DEF Greatest
    <3>2. Fits(s, mid) <=> mid <= k
      BY <3>1 DEF Greatest
    <3> HIDE DEF mid
    <3>3. mid <= k => Clamp(k, mid, hi) = Clamp(k, lo, hi)
      BY <2>2, <3>1 DEF Clamp
    <3>4. ~(mid <= k) => Clamp(k, lo, mid - 1) = Clamp(k, lo, hi)
      BY <2>2, <3>1 DEF Clamp
    <3>5. Clamp(k, lo, hi) =
            IF lo >= hi THEN lo
            ELSE IF Fits(s, mid) THEN Clamp(k, mid, hi) ELSE Clamp(k, lo, mid - 1)
      BY <2>2, <3>2, <3>3, <3>4
    <3> QED
      BY <3>5 DEF mid
  <2> QED
    BY <2>1, <2>2
<1>3. ASSUME NEW range \in (0 .. L) \X (0 .. L)
      PROVE  f[range] =
               LET lo  == range[1]
                   hi  == range[2]
                   mid == (lo + hi + 1) \div 2
               IN  IF lo >= hi THEN lo
                   ELSE IF Fits(s, mid) THEN f[<<mid, hi>>]
                   ELSE f[<<lo, mid - 1>>]
  <2>1. PICK lo \in 0 .. L, hi \in 0 .. L : range = <<lo, hi>>
    OBVIOUS
  <2> DEFINE mid == (lo + hi + 1) \div 2
  <2>2. ~(lo >= hi) => mid \in 0 .. L /\ mid - 1 \in 0 .. L
    BY MiddleInRange
  <2> HIDE DEF f
  <2>3. f[<<lo, hi>>] = IF lo >= hi THEN lo
                        ELSE IF Fits(s, mid) THEN f[<<mid, hi>>] ELSE f[<<lo, mid - 1>>]
    <3>1. CASE lo >= hi
      BY <1>1, <3>1 DEF Clamp
    <3>2. CASE ~(lo >= hi)
      <4>1. /\ f[<<lo, hi>>] = Clamp(k, lo, hi) /\ f[<<mid, hi>>] = Clamp(k, mid, hi)
            /\ f[<<lo, mid - 1>>] = Clamp(k, lo, mid - 1)
        BY <1>1, <2>2, <3>2
      <4>2. Clamp(k, lo, hi) = IF Fits(s, mid) THEN Clamp(k, mid, hi) ELSE Clamp(k, lo, mid - 1)
        BY <1>2, <3>2
      <4> QED
        BY <3>2, <4>1, <4>2
    <3> QED
      BY <3>1, <3>2
  <2> QED
    BY <2>1, <2>3
<1> QED
  BY <1>3 DEF FitSearch

\* Every solution of that equation finds it, from every range it lies in.
LEMMA SearchFinds ==
  ASSUME NEW s, Len(s) \in Nat, NEW k, Greatest(s, k), NEW f, FitSearch(s, f)
  PROVE  \A lo, hi \in 0 .. Len(s) : lo <= k /\ k <= hi => f[<<lo, hi>>] = k
<1> DEFINE L == Len(s)
<1> DEFINE Wrong(lo, hi) == lo <= k /\ k <= hi /\ f[<<lo, hi>>] # k
<1> DEFINE Bad == {d \in 0 .. L : \E lo, hi \in 0 .. L : d = hi - lo /\ Wrong(lo, hi)}
<1>0. k \in 0 .. L
  BY DEF Greatest
<1>a. ASSUME NEW lo \in 0 .. L, NEW hi \in 0 .. L, lo >= hi PROVE f[<<lo, hi>>] = lo
  BY <1>a DEF FitSearch
<1>1. Bad = {}
  <2> SUFFICES ASSUME Bad # {} PROVE FALSE
    OBVIOUS
  <2>1. Bad \in SUBSET Nat
    OBVIOUS
  <2>2. PICK d \in Bad : \A e \in Bad : d <= e
    BY <2>1, Least
  <2>3. PICK lo \in 0 .. L, hi \in 0 .. L : d = hi - lo /\ Wrong(lo, hi)
    OBVIOUS
  <2>4. ~(lo >= hi)
    <3> SUFFICES ASSUME lo >= hi PROVE FALSE
      OBVIOUS
    <3>1. f[<<lo, hi>>] = lo
      BY <1>a
    <3>2. lo = k
      BY <1>0, <2>3
    <3> QED
      BY <2>3, <3>1, <3>2
  <2> DEFINE mid == (lo + hi + 1) \div 2
  <2>5. mid \in 0 .. L /\ lo < mid /\ mid <= hi /\ mid - 1 \in 0 .. L
    BY <2>4, MiddleInRange
  <2>6. /\ Fits(s, mid) <=> mid <= k
        /\ Fits(s, mid) => f[<<lo, hi>>] = f[<<mid, hi>>]
        /\ ~Fits(s, mid) => f[<<lo, hi>>] = f[<<lo, mid - 1>>]
    BY <2>4, <2>5, SearchUnfolds DEF Greatest
  <2> HIDE DEF mid
  <2>7. CASE mid <= k
    <3>1. Wrong(mid, hi) /\ hi - mid \in 0 .. L /\ hi - mid < d
      BY <1>0, <2>3, <2>5, <2>6, <2>7
    <3>2. hi - mid \in Bad
      BY <2>5, <3>1
    <3>3. d <= hi - mid
      BY <2>2, <3>2
    <3> QED
      BY <2>3, <2>5, <3>1, <3>3
  <2>8. CASE ~(mid <= k)
    <3>1. Wrong(lo, mid - 1) /\ (mid - 1) - lo \in 0 .. L /\ (mid - 1) - lo < d
      BY <1>0, <2>3, <2>5, <2>6, <2>8
    <3>2. (mid - 1) - lo \in Bad
      BY <2>5, <3>1
    <3>3. d <= (mid - 1) - lo
      BY <2>2, <3>2
    <3> QED
      BY <2>3, <2>5, <3>1, <3>3
  <2> QED
    BY <2>7, <2>8
<1>2. ASSUME NEW lo \in 0 .. L, NEW hi \in 0 .. L, lo <= k, k <= hi
      PROVE  f[<<lo, hi>>] = k
  <2>1. hi - lo \in 0 .. L
    BY <1>0, <1>2
  <2>2. hi - lo \notin Bad
    BY <1>1
  <2> QED
    BY <1>2, <2>1, <2>2
<1> QED
  BY <1>2

\* What parse_exclusions keeps is the longest prefix within the budget.
LEMMA KeptIs ==
  ASSUME NEW s \in Seq(Nat)
  PROVE  \E k : Greatest(s, k) /\ Kept(s) = SubSeq(s, 1, k)
<1>0. Len(s) \in Nat
  OBVIOUS
<1>1. PICK k : Greatest(s, k)
  BY GreatestExists
<1>2. CASE Fits(s, Len(s))
  <2>1. k = Len(s)
    BY <1>0, <1>1, <1>2 DEF Greatest
  <2>2. Kept(s) = s
    BY <1>2 DEF Kept
  <2>3. SubSeq(s, 1, Len(s)) = s
    BY SubSeqFull
  <2> QED
    BY <1>1, <2>1, <2>2, <2>3
<1>3. CASE ~Fits(s, Len(s))
  <2> DEFINE f == CHOOSE f : FitSearch(s, f)
  <2>1. Kept(s) = SubSeq(s, 1, f[<<0, Len(s)>>])
    BY <1>3 DEF Kept, FitSearch
  <2>2. FitSearch(s, f)
    BY <1>0, <1>1, SearchSolved
  <2> HIDE DEF f
  <2>3. k \in 0 .. Len(s) /\ 0 \in 0 .. Len(s) /\ Len(s) \in 0 .. Len(s) /\ 0 <= k /\ k <= Len(s)
    BY <1>0, <1>1 DEF Greatest
  <2>4. f[<<0, Len(s)>>] = k
    BY <1>0, <1>1, <2>2, <2>3, SearchFinds
  <2> QED
    BY <1>1, <2>1, <2>4
<1> QED
  BY <1>2, <1>3

\* What the search keeps fits.
LEMMA KeptFits ==
  ASSUME NEW s \in PatternLists, exclusions' = Kept(s)
  PROVE  ExclusionsFit'
<1>0. s \in Seq(Nat) /\ Len(s) \in Nat
  OBVIOUS
<1>1. PICK k : Greatest(s, k) /\ Kept(s) = SubSeq(s, 1, k)
  BY <1>0, KeptIs
<1>2. k \in 0 .. Len(s) /\ \A n \in 0 .. Len(s) : Fits(s, n) <=> n <= k
  BY <1>1 DEF Greatest
<1>3. Len(exclusions') = k
  BY <1>0, <1>1, <1>2, SubSeqProperties
<1>4. Fits(s, k) /\ \A n \in (k + 1) .. Len(s) : ~Fits(s, n)
  BY <1>0, <1>2
<1>5. k <= Len(s) /\ exclusions' = SubSeq(s, 1, k)
  BY <1>0, <1>1, <1>2
<1> QED
  BY <1>3, <1>4, <1>5 DEF ExclusionsFit

\* The exclusions in force fit, after every step.
LEMMA NextFits == ExclusionsFit /\ [DetectNext]_detectVars => ExclusionsFit'
<1> SUFFICES ASSUME ExclusionsFit, [DetectNext]_detectVars PROVE ExclusionsFit'
  OBVIOUS
<1>1. CASE exclusions' = exclusions
  BY <1>1 DEF ExclusionsFit
<1>2. CASE RefreshExclusions
  <2>1. CASE exclusions' = <<>>
    BY <2>1 DEF ExclusionsFit
  <2> QED
    BY <1>1, <1>2, <2>1, KeptFits DEF RefreshExclusions
<1>3. CASE ~RefreshExclusions
  <2>1. exclusions' = exclusions
    BY <1>3 DEF DetectNext, StartServer, Api, StageAppend, Append1, RemoveName, Change,
       RebuildList, RebuildSwap, Serve, RefreshThread, FetchFailed, FetchDone,
       FetchUnchanged, FetchSame, FetchUpdated, Fetched, UpdateRead, UpdateSwap, detectVars
  <2> QED
    BY <1>1, <2>1
<1> QED
  BY <1>2, <1>3

\* The overrides in force are the ones asked for whenever nothing is under way,
\* through every rebuild and refresh that comes one at a time, and the
\* exclusions are the longest prefix of a served list whose patterns fit
\* (append_detectables, remove_detectable_by_name, rebuild_custom,
\* update_main_detectables, parse_exclusions).
THEOREM InForce ==
  ASSUME Racing = FALSE, BlindStart = FALSE
  PROVE  DetectSpec => []InForceAsGiven
<1>1. DetectInit => OneAtATime /\ AskedIsHeld /\ ExclusionsFit
  BY DEF DetectInit, OneAtATime, AskedIsHeld, ExclusionsFit
<1>2. AskedIsHeld /\ ExclusionsFit => InForceAsGiven
  BY DEF AskedIsHeld, InForceAsGiven, OverridesKept
<1> QED
  BY <1>1, <1>2, InitTyped, NextTyped, NextSerial, NextAsked, NextFits, PTL DEF DetectSpec

=============================================================================

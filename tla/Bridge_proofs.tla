---------------------------- MODULE Bridge_proofs ---------------------------
(***************************************************************************)
(* What the bridge does for every number of applications, games,           *)
(* companions and table sizes, and every queue bound.                      *)
(***************************************************************************)
EXTENDS Bridge, Tables_proofs, SequenceTheorems

USE ConstantsAssumption

-----------------------------------------------------------------------------
(* The pieces the actions share.                                            *)

\* The threads are four different ones.
LEMMA ThreadNames ==
  /\ Channels \subseteq Threads
  /\ P \in Threads /\ P \notin Channels
  /\ R \in Threads /\ R \notin Channels /\ R # P
BY DEF Channels, Threads, P, R

\* A thread that moves to an idle, "next" or "compare"-like place, where it
\* holds no payload, keeps the threads well typed.
LEMMA GotoType ==
  ASSUME TypeOK, NEW t \in Threads,
         NEW label \in LoopLabels \cup ProcessLabels, Goto(t, label),
         t \in Channels => label \in LoopLabels,
         t = P => label \in ProcessLabels
  PROVE  /\ pc' \in [Threads -> LoopLabels \cup ProcessLabels]
         /\ \A c \in Channels : pc'[c] \in LoopLabels
         /\ pc'[P] \in ProcessLabels
         /\ pc'[t] = label
         /\ \A u \in Threads \ {t} : pc'[u] = pc[u]
BY ThreadNames DEF TypeOK, ThreadsOK, Goto

\* Going on after a frame or an event keeps the threads well typed.
LEMMA ProceedType ==
  ASSUME TypeOK, NEW t \in Threads, t # R, Proceed(t)
  PROVE  /\ pc' \in [Threads -> LoopLabels \cup ProcessLabels]
         /\ \A c \in Channels : pc'[c] \in LoopLabels
         /\ pc'[P] \in ProcessLabels
         /\ pc'[t] \in {"idle", "next"}
         /\ \A u \in Threads \ {t} : pc'[u] = pc[u] /\ cur'[u] = cur[u]
         /\ cur' \in [Threads -> Frame \cup Game \cup {None}]
         /\ pc'[t] # "idle" => cur'[t] = cur[t]
<1> USE DEF TypeOK, ThreadsOK
<1>1. "idle" \in LoopLabels \cap ProcessLabels /\ "next" \in LoopLabels \cap ProcessLabels
  BY DEF LoopLabels, ProcessLabels
<1>2. CASE cur' = [cur EXCEPT ![t] = None] /\ Goto(t, "idle")
  BY <1>1, <1>2, GotoType DEF ThreadsOK
<1>3. CASE UNCHANGED cur /\ Goto(t, "next")
  BY <1>1, <1>3, GotoType DEF ThreadsOK
<1> QED
  BY <1>2, <1>3 DEF Proceed

\* Handing a payload to broadcast_activity keeps the threads well typed.
LEMMA BroadcastType ==
  ASSUME TypeOK, NEW t \in Threads, t # R, NEW s \in Sockets,
         NEW card \in Card \cup {None}, Broadcast(t, s, card)
  PROVE  /\ pc' \in [Threads -> LoopLabels \cup ProcessLabels]
         /\ \A c \in Channels : pc'[c] \in LoopLabels
         /\ pc'[P] \in ProcessLabels
         /\ pc'[t] = "cache"
         /\ \A u \in Threads \ {t} : pc'[u] = pc[u] /\ out'[u] = out[u]
         /\ out' \in [Threads -> Payload \cup {None}]
         /\ out'[t] \in Payload
<1>1. "cache" \in LoopLabels \cap ProcessLabels
  BY DEF LoopLabels, ProcessLabels
<1>2. [socket |-> s, card |-> card] \in Payload
  BY DEF Payload
<1>3. Goto(t, "cache") /\ out' = [out EXCEPT ![t] = [socket |-> s, card |-> card]]
  BY DEF Broadcast
<1>4. out \in [Threads -> Payload \cup {None}]
  BY DEF TypeOK, ThreadsOK
<1> QED
  BY <1>1, <1>2, <1>3, <1>4, GotoType

\* A game's generic card is a card, and a frame's card is one or none.
LEMMA GenericCardType ==
  ASSUME NEW game \in Game
  PROVE  GenericCard(game) \in Card
BY DEF GenericCard, Game, Card

\* The card of a frame is a card, or none.
LEMMA FrameCardType ==
  ASSUME NEW f \in Frame
  PROVE  FrameCard(f) \in Card \cup {None}
BY DEF FrameCard, Frame, Card, Pids

\* The games that can be resumed are games.
LEMMA ResumableType ==
  ASSUME TypeOK, NEW slots \in SUBSET Apps
  PROVE  Resumable(slots) \in SUBSET Game
BY DEF Resumable, TypeOK, TablesOK, Keys, Game

\* The threads stay well typed when one of them takes a step and what it holds
\* afterwards fits where it is.
LEMMA ThreadStep ==
  ASSUME TypeOK, NEW t \in Threads,
         pc' \in [Threads -> LoopLabels \cup ProcessLabels],
         \A c \in Channels : pc'[c] \in LoopLabels,
         pc'[P] \in ProcessLabels,
         cur' \in [Threads -> Frame \cup Game \cup {None}],
         changed' \in [Channels -> BOOLEAN],
         todo' \in [Threads -> SUBSET Game],
         out' \in [Threads -> Payload \cup {None}],
         copies' \subseteq Payload,
         \A u \in Threads \ {t} :
           pc'[u] = pc[u] /\ cur'[u] = cur[u] /\ out'[u] = out[u],
         t \in Channels => /\ pc'[t] # "idle" => cur'[t] \in Frame
                           /\ pc'[t] = "note" => cur'[t].body # None
                           /\ pc'[t] = "handback" => GenuineClear(cur'[t]),
         t = P /\ pc'[P] \in {"check", "yield", "dedup", "track"}
           => cur'[P] \in Game,
         pc'[t] \in {"cache", "send"} => out'[t] \in Payload
  PROVE  ThreadsOK'
BY ThreadNames DEF TypeOK, ThreadsOK

-----------------------------------------------------------------------------
(* Type correctness.                                                        *)

\* What the companions, the games and the scanner do.
LEMMA EnvironmentType ==
  ASSUME TypeOK, Environment
  PROVE  TypeOK'
<1> USE DEF TypeOK
<1>1. ASSUME NEW p \in Pids, Start(p) \/ Exit(p)
      PROVE  TypeOK'
  <2>1. OutsideOK'
    BY <1>1 DEF OutsideOK, Start, Exit
  <2>2. TablesOK' /\ ThreadsOK'
    BY <1>1 DEF TablesOK, ThreadsOK, Start, Exit, tables, local
  <2> QED
    BY <2>1, <2>2
<1>2. ASSUME NEW p \in Companions, NEW f \in Frame, Enqueue(p, f),
             wants' \in [Companions -> [Apps -> Bodies \cup {None}]]
      PROVE  TypeOK'
  <2>1. queue' \in [Channels -> Seq(Frame)]
    BY <1>2 DEF OutsideOK, Enqueue
  <2>2. OutsideOK'
    BY <1>2, <2>1 DEF OutsideOK, Enqueue
  <2>3. TablesOK' /\ ThreadsOK'
    BY <1>2 DEF TablesOK, ThreadsOK, Enqueue, tables, local
  <2> QED
    BY <2>2, <2>3
<1>3. ASSUME NEW p \in Companions, NEW a \in AppsOf[p], NEW b \in Bodies,
             Publish(p, a, b)
      PROVE  TypeOK'
  <2>1. a \in Apps
    OBVIOUS
  <2>2. [app |-> a, pid |-> p, body |-> b] \in Frame
    BY <2>1 DEF Frame
  <2>3. wants' \in [Companions -> [Apps -> Bodies \cup {None}]]
    BY <1>3, <2>1 DEF OutsideOK, Publish
  <2> QED
    BY <1>2, <1>3, <2>2, <2>3 DEF Publish
<1>4. ASSUME NEW p \in Companions, NEW a \in AppsOf[p], Clear(p, a)
      PROVE  TypeOK'
  <2>1. a \in Apps
    OBVIOUS
  <2>2. [app |-> a, pid |-> p, body |-> None] \in Frame
    BY <2>1 DEF Frame
  <2>3. wants' \in [Companions -> [Apps -> Bodies \cup {None}]]
    BY <1>4, <2>1 DEF OutsideOK, Clear
  <2> QED
    BY <1>2, <1>4, <2>2, <2>3 DEF Clear
<1>5. ASSUME NEW p \in Companions, Drop(p)
      PROVE  TypeOK'
  <2>1. [app |-> None, pid |-> p, body |-> None] \in Frame
    BY DEF Frame
  <2>2. wants' \in [Companions -> [Apps -> Bodies \cup {None}]]
    BY <1>5 DEF OutsideOK, Drop
  <2> QED
    BY <1>2, <1>5, <2>1, <2>2 DEF Drop
<1>6. ASSUME NEW e \in Game \cup {None}, Report(e)
      PROVE  TypeOK'
  <2>1. OutsideOK'
    BY <1>6 DEF OutsideOK, Report
  <2>2. TablesOK' /\ ThreadsOK'
    BY <1>6 DEF TablesOK, ThreadsOK, Report, tables, local
  <2> QED
    BY <2>1, <2>2
<1>7. ASSUME NEW g \in Games, ReportGame(g)
      PROVE  TypeOK'
  <2>1. [app |-> DetectedAs[g], pid |-> g] \in Game
    BY DEF Game, Pids
  <2> QED
    BY <1>6, <1>7, <2>1 DEF ReportGame
<1>8. CASE ReportNone
  BY <1>6, <1>8 DEF ReportNone
<1> QED
  BY <1>1, <1>3, <1>4, <1>5, <1>7, <1>8 DEF Environment

\* broadcast_activity: the replay cache, then the clients.
LEMMA BroadcastingType ==
  ASSUME TypeOK, NEW t \in Channels \cup {P}, Broadcasting(t)
  PROVE  TypeOK'
<1> USE DEF TypeOK
<1>0. t \in Threads /\ t # R
  BY ThreadNames
<1>1. CASE UpdateCache(t)
  <2> DEFINE s == out[t].socket
  <2>1. out[t] \in Payload
    BY <1>0, <1>1 DEF ThreadsOK, UpdateCache
  <2>2. s \in Sockets /\ out[t].card \in Card \cup {None}
    BY <2>1 DEF Payload
  <2>3. OutsideOK'
    BY <1>1 DEF OutsideOK, UpdateCache, outside
  <2>4. cache' \in [Sockets -> Card \cup {None}]
    BY <1>1, <2>2 DEF TablesOK, UpdateCache, Without
  <2>5. older' \subseteq Sockets \X Sockets
    <3>1. Touched(older, cache, s) \subseteq Sockets \X Sockets
      BY <2>2 DEF TablesOK, Touched, Keys
    <3>2. ASSUME NEW e, e \subseteq Sockets \X Sockets, NEW r
          PROVE  Forgotten(e, r) \subseteq Sockets \X Sockets
      BY <3>2 DEF Forgotten
    <3> QED
      BY <1>1, <3>1, <3>2 DEF TablesOK, UpdateCache
  <2>6. TablesOK'
    BY <1>1, <2>4, <2>5 DEF TablesOK, UpdateCache
  <2>7. CASE Goto(t, "send") /\ UNCHANGED <<out, cur>>
    <3>1. "send" \in LoopLabels \cap ProcessLabels
      BY DEF LoopLabels, ProcessLabels
    <3>2. changed' = changed /\ todo' = todo /\ copies' = copies
      BY <1>1 DEF UpdateCache
    <3>3. pc[t] = "cache"
      BY <1>1 DEF UpdateCache
    <3> QED
      BY <1>0, <2>1, <2>3, <2>6, <2>7, <3>1, <3>2, <3>3, GotoType, ThreadStep
         DEF ThreadsOK
  <2>8. CASE Proceed(t) /\ out' = [out EXCEPT ![t] = None]
    <3>1. changed' = changed /\ todo' = todo /\ copies' = copies
      BY <1>1 DEF UpdateCache
    <3>2. pc[t] = "cache"
      BY <1>1 DEF UpdateCache
    <3> QED
      BY <1>0, <2>3, <2>6, <2>8, <3>1, <3>2, ProceedType, ThreadStep
         DEF ThreadsOK
  <2> QED
    BY <1>1, <2>7, <2>8 DEF UpdateCache
<1>2. CASE SendToAll(t)
  <2>1. out[t] \in Payload
    BY <1>0, <1>2 DEF ThreadsOK, SendToAll
  <2>2. screen' \in [Sockets -> Card \cup {None}]
    BY <1>2, <2>1 DEF TablesOK, SendToAll, Shown, Payload
  <2>3. OutsideOK' /\ TablesOK'
    BY <1>2, <2>2 DEF OutsideOK, TablesOK, SendToAll, outside, tables
  <2>4. changed' = changed /\ todo' = todo /\ copies' = copies
    BY <1>2 DEF SendToAll
  <2>5. pc[t] = "send" /\ Proceed(t) /\ out' = [out EXCEPT ![t] = None]
    BY <1>2 DEF SendToAll
  <2> QED
    BY <1>0, <2>3, <2>4, <2>5, ProceedType, ThreadStep DEF ThreadsOK
<1> QED
  BY <1>1, <1>2 DEF Broadcasting

\* One step of an event loop.
LEMMA EventLoopType ==
  ASSUME TypeOK, NEW c \in Channels, EventLoop(c)
  PROVE  TypeOK'
<1> USE DEF TypeOK
<1>0. c \in Threads /\ c # R /\ c # P
  BY ThreadNames
<1>1. ASSUME Recv(c)
      PROVE  OutsideOK' /\ Head(queue[c]) \in Frame
  <2>1. queue[c] \in Seq(Frame) /\ queue[c] # <<>>
    BY <1>1 DEF OutsideOK, Recv
  <2>2. Head(queue[c]) \in Frame /\ Tail(queue[c]) \in Seq(Frame)
    BY <2>1
  <2> QED
    BY <1>1, <2>2 DEF OutsideOK, Recv
<1>2. CASE DropDuplicate(c)
  BY <1>1, <1>2 DEF DropDuplicate, Recv, TablesOK, ThreadsOK
<1>3. CASE Accept(c)
  <2> DEFINE f == Head(queue[c])
  <2>1. Recv(c) /\ f \in Frame
    BY <1>1, <1>3 DEF Accept
  <2>2. f.app \in Apps \cup {None} /\ f.pid \in Pids /\ f.body \in Bodies \cup {None}
    BY <2>1 DEF Frame, Pids
  <2>3. recent' \in [Apps \X Pids -> Bodies \cup {None}]
    BY <1>3, <2>2 DEF Accept, Remembered, TablesOK
  <2>4. TablesOK'
    BY <2>1, <2>3 DEF Recv, TablesOK
  <2>5. cur' = [cur EXCEPT ![c] = f]
    BY <1>3 DEF Accept
  <2>6. CASE f.body = None
    <3>1. Goto(c, "compare") /\ "compare" \in LoopLabels
      BY <1>3, <2>6 DEF Accept, LoopLabels
    <3> HIDE DEF f
    <3> QED
      BY <1>0, <1>1, <2>1, <2>4, <2>5, <3>1, GotoType, ThreadStep DEF Recv, ThreadsOK
  <2>7. CASE f.body # None
    <3>1. Goto(c, "note") /\ "note" \in LoopLabels
      BY <1>3, <2>7 DEF Accept, LoopLabels
    <3> HIDE DEF f
    <3> QED
      BY <1>0, <1>1, <2>1, <2>4, <2>5, <2>7, <3>1, GotoType, ThreadStep
         DEF Recv, ThreadsOK
  <2> QED
    BY <2>6, <2>7
<1>4. CASE NotePublish(c)
  <2>1. cur[c] \in Frame /\ cur[c].body # None
    BY <1>4 DEF NotePublish, ThreadsOK
  <2>2. cur[c].app \in Apps /\ cur[c].pid \in Pids
    BY <2>1 DEF Frame, Pids
  <2>3. live_ipc' \in [Apps -> Pids \cup {None}]
    BY <1>4, <2>2, InsertType DEF NotePublish, TablesOK
  <2>4. OutsideOK' /\ TablesOK'
    BY <1>4, <2>3 DEF NotePublish, OutsideOK, TablesOK, outside
  <2>5. Goto(c, "compare") /\ "compare" \in LoopLabels
    BY <1>4 DEF NotePublish, LoopLabels
  <2>6. UNCHANGED <<cur, changed, todo, out, copies>>
    BY <1>4 DEF NotePublish
  <2> QED
    BY <1>0, <2>1, <2>4, <2>5, <2>6, GotoType, ThreadStep DEF ThreadsOK
<1>5. CASE Compare(c)
  <2>1. OutsideOK' /\ TablesOK'
    BY <1>5 DEF Compare, OutsideOK, TablesOK, outside, tables
  <2>2. pc[c] = "compare" /\ cur[c] \in Frame
    BY <1>5 DEF Compare, ThreadsOK
  <2>3. changed' \in [Channels -> BOOLEAN] /\ UNCHANGED <<todo, out, copies>>
    BY <1>5 DEF Compare, ThreadsOK
  <2>4. CASE GenuineClear(cur[c]) /\ Goto(c, "handback") /\ UNCHANGED cur
    <3>1. "handback" \in LoopLabels
      BY DEF LoopLabels
    <3> QED
      BY <1>0, <2>1, <2>2, <2>3, <2>4, <3>1, GotoType, ThreadStep DEF ThreadsOK
  <2>5. CASE Proceed(c)
    BY <1>0, <2>1, <2>2, <2>3, <2>5, ProceedType, ThreadStep DEF ThreadsOK
  <2> QED
    BY <1>5, <2>4, <2>5 DEF Compare
<1>6. CASE HandBack(c)
  <2>1. live_ipc' \in [Apps -> Pids \cup {None}]
    BY <1>6 DEF HandBack, TablesOK
  <2>2. OutsideOK' /\ TablesOK'
    BY <1>6, <2>1 DEF HandBack, OutsideOK, TablesOK, outside
  <2>3. Resumable(Released(cur[c])) \in SUBSET Game
    BY ResumableType DEF Released
  <2>4. todo' \in [Threads -> SUBSET Game] /\ UNCHANGED <<changed, out, copies>>
    BY <1>6, <2>3 DEF HandBack, ThreadsOK
  <2>5. pc[c] = "handback" /\ Proceed(c)
    BY <1>6 DEF HandBack
  <2> QED
    BY <1>0, <2>2, <2>4, <2>5, ProceedType, ThreadStep DEF ThreadsOK
<1>7. CASE Resume(c)
  <2>1. PICK game \in todo[c] :
          /\ todo' = [todo EXCEPT ![c] = @ \ {game}]
          /\ IF game.pid \in Alive
               THEN /\ Track(game)
                    /\ Broadcast(c, game.app, GenericCard(game))
                    /\ UNCHANGED cur
               ELSE /\ Proceed(c)
                    /\ UNCHANGED <<last_process, out>>
    BY <1>7 DEF Resume
  <2>2. game \in Game
    BY <1>0 DEF ThreadsOK
  <2>3. game.app \in Apps /\ game.app \in Sockets /\ game.pid \in Pids
    BY <2>2 DEF Game, Sockets
  <2>4. last_process' \in [Apps -> Pids \cup {None}]
    BY <2>1, <2>3, InsertType DEF Track, TablesOK
  <2>5. OutsideOK' /\ TablesOK'
    BY <1>7, <2>4 DEF Resume, OutsideOK, TablesOK, outside
  <2>6. todo' \in [Threads -> SUBSET Game] /\ UNCHANGED <<changed, copies>>
    BY <1>7, <2>1 DEF Resume, ThreadsOK
  <2>7. pc[c] = "next" /\ cur[c] \in Frame
    BY <1>7 DEF Resume, ThreadsOK
  <2>8. CASE game.pid \in Alive
    BY <1>0, <2>1, <2>2, <2>3, <2>5, <2>6, <2>7, <2>8, GenericCardType,
       BroadcastType, ThreadStep DEF ThreadsOK
  <2>9. CASE game.pid \notin Alive
    BY <1>0, <2>1, <2>5, <2>6, <2>7, <2>9, ProceedType, ThreadStep DEF ThreadsOK
  <2> QED
    BY <2>8, <2>9
<1>8. CASE PublishFrame(c)
  <2>1. pc[c] = "next" /\ cur[c] \in Frame
    BY <1>8 DEF PublishFrame, ThreadsOK
  <2>2. cur[c].pid \in Sockets /\ FrameCard(cur[c]) \in Card \cup {None}
    BY <2>1, FrameCardType DEF Frame, Sockets, Pids
  <2>3. OutsideOK' /\ TablesOK'
    BY <1>8 DEF PublishFrame, OutsideOK, TablesOK, outside, tables
  <2>4. changed' \in [Channels -> BOOLEAN] /\ UNCHANGED <<cur, todo, copies>>
    BY <1>8 DEF PublishFrame, ThreadsOK
  <2>5. Broadcast(c, cur[c].pid, FrameCard(cur[c]))
    BY <1>8 DEF PublishFrame
  <2> QED
    BY <1>0, <2>1, <2>2, <2>3, <2>4, <2>5, BroadcastType, ThreadStep DEF ThreadsOK
<1> QED
  BY <1>2, <1>3, <1>4, <1>5, <1>6, <1>7, <1>8 DEF EventLoop

\* One step of the process loop.
LEMMA ProcessLoopType ==
  ASSUME TypeOK, ProcessLoop
  PROVE  TypeOK'
<1> USE DEF TypeOK
<1>0. P \in Threads /\ P # R /\ P \notin Channels
  BY ThreadNames
<1>1. ASSUME RecvScan
      PROVE  OutsideOK' /\ (Head(scans) # None => Head(scans) \in Game)
  <2>1. scans \in Seq(Game \cup {None}) /\ scans # <<>>
    BY <1>1 DEF OutsideOK, RecvScan
  <2>2. Head(scans) \in Game \cup {None} /\ Tail(scans) \in Seq(Game \cup {None})
    BY <2>1
  <2> QED
    BY <1>1, <2>2 DEF OutsideOK, RecvScan
<1>2. CASE NoteNone
  <2>1. TablesOK'
    BY <1>2 DEF NoteNone, RecvScan, TablesOK
  <2>2. Goto(P, "take") /\ "take" \in ProcessLabels
    BY <1>2 DEF NoteNone, ProcessLabels
  <2>3. UNCHANGED <<cur, changed, todo, out, copies>>
    BY <1>2 DEF NoteNone, RecvScan
  <2> QED
    BY <1>0, <1>1, <1>2, <2>1, <2>2, <2>3, GotoType, ThreadStep
       DEF NoteNone, ThreadsOK
<1>3. CASE TakeClears
  <2>1. OutsideOK' /\ TablesOK'
    BY <1>3 DEF TakeClears, OutsideOK, TablesOK, outside
  <2>2. {[app |-> a, pid |-> last_process[a]] : a \in Keys(last_process)}
          \in SUBSET Game
    BY DEF TablesOK, Keys, Game
  <2>3. todo' \in [Threads -> SUBSET Game] /\ UNCHANGED <<changed, out, copies>>
    BY <1>3, <2>2 DEF TakeClears, ThreadsOK
  <2>4. Proceed(P)
    BY <1>3 DEF TakeClears
  <2> QED
    BY <1>0, <2>1, <2>3, <2>4, ProceedType, ThreadStep DEF ThreadsOK
<1>4. CASE BroadcastClear
  <2>1. PICK game \in todo[P] :
          /\ todo' = [todo EXCEPT ![P] = @ \ {game}]
          /\ Broadcast(P, game.app, None)
    BY <1>4 DEF BroadcastClear
  <2>2. game.app \in Sockets
    BY <1>0 DEF ThreadsOK, Game, Sockets
  <2>3. OutsideOK' /\ TablesOK'
    BY <1>4 DEF BroadcastClear, OutsideOK, TablesOK, outside, tables
  <2>4. todo' \in [Threads -> SUBSET Game] /\ UNCHANGED <<cur, changed, copies>>
    BY <1>4, <2>1 DEF BroadcastClear, ThreadsOK
  <2> QED
    BY <1>0, <2>1, <2>2, <2>3, <2>4, BroadcastType, ThreadStep DEF ThreadsOK
<1>5. CASE NoteGame
  <2> DEFINE game == Head(scans)
  <2>1. game \in Game /\ OutsideOK'
    BY <1>1, <1>5 DEF NoteGame
  <2>2. game.app \in Apps /\ game.pid \in Pids
    BY <2>1 DEF Game
  <2>3. last_scans' \in BoundedInserts(last_scans, game.app, game.pid, Alive,
                                       MAX_HANDOFF_ENTRIES)
    BY <1>5 DEF NoteGame, Scanned
  <2>4. cur' = [cur EXCEPT ![P] = game] /\ Goto(P, "check")
    BY <1>5 DEF NoteGame
  <2>5. UNCHANGED <<live_ipc, last_process, recent, cache, older, screen,
                    changed, todo, out, copies>>
    BY <1>5 DEF NoteGame, RecvScan
  <2>6. "check" \in ProcessLabels
    BY DEF ProcessLabels
  <2> HIDE DEF game
  <2>7. last_scans' \in [Apps -> Pids \cup {None}]
    BY <2>2, <2>3, InsertType DEF TablesOK
  <2>8. TablesOK'
    BY <2>5, <2>7 DEF TablesOK
  <2> QED
    BY <1>0, <2>1, <2>4, <2>5, <2>6, <2>8, GotoType, ThreadStep DEF ThreadsOK
<1>6. CASE CheckSuppressed
  <2>1. OutsideOK' /\ TablesOK'
    BY <1>6 DEF CheckSuppressed, OutsideOK, TablesOK, outside, tables
  <2>2. UNCHANGED <<cur, changed, todo, out, copies>> /\ cur[P] \in Game
    BY <1>6 DEF CheckSuppressed, ThreadsOK
  <2>3. PICK label \in {"yield", "dedup"} : Goto(P, label)
    BY <1>6 DEF CheckSuppressed
  <2>4. label \in ProcessLabels
    BY DEF ProcessLabels
  <2> QED
    BY <1>0, <2>1, <2>2, <2>3, <2>4, GotoType, ThreadStep DEF ThreadsOK
<1>7. CASE Yield
  <2>1. OutsideOK' /\ TablesOK'
    BY <1>7 DEF Yield, OutsideOK, TablesOK, Without, outside
  <2>2. cur[P] \in Game /\ UNCHANGED <<changed, todo, copies>>
    BY <1>7 DEF Yield, ThreadsOK
  <2>3. CASE Proceed(P) /\ UNCHANGED out
    BY <1>0, <2>1, <2>2, <2>3, ProceedType, ThreadStep DEF ThreadsOK
  <2>4. CASE Broadcast(P, cur[P].app, None) /\ UNCHANGED cur
    <3>1. cur[P].app \in Sockets
      BY <2>2 DEF Game, Sockets
    <3> QED
      BY <1>0, <2>1, <2>2, <2>4, <3>1, BroadcastType, ThreadStep DEF ThreadsOK
  <2> QED
    BY <1>7, <2>3, <2>4 DEF Yield
<1>8. CASE Dedup
  <2>1. OutsideOK' /\ TablesOK'
    BY <1>8 DEF Dedup, OutsideOK, TablesOK, outside, tables
  <2>2. cur[P] \in Game /\ UNCHANGED <<changed, todo, out, copies>>
    BY <1>8 DEF Dedup, ThreadsOK
  <2>3. CASE Proceed(P)
    BY <1>0, <2>1, <2>2, <2>3, ProceedType, ThreadStep DEF ThreadsOK
  <2>4. CASE Goto(P, "track") /\ UNCHANGED cur
    <3>1. "track" \in ProcessLabels
      BY DEF ProcessLabels
    <3> QED
      BY <1>0, <2>1, <2>2, <2>4, <3>1, GotoType, ThreadStep DEF ThreadsOK
  <2> QED
    BY <1>8, <2>3, <2>4 DEF Dedup
<1>9. CASE PublishGeneric
  <2>1. cur[P] \in Game /\ UNCHANGED <<cur, changed, todo, copies>>
    BY <1>9 DEF PublishGeneric, ThreadsOK
  <2>2. cur[P].app \in Apps /\ cur[P].app \in Sockets /\ cur[P].pid \in Pids
    BY <2>1 DEF Game, Sockets
  <2>3. last_process' \in [Apps -> Pids \cup {None}]
    BY <1>9, <2>2, InsertType DEF PublishGeneric, Track, TablesOK
  <2>4. OutsideOK' /\ TablesOK'
    BY <1>9, <2>3 DEF PublishGeneric, OutsideOK, TablesOK, outside
  <2>5. Broadcast(P, cur[P].app, GenericCard(cur[P]))
    BY <1>9 DEF PublishGeneric
  <2> QED
    BY <1>0, <2>1, <2>2, <2>4, <2>5, GenericCardType, BroadcastType, ThreadStep
       DEF ThreadsOK
<1> QED
  BY <1>2, <1>3, <1>4, <1>5, <1>6, <1>7, <1>8, <1>9 DEF ProcessLoop

\* One step of the refresh thread.
LEMMA RefreshType ==
  ASSUME TypeOK, RefreshThread
  PROVE  TypeOK'
<1> USE DEF TypeOK
<1>0. R \in Threads /\ R \notin Channels /\ R # P
  BY ThreadNames
<1>1. CASE CopyCache
  <2>1. OutsideOK' /\ TablesOK'
    BY <1>1 DEF CopyCache, OutsideOK, TablesOK, outside, tables
  <2>2. copies' \subseteq Payload
    BY <1>1 DEF CopyCache, TablesOK, Keys, Payload
  <2>3. Goto(R, "next") /\ UNCHANGED <<cur, changed, todo, out>>
    BY <1>1 DEF CopyCache
  <2>4. "next" \in LoopLabels
    BY DEF LoopLabels
  <2> QED
    BY <1>0, <2>1, <2>2, <2>3, <2>4, GotoType, ThreadStep DEF ThreadsOK
<1>2. CASE SendCopy
  <2>1. PICK copy \in copies : screen' = Shown(copy) /\ copies' = copies \ {copy}
    BY <1>2 DEF SendCopy
  <2>2. screen' \in [Sockets -> Card \cup {None}] /\ copies' \subseteq Payload
    BY <2>1 DEF TablesOK, ThreadsOK, Shown, Payload
  <2>3. OutsideOK' /\ TablesOK'
    BY <1>2, <2>2 DEF SendCopy, OutsideOK, TablesOK, outside, tables
  <2>4. PICK label \in {"idle", "next"} : Goto(R, label)
    BY <1>2 DEF SendCopy
  <2>5. label \in LoopLabels /\ UNCHANGED <<cur, changed, todo, out>>
    BY <1>2 DEF SendCopy, LoopLabels
  <2> QED
    BY <1>0, <2>2, <2>3, <2>4, <2>5, GotoType, ThreadStep DEF ThreadsOK
<1> QED
  BY <1>1, <1>2 DEF RefreshThread

\* TypeOK holds at first.
LEMMA InitType == Init => TypeOK
<1> SUFFICES ASSUME Init PROVE TypeOK
  OBVIOUS
<1>1. OutsideOK
  <2>1. <<>> \in Seq(Frame) /\ <<>> \in Seq(Game \cup {None})
    OBVIOUS
  <2> QED
    BY <2>1 DEF Init, OutsideOK
<1>2. TablesOK
  BY DEF Init, TablesOK
<1>3. ThreadsOK
  BY ThreadNames DEF Init, ThreadsOK, LoopLabels, ProcessLabels
<1> QED
  BY <1>1, <1>2, <1>3 DEF TypeOK

\* TypeOK is inductive.
LEMMA NextType == TypeOK /\ [Next]_vars => TypeOK'
<1> SUFFICES ASSUME TypeOK, [Next]_vars PROVE TypeOK'
  OBVIOUS
<1>1. CASE UNCHANGED vars
  BY <1>1 DEF TypeOK, OutsideOK, TablesOK, ThreadsOK, vars, outside, tables, local
<1> QED
  BY <1>1, EnvironmentType, EventLoopType, BroadcastingType, ProcessLoopType,
     RefreshType DEF Next

\* Every variable keeps its type, and what a thread has in hand always fits the
\* place it is at: an event loop past recv holds a frame, a thread inside
\* broadcast_activity holds a payload, resume_generic and take_process_clear
\* only ever hand on whole games.
THEOREM TypeCorrect == Spec => []TypeOK
BY InitType, NextType, PTL DEF Spec

-----------------------------------------------------------------------------
(* The tables and the replay cache stay within their caps.                  *)

\* There are finitely many applications and sockets, two bounds of the
\* tables.
LEMMA FiniteDomains == IsFiniteSet(Apps) /\ IsFiniteSet(Sockets)
<1>1. IsFiniteSet(Games \cup Companions)
  BY FS_Union
<1>2. IsFiniteSet(Apps \cup (Games \cup Companions))
  BY <1>1, FS_Union
<1> QED
  BY <1>2 DEF Sockets, Pids

\* A table that lost entries is no larger than its cap.
LEMMA ShrinkBounded ==
  ASSUME NEW K, IsFiniteSet(K), NEW V, NEW map \in [K -> V],
         NEW W, NEW other \in [K -> W], Keys(other) \subseteq Keys(map),
         NEW cap \in Nat, Size(map) <= cap
  PROVE  Size(other) <= cap
<1>1. Size(other) <= Size(map)
  BY SizeMonotone
<1>2. Size(other) \in Nat /\ Size(map) \in Nat
  BY KeysFinite
<1> QED
  BY <1>1, <1>2

\* prune_cache: one eviction is enough, for the cache grows one entry at a time.
LEMMA UpdateCacheBounded ==
  ASSUME TypeOK, Size(cache) <= MAX_CACHED_ACTIVITIES, NEW t \in Threads,
         UpdateCache(t)
  PROVE  Size(cache') <= MAX_CACHED_ACTIVITIES
<1> DEFINE s == out[t].socket
           full == [cache EXCEPT ![s] = out[t].card]
<1>1. out[t] \in Payload
  BY DEF TypeOK, ThreadsOK, UpdateCache
<1>2. s \in Sockets /\ out[t].card \in Card \cup {None}
  BY <1>1 DEF Payload
<1>3. cache \in [Sockets -> Card \cup {None}]
  BY DEF TypeOK, TablesOK
<1>4. full \in [Sockets -> Card \cup {None}]
  BY <1>2, <1>3
<1>5. Size(cache) \in Nat /\ Size(full) \in Nat
  BY <1>3, <1>4, FiniteDomains, KeysFinite
<1>6. CASE out[t].card = None
  <2>1. cache' = Without(cache, s)
    BY <1>6 DEF UpdateCache
  <2>2. cache' \in [Sockets -> Card \cup {None}] /\ Keys(cache') \subseteq Keys(cache)
    BY <1>3, <2>1 DEF Without, Keys
  <2> QED
    BY <1>3, <2>2, FiniteDomains, ShrinkBounded
<1>7. CASE out[t].card # None /\ Size(full) <= MAX_CACHED_ACTIVITIES
  BY <1>7 DEF UpdateCache
<1>8. CASE out[t].card # None /\ ~(Size(full) <= MAX_CACHED_ACTIVITIES)
  <2>1. PICK victim \in Oldest(full, Touched(older, cache, s)) :
          cache' = Without(full, victim)
    BY <1>8 DEF UpdateCache
  <2>2. victim \in Keys(full)
    BY DEF Oldest
  <2>4. Keys(full) \subseteq Keys(cache) \cup {s}
    BY <1>3 DEF Keys
  <2> HIDE DEF full
  <2>3. Size(cache') = Size(full) - 1
    BY <1>4, <2>1, <2>2, FiniteDomains, WithoutSize
  <2>5. IsFiniteSet(Keys(cache))
    BY <1>3, FiniteDomains, KeysFinite
  <2>6. IsFiniteSet(Keys(cache) \cup {s})
    BY <2>5, FS_AddElement
  <2>9. Cardinality(Keys(full)) <= Cardinality(Keys(cache) \cup {s})
    BY <2>4, <2>6, FS_Subset
  <2>10. Cardinality(Keys(cache) \cup {s}) \in Nat
    BY <2>6, FS_CardinalityType
  <2>7. Cardinality(Keys(cache) \cup {s}) <= Cardinality(Keys(cache)) + 1
    BY <2>5, GrowByOne
  <2>8. Size(full) <= Size(cache) + 1
    BY <1>5, <2>7, <2>9, <2>10 DEF Size
  <2> QED
    BY <1>5, <2>3, <2>8
<1> QED
  BY <1>6, <1>7, <1>8

\* What a step may do to the tables: each is left alone, loses entries, or takes
\* one in by a capped insert.
LEMMA NextBounded ==
  ASSUME TypeOK, TablesBounded, [Next]_vars
  PROVE  TablesBounded'
<1> USE DEF TablesBounded
<1>1. /\ live_ipc \in [Apps -> Pids \cup {None}]
      /\ last_scans \in [Apps -> Pids \cup {None}]
      /\ last_process \in [Apps -> Pids \cup {None}]
  BY DEF TypeOK, TablesOK
<1>2. MAX_HANDOFF_ENTRIES \in Nat /\ IsFiniteSet(Apps) /\ None \notin Pids
  BY FiniteDomains
<1>3. ASSUME UNCHANGED tables
      PROVE  TablesBounded'
  BY <1>3 DEF tables
<1>4. ASSUME NEW game \in Game, Track(game)
      PROVE  Size(last_process') <= MAX_HANDOFF_ENTRIES
  <2>1. game.app \in Apps /\ game.pid \in Pids
    BY DEF Game
  <2> QED
    BY <1>1, <1>2, <1>4, <2>1, InsertBounded DEF Track
<1>5. CASE Environment
  BY <1>3, <1>5 DEF Environment, Start, Exit, Publish, Clear, Drop, Enqueue,
     ReportGame, ReportNone, Report
<1>6. ASSUME NEW t \in Channels \cup {P}, Broadcasting(t)
      PROVE  TablesBounded'
  <2>1. CASE UpdateCache(t)
    <3>1. t \in Threads
      BY ThreadNames
    <3>2. Size(cache') <= MAX_CACHED_ACTIVITIES
      BY <2>1, <3>1, UpdateCacheBounded
    <3> QED
      BY <2>1, <3>2 DEF UpdateCache
  <2>2. CASE SendToAll(t)
    BY <1>3, <2>2 DEF SendToAll
  <2> QED
    BY <1>6, <2>1, <2>2 DEF Broadcasting
<1>7. ASSUME NEW c \in Channels, EventLoop(c)
      PROVE  TablesBounded'
  <2>0. c \in Threads
    BY ThreadNames
  <2>1. CASE DropDuplicate(c)
    BY <2>1 DEF DropDuplicate, Recv
  <2>2. CASE Accept(c)
    BY <2>2 DEF Accept, Recv
  <2>3. CASE NotePublish(c)
    <3>1. cur[c] \in Frame /\ cur[c].body # None
      BY <2>3 DEF NotePublish, TypeOK, ThreadsOK
    <3>2. cur[c].app \in Apps /\ cur[c].pid \in Pids
      BY <3>1 DEF Frame, Pids
    <3>3. Size(live_ipc') <= MAX_HANDOFF_ENTRIES
      BY <1>1, <1>2, <2>3, <3>2, InsertBounded DEF NotePublish
    <3> QED
      BY <2>3, <3>3 DEF NotePublish
  <2>4. CASE Compare(c)
    BY <1>3, <2>4 DEF Compare
  <2>5. CASE HandBack(c)
    <3>1. /\ live_ipc' \in [Apps -> Pids \cup {None}]
          /\ Keys(live_ipc') \subseteq Keys(live_ipc)
      BY <1>1, <2>5 DEF HandBack, Keys
    <3>2. Size(live_ipc') <= MAX_HANDOFF_ENTRIES
      BY <1>1, <1>2, <3>1, ShrinkBounded
    <3> QED
      BY <2>5, <3>2 DEF HandBack
  <2>6. CASE Resume(c)
    <3>1. PICK game \in todo[c] : Track(game) \/ UNCHANGED last_process
      BY <2>6 DEF Resume
    <3>2. game \in Game
      BY <2>0 DEF TypeOK, ThreadsOK
    <3>3. Size(last_process') <= MAX_HANDOFF_ENTRIES
      BY <1>4, <3>1, <3>2
    <3> QED
      BY <2>6, <3>3 DEF Resume
  <2>7. CASE PublishFrame(c)
    BY <1>3, <2>7 DEF PublishFrame
  <2> QED
    BY <1>7, <2>1, <2>2, <2>3, <2>4, <2>5, <2>6, <2>7 DEF EventLoop
<1>8. CASE ProcessLoop
  <2>1. CASE NoteNone
    <3>1. /\ last_scans' \in [Apps -> Pids \cup {None}]
          /\ Keys(last_scans') \subseteq Keys(last_scans)
      BY <1>1, <2>1 DEF NoteNone, Keys
    <3>2. Size(last_scans') <= MAX_HANDOFF_ENTRIES
      BY <1>1, <1>2, <3>1, ShrinkBounded
    <3> QED
      BY <2>1, <3>2 DEF NoteNone, RecvScan
  <2>2. CASE TakeClears
    <3>1. /\ last_process' \in [Apps -> Pids \cup {None}]
          /\ Keys(last_process') \subseteq Keys(last_process)
      BY <1>1, <2>2 DEF TakeClears, Keys
    <3>2. Size(last_process') <= MAX_HANDOFF_ENTRIES
      BY <1>1, <1>2, <3>1, ShrinkBounded
    <3> QED
      BY <2>2, <3>2 DEF TakeClears
  <2>3. CASE BroadcastClear
    BY <1>3, <2>3 DEF BroadcastClear
  <2>4. CASE NoteGame
    <3>1. scans \in Seq(Game \cup {None}) /\ scans # <<>> /\ Head(scans) # None
      BY <2>4 DEF NoteGame, RecvScan, TypeOK, OutsideOK
    <3>2. Head(scans) \in Game
      BY <3>1
    <3>3. Head(scans).app \in Apps /\ Head(scans).pid \in Pids
      BY <3>2 DEF Game
    <3>4. Size(last_scans') <= MAX_HANDOFF_ENTRIES
      BY <1>1, <1>2, <2>4, <3>3, InsertBounded DEF NoteGame, Scanned
    <3> QED
      BY <2>4, <3>4 DEF NoteGame, RecvScan
  <2>5. CASE CheckSuppressed
    BY <1>3, <2>5 DEF CheckSuppressed
  <2>6. CASE Yield
    <3>1. /\ last_process' \in [Apps -> Pids \cup {None}]
          /\ Keys(last_process') \subseteq Keys(last_process)
      BY <1>1, <2>6 DEF Yield, Without, Keys
    <3>2. Size(last_process') <= MAX_HANDOFF_ENTRIES
      BY <1>1, <1>2, <3>1, ShrinkBounded
    <3> QED
      BY <2>6, <3>2 DEF Yield
  <2>7. CASE Dedup
    BY <1>3, <2>7 DEF Dedup
  <2>8. CASE PublishGeneric
    <3>1. cur[P] \in Game
      BY <2>8 DEF PublishGeneric, TypeOK, ThreadsOK
    <3>2. Size(last_process') <= MAX_HANDOFF_ENTRIES
      BY <1>4, <2>8, <3>1 DEF PublishGeneric
    <3> QED
      BY <2>8, <3>2 DEF PublishGeneric
  <2> QED
    BY <1>8, <2>1, <2>2, <2>3, <2>4, <2>5, <2>6, <2>7, <2>8 DEF ProcessLoop
<1>9. CASE RefreshThread
  BY <1>3, <1>9 DEF RefreshThread, CopyCache, SendCopy
<1>10. CASE UNCHANGED vars
  BY <1>3, <1>10 DEF vars
<1> QED
  BY <1>5, <1>6, <1>7, <1>8, <1>9, <1>10 DEF Next

\* The tables are empty at first.
LEMMA InitBounded == Init => TablesBounded
<1> SUFFICES ASSUME Init PROVE TablesBounded
  OBVIOUS
<1>1. /\ Keys(live_ipc) = {} /\ Keys(last_scans) = {}
      /\ Keys(last_process) = {} /\ Keys(cache) = {}
  BY DEF Init, Keys
<1>2. Cardinality({}) = 0
  BY FS_EmptySet
<1> QED
  BY <1>1, <1>2 DEF TablesBounded, Size

\* The caps are never exceeded: with no bound on how many applications publish
\* and are scanned, on the queues, or on how the threads interleave, each handoff
\* table holds at most MAX_HANDOFF_ENTRIES and the replay cache at most
\* MAX_CACHED_ACTIVITIES entries.
THEOREM BoundsHold == Spec => []TablesBounded
<1>1. Init => TypeOK /\ TablesBounded
  BY InitType, InitBounded
<1>2. TypeOK /\ TablesBounded /\ [Next]_vars => (TypeOK /\ TablesBounded)'
  BY NextType, NextBounded
<1> QED
  BY <1>1, <1>2, PTL DEF Spec

-----------------------------------------------------------------------------
(* The bridge implements the abstract register of slot owners.              *)

\* A step of one thread that changes neither an owner nor what the thread's
\* event loop is about to apply is invisible to the register.
LEMMA Invisible ==
  ASSUME NEW t \in Threads, UNCHANGED live_ipc,
         \A u \in Threads \ {t} : pc'[u] = pc[u] /\ cur'[u] = cur[u],
         t \in Channels => Asked(t)' = Asked(t)
  PROVE  UNCHANGED Ownership!vars
<1>1. \A c \in Channels : Asked(c)' = Asked(c)
  BY ThreadNames DEF Asked, GenuineClear
<1> QED
  BY <1>1 DEF Ownership!vars

\* The steps that leave every thread and every owner where they are.
LEMMA InvisibleOutside ==
  ASSUME UNCHANGED <<pc, cur, live_ipc>>
  PROVE  UNCHANGED Ownership!vars
BY DEF Ownership!vars, Asked, GenuineClear

\* An accepted frame is asked for: an activity, or a clear from a known pid.
LEMMA AcceptAsks ==
  ASSUME TypeOK, NEW c \in Channels, Accept(c)
  PROVE  [Ownership!Next]_(Ownership!vars)
<1> DEFINE f == Head(queue[c])
<1>0. c \in Threads
  BY ThreadNames
<1>1. queue[c] \in Seq(Frame) /\ queue[c] # <<>>
  BY DEF Accept, Recv, TypeOK, OutsideOK
<1>2. f \in Frame
  BY <1>1
<1>3. pc[c] = "idle" /\ UNCHANGED live_ipc
  BY DEF Accept, Recv
<1>4. cur'[c] = f /\ pc'[c] = IF f.body = None THEN "compare" ELSE "note"
  BY <1>0 DEF Accept, Goto, TypeOK, ThreadsOK
<1>5. \A u \in Threads \ {c} : pc'[u] = pc[u] /\ cur'[u] = cur[u]
  BY <1>0 DEF Accept, Goto, TypeOK, ThreadsOK
<1>6. Asked(c) = Ownership!Nothing
  BY <1>3 DEF Asked, Ownership!Nothing
<1> HIDE DEF f
<1>7. \A d \in Channels \ {c} : Asked(d)' = Asked(d)
  BY <1>5, ThreadNames DEF Asked, GenuineClear
<1>8. CASE Asked(c)' = Ownership!Nothing
  BY <1>0, <1>3, <1>5, <1>6, <1>8, Invisible
<1>9. CASE Asked(c)' # Ownership!Nothing
  <2>1. Asked(c)' \in Ownership!Request
    <3>1. f.app \in Apps \cup {None} /\ f.pid \in Pids /\ (f.app = None => f.body = None)
      BY <1>2 DEF Frame, Pids
    <3>2. CASE f.body # None
      <4>1. Asked(c)' = [kind |-> "publish", app |-> f.app, pid |-> f.pid]
        BY <1>4, <3>2 DEF Asked
      <4>2. f.app \in Apps
        BY <3>1, <3>2
      <4> QED
        BY <3>1, <4>1, <4>2 DEF Ownership!Request
    <3>3. CASE f.body = None
      <4>1. Asked(c)' = [kind |-> "clear", app |-> f.app, pid |-> f.pid]
        BY <1>4, <1>9, <3>3 DEF Asked, Ownership!Nothing
      <4> QED
        BY <3>1, <4>1 DEF Ownership!Request
    <3> QED
      BY <3>2, <3>3
  <2>2. Ownership!Ask(c)
    BY <1>3, <1>6, <1>7, <2>1 DEF Ownership!Ask
  <2> QED
    BY <2>2 DEF Ownership!Next
<1> QED
  BY <1>8, <1>9

\* note_publish is the takeover: the purge and the eviction of a full table are
\* all that can happen to another slot.
LEMMA NotePublishTakesOver ==
  ASSUME TypeOK, TablesBounded, NEW c \in Channels, NotePublish(c)
  PROVE  Ownership!TakeOver(c)
<1> DEFINE app == cur[c].app
           pid == cur[c].pid
           taken == [live_ipc EXCEPT ![app] = pid]
<1>0. c \in Threads
  BY ThreadNames
<1>1. cur[c] \in Frame /\ cur[c].body # None /\ pc[c] = "note"
  BY DEF NotePublish, TypeOK, ThreadsOK
<1>2. app \in Apps /\ pid \in Pids
  BY <1>1 DEF Frame, Pids
<1>3. pc'[c] = "compare" /\ UNCHANGED cur
  BY <1>0 DEF NotePublish, Goto, TypeOK, ThreadsOK
<1>4. \A u \in Threads \ {c} : pc'[u] = pc[u]
  BY <1>0 DEF NotePublish, Goto, TypeOK, ThreadsOK
<1>5. Asked(c) = [kind |-> "publish", app |-> app, pid |-> pid]
  BY <1>1 DEF Asked
<1>6. Asked(c)' = Ownership!Nothing
  BY <1>1, <1>3 DEF Asked, GenuineClear, Ownership!Nothing
<1>7. \A d \in Channels \ {c} : Asked(d)' = Asked(d)
  BY <1>3, <1>4, ThreadNames DEF Asked, GenuineClear
<1>8. live_ipc' \in BoundedInserts(live_ipc, app, pid, Alive, MAX_HANDOFF_ENTRIES)
  BY DEF NotePublish
<1>9. live_ipc \in [Apps -> Pids \cup {None}]
  BY DEF TypeOK, TablesOK
<1> HIDE DEF app, pid
<1>10. live_ipc' \in [Apps -> Pids \cup {None}]
  BY <1>2, <1>8, <1>9, InsertType
<1>11. ASSUME NEW a \in Apps PROVE live_ipc'[a] \in {taken[a], None}
  <2>1. live_ipc'[a] \in {None, IF a = app THEN pid ELSE live_ipc[a]}
    BY <1>2, <1>8, <1>9, InsertEntries
  <2> QED
    BY <1>2, <1>9, <2>1
<1>12. /\ IsFiniteSet(Apps) /\ None \notin Pids
       /\ MAX_HANDOFF_ENTRIES \in Nat
  OBVIOUS
<1>13. Size(live_ipc) < MAX_HANDOFF_ENTRIES => live_ipc' = taken
  BY <1>2, <1>8, <1>9, <1>12, InsertWithRoom
<1>14. Size(live_ipc') <= MAX_HANDOFF_ENTRIES
  BY <1>2, <1>8, <1>9, <1>12, InsertBounded DEF TablesBounded
<1>15. Ownership!Size(live_ipc) = Size(live_ipc) /\ Ownership!Size(live_ipc') = Size(live_ipc')
  BY DEF Ownership!Size, Ownership!Keys, Ownership!Cardinality, Cardinality, Size, Keys
<1>16. [d \in Channels |-> Asked(d)]' = [[d \in Channels |-> Asked(d)] EXCEPT ![c] = Ownership!Nothing]
  BY <1>6, <1>7
<1> HIDE DEF taken
<1>17. Asked(c).kind = "publish" /\ Asked(c).app = app /\ Asked(c).pid = pid
  BY <1>5
<1> QED
  BY <1>10, <1>11, <1>13, <1>14, <1>15, <1>16, <1>17
     DEF Ownership!TakeOver, taken

\* A stale clear releases nothing: note_clear and note_clear_pid give back what
\* the sender owns among the slots the clear is about.
LEMMA HandBackGivesBack ==
  ASSUME TypeOK, NEW c \in Channels, HandBack(c)
  PROVE  Ownership!GiveBack(c)
<1>0. c \in Threads /\ c # R
  BY ThreadNames
<1>1. pc[c] = "handback" /\ GenuineClear(cur[c]) /\ Proceed(c)
  BY DEF HandBack, TypeOK, ThreadsOK
<1>2. Asked(c) = [kind |-> "clear", app |-> cur[c].app, pid |-> cur[c].pid]
  BY <1>1 DEF Asked
<1>3. pc'[c] \in {"idle", "next"} /\ \A u \in Threads \ {c} : pc'[u] = pc[u] /\ cur'[u] = cur[u]
  BY <1>0, <1>1, ProceedType
<1>4. Asked(c)' = Ownership!Nothing
  BY <1>3 DEF Asked, Ownership!Nothing
<1>5. \A d \in Channels \ {c} : Asked(d)' = Asked(d)
  BY <1>3, ThreadNames DEF Asked, GenuineClear
<1>6. live_ipc' = [a \in Apps |->
                     IF live_ipc[a] = cur[c].pid /\ cur[c].app \in {a, None}
                       THEN None ELSE live_ipc[a]]
  BY DEF HandBack, Released
<1>7. Asked(c).kind = "clear" /\ Asked(c).app = cur[c].app /\ Asked(c).pid = cur[c].pid
  BY <1>2
<1>8. [d \in Channels |-> Asked(d)]' = [[d \in Channels |-> Asked(d)] EXCEPT ![c] = Ownership!Nothing]
  BY <1>4, <1>5
<1> QED
  BY <1>6, <1>7, <1>8 DEF Ownership!GiveBack

\* The remaining steps of an event loop change no owner, and apply nothing.
LEMMA EventLoopImplements ==
  ASSUME TypeOK, TablesBounded, NEW c \in Channels, EventLoop(c)
  PROVE  [Ownership!Next]_(Ownership!vars)
<1>0. c \in Threads /\ c # R
  BY ThreadNames
<1>1. CASE DropDuplicate(c)
  BY <1>1, InvisibleOutside DEF DropDuplicate, Recv
<1>2. CASE Accept(c)
  BY <1>2, AcceptAsks
<1>3. CASE NotePublish(c)
  BY <1>3, NotePublishTakesOver DEF Ownership!Next
<1>4. CASE Compare(c)
  <2>1. pc[c] = "compare" /\ UNCHANGED live_ipc
    BY <1>4 DEF Compare, tables
  <2>2. CASE GenuineClear(cur[c])
    <3>1. Goto(c, "handback") /\ UNCHANGED cur
      BY <1>4, <2>2 DEF Compare
    <3>2. pc'[c] = "handback" /\ \A u \in Threads \ {c} : pc'[u] = pc[u]
      BY <1>0, <3>1 DEF Goto, TypeOK, ThreadsOK
    <3>3. Asked(c)' = Asked(c)
      BY <2>1, <3>1, <3>2 DEF Asked, GenuineClear
    <3> QED
      BY <1>0, <2>1, <3>1, <3>2, <3>3, Invisible
  <2>3. CASE ~GenuineClear(cur[c])
    <3>1. Proceed(c)
      BY <1>4, <2>3 DEF Compare
    <3>2. pc'[c] \in {"idle", "next"} /\ \A u \in Threads \ {c} : pc'[u] = pc[u] /\ cur'[u] = cur[u]
      BY <1>0, <3>1, ProceedType
    <3>3. Asked(c)' = Asked(c)
      BY <2>1, <2>3, <3>2 DEF Asked
    <3> QED
      BY <1>0, <2>1, <3>2, <3>3, Invisible
  <2> QED
    BY <2>2, <2>3
<1>5. CASE HandBack(c)
  BY <1>5, HandBackGivesBack DEF Ownership!Next
<1>6. CASE Resume(c)
  <2>1. PICK game \in todo[c] :
          \/ Broadcast(c, game.app, GenericCard(game)) /\ UNCHANGED cur
          \/ Proceed(c)
    BY <1>6 DEF Resume
  <2>2. pc[c] = "next" /\ UNCHANGED live_ipc
    BY <1>6 DEF Resume
  <2>3. pc'[c] \in {"idle", "next", "cache"} /\ \A u \in Threads \ {c} : pc'[u] = pc[u] /\ cur'[u] = cur[u]
    BY <1>0, <2>1, ProceedType DEF Broadcast, Goto, TypeOK, ThreadsOK
  <2>4. Asked(c)' = Asked(c)
    BY <2>2, <2>3 DEF Asked
  <2> QED
    BY <1>0, <2>2, <2>3, <2>4, Invisible
<1>7. CASE PublishFrame(c)
  <2>1. pc[c] = "next" /\ UNCHANGED <<cur, live_ipc>>
    BY <1>7 DEF PublishFrame, tables
  <2>2. pc'[c] = "cache" /\ \A u \in Threads \ {c} : pc'[u] = pc[u]
    BY <1>0, <1>7 DEF PublishFrame, Broadcast, Goto, TypeOK, ThreadsOK
  <2>3. Asked(c)' = Asked(c)
    BY <2>1, <2>2 DEF Asked
  <2> QED
    BY <1>0, <2>1, <2>2, <2>3, Invisible
<1> QED
  BY <1>1, <1>2, <1>3, <1>4, <1>5, <1>6, <1>7 DEF EventLoop

\* A broadcast is a step of the abstract register, or changes nothing it
\* has.
LEMMA BroadcastingImplements ==
  ASSUME TypeOK, NEW t \in Channels \cup {P}, Broadcasting(t)
  PROVE  [Ownership!Next]_(Ownership!vars)
<1>0. t \in Threads /\ t # R
  BY ThreadNames
<1>1. pc[t] \in {"cache", "send"} /\ UNCHANGED live_ipc
  BY DEF Broadcasting, UpdateCache, SendToAll, tables
<1>2. Proceed(t) \/ (Goto(t, "send") /\ UNCHANGED cur)
  BY DEF Broadcasting, UpdateCache, SendToAll
<1>3. pc'[t] \in {"idle", "next", "send"} /\ \A u \in Threads \ {t} : pc'[u] = pc[u] /\ cur'[u] = cur[u]
  BY <1>0, <1>2, ProceedType DEF Goto, TypeOK, ThreadsOK
<1>4. Asked(t)' = Asked(t)
  BY <1>1, <1>3 DEF Asked
<1> QED
  BY <1>0, <1>1, <1>3, <1>4, Invisible

\* The process loop changes no owner.
LEMMA ProcessLoopImplements ==
  ASSUME TypeOK, ProcessLoop
  PROVE  UNCHANGED Ownership!vars
<1>0. P \in Threads /\ P \notin Channels /\ P # R
  BY ThreadNames
<1>1. UNCHANGED live_ipc
  BY DEF ProcessLoop, NoteNone, RecvScan, TakeClears, BroadcastClear, NoteGame,
     CheckSuppressed, Yield, Dedup, PublishGeneric, tables
<1>2. /\ pc \in [Threads -> LoopLabels \cup ProcessLabels]
      /\ cur \in [Threads -> Frame \cup Game \cup {None}]
  BY DEF TypeOK, ThreadsOK
<1>3. \/ Proceed(P)
      \/ \E s, card : Broadcast(P, s, card) /\ UNCHANGED cur
      \/ \E label : Goto(P, label) /\ (UNCHANGED cur \/ \E x : cur' = [cur EXCEPT ![P] = x])
  BY DEF ProcessLoop, NoteNone, TakeClears, BroadcastClear, NoteGame,
     CheckSuppressed, Yield, Dedup, PublishGeneric
<1>4. \A u \in Threads \ {P} : pc'[u] = pc[u] /\ cur'[u] = cur[u]
  BY <1>0, <1>2, <1>3, ProceedType DEF Broadcast, Goto
<1> QED
  BY <1>0, <1>1, <1>4, Invisible

\* Every step is a step of the abstract register, or changes nothing it has.
LEMMA NextImplements ==
  ASSUME TypeOK, TablesBounded, [Next]_vars
  PROVE  [Ownership!Next]_(Ownership!vars)
<1>1. CASE Environment
  BY <1>1, InvisibleOutside DEF Environment, Start, Exit, Publish, Clear, Drop,
     Enqueue, ReportGame, ReportNone, Report, tables, local
<1>2. CASE RefreshThread
  <2>1. R \in Threads /\ R \notin Channels
    BY ThreadNames
  <2>2. UNCHANGED <<cur, live_ipc>> /\ \E label : Goto(R, label)
    BY <1>2 DEF RefreshThread, CopyCache, SendCopy, tables
  <2>3. \A u \in Threads \ {R} : pc'[u] = pc[u] /\ cur'[u] = cur[u]
    BY <2>2 DEF Goto, TypeOK, ThreadsOK
  <2> QED
    BY <2>1, <2>2, <2>3, Invisible
<1>3. CASE UNCHANGED vars
  BY <1>3, InvisibleOutside DEF vars, tables, local
<1> QED
  BY <1>1, <1>2, <1>3, EventLoopImplements, BroadcastingImplements,
     ProcessLoopImplements DEF Next

\* At first no slot has an owner, here and there.
LEMMA InitImplements == Init => Ownership!Init
BY DEF Init, Ownership!Init, Asked, Ownership!Nothing, Channels, Threads

\* For every number of companions, applications and table entries, the flood
\* guard, the queues, the thread steps and the capped table together are a
\* register per application: the last publisher owns it, only its own clear gives
\* it back, and a table with room never takes it from anyone.
THEOREM ImplementsOwnership == Spec => OwnershipImplemented
<1>1. Init => TypeOK /\ TablesBounded /\ Ownership!Init
  BY InitType, InitBounded, InitImplements
<1>2. TypeOK /\ TablesBounded /\ [Next]_vars
        => (TypeOK /\ TablesBounded)' /\ [Ownership!Next]_(Ownership!vars)
  BY NextType, NextBounded, NextImplements
<1> QED
  BY <1>1, <1>2, PTL DEF Spec, OwnershipImplemented, Ownership!Spec

-----------------------------------------------------------------------------
(* Who loses a slot to a full table.                                        *)

\* The purge comes before the eviction: only a full table costs a live owner its
\* slot without a clear, and only when every owner is alive (note_publish).
THEOREM LiveLast == Spec => LiveOwnersEvictedLast
<1> DEFINE Fair == \A a \in Apps :
             /\ live_ipc[a] \in Alive
             /\ live_ipc'[a] = None
             /\ \A c \in Channels : pc[c] # "handback" \/ pc'[c] = "handback"
             => /\ Size(live_ipc) = MAX_HANDOFF_ENTRIES
                /\ \A b \in Apps : live_ipc[b] \in Alive \cup {None}
<1>1. TypeOK /\ TablesBounded /\ [Next]_vars => [Fair]_vars
  <2> SUFFICES ASSUME TypeOK, TablesBounded, Next PROVE Fair
    OBVIOUS
  <2> SUFFICES ASSUME NEW a \in Apps, live_ipc[a] \in Alive, live_ipc'[a] = None,
                      \A c \in Channels : pc[c] # "handback" \/ pc'[c] = "handback"
               PROVE  /\ Size(live_ipc) = MAX_HANDOFF_ENTRIES
                      /\ \A b \in Apps : live_ipc[b] \in Alive \cup {None}
    OBVIOUS
  <2>1. live_ipc \in [Apps -> Pids \cup {None}] /\ live_ipc[a] # None
    BY DEF TypeOK, TablesOK, Alive
  <2>2. CASE UNCHANGED live_ipc
    BY <2>1, <2>2
  <2>3. ASSUME NEW c \in Channels, NotePublish(c)
        PROVE  /\ Size(live_ipc) = MAX_HANDOFF_ENTRIES
               /\ \A b \in Apps : live_ipc[b] \in Alive \cup {None}
    <3>1. cur[c].app \in Apps /\ cur[c].pid \in Pids
      BY <2>3 DEF NotePublish, TypeOK, ThreadsOK, Frame, Pids
    <3>2. live_ipc' \in BoundedInserts(live_ipc, cur[c].app, cur[c].pid, Alive,
                                       MAX_HANDOFF_ENTRIES)
      BY <2>3 DEF NotePublish
    <3>3. /\ IsFiniteSet(Apps) /\ None \notin Pids
          /\ MAX_HANDOFF_ENTRIES \in Nat /\ Size(live_ipc) <= MAX_HANDOFF_ENTRIES
      BY DEF TablesBounded
    <3> QED
      BY <2>1, <3>1, <3>2, <3>3, InsertEvicts
  <2>4. ASSUME NEW c \in Channels, HandBack(c) PROVE FALSE
    <3>1. c \in Threads /\ c # R /\ pc[c] = "handback" /\ Proceed(c)
      BY <2>4, ThreadNames DEF HandBack
    <3> QED
      BY <3>1, ProceedType
  <2>5. \/ UNCHANGED live_ipc
        \/ \E c \in Channels : NotePublish(c) \/ HandBack(c)
    BY DEF Next, Environment, Start, Exit, Publish, Clear, Drop, Enqueue,
       ReportGame, ReportNone, Report, EventLoop, DropDuplicate, Accept, Recv, Compare, Resume,
       PublishFrame, ProcessLoop, NoteNone, RecvScan, TakeClears, BroadcastClear, NoteGame,
       CheckSuppressed, Yield, Dedup, PublishGeneric, RefreshThread, CopyCache, SendCopy,
       Broadcasting, UpdateCache, SendToAll, tables
  <2> QED
    BY <2>2, <2>3, <2>4, <2>5
<1>2. Init => TypeOK /\ TablesBounded
  BY InitType, InitBounded
<1>3. TypeOK /\ TablesBounded /\ [Next]_vars => (TypeOK /\ TablesBounded)'
  BY NextType, NextBounded
<1> QED
  BY <1>1, <1>2, <1>3, PTL DEF Spec, LiveOwnersEvictedLast

-----------------------------------------------------------------------------
(* What the steps of the threads do to frames, the flood guard and owners.   *)

\* Positions and elements of a sequence with one appended.
LEMMA Appended ==
  ASSUME NEW S, NEW s \in Seq(S), NEW x
  PROVE  /\ DOMAIN Append(s, x) = DOMAIN s \cup {Len(s) + 1}
         /\ \A i \in DOMAIN s : i \in Nat /\ i < Len(s) + 1 /\ Append(s, x)[i] = s[i]
         /\ Append(s, x)[Len(s) + 1] = x
         /\ Len(s) + 1 \notin DOMAIN s /\ Len(s) + 1 \in Nat
OBVIOUS

\* Positions and elements of a sequence without its first.
LEMMA Tailed ==
  ASSUME NEW S, NEW s \in Seq(S), s # <<>>
  PROVE  /\ Head(s) = s[1] /\ 1 \in DOMAIN s /\ Head(s) \in S /\ Tail(s) \in Seq(S)
         /\ \A i \in DOMAIN Tail(s) : i \in Nat /\ i >= 1 /\ i + 1 \in DOMAIN s /\ Tail(s)[i] = s[i + 1]
         /\ \A i \in DOMAIN s : i \in Nat /\ (i = 1 \/ (i > 1 /\ i - 1 \in DOMAIN Tail(s)
                                                /\ Tail(s)[i - 1] = s[i]))
OBVIOUS

\* What a frame is, once it is one.
LEMMA FrameParts ==
  ASSUME NEW f \in Frame
  PROVE  /\ f.app \in Apps \cup {None} /\ f.pid \in Companions /\ f.pid \in Pids
         /\ f.body \in Bodies \cup {None} /\ (f.app = None => f.body = None)
BY DEF Frame, Pids

\* What a step of an event loop does to its frames and to the owners.
Taken(c) ==
  /\ pc[c] = "idle" /\ queue[c] # <<>> /\ Head(queue[c]) \in Frame
  /\ queue'[c] = Tail(queue[c])
  /\ \A d \in Channels \ {c} : queue'[d] = queue[d]
  /\ UNCHANGED <<live_ipc, last_scans, last_process, cache, older, screen, changed, todo, out, copies>>

Dropped(c) ==
  /\ Taken(c)
  /\ Head(queue[c]).body # None
  /\ recent[<<Head(queue[c]).app, Head(queue[c]).pid>>] = Head(queue[c]).body
  /\ UNCHANGED <<recent, pc, cur>>

Accepted(c) ==
  /\ Taken(c)
  /\ recent' = Remembered(Head(queue[c]))
  /\ cur'[c] = Head(queue[c])
  /\ pc'[c] = IF Head(queue[c]).body = None THEN "compare" ELSE "note"

GoesOn(c) ==
  /\ pc[c] # "idle" /\ cur[c] \in Frame
  /\ UNCHANGED <<queue, recent>>
  /\ pc'[c] # "idle" => cur'[c] = cur[c]
  /\ \/ /\ pc[c] = "note" /\ pc'[c] = "compare"
        /\ live_ipc' \in BoundedInserts(live_ipc, cur[c].app, cur[c].pid, Alive,
                                        MAX_HANDOFF_ENTRIES)
     \/ /\ pc[c] = "compare" /\ GenuineClear(cur[c]) /\ pc'[c] = "handback"
        /\ UNCHANGED live_ipc
     \/ /\ pc[c] = "compare" /\ ~GenuineClear(cur[c]) /\ pc'[c] \in {"idle", "next"}
        /\ UNCHANGED live_ipc
     \/ /\ pc[c] = "handback" /\ pc'[c] \in {"idle", "next"}
        /\ live_ipc' = [a \in Apps |-> IF a \in Released(cur[c]) THEN None
                                       ELSE live_ipc[a]]
     \/ /\ pc[c] \in {"next", "cache", "send"}
        /\ pc'[c] \in {"idle", "next", "cache", "send"}
        /\ UNCHANGED live_ipc

\* A step of an event loop drops its frame, accepts it, or goes on with it.
LEMMA LoopStep ==
  ASSUME TypeOK, NEW c \in Channels, EventLoop(c) \/ Broadcasting(c)
  PROVE  /\ \A u \in Threads \ {c} : pc'[u] = pc[u] /\ cur'[u] = cur[u]
         /\ UNCHANGED <<life, wants, scans>>
         /\ Dropped(c) \/ Accepted(c) \/ GoesOn(c)
<1>0. c \in Threads /\ c # R /\ c # P
  BY ThreadNames
<1>t. /\ pc \in [Threads -> LoopLabels \cup ProcessLabels]
      /\ cur \in [Threads -> Frame \cup Game \cup {None}]
      /\ queue \in [Channels -> Seq(Frame)]
  BY DEF TypeOK, ThreadsOK, OutsideOK
<1>f. pc[c] # "idle" => cur[c] \in Frame
  BY DEF TypeOK, ThreadsOK
<1>1. ASSUME Recv(c) PROVE Taken(c) /\ UNCHANGED <<life, wants, scans>>
  <2>1. pc[c] = "idle" /\ queue[c] # <<>> /\ queue' = [queue EXCEPT ![c] = Tail(@)]
    BY <1>1 DEF Recv
  <2>2. Head(queue[c]) \in Frame
    BY <1>t, <2>1, Tailed
  <2> QED
    BY <1>1, <1>t, <2>1, <2>2 DEF Recv, Taken
<1>2. CASE DropDuplicate(c)
  <2>1. Recv(c) /\ UNCHANGED <<recent, pc, cur>>
    BY <1>2 DEF DropDuplicate
  <2> QED
    BY <1>1, <1>2, <2>1 DEF DropDuplicate, Dropped
<1>3. CASE Accept(c)
  <2>1. Recv(c) /\ cur' = [cur EXCEPT ![c] = Head(queue[c])]
    BY <1>3 DEF Accept
  <2>2. pc' = [pc EXCEPT ![c] = IF Head(queue[c]).body = None THEN "compare" ELSE "note"]
    BY <1>3 DEF Accept, Goto
  <2>3. recent' = Remembered(Head(queue[c]))
    BY <1>3 DEF Accept
  <2> QED
    BY <1>0, <1>1, <1>t, <2>1, <2>2, <2>3 DEF Accepted
<1>4. CASE NotePublish(c)
  <2>1. pc[c] = "note" /\ pc' = [pc EXCEPT ![c] = "compare"] /\ UNCHANGED <<cur, outside, recent>>
    BY <1>4 DEF NotePublish, Goto
  <2>2. live_ipc' \in BoundedInserts(live_ipc, cur[c].app, cur[c].pid, Alive, MAX_HANDOFF_ENTRIES)
    BY <1>4 DEF NotePublish
  <2> QED
    BY <1>0, <1>t, <1>f, <2>1, <2>2 DEF GoesOn, outside
<1>5. CASE Compare(c)
  <2>1. pc[c] = "compare" /\ UNCHANGED <<outside, tables>>
    BY <1>5 DEF Compare
  <2>2. CASE GenuineClear(cur[c])
    <3>1. pc' = [pc EXCEPT ![c] = "handback"] /\ UNCHANGED cur
      BY <1>5, <2>2 DEF Compare, Goto
    <3> QED
      BY <1>0, <1>t, <1>f, <2>1, <2>2, <3>1 DEF GoesOn, outside, tables
  <2>3. CASE ~GenuineClear(cur[c])
    <3>1. Proceed(c)
      BY <1>5, <2>3 DEF Compare
    <3> QED
      BY <1>0, <1>t, <1>f, <2>1, <2>3, <3>1, ProceedType DEF GoesOn, outside, tables
  <2> QED
    BY <2>2, <2>3
<1>6. CASE HandBack(c)
  <2>1. pc[c] = "handback" /\ UNCHANGED <<outside, recent>> /\ Proceed(c)
    BY <1>6 DEF HandBack
  <2>2. live_ipc' = [a \in Apps |-> IF a \in Released(cur[c]) THEN None ELSE live_ipc[a]]
    BY <1>6 DEF HandBack
  <2> QED
    BY <1>0, <1>t, <1>f, <2>1, <2>2, ProceedType DEF GoesOn, outside
<1>7. ASSUME NEW s, NEW card, Broadcast(c, s, card)
      PROVE  pc'[c] = "cache" /\ \A u \in Threads \ {c} : pc'[u] = pc[u]
  BY <1>0, <1>t, <1>7 DEF Broadcast, Goto
<1>8. CASE Resume(c)
  <2>1. pc[c] = "next" /\ UNCHANGED <<outside, recent, live_ipc>>
    BY <1>8 DEF Resume
  <2>2. PICK game \in todo[c] :
          \/ Broadcast(c, game.app, GenericCard(game)) /\ UNCHANGED cur
          \/ Proceed(c)
    BY <1>8 DEF Resume
  <2>3. CASE Broadcast(c, game.app, GenericCard(game)) /\ UNCHANGED cur
    BY <1>0, <1>f, <1>7, <2>1, <2>3 DEF GoesOn, outside
  <2>4. CASE Proceed(c)
    BY <1>0, <1>f, <2>1, <2>4, ProceedType DEF GoesOn, outside
  <2> QED
    BY <2>2, <2>3, <2>4
<1>9. CASE PublishFrame(c)
  <2>1. pc[c] = "next" /\ UNCHANGED <<outside, tables, cur>> /\ Broadcast(c, cur[c].pid, FrameCard(cur[c]))
    BY <1>9 DEF PublishFrame
  <2> QED
    BY <1>0, <1>f, <1>7, <2>1 DEF GoesOn, outside, tables
<1>10. CASE UpdateCache(c)
  <2>1. pc[c] = "cache" /\ UNCHANGED <<outside, recent, live_ipc>>
    BY <1>10 DEF UpdateCache
  <2>2. CASE Goto(c, "send") /\ UNCHANGED <<out, cur>>
    <3>1. pc' = [pc EXCEPT ![c] = "send"] /\ UNCHANGED cur
      BY <2>2 DEF Goto
    <3> QED
      BY <1>0, <1>t, <1>f, <2>1, <3>1 DEF GoesOn, outside
  <2>3. CASE Proceed(c)
    BY <1>0, <1>f, <2>1, <2>3, ProceedType DEF GoesOn, outside
  <2> QED
    BY <1>10, <2>2, <2>3 DEF UpdateCache
<1>11. CASE SendToAll(c)
  <2>1. pc[c] = "send" /\ UNCHANGED <<outside, tables>> /\ Proceed(c)
    BY <1>11 DEF SendToAll
  <2> QED
    BY <1>0, <1>f, <2>1, ProceedType DEF GoesOn, outside, tables
<1> QED
  BY <1>2, <1>3, <1>4, <1>5, <1>6, <1>8, <1>9, <1>10, <1>11 DEF EventLoop, Broadcasting

\* The other threads leave the frames, the flood guard and the owners alone.
LEMMA OtherStep ==
  ASSUME TypeOK, ProcessLoop \/ Broadcasting(P) \/ RefreshThread \/ UNCHANGED vars
  PROVE  /\ UNCHANGED <<life, wants, queue, recent, live_ipc>>
         /\ \A c \in Channels : pc'[c] = pc[c] /\ cur'[c] = cur[c]
<1>t. /\ pc \in [Threads -> LoopLabels \cup ProcessLabels]
      /\ cur \in [Threads -> Frame \cup Game \cup {None}]
  BY DEF TypeOK, ThreadsOK
<1>1. UNCHANGED <<life, wants, queue, recent, live_ipc>>
  BY DEF ProcessLoop, NoteNone, RecvScan, TakeClears, BroadcastClear, NoteGame,
     CheckSuppressed, Yield, Dedup, PublishGeneric, Broadcasting, UpdateCache, SendToAll,
     RefreshThread, CopyCache, SendCopy, vars, outside, tables
<1>2. \/ Proceed(P)
      \/ \E s, card : Broadcast(P, s, card) /\ UNCHANGED cur
      \/ \E t \in {P, R} : \E label : Goto(t, label) /\ (UNCHANGED cur \/ \E x : cur' = [cur EXCEPT ![P] = x])
      \/ UNCHANGED <<pc, cur>>
  BY DEF ProcessLoop, NoteNone, RecvScan, TakeClears, BroadcastClear, NoteGame,
     CheckSuppressed, Yield, Dedup, PublishGeneric, Broadcasting, UpdateCache, SendToAll,
     RefreshThread, CopyCache, SendCopy, vars, local
<1>3. CASE Proceed(P)
  BY <1>1, <1>3, ThreadNames, ProceedType
<1> QED
  BY <1>t, <1>1, <1>2, <1>3, ThreadNames DEF Broadcast, Goto

\* What reaches the bridge from outside moves no thread and no table; a frame is
\* the last of its connector's queue, and says what its sender wants.
Sent(p, f) ==
  /\ f \in Frame /\ f.pid = p
  /\ queue'[ChannelOf[p]] = Append(queue[ChannelOf[p]], f)
  /\ \A d \in Channels \ {ChannelOf[p]} : queue'[d] = queue[d]
  /\ wants' \in [Companions -> [Apps -> Bodies \cup {None}]]
  /\ \A q \in Companions \ {p} : wants'[q] = wants[q]
  /\ \A a \in Apps : IF f.app \in {a, None} THEN wants'[p][a] = f.body
                     ELSE wants'[p][a] = wants[p][a]
  /\ f.app \in AppsOf[p] \/ (f.app = None /\ p \in Abrupt)

\* The outside world changes no table; a companion sends a frame or nothing.
LEMMA OutsideStep ==
  ASSUME TypeOK, Environment
  PROVE  /\ UNCHANGED <<tables, screen, local>>
         /\ \/ UNCHANGED <<wants, queue>>
            \/ \E p \in Companions : \E f \in Frame : Sent(p, f) /\ Enqueue(p, f)
<1>t. /\ queue \in [Channels -> Seq(Frame)]
      /\ wants \in [Companions -> [Apps -> Bodies \cup {None}]]
  BY DEF TypeOK, OutsideOK
<1>1. ASSUME NEW p \in Companions, NEW f, Enqueue(p, f)
      PROVE  /\ UNCHANGED <<tables, screen, local>>
             /\ queue'[ChannelOf[p]] = Append(queue[ChannelOf[p]], f)
             /\ \A d \in Channels \ {ChannelOf[p]} : queue'[d] = queue[d]
  BY <1>1, <1>t DEF Enqueue
<1>2. ASSUME NEW p \in Companions, NEW a \in AppsOf[p], NEW b \in Bodies \cup {None},
             wants' = [wants EXCEPT ![p][a] = b], Enqueue(p, [app |-> a, pid |-> p, body |-> b])
      PROVE  Sent(p, [app |-> a, pid |-> p, body |-> b]) /\ [app |-> a, pid |-> p, body |-> b] \in Frame
  <2>1. a \in Apps
    OBVIOUS
  <2>2. [app |-> a, pid |-> p, body |-> b] \in Frame
    BY <2>1 DEF Frame
  <2>3. wants' \in [Companions -> [Apps -> Bodies \cup {None}]]
    BY <1>2, <1>t, <2>1
  <2>4. \A q \in Companions \ {p} : wants'[q] = wants[q]
    BY <1>2, <1>t
  <2>5. \A x \in Apps : wants'[p][x] = IF x = a THEN b ELSE wants[p][x]
    BY <1>2, <1>t
  <2> QED
    BY <1>1, <1>2, <2>1, <2>2, <2>3, <2>4, <2>5 DEF Sent
<1>3. ASSUME NEW p \in Companions, NEW a \in AppsOf[p], Clear(p, a) \/ \E b \in Bodies : Publish(p, a, b)
      PROVE  \E f \in Frame : Sent(p, f) /\ Enqueue(p, f)
  BY <1>2, <1>3 DEF Clear, Publish
<1>4. ASSUME NEW p \in Companions, Drop(p)
      PROVE  \E f \in Frame : Sent(p, f) /\ Enqueue(p, f)
  <2> DEFINE f == [app |-> None, pid |-> p, body |-> None]
  <2>1. f \in Frame
    BY DEF Frame
  <2>2. wants' = [wants EXCEPT ![p] = [a \in Apps |-> None]] /\ Enqueue(p, f) /\ p \in Abrupt
    BY <1>4 DEF Drop
  <2>3. wants' \in [Companions -> [Apps -> Bodies \cup {None}]]
    BY <1>t, <2>2
  <2> QED
    BY <1>1, <1>t, <2>1, <2>2, <2>3 DEF Sent
<1>5. CASE \E p \in Pids : Start(p) \/ Exit(p)
  BY <1>5 DEF Start, Exit
<1>6. CASE (\E g \in Games : ReportGame(g)) \/ ReportNone
  BY <1>6 DEF ReportGame, ReportNone, Report
<1>7. ASSUME NEW p \in Companions, (\E f : Enqueue(p, f)) PROVE UNCHANGED <<tables, screen, local>>
  BY <1>7 DEF Enqueue
<1>8. CASE \E p \in Companions :
       \/ \E a \in AppsOf[p] : Clear(p, a) \/ \E b \in Bodies : Publish(p, a, b)
       \/ Drop(p)
  BY <1>3, <1>4, <1>7, <1>8
<1> QED
  BY <1>5, <1>6, <1>8 DEF Environment

-----------------------------------------------------------------------------
(* A clear that is under way arrives, so a source that left owns nothing.    *)

\* A publication leaves every other slot to its owner, or to nobody.
LEMMA PublishedTo ==
  ASSUME TypeOK, NEW f \in Frame, f.body # None, NEW a \in Apps,
         live_ipc' \in BoundedInserts(live_ipc, f.app, f.pid, Alive, MAX_HANDOFF_ENTRIES)
  PROVE  live_ipc'[a] \in {None, IF a = f.app THEN f.pid ELSE live_ipc[a]}
<1>1. f.app \in Apps /\ f.pid \in Pids
  BY FrameParts
<1>2. live_ipc \in [Apps -> Pids \cup {None}]
  BY DEF TypeOK, TablesOK
<1> DEFINE app == f.app
           pid == f.pid
<1>3. app \in Apps /\ pid \in Pids
      /\ live_ipc' \in BoundedInserts(live_ipc, app, pid, Alive, MAX_HANDOFF_ENTRIES)
  BY <1>1
<1> HIDE DEF app, pid
<1>4. live_ipc'[a] \in {None, IF a = app THEN pid ELSE live_ipc[a]}
  BY <1>2, <1>3, InsertEntries
<1> QED
  BY <1>4 DEF app, pid

\* Frames stay on the channel of their companion.
LEMMA NextRouted == TypeOK /\ FramesRouted /\ [Next]_vars => FramesRouted'
<1> SUFFICES ASSUME TypeOK, FramesRouted, [Next]_vars PROVE FramesRouted'
  OBVIOUS
<1>t. queue \in [Channels -> Seq(Frame)] /\ pc \in [Threads -> LoopLabels \cup ProcessLabels]
  BY DEF TypeOK, OutsideOK, ThreadsOK
<1> USE DEF FramesRouted
<1>1. CASE UNCHANGED queue /\ \A c \in Channels : pc'[c] = pc[c] /\ cur'[c] = cur[c]
  BY <1>1
<1>2. ASSUME NEW p \in Companions, NEW f \in Frame, Sent(p, f), UNCHANGED <<pc, cur>>
      PROVE  FramesRouted'
  <2>1. ChannelOf[p] \in Channels /\ Routed(ChannelOf[p], f)
    BY <1>2 DEF Sent, Routed
  <2>2. queue'[ChannelOf[p]] = Append(queue[ChannelOf[p]], f)
        /\ \A d \in Channels \ {ChannelOf[p]} : queue'[d] = queue[d]
    BY <1>2 DEF Sent
  <2>3. ASSUME NEW c \in Channels, NEW i \in DOMAIN queue'[c] PROVE Routed(c, queue'[c][i])
    <3>1. queue[c] \in Seq(Frame)
      BY <1>t
    <3> QED
      BY <2>1, <2>2, <2>3, <3>1, Appended, SMTT(30)
  <2> QED
    BY <1>2, <2>3
<1>3. ASSUME NEW c \in Channels, EventLoop(c) \/ Broadcasting(c)
      PROVE  FramesRouted'
  <2>0. \A d \in Channels : d \in Threads
    BY ThreadNames
  <2>1. \A u \in Threads \ {c} : pc'[u] = pc[u] /\ cur'[u] = cur[u]
    BY <1>3, LoopStep
  <2>2. CASE GoesOn(c)
    BY <2>0, <2>1, <2>2 DEF GoesOn
  <2>3. ASSUME Taken(c) PROVE (\A d \in Channels : \A i \in DOMAIN queue'[d] : Routed(d, queue'[d][i]))
                              /\ Routed(c, Head(queue[c]))
    <3>1. queue[c] \in Seq(Frame) /\ queue[c] # <<>> /\ queue'[c] = Tail(queue[c])
          /\ \A d \in Channels \ {c} : queue'[d] = queue[d]
      BY <1>t, <2>3 DEF Taken
    <3>2. ASSUME NEW i \in DOMAIN queue'[c] PROVE Routed(c, queue'[c][i])
      BY <3>1, <3>2, Tailed
    <3>3. Head(queue[c]) = queue[c][1] /\ 1 \in DOMAIN queue[c]
      BY <3>1, Tailed
    <3>4. Routed(c, Head(queue[c]))
      BY <3>3
    <3>5. ASSUME NEW d \in Channels, NEW i \in DOMAIN queue'[d] PROVE Routed(d, queue'[d][i])
      <4>1. CASE d = c
        BY <3>2, <3>5, <4>1
      <4>2. CASE d # c
        <5>1. queue'[d] = queue[d]
          BY <3>1, <4>2
        <5> QED
          BY <3>5, <5>1
      <4> QED
        BY <4>1, <4>2
    <3> QED
      BY <3>4, <3>5
  <2>4. CASE Dropped(c)
    BY <2>3, <2>4 DEF Dropped
  <2>5. CASE Accepted(c)
    BY <2>0, <2>1, <2>3, <2>5 DEF Accepted
  <2> QED
    BY <1>3, <2>2, <2>4, <2>5, LoopStep
<1>4. CASE Environment
  BY <1>1, <1>2, <1>4, OutsideStep DEF local
<1> QED
  BY <1>1, <1>3, <1>4, OtherStep DEF Next

\* No frame is queued at first.
LEMMA InitRouted == Init => FramesRouted
BY ThreadNames DEF Init, FramesRouted

\* A clear that is queued stays in the queue until it is in hand.
LEMMA NextClearComes == TypeOK /\ OwnerInv /\ [Next]_vars => ClearComes'
<1> SUFFICES ASSUME TypeOK, OwnerInv, [Next]_vars,
                    NEW p \in Companions \ {Zero}, NEW a \in Apps, wants'[p][a] = None
             PROVE  /\ live_ipc'[a] = p => ClearPends(p, a)'
                    /\ pc'[ChannelOf[p]] = "note" /\ Publishes(cur'[ChannelOf[p]], p, a)
                         => ClearQueued(p, a)'
                    /\ \A i \in DOMAIN queue'[ChannelOf[p]] :
                         Publishes(queue'[ChannelOf[p]][i], p, a)
                           => \E j \in DOMAIN queue'[ChannelOf[p]] :
                                j > i /\ Clears(queue'[ChannelOf[p]][j], p, a)
  BY DEF ClearComes, Publishes, Clears
<1> DEFINE d == ChannelOf[p]
<1>d. d \in Channels /\ d \in Threads
  BY ThreadNames
<1>t. queue[d] \in Seq(Frame) /\ live_ipc \in [Apps -> Pids \cup {None}] /\ p \in Pids
      /\ None \notin Bodies /\ None \notin Pids
  BY <1>d DEF TypeOK, OutsideOK, TablesOK, Pids
<1>v. wants[p][a] = None =>
      /\ live_ipc[a] = p => ClearPends(p, a)
      /\ pc[d] = "note" /\ Publishes(cur[d], p, a) => ClearQueued(p, a)
      /\ \A i \in DOMAIN queue[d] : Publishes(queue[d][i], p, a)
           => \E j \in DOMAIN queue[d] : j > i /\ Clears(queue[d][j], p, a)
  BY DEF OwnerInv, ClearComes
<1>r. (\A i \in DOMAIN queue[d] : ChannelOf[queue[d][i].pid] = d)
      /\ \A c \in Channels : pc[c] # "idle" => ChannelOf[cur[c].pid] = c
  BY <1>d DEF OwnerInv, FramesRouted, Routed
<1> DEFINE Goal == /\ live_ipc'[a] = p => ClearPends(p, a)'
                   /\ pc'[d] = "note" /\ Publishes(cur'[d], p, a) => ClearQueued(p, a)'
                   /\ \A i \in DOMAIN queue'[d] : Publishes(queue'[d][i], p, a)
                        => \E j \in DOMAIN queue'[d] : j > i /\ Clears(queue'[d][j], p, a)
<1> SUFFICES Goal
  OBVIOUS
<1>1. ASSUME queue'[d] = queue[d], pc'[d] = pc[d], cur'[d] = cur[d], wants'[p] = wants[p],
             live_ipc'[a] = p => live_ipc[a] = p
      PROVE  Goal
  BY <1>1, <1>v DEF ClearPends, ClearQueued
<1>2. ASSUME NEW q \in Companions, NEW f \in Frame, Sent(q, f), UNCHANGED <<pc, cur, live_ipc>>
      PROVE  Goal
  <2>1. CASE ChannelOf[q] # d
    <3>1. queue'[d] = queue[d] /\ wants'[p] = wants[p]
      BY <1>2, <1>d, <2>1 DEF Sent
    <3> QED
      BY <1>1, <1>2, <3>1
  <2>2. CASE ChannelOf[q] = d
    <3>1. queue'[d] = Append(queue[d], f) /\ f.pid = q
      BY <1>2, <2>2 DEF Sent
    <3> DEFINE n == Len(queue[d]) + 1
    <3>2. /\ DOMAIN queue'[d] = DOMAIN queue[d] \cup {n} /\ n \notin DOMAIN queue[d]
          /\ \A i \in DOMAIN queue[d] : i \in Nat /\ i < n /\ queue'[d][i] = queue[d][i]
          /\ queue'[d][n] = f /\ n \in Nat
      BY <1>t, <3>1, Appended
    <3> HIDE DEF n, d
    <3>3. CASE wants[p][a] = None /\ ~Publishes(f, p, a)
      <4>1. ClearQueued(p, a) => ClearQueued(p, a)'
        BY <3>2 DEF ClearQueued, d
      <4>2. ClearPends(p, a) => ClearPends(p, a)'
        BY <1>2, <4>1 DEF ClearPends, d
      <4>3. \A i \in DOMAIN queue'[d] : Publishes(queue'[d][i], p, a)
              => \E j \in DOMAIN queue'[d] : j > i /\ Clears(queue'[d][j], p, a)
        BY <1>v, <3>2, <3>3
      <4> QED
        BY <1>2, <1>v, <3>3, <4>1, <4>2, <4>3 DEF d
    <3>4. CASE Clears(f, p, a)
      <4>1. ClearQueued(p, a)'
        BY <3>2, <3>4 DEF ClearQueued, d
      <4>2. \A i \in DOMAIN queue'[d] : Publishes(queue'[d][i], p, a)
              => \E j \in DOMAIN queue'[d] : j > i /\ Clears(queue'[d][j], p, a)
        BY <3>2, <3>4 DEF Publishes, Clears
      <4> QED
        BY <4>1, <4>2 DEF ClearPends, d
    <3>5. (wants[p][a] = None /\ ~Publishes(f, p, a)) \/ Clears(f, p, a)
      <4>1. CASE q # p
        <5>1. wants'[p] = wants[p]
          BY <1>2, <4>1 DEF Sent
        <5> QED
          BY <3>1, <4>1, <5>1 DEF Publishes
      <4>2. CASE q = p
        <5>1. IF f.app \in {a, None} THEN wants'[p][a] = f.body ELSE wants'[p][a] = wants[p][a]
          BY <1>2, <4>2 DEF Sent
        <5> QED
          BY <3>1, <4>2, <5>1, FrameParts DEF Publishes, Clears
      <4> QED
        BY <4>1, <4>2
    <3> QED
      BY <3>3, <3>4, <3>5
  <2> QED
    BY <2>1, <2>2
<1>3. ASSUME NEW c \in Channels, EventLoop(c) \/ Broadcasting(c)
      PROVE  Goal
  <2>1. /\ \A u \in Threads \ {c} : pc'[u] = pc[u] /\ cur'[u] = cur[u]
        /\ wants' = wants
        /\ Dropped(c) \/ Accepted(c) \/ GoesOn(c)
    BY <1>3, LoopStep
  <2>2. CASE c # d
    <3>1. queue'[d] = queue[d] /\ pc'[d] = pc[d] /\ cur'[d] = cur[d]
      BY <1>d, <2>1, <2>2 DEF Dropped, Accepted, GoesOn, Taken
    <3>2. live_ipc'[a] = p => live_ipc[a] = p
      <4>1. CASE UNCHANGED live_ipc
        BY <4>1
      <4>2. CASE GoesOn(c) /\ pc[c] = "handback"
        BY <1>t, <4>2 DEF GoesOn
      <4>3. CASE GoesOn(c) /\ pc[c] = "note"
        <5>1. cur[c] \in Frame /\ cur[c].body # None
          BY <4>3 DEF GoesOn, TypeOK, ThreadsOK
        <5>2. cur[c].app \in Apps /\ cur[c].pid \in Pids /\ cur[c].pid # p
          BY <1>r, <2>2, <4>3, <5>1, FrameParts
        <5>3. live_ipc' \in BoundedInserts(live_ipc, cur[c].app, cur[c].pid, Alive, MAX_HANDOFF_ENTRIES)
          BY <4>3 DEF GoesOn
        <5>4. live_ipc'[a] \in {None, IF a = cur[c].app THEN cur[c].pid ELSE live_ipc[a]}
          BY <5>1, <5>3, PublishedTo
        <5> QED
          BY <1>t, <5>2, <5>4
      <4> QED
        BY <2>1, <4>1, <4>2, <4>3 DEF Dropped, Accepted, GoesOn, Taken
    <3> QED
      BY <1>1, <2>1, <3>1, <3>2
  <2> DEFINE f == Head(queue[d])
  <2>3. CASE c = d
    <3>n. wants[p][a] = None
      BY <2>1
    <3>1. ASSUME Taken(d)
          PROVE  /\ f = queue[d][1] /\ 1 \in DOMAIN queue[d] /\ f \in Frame
                 /\ \A i \in DOMAIN queue'[d] : i \in Nat /\ i >= 1 /\ i + 1 \in DOMAIN queue[d]
                                                /\ queue'[d][i] = queue[d][i + 1]
                 /\ \A i \in DOMAIN queue[d] : i \in Nat
                      /\ (i = 1 \/ (i > 1 /\ i - 1 \in DOMAIN queue'[d] /\ queue'[d][i - 1] = queue[d][i]))
      BY <1>t, <3>1, Tailed DEF Taken
    <3>2. ASSUME Taken(d)
          PROVE  /\ ClearQueued(p, a) => Clears(f, p, a) \/ ClearQueued(p, a)'
                 /\ Publishes(f, p, a) => ClearQueued(p, a)'
                 /\ \A i \in DOMAIN queue'[d] : Publishes(queue'[d][i], p, a)
                        => \E j \in DOMAIN queue'[d] : j > i /\ Clears(queue'[d][j], p, a)
      <4> HIDE DEF f, d
      <4>1. ClearQueued(p, a) => Clears(f, p, a) \/ ClearQueued(p, a)'
        BY <3>1, <3>2 DEF ClearQueued, d
      <4>2. ASSUME NEW k \in DOMAIN queue[d], Publishes(queue[d][k], p, a)
            PROVE  \E j \in DOMAIN queue'[d] : j > k - 1 /\ Clears(queue'[d][j], p, a)
        <5>1. PICK j \in DOMAIN queue[d] : j > k /\ Clears(queue[d][j], p, a)
          BY <1>v, <3>n, <4>2
        <5>2. j \in Nat /\ k \in Nat /\ k >= 1
          BY <3>1, <3>2, <4>2
        <5>3. j # 1
          BY <5>1, <5>2
        <5>4. j - 1 \in DOMAIN queue'[d] /\ queue'[d][j - 1] = queue[d][j] /\ j - 1 > k - 1
          BY <3>1, <3>2, <5>1, <5>2, <5>3
        <5> QED
          BY <5>1, <5>4
      <4>3. Publishes(f, p, a) => ClearQueued(p, a)'
        BY <3>1, <3>2, <4>2 DEF ClearQueued, d
      <4>4. ASSUME NEW i \in DOMAIN queue'[d], Publishes(queue'[d][i], p, a)
            PROVE  \E j \in DOMAIN queue'[d] : j > i /\ Clears(queue'[d][j], p, a)
        <5>1. i + 1 \in DOMAIN queue[d] /\ queue[d][i + 1] = queue'[d][i] /\ (i + 1) - 1 = i
          BY <3>1, <3>2, <4>4
        <5>2. \E j \in DOMAIN queue'[d] : j > (i + 1) - 1 /\ Clears(queue'[d][j], p, a)
          BY <4>2, <4>4, <5>1
        <5> QED
          BY <5>1, <5>2
      <4> QED
        BY <4>1, <4>3, <4>4
    <3> HIDE DEF f, d
    <3>3. CASE Dropped(d)
      <4>1. Taken(d) /\ f.body # None /\ UNCHANGED <<pc, cur, live_ipc>> /\ pc[d] = "idle"
        BY <3>3 DEF Dropped, Taken, f
      <4>2. ~Clears(f, p, a)
        BY <4>1 DEF Clears
      <4> QED
        BY <1>v, <3>n, <3>2, <4>1, <4>2 DEF ClearPends, d
    <3>4. CASE Accepted(d)
      <4>1. Taken(d) /\ cur'[d] = f /\ UNCHANGED live_ipc /\ pc[d] = "idle"
            /\ pc'[d] = IF f.body = None THEN "compare" ELSE "note"
        BY <3>4 DEF Accepted, Taken, f
      <4>2. live_ipc'[a] = p => ClearPends(p, a)'
        <5>1. live_ipc'[a] = p => ClearQueued(p, a)
          BY <1>v, <3>n, <4>1 DEF ClearPends, d
        <5>2. Clears(f, p, a) => ClearPends(p, a)'
          BY <4>1 DEF ClearPends, Clears, d
        <5> QED
          BY <3>2, <4>1, <5>1, <5>2 DEF ClearPends
      <4> QED
        BY <3>2, <4>1, <4>2
    <3>5. CASE GoesOn(d)
      <4>0. cur[d] \in Frame /\ UNCHANGED queue /\ (pc'[d] # "idle" => cur'[d] = cur[d])
            /\ pc'[d] # "note"
        BY <3>5 DEF GoesOn
      <4>1. ClearQueued(p, a) => ClearPends(p, a)'
        BY <4>0 DEF ClearPends, ClearQueued
      <4>2. live_ipc'[a] = p => ClearPends(p, a)'
        <5>1. CASE pc[d] = "note"
          <6>1. cur[d].body # None /\ pc'[d] = "compare"
            BY <1>d, <3>5, <5>1 DEF GoesOn, TypeOK, ThreadsOK
          <6>2. cur[d].app \in Apps /\ cur[d].pid \in Pids
            BY <4>0, <6>1, FrameParts
          <6>3. live_ipc' \in BoundedInserts(live_ipc, cur[d].app, cur[d].pid, Alive, MAX_HANDOFF_ENTRIES)
            BY <3>5, <5>1 DEF GoesOn
          <6>4. live_ipc'[a] \in {None, IF a = cur[d].app THEN cur[d].pid ELSE live_ipc[a]}
            BY <4>0, <6>1, <6>3, PublishedTo
          <6>5. CASE Publishes(cur[d], p, a)
            BY <1>v, <3>n, <4>1, <5>1, <6>5
          <6>6. CASE ~Publishes(cur[d], p, a)
            <7>1. live_ipc'[a] = p => live_ipc[a] = p
              BY <1>t, <6>1, <6>4, <6>6 DEF Publishes
            <7>2. ClearPends(p, a) => ClearQueued(p, a)
              BY <5>1 DEF ClearPends, d
            <7> QED
              BY <1>v, <3>n, <4>1, <7>1, <7>2
          <6> QED
            BY <6>5, <6>6
        <5>2. CASE pc[d] = "compare" /\ UNCHANGED live_ipc
          <6>1. CASE GenuineClear(cur[d])
            <7>1. pc'[d] = "handback" /\ cur'[d] = cur[d]
              BY <3>5, <4>0, <5>2, <6>1 DEF GoesOn
            <7>2. ClearPends(p, a) => ClearPends(p, a)'
              BY <4>0, <7>1 DEF ClearPends, ClearQueued, d
            <7> QED
              BY <1>v, <3>n, <5>2, <7>2
          <6>2. CASE ~GenuineClear(cur[d])
            <7>1. ~Clears(cur[d], p, a)
              BY <6>2 DEF Clears, GenuineClear
            <7> QED
              BY <1>v, <3>n, <4>1, <5>2, <7>1 DEF ClearPends, d
          <6> QED
            BY <6>1, <6>2
        <5>3. CASE pc[d] = "handback"
          <6>1. live_ipc' = [x \in Apps |-> IF x \in Released(cur[d]) THEN None ELSE live_ipc[x]]
            BY <3>5, <5>3 DEF GoesOn
          <6>2. live_ipc'[a] = p => live_ipc[a] = p /\ a \notin Released(cur[d])
            BY <1>t, <6>1
          <6>3. live_ipc[a] = p /\ Clears(cur[d], p, a) => a \in Released(cur[d])
            BY DEF Clears, Released
          <6> QED
            BY <1>v, <3>n, <4>1, <6>2, <6>3 DEF ClearPends, d
        <5>4. CASE pc[d] \in {"next", "cache", "send"}
          <6>1. UNCHANGED live_ipc
            BY <3>5, <5>4 DEF GoesOn
          <6> QED
            BY <1>v, <3>n, <4>1, <5>4, <6>1 DEF ClearPends, d
        <5> QED
          BY <3>5, <5>1, <5>2, <5>3, <5>4 DEF GoesOn
      <4> QED
        BY <1>v, <3>n, <4>0, <4>2
    <3> QED
      BY <2>1, <2>3, <3>3, <3>4, <3>5
  <2> QED
    BY <2>2, <2>3
<1>4. CASE Environment
  <2>1. UNCHANGED <<pc, cur, live_ipc>>
    BY <1>4, OutsideStep DEF tables, local
  <2> QED
    BY <1>1, <1>2, <1>4, <2>1, OutsideStep
<1>5. CASE ProcessLoop \/ Broadcasting(P) \/ RefreshThread \/ UNCHANGED vars
  BY <1>1, <1>5, <1>d, OtherStep
<1> QED
  BY <1>3, <1>4, <1>5 DEF Next

\* No clear is owed at first.
LEMMA InitClearComes == Init => ClearComes
<1> SUFFICES ASSUME Init, NEW p \in Companions \ {Zero}, NEW a \in Apps
             PROVE  /\ live_ipc[a] # p /\ pc[ChannelOf[p]] = "idle"
                    /\ DOMAIN queue[ChannelOf[p]] = {}
  BY DEF ClearComes
<1> QED
  BY ThreadNames DEF Init, Pids

\* Who has cleared a slot does not keep it: once what a companion sent is handled,
\* it owns only slots it wants to show something for, however the flood guard
\* drops duplicates, queues fill, threads interleave and tables evict.
THEOREM OwnersWant == Spec => []OwnerStillWants
<1>1. TypeOK /\ OwnerInv => OwnerStillWants
  <2> SUFFICES ASSUME TypeOK, OwnerInv, NEW p \in Companions \ {Zero}, NEW a \in Apps,
                      Settled(p), live_ipc[a] = p, wants[p][a] = None
               PROVE  FALSE
    BY DEF OwnerStillWants
  <2>1. ClearPends(p, a) /\ ChannelOf[p] \in Channels
    BY DEF OwnerInv, ClearComes
  <2>2. queue[ChannelOf[p]] \in Seq(Frame)
    BY <2>1 DEF TypeOK, OutsideOK
  <2>3. ~ClearQueued(p, a)
    BY <2>2 DEF ClearQueued, Clears, Settled
  <2> QED
    BY <2>1, <2>3 DEF ClearPends, Clears, Settled
<1>2. Init => TypeOK /\ OwnerInv
  BY InitType, InitRouted, InitClearComes DEF OwnerInv
<1>3. TypeOK /\ OwnerInv /\ [Next]_vars => (TypeOK /\ OwnerInv)'
  BY NextType, NextRouted, NextClearComes DEF OwnerInv
<1> QED
  BY <1>1, <1>2, <1>3, PTL DEF Spec

-----------------------------------------------------------------------------
(* What is broadcast, and what the replay cache keeps of it.                 *)

\* A cache with a place for every socket evicts nothing.
LEMMA NothingEvicted ==
  ASSUME TypeOK, Cardinality(Sockets) <= MAX_CACHED_ACTIVITIES,
         NEW t \in Channels \cup {P}, UpdateCache(t)
  PROVE  cache' = [cache EXCEPT ![out[t].socket] = out[t].card]
<1> DEFINE s == out[t].socket
           full == [cache EXCEPT ![s] = out[t].card]
<1>0. t \in Threads
  BY ThreadNames
<1>1. out[t] \in Payload
  BY <1>0 DEF UpdateCache, TypeOK, ThreadsOK
<1>2. full \in [Sockets -> Card \cup {None}]
  BY <1>1 DEF TypeOK, TablesOK, Payload
<1>3. Size(full) <= MAX_CACHED_ACTIVITIES
  <2> HIDE DEF full
  <2>1. Keys(full) \subseteq Sockets
    BY <1>2 DEF Keys
  <2>2. Cardinality(Keys(full)) <= Cardinality(Sockets)
    BY <2>1, FiniteDomains, FS_Subset
  <2>3. Cardinality(Keys(full)) \in Nat /\ Cardinality(Sockets) \in Nat
    BY <1>2, FiniteDomains, KeysFinite, FS_CardinalityType DEF Size
  <2> QED
    BY <2>2, <2>3 DEF Size
<1> QED
  BY <1>3 DEF UpdateCache, Without

\* What is broadcast fits, step by step.
LEMMA NextPayloadsFit == TypeOK /\ PayloadsFit /\ [Next]_vars => PayloadsFit'
<1> SUFFICES ASSUME TypeOK, PayloadsFit, [Next]_vars PROVE PayloadsFit'
  OBVIOUS
<1>t. /\ pc \in [Threads -> LoopLabels \cup ProcessLabels]
      /\ out \in [Threads -> Payload \cup {None}]
      /\ todo \in [Threads -> SUBSET Game]
  BY DEF TypeOK, ThreadsOK
<1> USE DEF PayloadsFit
<1>1. ASSUME NEW t \in Threads, \A u \in Threads \ {t} : UNCHANGED <<pc[u], cur[u], out[u]>>,
             \/ pc'[t] \notin {"cache", "send"}
             \/ out'[t].socket \in Apps
             \/ t \in Channels /\ out'[t].socket = cur'[t].pid /\ out'[t].card = FrameCard(cur'[t])
      PROVE  PayloadsFit'
  BY <1>1
<1>2. CASE UNCHANGED <<pc, cur, out>>
  BY <1>2
<1>3. ASSUME NEW t \in Threads \ {R}, UNCHANGED cur, NEW s \in Apps, NEW card, Broadcast(t, s, card)
      PROVE  PayloadsFit'
  <2>1. /\ \A u \in Threads \ {t} : UNCHANGED <<pc[u], cur[u], out[u]>>
        /\ out'[t].socket = s
    BY <1>3, <1>t DEF Broadcast, Goto
  <2> QED
    BY <1>1, <2>1
<1>4. ASSUME NEW t \in Threads \ {R}, Proceed(t), \A u \in Threads \ {t} : UNCHANGED out[u]
      PROVE  PayloadsFit'
  <2>1. /\ \A u \in Threads \ {t} : UNCHANGED <<pc[u], cur[u], out[u]>>
        /\ pc'[t] \in {"idle", "next"}
    BY <1>4, ProceedType
  <2> QED
    BY <1>1, <2>1
<1>5. ASSUME NEW t \in Threads, NEW label, label \notin {"cache", "send"}, Goto(t, label),
             UNCHANGED out, \A u \in Threads \ {t} : UNCHANGED cur[u]
      PROVE  PayloadsFit'
  <2>1. /\ \A u \in Threads \ {t} : UNCHANGED <<pc[u], cur[u], out[u]>>
        /\ pc'[t] \notin {"cache", "send"}
    BY <1>5, <1>t DEF Goto
  <2> QED
    BY <1>1, <2>1
<1>6. ASSUME NEW t \in Channels \cup {P}, Broadcasting(t)
      PROVE  PayloadsFit'
  <2>0. t \in Threads \ {R}
    BY ThreadNames
  <2>1. CASE pc[t] = "cache" /\ Goto(t, "send") /\ UNCHANGED <<out, cur>>
    <3>1. pc' = [pc EXCEPT ![t] = "send"]
      BY <2>1 DEF Goto
    <3> QED
      BY <1>t, <2>0, <2>1, <3>1
  <2>2. CASE Proceed(t) /\ out' = [out EXCEPT ![t] = None]
    <3>1. \A u \in Threads \ {t} : UNCHANGED out[u]
      BY <1>t, <2>2
    <3> QED
      BY <1>4, <2>0, <2>2, <3>1
  <2> QED
    BY <1>6, <2>1, <2>2 DEF Broadcasting, UpdateCache, SendToAll
<1>7. ASSUME NEW c \in Channels, EventLoop(c)
      PROVE  PayloadsFit'
  <2>0. c \in Threads \ {R}
    BY ThreadNames
  <2>1. CASE DropDuplicate(c)
    BY <1>2, <2>1 DEF DropDuplicate, Recv
  <2>2. CASE Accept(c)
    <3>1. \A u \in Threads \ {c} : UNCHANGED cur[u]
      BY <2>0, <2>2 DEF Accept, TypeOK, ThreadsOK
    <3>2. PICK label \in {"compare", "note"} : Goto(c, label)
      BY <2>2 DEF Accept
    <3> QED
      BY <1>5, <2>0, <2>2, <3>1, <3>2 DEF Accept, Recv
  <2>3. CASE NotePublish(c)
    BY <1>5, <2>0, <2>3 DEF NotePublish
  <2>4. CASE Compare(c)
    BY <1>4, <1>5, <2>0, <2>4 DEF Compare
  <2>5. CASE HandBack(c)
    BY <1>4, <2>0, <2>5 DEF HandBack
  <2>6. CASE Resume(c)
    <3>1. PICK game \in todo[c] :
            \/ Broadcast(c, game.app, GenericCard(game)) /\ UNCHANGED cur
            \/ Proceed(c) /\ UNCHANGED out
      BY <2>6 DEF Resume
    <3>2. game.app \in Apps
      BY <1>t, <2>0 DEF Game
    <3> QED
      BY <1>3, <1>4, <2>0, <3>1, <3>2
  <2>7. CASE PublishFrame(c)
    <3>1. UNCHANGED cur /\ Broadcast(c, cur[c].pid, FrameCard(cur[c]))
      BY <2>7 DEF PublishFrame
    <3>2. /\ \A u \in Threads \ {c} : UNCHANGED <<pc[u], cur[u], out[u]>>
          /\ out'[c].socket = cur'[c].pid /\ out'[c].card = FrameCard(cur'[c])
      BY <1>t, <2>0, <3>1 DEF Broadcast, Goto
    <3> QED
      BY <1>1, <2>0, <3>2
  <2> QED
    BY <1>7, <2>1, <2>2, <2>3, <2>4, <2>5, <2>6, <2>7 DEF EventLoop
<1>8. CASE ProcessLoop
  <2>0. P \in Threads \ {R}
    BY ThreadNames
  <2>1. CASE NoteNone
    BY <1>5, <2>0, <2>1 DEF NoteNone, RecvScan
  <2>2. CASE TakeClears
    BY <1>4, <2>0, <2>2 DEF TakeClears
  <2>3. CASE BroadcastClear
    <3>1. PICK game \in todo[P] : Broadcast(P, game.app, None) /\ UNCHANGED cur
      BY <2>3 DEF BroadcastClear
    <3>2. game.app \in Apps
      BY <1>t, <2>0 DEF Game
    <3> QED
      BY <1>3, <2>0, <3>1, <3>2
  <2>4. CASE NoteGame
    <3>1. \A u \in Threads \ {P} : UNCHANGED cur[u]
      BY <2>0, <2>4 DEF NoteGame, TypeOK, ThreadsOK
    <3> QED
      BY <1>5, <2>0, <2>4, <3>1 DEF NoteGame, RecvScan
  <2>5. CASE CheckSuppressed
    <3>1. PICK label \in {"yield", "dedup"} : Goto(P, label)
      BY <2>5 DEF CheckSuppressed
    <3> QED
      BY <1>5, <2>0, <2>5, <3>1 DEF CheckSuppressed
  <2>6. CASE Yield
    <3>1. \/ Broadcast(P, cur[P].app, None) /\ UNCHANGED cur
          \/ Proceed(P) /\ UNCHANGED out
      BY <2>6 DEF Yield
    <3>2. cur[P].app \in Apps
      BY <2>6 DEF Yield, TypeOK, ThreadsOK, Game
    <3> QED
      BY <1>3, <1>4, <2>0, <3>1, <3>2
  <2>7. CASE Dedup
    BY <1>4, <1>5, <2>0, <2>7 DEF Dedup
  <2>8. CASE PublishGeneric
    <3>1. Broadcast(P, cur[P].app, GenericCard(cur[P])) /\ UNCHANGED cur
      BY <2>8 DEF PublishGeneric
    <3>2. cur[P].app \in Apps
      BY <2>8 DEF PublishGeneric, TypeOK, ThreadsOK, Game
    <3> QED
      BY <1>3, <2>0, <3>1, <3>2
  <2> QED
    BY <1>8, <2>1, <2>2, <2>3, <2>4, <2>5, <2>6, <2>7, <2>8 DEF ProcessLoop
<1>9. CASE RefreshThread
  <2>1. PICK label \in {"idle", "next"} : Goto(R, label)
    BY <1>9 DEF RefreshThread, CopyCache, SendCopy
  <2>2. UNCHANGED <<cur, out>>
    BY <1>9 DEF RefreshThread, CopyCache, SendCopy
  <2> QED
    BY <1>5, <2>1, <2>2, ThreadNames
<1>10. CASE Environment
  BY <1>2, <1>10, OutsideStep DEF local
<1>11. CASE UNCHANGED vars
  BY <1>2, <1>11 DEF vars, local
<1> QED
  BY <1>6, <1>7, <1>8, <1>9, <1>10, <1>11 DEF Next

\* No payload is in hand at first.
LEMMA InitPayloadsFit == Init => PayloadsFit
BY DEF Init, PayloadsFit

\* What a step of an event loop does to its own cards.
CardStep(c) ==
  \/ /\ pc[c] \in {"idle", "note", "handback"} /\ UNCHANGED <<cache, out, changed>>
     /\ pc[c] = "handback" /\ pc'[c] = "idle" => ~changed[c]
  \/ /\ pc[c] = "compare" /\ UNCHANGED <<cache, out>>
     /\ changed'[c] = (cache[cur[c].pid] # FrameCard(cur[c]))
     /\ pc'[c] = "idle" => ~changed'[c]
  \/ /\ pc[c] \in {"next", "send"} /\ UNCHANGED <<cache, changed>>
     /\ pc'[c] = "idle" => ~changed[c]
  \/ /\ pc[c] = "next" /\ UNCHANGED cache
     /\ pc'[c] = "cache" /\ out'[c].socket = cur[c].pid
  \/ /\ pc[c] = "cache" /\ cache' = [cache EXCEPT ![out[c].socket] = out[c].card]
     /\ UNCHANGED changed /\ (pc'[c] = "idle" => ~changed[c])

\* What a step of an event loop does to guard and cache.
LEMMA LoopCards ==
  ASSUME TypeOK, Cardinality(Sockets) <= MAX_CACHED_ACTIVITIES,
         NEW c \in Channels, EventLoop(c) \/ Broadcasting(c)
  PROVE  /\ CardStep(c)
         /\ \A d \in Channels \ {c} : UNCHANGED <<changed[d], out[d]>>
<1>0. c \in Threads /\ c # R /\ \A d \in Channels : d \in Threads
  BY ThreadNames
<1>t. /\ out \in [Threads -> Payload \cup {None}] /\ changed \in [Channels -> BOOLEAN]
      /\ pc \in [Threads -> LoopLabels \cup ProcessLabels]
  BY DEF TypeOK, ThreadsOK
<1>p. ASSUME Proceed(c), pc'[c] = "idle" PROVE ~changed'[c]
  <2>1. CASE UNCHANGED cur /\ Goto(c, "next")
    BY <1>0, <1>t, <1>p, <2>1 DEF Goto
  <2> QED
    BY <1>p, <2>1 DEF Proceed
<1>1. CASE DropDuplicate(c) \/ Accept(c)
  BY <1>1 DEF DropDuplicate, Accept, Recv, CardStep
<1>2. CASE NotePublish(c)
  BY <1>2 DEF NotePublish, CardStep
<1>3. CASE Compare(c)
  <2>1. pc[c] = "compare" /\ UNCHANGED <<cache, out>>
    BY <1>3 DEF Compare, tables
  <2>2. changed' = [changed EXCEPT ![c] = cache[cur[c].pid] # FrameCard(cur[c])]
    BY <1>3 DEF Compare
  <2>3. pc'[c] = "idle" => ~changed'[c]
    <3>1. CASE Goto(c, "handback")
      BY <1>0, <1>t, <3>1 DEF Goto
    <3> QED
      BY <1>3, <1>p, <3>1 DEF Compare
  <2>4. changed'[c] = (cache[cur[c].pid] # FrameCard(cur[c]))
        /\ \A d \in Channels \ {c} : changed'[d] = changed[d]
    BY <1>t, <2>2
  <2> QED
    BY <2>1, <2>3, <2>4 DEF CardStep
<1>4. CASE HandBack(c)
  BY <1>4, <1>p DEF HandBack, CardStep
<1>5. CASE Resume(c)
  <2>1. pc[c] = "next" /\ UNCHANGED <<cache, changed>>
    BY <1>5 DEF Resume
  <2>2. PICK game \in todo[c] :
            \/ Broadcast(c, game.app, GenericCard(game))
            \/ Proceed(c) /\ UNCHANGED out
    BY <1>5 DEF Resume
  <2>3. CASE Broadcast(c, game.app, GenericCard(game))
    <3>1. pc'[c] = "cache" /\ \A d \in Channels \ {c} : out'[d] = out[d]
      BY <1>0, <1>t, <2>3 DEF Broadcast, Goto
    <3> QED
      BY <2>1, <3>1 DEF CardStep
  <2>4. CASE Proceed(c) /\ UNCHANGED out
    BY <1>p, <2>1, <2>4 DEF CardStep
  <2> QED
    BY <2>2, <2>3, <2>4
<1>6. CASE PublishFrame(c)
  <2>1. pc[c] = "next" /\ UNCHANGED cache /\ changed' = [changed EXCEPT ![c] = FALSE]
        /\ Broadcast(c, cur[c].pid, FrameCard(cur[c]))
    BY <1>6 DEF PublishFrame, tables
  <2>2. pc'[c] = "cache" /\ out'[c].socket = cur[c].pid
        /\ \A d \in Channels \ {c} : out'[d] = out[d]
    BY <1>0, <1>t, <2>1 DEF Broadcast, Goto
  <2>3. \A d \in Channels \ {c} : changed'[d] = changed[d]
    BY <1>t, <2>1
  <2> QED
    BY <2>1, <2>2, <2>3 DEF CardStep
<1>7. CASE UpdateCache(c)
  <2>1. pc[c] = "cache" /\ UNCHANGED changed
        /\ cache' = [cache EXCEPT ![out[c].socket] = out[c].card]
    BY <1>7, NothingEvicted DEF UpdateCache
  <2>2. \/ Goto(c, "send") /\ UNCHANGED out
        \/ Proceed(c) /\ out' = [out EXCEPT ![c] = None]
    BY <1>7 DEF UpdateCache
  <2>3. CASE Goto(c, "send") /\ UNCHANGED out
    BY <1>0, <1>t, <2>1, <2>3 DEF Goto, CardStep
  <2>4. CASE Proceed(c) /\ out' = [out EXCEPT ![c] = None]
    BY <1>0, <1>t, <1>p, <2>1, <2>4 DEF CardStep
  <2> QED
    BY <2>2, <2>3, <2>4
<1>8. CASE SendToAll(c)
  <2>1. pc[c] = "send" /\ UNCHANGED <<cache, changed>> /\ Proceed(c) /\ out' = [out EXCEPT ![c] = None]
    BY <1>8 DEF SendToAll, tables
  <2> QED
    BY <1>0, <1>t, <1>p, <2>1 DEF CardStep
<1> QED
  BY <1>1, <1>2, <1>3, <1>4, <1>5, <1>6, <1>7, <1>8 DEF EventLoop, Broadcasting

\* The other threads leave the sockets of the pids alone.
LEMMA OtherCards ==
  ASSUME TypeOK, PayloadsFit, Cardinality(Sockets) <= MAX_CACHED_ACTIVITIES,
         ProcessLoop \/ Broadcasting(P) \/ RefreshThread \/ UNCHANGED vars
  PROVE  /\ \A p \in Pids : cache'[p] = cache[p]
         /\ UNCHANGED changed
         /\ \A c \in Channels : out'[c] = out[c]
<1>0. P \in Threads /\ P \notin Channels /\ \A c \in Channels : c \in Threads
  BY ThreadNames
<1>t. /\ out \in [Threads -> Payload \cup {None}]
      /\ cache \in [Sockets -> Card \cup {None}]
  BY DEF TypeOK, ThreadsOK, TablesOK
<1>1. UNCHANGED changed
  BY DEF ProcessLoop, NoteNone, RecvScan, TakeClears, BroadcastClear, NoteGame,
     CheckSuppressed, Yield, Dedup, PublishGeneric, Broadcasting, UpdateCache, SendToAll,
     RefreshThread, CopyCache, SendCopy, vars, local
<1>2. \A c \in Channels : out'[c] = out[c]
  <2>1. UNCHANGED out \/ \E x : out' = [out EXCEPT ![P] = x]
    BY DEF ProcessLoop, NoteNone, RecvScan, TakeClears, BroadcastClear, NoteGame,
     CheckSuppressed, Yield, Dedup, PublishGeneric, Broadcasting, UpdateCache, SendToAll,
     RefreshThread, CopyCache, SendCopy, vars, local, Broadcast
  <2> QED
    BY <1>0, <1>t, <2>1
<1>3. CASE UpdateCache(P)
  <2>1. cache' = [cache EXCEPT ![out[P].socket] = out[P].card] /\ pc[P] = "cache"
    BY <1>3, NothingEvicted DEF UpdateCache
  <2>2. out[P].socket \in Apps
    BY <1>0, <2>1 DEF PayloadsFit
  <2>3. \A p \in Pids : cache'[p] = cache[p]
    BY <1>t, <2>1, <2>2 DEF Sockets
  <2> QED
    BY <1>1, <1>2, <2>3
<1>4. UpdateCache(P) \/ UNCHANGED cache
  BY DEF ProcessLoop, NoteNone, RecvScan, TakeClears, BroadcastClear, NoteGame,
     CheckSuppressed, Yield, Dedup, PublishGeneric, Broadcasting, SendToAll,
     RefreshThread, CopyCache, SendCopy, vars, tables
<1> QED
  BY <1>1, <1>2, <1>3, <1>4

-----------------------------------------------------------------------------
(* The replay cache has what each companion asked for last.                  *)

\* Companions that are plain send frames for their one application only.
LEMMA PlainFrames ==
  ASSUME Plain, NEW f \in Frame, Routed(ChannelOf[f.pid], f)
  PROVE  f.app \in Apps /\ AppsOf[f.pid] = {f.app}
<1>1. f.pid \in Companions
  BY FrameParts
<1>2. f.pid \notin Abrupt
  BY <1>1 DEF Plain
<1>3. PICK a \in Apps : AppsOf[f.pid] = {a}
  BY <1>1 DEF Plain
<1> QED
  BY <1>2, <1>3 DEF Routed

\* Whatever a companion asks for, it asks for its own application.
LEMMA NextWants ==
  ASSUME TypeOK, [Next]_vars, NEW p \in Companions, NEW b \in Apps \ AppsOf[p],
         wants[p][b] = None
  PROVE  wants'[p][b] = None
<1>1. ASSUME NEW q \in Companions, NEW f \in Frame, Sent(q, f) PROVE wants'[p][b] = None
  <2>1. f.app = None => f.body = None
    BY FrameParts
  <2> QED
    BY <1>1, <2>1 DEF Sent
<1>2. CASE Environment
  BY <1>1, <1>2, OutsideStep
<1>3. ASSUME NEW c \in Channels, EventLoop(c) \/ Broadcasting(c) PROVE wants'[p][b] = None
  BY <1>3, LoopStep
<1>4. CASE ProcessLoop \/ Broadcasting(P) \/ RefreshThread \/ UNCHANGED vars
  BY <1>4, OtherStep
<1> QED
  BY <1>2, <1>3, <1>4 DEF Next

\* The flood guard remembers the last body taken, the wish is the last one sent.
LEMMA NextLastWord ==
  ASSUME TypeOK, FramesRouted, Plain, [Next]_vars,
         NEW p \in Companions, NEW a \in Apps, AppsOf[p] = {a}, LastWord(p, a)
  PROVE  LastWord(p, a)'
<1> DEFINE d == ChannelOf[p]
<1>d. d \in Channels
  OBVIOUS
<1>t. queue[d] \in Seq(Frame) /\ recent \in [Apps \X Pids -> Bodies \cup {None}] /\ p \in Pids
  BY <1>d DEF TypeOK, OutsideOK, TablesOK, Pids
<1>r. \A i \in DOMAIN queue[d] : Routed(d, queue[d][i])
  BY <1>d DEF FramesRouted
<1>v. /\ \A i \in DOMAIN queue[d] :
           queue[d][i].pid = p /\ (\A j \in DOMAIN queue[d] : j > i => queue[d][j].pid # p)
             => queue[d][i].body = wants[p][a]
      /\ (\A i \in DOMAIN queue[d] : queue[d][i].pid # p) => recent[<<a, p>>] = wants[p][a]
  BY DEF LastWord
<1> DEFINE Last == /\ \A i \in DOMAIN queue'[d] :
                        queue'[d][i].pid = p /\ (\A j \in DOMAIN queue'[d] : j > i => queue'[d][j].pid # p)
                          => queue'[d][i].body = wants'[p][a]
                   /\ (\A i \in DOMAIN queue'[d] : queue'[d][i].pid # p)
                        => recent'[<<a, p>>] = wants'[p][a]
<1> SUFFICES Last
  BY DEF LastWord
<1>1. ASSUME queue'[d] = queue[d], wants'[p] = wants[p], recent'[<<a, p>>] = recent[<<a, p>>]
      PROVE  Last
  BY <1>1, <1>v
<1>2. ASSUME NEW q \in Companions, NEW f \in Frame, Sent(q, f), UNCHANGED recent
      PROVE  Last
  <2>1. CASE ChannelOf[q] # d
    <3>1. queue'[d] = queue[d] /\ wants'[p] = wants[p]
      BY <1>2, <1>d, <2>1 DEF Sent
    <3> QED
      BY <1>1, <1>2, <3>1
  <2>2. CASE ChannelOf[q] = d
    <3>1. queue'[d] = Append(queue[d], f) /\ f.pid = q
      BY <1>2, <2>2 DEF Sent
    <3> DEFINE n == Len(queue[d]) + 1
    <3>2. /\ DOMAIN queue'[d] = DOMAIN queue[d] \cup {n} /\ n \notin DOMAIN queue[d]
          /\ \A i \in DOMAIN queue[d] : i \in Nat /\ i < n /\ queue'[d][i] = queue[d][i]
          /\ queue'[d][n] = f /\ n \in Nat
      BY <1>t, <3>1, Appended
    <3> HIDE DEF n, d
    <3>3. CASE q # p
      <4>1. wants'[p] = wants[p]
        BY <1>2, <3>3 DEF Sent
      <4> QED
        BY <1>2, <1>v, <3>1, <3>2, <3>3, <4>1
    <3>4. CASE q = p
      <4>1. f.app \in {a, None} /\ wants'[p][a] = f.body
        <5>1. f.app \in AppsOf[p]
          BY <1>2, <3>4 DEF Sent, Plain
        <5> QED
          BY <1>2, <3>4, <5>1 DEF Sent
      <4>2. ASSUME NEW i \in DOMAIN queue[d] PROVE \E j \in DOMAIN queue'[d] : j > i /\ queue'[d][j].pid = p
        BY <3>1, <3>2, <3>4
      <4>3. \A i \in DOMAIN queue'[d] :
              queue'[d][i].pid = p /\ (\A j \in DOMAIN queue'[d] : j > i => queue'[d][j].pid # p)
                => i = n
        BY <3>2, <4>2
      <4>4. queue'[d][n].pid = p /\ n \in DOMAIN queue'[d]
        BY <3>1, <3>2, <3>4
      <4> QED
        BY <3>2, <4>1, <4>3, <4>4
    <3> QED
      BY <3>3, <3>4
  <2> QED
    BY <2>1, <2>2
<1>3. ASSUME NEW c \in Channels, EventLoop(c) \/ Broadcasting(c)
      PROVE  Last
  <2>1. wants' = wants /\ (Dropped(c) \/ Accepted(c) \/ GoesOn(c))
    BY <1>3, LoopStep
  <2>2. CASE GoesOn(c)
    BY <1>1, <2>1, <2>2 DEF GoesOn
  <2> DEFINE f == Head(queue[c])
  <2>3. ASSUME Taken(c)
        PROVE  f \in Frame /\ Routed(c, f) /\ ChannelOf[f.pid] = c /\ f.app \in Apps
               /\ AppsOf[f.pid] = {f.app} /\ f.pid \in Pids
    <3>1. queue[c] \in Seq(Frame) /\ queue[c] # <<>>
      BY <2>3 DEF Taken, TypeOK, OutsideOK
    <3>2. f \in Frame /\ f = queue[c][1] /\ 1 \in DOMAIN queue[c]
      BY <3>1, Tailed
    <3>3. Routed(c, f)
      BY <3>2 DEF FramesRouted
    <3>4. ChannelOf[f.pid] = c
      BY <3>3 DEF Routed
    <3> HIDE DEF f
    <3> QED
      BY <3>2, <3>3, <3>4, PlainFrames, FrameParts
  <2>4. ASSUME Taken(c) PROVE recent[<<f.app, f.pid>>] = f.body /\ f.pid = p => recent[<<a, p>>] = f.body
    BY <2>3, <2>4
  <2>5. CASE c # d
    <3>1. queue'[d] = queue[d]
      BY <1>d, <2>1, <2>5 DEF Dropped, Accepted, GoesOn, Taken
    <3>2. recent'[<<a, p>>] = recent[<<a, p>>]
      <4>1. CASE Accepted(c)
        <5>1. recent' = [recent EXCEPT ![<<f.app, f.pid>>] = f.body] /\ f.pid # p
          BY <2>3, <2>5, <4>1 DEF Accepted, Remembered
        <5> HIDE DEF f
        <5> QED
          BY <1>t, <5>1
      <4> QED
        BY <2>1, <4>1 DEF Dropped, GoesOn
    <3> QED
      BY <1>1, <2>1, <3>1, <3>2
  <2>6. CASE c = d /\ Taken(d)
    <3>1. /\ f = queue[d][1] /\ 1 \in DOMAIN queue[d]
          /\ \A i \in DOMAIN queue'[d] : i \in Nat /\ i >= 1 /\ i + 1 \in DOMAIN queue[d]
                                                /\ queue'[d][i] = queue[d][i + 1]
          /\ \A i \in DOMAIN queue[d] : i \in Nat
                /\ (i = 1 \/ (i > 1 /\ i - 1 \in DOMAIN queue'[d] /\ queue'[d][i - 1] = queue[d][i]))
      BY <1>t, <2>6, Tailed DEF Taken
    <3>2. recent'[<<a, p>>] = IF f.pid = p THEN f.body ELSE recent[<<a, p>>]
      <4>1. CASE Accepted(c)
        <5>1. recent' = [recent EXCEPT ![<<f.app, f.pid>>] = f.body] /\ (f.pid = p => f.app = a)
              /\ f.app \in Apps /\ f.pid \in Pids
          BY <2>3, <2>6, <4>1 DEF Accepted, Remembered
        <5> HIDE DEF f
        <5> QED
          BY <1>t, <5>1
      <4>2. CASE Dropped(c)
        BY <2>4, <2>6, <4>2 DEF Dropped
      <4>3. ~GoesOn(c)
        BY <2>6 DEF GoesOn, Taken
      <4> QED
        BY <2>1, <4>1, <4>2, <4>3
    <3> HIDE DEF f, d
    <3>3. ASSUME NEW i \in DOMAIN queue'[d], queue'[d][i].pid = p,
                 \A j \in DOMAIN queue'[d] : j > i => queue'[d][j].pid # p
          PROVE  queue'[d][i].body = wants'[p][a]
      <4>1. i \in Nat /\ i >= 1 /\ i + 1 \in DOMAIN queue[d] /\ queue'[d][i] = queue[d][i + 1]
        BY <3>1, <3>3
      <4>2. ASSUME NEW j \in DOMAIN queue[d], j > i + 1 PROVE queue[d][j].pid # p
        <5>1. j \in Nat /\ j # 1
          BY <3>1, <4>1, <4>2
        <5>2. j - 1 \in DOMAIN queue'[d] /\ queue'[d][j - 1] = queue[d][j] /\ j - 1 > i
          BY <3>1, <4>1, <4>2, <5>1
        <5> QED
          BY <3>3, <5>2
      <4> QED
        BY <1>v, <2>1, <3>3, <4>1, <4>2
    <3>4. ASSUME \A i \in DOMAIN queue'[d] : queue'[d][i].pid # p
          PROVE  recent'[<<a, p>>] = wants'[p][a]
      <4>1. ASSUME NEW i \in DOMAIN queue[d], i # 1 PROVE queue[d][i].pid # p
        BY <3>1, <3>4, <4>1
      <4>2. \A j \in DOMAIN queue[d] : j > 1 => queue[d][j].pid # p
        BY <3>1, <4>1
      <4>3. CASE f.pid = p
        BY <1>v, <2>1, <3>1, <3>2, <4>2, <4>3
      <4>4. CASE f.pid # p
        BY <1>v, <2>1, <3>1, <3>2, <4>1, <4>4
      <4> QED
        BY <4>3, <4>4
    <3> QED
      BY <3>3, <3>4
  <2> QED
    BY <2>1, <2>2, <2>5, <2>6 DEF Dropped, Accepted
<1>4. CASE Environment
  BY <1>1, <1>2, <1>4, OutsideStep DEF tables
<1>5. CASE ProcessLoop \/ Broadcasting(P) \/ RefreshThread \/ UNCHANGED vars
  BY <1>1, <1>5, <1>d, OtherStep
<1> QED
  BY <1>3, <1>4, <1>5 DEF Next

\* The cache follows the flood guard.
LEMMA NextCached ==
  ASSUME TypeOK, FramesRouted, PayloadsFit, Plain, Cardinality(Sockets) <= MAX_CACHED_ACTIVITIES,
         [Next]_vars, NEW p \in Companions, NEW a \in Apps, AppsOf[p] = {a}, CachedOrComing(p, a)
  PROVE  CachedOrComing(p, a)'
<1> DEFINE d == ChannelOf[p]
           mine == pc[d] # "idle" /\ cur[d].pid = p
           body == recent[<<a, p>>]
<1>d. d \in Channels /\ d \in Threads
  BY ThreadNames
<1>t. /\ recent \in [Apps \X Pids -> Bodies \cup {None}] /\ p \in Pids /\ p \notin Apps
      /\ cache \in [Sockets -> Card \cup {None}] /\ p \in Sockets
  BY DEF TypeOK, TablesOK, Pids, Sockets
<1>v. /\ mine => cur[d].body = body
      /\ \/ cache[p] = CardOf(p, a, body)
         \/ mine /\ pc[d] \in {"note", "compare"}
         \/ mine /\ changed[d]
         \/ pc[d] = "cache" /\ out[d].socket = p
  BY DEF CachedOrComing
<1> DEFINE minex == pc'[d] # "idle" /\ cur'[d].pid = p
           bodyx == recent'[<<a, p>>]
           Comes == /\ minex => cur'[d].body = bodyx
                    /\ \/ cache'[p] = CardOf(p, a, bodyx)
                       \/ minex /\ pc'[d] \in {"note", "compare"}
                       \/ minex /\ changed'[d]
                       \/ pc'[d] = "cache" /\ out'[d].socket = p
<1> SUFFICES Comes
  BY DEF CachedOrComing, CardOf
<1>1. ASSUME pc'[d] = pc[d], cur'[d] = cur[d], changed'[d] = changed[d], out'[d] = out[d],
             cache'[p] = cache[p], recent'[<<a, p>>] = recent[<<a, p>>]
      PROVE  Comes
  BY <1>1, <1>v
<1>2. ASSUME NEW c \in Channels, EventLoop(c) \/ Broadcasting(c)
      PROVE  Comes
  <2>1. /\ \A u \in Threads \ {c} : pc'[u] = pc[u] /\ cur'[u] = cur[u]
        /\ Dropped(c) \/ Accepted(c) \/ GoesOn(c)
    BY <1>2, LoopStep
  <2>2. /\ CardStep(c)
        /\ \A e \in Channels \ {c} : UNCHANGED <<changed[e], out[e]>>
    BY <1>2, LoopCards
  <2>c. c \in Threads
    BY ThreadNames
  <2> DEFINE f == Head(queue[c])
  <2>3. ASSUME Taken(c)
        PROVE  f \in Frame /\ ChannelOf[f.pid] = c /\ f.app \in Apps
               /\ AppsOf[f.pid] = {f.app} /\ f.pid \in Pids
    <3>1. queue[c] \in Seq(Frame) /\ queue[c] # <<>>
      BY <2>3 DEF Taken, TypeOK, OutsideOK
    <3>2. f \in Frame /\ f = queue[c][1] /\ 1 \in DOMAIN queue[c]
      BY <3>1, Tailed
    <3>3. Routed(c, f)
      BY <3>2 DEF FramesRouted
    <3>4. ChannelOf[f.pid] = c
      BY <3>3 DEF Routed
    <3> HIDE DEF f
    <3> QED
      BY <3>2, <3>3, <3>4, PlainFrames, FrameParts
  <2>4. recent'[<<a, p>>] = IF Accepted(c) /\ f.pid = p THEN f.body ELSE recent[<<a, p>>]
    <3>1. CASE Accepted(c)
      <4>1. recent' = [recent EXCEPT ![<<f.app, f.pid>>] = f.body] /\ (f.pid = p => f.app = a)
              /\ f.app \in Apps /\ f.pid \in Pids
        BY <2>3, <3>1 DEF Accepted, Remembered
      <4> HIDE DEF f
      <4> QED
        BY <1>t, <3>1, <4>1
    <3>2. CASE ~Accepted(c)
      BY <2>1, <3>2 DEF Dropped, GoesOn
    <3> QED
      BY <3>1, <3>2
  <2>5. CASE c # d
    <3>1. ~(Accepted(c) /\ f.pid = p)
      BY <2>3, <2>5 DEF Accepted
    <3>2. cache'[p] = cache[p]
      <4>1. CASE pc[c] = "cache" /\ cache' = [cache EXCEPT ![out[c].socket] = out[c].card]
        <5>1. out[c].socket \in Apps \/ out[c].socket = cur[c].pid
          BY <2>c, <4>1 DEF PayloadsFit
        <5>2. cur[c].pid # p
          BY <2>5, <4>1 DEF FramesRouted, Routed
        <5> QED
          BY <1>t, <4>1, <5>1, <5>2
      <4> QED
        BY <2>2, <4>1 DEF CardStep
    <3> QED
      BY <1>1, <1>d, <2>1, <2>2, <2>4, <2>5, <3>1, <3>2
  <2>6. CASE c = d /\ Dropped(d)
    <3>1. UNCHANGED <<pc, cur, cache, out, changed>> /\ ~Accepted(d)
      <4>1. Taken(d) /\ UNCHANGED <<pc, cur>> /\ pc[d] = "idle"
        BY <2>6 DEF Dropped, Taken
      <4>2. ~Accepted(d)
        BY <4>1 DEF Accepted
      <4> QED
        BY <4>1, <4>2 DEF Taken
    <3> QED
      BY <1>1, <2>4, <2>6, <3>1
  <2>7. CASE c = d /\ Accepted(d)
    <3>1. pc[d] = "idle" /\ UNCHANGED <<cache, out, changed>> /\ cur'[d] = f
          /\ pc'[d] \in {"note", "compare"} /\ cache[p] = CardOf(p, a, body)
      BY <1>v, <2>7 DEF Accepted, Taken
    <3> HIDE DEF f
    <3> QED
      BY <2>4, <2>7, <3>1
  <2>8. CASE c = d /\ GoesOn(d)
    <3>1. pc[d] # "idle" /\ cur[d] \in Frame /\ (pc'[d] # "idle" => cur'[d] = cur[d])
          /\ bodyx = body
      BY <2>8 DEF GoesOn
    <3>2. minex => mine /\ cur'[d].body = bodyx
      BY <1>v, <3>1
    <3>3. mine => FrameCard(cur[d]) = CardOf(p, a, body)
      <4>1. Routed(d, cur[d])
        BY <1>d, <3>1 DEF FramesRouted
      <4>2. mine => cur[d].app = a
        BY <3>1, <4>1, PlainFrames
      <4> QED
        BY <1>v, <4>2 DEF FrameCard, CardOf
    <3>4. mine /\ pc'[d] # "idle" => minex
      BY <3>1
    <3>5. CASE pc[d] = "note"
      <4>1. pc'[d] = "compare" /\ UNCHANGED cache
        BY <2>2, <2>8, <3>5 DEF GoesOn, CardStep
      <4> QED
        BY <1>v, <3>1, <3>2, <3>4, <3>5, <4>1
    <3>6. CASE pc[d] = "compare"
      <4>1. UNCHANGED <<cache, out>> /\ changed'[d] = (cache[cur[d].pid] # FrameCard(cur[d]))
            /\ (pc'[d] = "idle" => ~changed'[d])
        BY <2>2, <2>8, <3>6 DEF CardStep
      <4>2. CASE mine /\ ~changed'[d]
        BY <3>1, <3>2, <3>3, <4>1, <4>2
      <4>3. CASE mine /\ changed'[d]
        BY <3>2, <3>4, <4>1, <4>3
      <4>4. CASE ~mine
        BY <1>v, <3>1, <3>2, <3>6, <4>1, <4>4
      <4> QED
        BY <4>2, <4>3, <4>4
    <3>7. CASE pc[d] = "handback"
      <4>1. UNCHANGED <<cache, changed>> /\ (pc'[d] = "idle" => ~changed[d])
        BY <2>2, <2>8, <3>7 DEF CardStep
      <4> QED
        BY <1>v, <3>1, <3>2, <3>4, <3>7, <4>1
    <3>8. CASE pc[d] \in {"next", "send"}
      <4>1. \/ UNCHANGED <<cache, changed>> /\ (pc'[d] = "idle" => ~changed[d])
            \/ UNCHANGED cache /\ pc'[d] = "cache" /\ out'[d].socket = cur[d].pid
        BY <2>2, <2>8, <3>8 DEF CardStep
      <4>2. CASE UNCHANGED <<cache, changed>> /\ (pc'[d] = "idle" => ~changed[d])
        BY <1>v, <3>1, <3>2, <3>4, <3>8, <4>2
      <4>3. CASE UNCHANGED cache /\ pc'[d] = "cache" /\ out'[d].socket = cur[d].pid
        BY <1>v, <3>1, <3>2, <3>8, <4>3
      <4> QED
        BY <4>1, <4>2, <4>3
    <3>9. CASE pc[d] = "cache"
      <4>1. cache' = [cache EXCEPT ![out[d].socket] = out[d].card]
            /\ UNCHANGED changed /\ (pc'[d] = "idle" => ~changed[d])
        BY <2>2, <2>8, <3>9 DEF CardStep
      <4>2. CASE out[d].socket = p
        <5>1. out[d].socket = cur[d].pid /\ out[d].card = FrameCard(cur[d])
          BY <1>d, <1>t, <3>9, <4>2 DEF PayloadsFit
        <5>2. cache'[p] = CardOf(p, a, bodyx)
          BY <1>t, <3>1, <3>3, <3>9, <4>1, <4>2, <5>1
        <5> QED
          BY <3>2, <5>2
      <4>3. CASE out[d].socket # p
        <5>1. cache'[p] = cache[p]
          BY <1>t, <4>1, <4>3
        <5> QED
          BY <1>v, <3>1, <3>2, <3>4, <3>9, <4>1, <4>3, <5>1
      <4> QED
        BY <4>2, <4>3
    <3> QED
      BY <2>8, <3>5, <3>6, <3>7, <3>8, <3>9 DEF GoesOn
  <2> QED
    BY <2>1, <2>5, <2>6, <2>7, <2>8
<1>3. CASE Environment
  BY <1>1, <1>3, OutsideStep DEF tables, local
<1>4. CASE ProcessLoop \/ Broadcasting(P) \/ RefreshThread \/ UNCHANGED vars
  BY <1>1, <1>4, <1>d, <1>t, OtherStep, OtherCards
<1> QED
  BY <1>2, <1>3, <1>4 DEF Next

\* FrameInv holds at first.
LEMMA InitFrameInv == Init => FrameInv
<1> SUFFICES ASSUME Init PROVE FrameInv
  OBVIOUS
<1>1. FramesRouted /\ PayloadsFit
  BY InitRouted, InitPayloadsFit
<1>2. \A p \in Companions : \A b \in Apps \ AppsOf[p] : wants[p][b] = None
  BY DEF Init
<1>3. ASSUME NEW p \in Companions, NEW a \in Apps PROVE LastWord(p, a) /\ CachedOrComing(p, a)
  <2>1. /\ queue[ChannelOf[p]] = <<>> /\ recent[<<a, p>>] = None /\ wants[p][a] = None
        /\ pc[ChannelOf[p]] = "idle" /\ cache[p] = None
    BY ThreadNames DEF Init, Pids, Sockets
  <2> QED
    BY <2>1 DEF LastWord, CachedOrComing, CardOf
<1> QED
  BY <1>1, <1>2, <1>3 DEF FrameInv

\* The flood guard and the `changed` comparison skip only what would change
\* nothing: once the frames of a companion of one application are handled, the
\* replay cache holds what it asked for last, while the cache has room for every
\* socket and sockets are closed by a Close packet.
THEOREM LastCached ==
  ASSUME Plain, Cardinality(Sockets) <= MAX_CACHED_ACTIVITIES
  PROVE  Spec => []LastFrameCached
<1>1. TypeOK /\ FrameInv => LastFrameCached
  <2> SUFFICES ASSUME TypeOK, FrameInv, NEW p \in Companions, Settled(p)
               PROVE  cache[p] = IF \E a \in Apps : wants[p][a] # None
                                   THEN LET a == CHOOSE b \in Apps : wants[p][b] # None
                                        IN  [app |-> a, pid |-> p, body |-> wants[p][a]]
                                   ELSE None
    BY DEF LastFrameCached
  <2>1. PICK a \in Apps : AppsOf[p] = {a}
    BY DEF Plain
  <2>2. LastWord(p, a) /\ CachedOrComing(p, a) /\ PayloadsFit
        /\ \A b \in Apps \ {a} : wants[p][b] = None
    BY <2>1 DEF FrameInv
  <2>3. ChannelOf[p] \in Channels /\ ChannelOf[p] \in Threads
    BY ThreadNames
  <2>4. queue[ChannelOf[p]] \in Seq(Frame)
    BY <2>3 DEF TypeOK, OutsideOK
  <2>5. recent[<<a, p>>] = wants[p][a]
    BY <2>2, <2>4 DEF LastWord, Settled
  <2>6. ~(pc[ChannelOf[p]] = "cache" /\ out[ChannelOf[p]].socket = p)
    BY <2>2, <2>3 DEF PayloadsFit, Settled, Pids
  <2>7. cache[p] = CardOf(p, a, wants[p][a])
    BY <2>2, <2>5, <2>6 DEF CachedOrComing, Settled
  <2>8. CASE wants[p][a] # None
    <3>1. (CHOOSE b \in Apps : wants[p][b] # None) = a
      BY <2>2, <2>8
    <3> QED
      BY <2>7, <2>8, <3>1 DEF CardOf
  <2>9. CASE wants[p][a] = None
    BY <2>2, <2>7, <2>9 DEF CardOf
  <2> QED
    BY <2>8, <2>9
<1>2. Init => TypeOK /\ FrameInv
  BY InitType, InitFrameInv
<1>3. TypeOK /\ FrameInv /\ [Next]_vars => (TypeOK /\ FrameInv)'
  <2> SUFFICES ASSUME TypeOK, FrameInv, [Next]_vars PROVE (TypeOK /\ FrameInv)'
    OBVIOUS
  <2>1. TypeOK' /\ FramesRouted' /\ PayloadsFit'
    BY NextType, NextRouted, NextPayloadsFit DEF FrameInv
  <2>2. \A p \in Companions : \A b \in Apps \ AppsOf[p] : wants'[p][b] = None
    BY NextWants DEF FrameInv
  <2>3. ASSUME NEW p \in Companions, NEW a \in Apps, a \in AppsOf[p]
        PROVE  LastWord(p, a)' /\ CachedOrComing(p, a)'
    <3>1. AppsOf[p] = {a}
      BY <2>3 DEF Plain
    <3>2. LastWord(p, a) /\ CachedOrComing(p, a)
      BY <2>3 DEF FrameInv
    <3> QED
      BY <3>1, <3>2, NextLastWord, NextCached DEF FrameInv
  <2> QED
    BY <2>1, <2>2, <2>3 DEF FrameInv
<1> QED
  BY <1>1, <1>2, <1>3, PTL DEF Spec
=============================================================================

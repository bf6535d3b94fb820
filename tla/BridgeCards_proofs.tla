------------------------- MODULE BridgeCards_proofs -------------------------
(***************************************************************************)
(* Proof that the generic cards are right when no two frames or events for *)
(* one slot are under way: no ghost cards, no dark slots, and every client *)
(* shows what the replay cache holds.  Each step of a thread is first      *)
(* reduced to a move that says what it does to the cards; every part of    *)
(* CardsInv is then carried over the moves.                                *)
(***************************************************************************)
EXTENDS Bridge_proofs

USE ConstantsAssumption, NoCardAssumption

-----------------------------------------------------------------------------
(* What the steps of the threads do to the cards.                          *)

\* A step of one thread leaves the others where they are, with what they hold.
OnlyOf(t) ==
  \A u \in Threads \ {t} : /\ pc'[u] = pc[u] /\ cur'[u] = cur[u]
                           /\ todo'[u] = todo[u] /\ out'[u] = out[u]

\* Back to recv with nothing left, or on with what is left.
Onward(t) ==
  \/ pc'[t] = "idle" /\ todo'[t] = {} /\ cur'[t] = None
  \/ pc'[t] = "next" /\ cur'[t] = cur[t] /\ (t = P => todo'[t] # {})

\* The steps of an event loop between two receptions, with room in the tables.
NoteMove(c) ==
  /\ pc[c] = "note" /\ pc'[c] = "compare"
  /\ live_ipc' = [live_ipc EXCEPT ![cur[c].app] = cur[c].pid]
  /\ UNCHANGED <<cur, todo, out, last_process, cache, screen>>

CompareMove(c) ==
  /\ pc[c] = "compare"
  /\ (pc'[c] = "handback" /\ UNCHANGED cur) \/ Onward(c)
  /\ UNCHANGED <<todo, out, live_ipc, last_process, cache, screen>>

HandBackMove(c) ==
  /\ pc[c] = "handback" /\ Onward(c)
  /\ live_ipc' = [a \in Apps |-> IF a \in Released(cur[c]) THEN None ELSE live_ipc[a]]
  /\ todo'[c] = Resumable(Released(cur[c]))
  /\ UNCHANGED <<out, last_process, cache, screen>>

ResumeMove(c, game) ==
  /\ pc[c] = "next" /\ pc'[c] = "cache"
  /\ todo'[c] = todo[c] \ {game}
  /\ last_process' = [last_process EXCEPT ![game.app] = game.pid]
  /\ out'[c] = [socket |-> game.app, card |-> GenericCard(game)]
  /\ UNCHANGED <<cur, live_ipc, cache, screen>>

SkipMove(c, game) ==
  /\ pc[c] = "next" /\ Onward(c) /\ game.pid \notin Alive
  /\ todo'[c] = todo[c] \ {game}
  /\ UNCHANGED <<out, live_ipc, last_process, cache, screen>>

PublishMove(c) ==
  /\ pc[c] = "next" /\ pc'[c] = "cache" /\ todo[c] = {}
  /\ out'[c] = [socket |-> cur[c].pid, card |-> FrameCard(cur[c])]
  /\ UNCHANGED <<cur, todo, live_ipc, last_process, cache, screen>>

\* The two halves of broadcast_activity.
CacheMove(t) ==
  /\ pc[t] = "cache" /\ pc'[t] = "send"
  /\ cache' = [cache EXCEPT ![out[t].socket] = out[t].card]
  /\ UNCHANGED <<cur, todo, out, live_ipc, last_process, screen>>

SendMove(t) ==
  /\ pc[t] = "send" /\ Onward(t)
  /\ screen' = Shown(out[t])
  /\ UNCHANGED <<todo, live_ipc, last_process, cache>>

LoopMove(c) ==
  \/ NoteMove(c) \/ CompareMove(c) \/ HandBackMove(c) \/ PublishMove(c)
  \/ \E game \in todo[c] : ResumeMove(c, game) \/ SkipMove(c, game)
  \/ CacheMove(c) \/ SendMove(c)

\* The steps of the process loop.
NoneMove ==
  /\ pc[P] = "idle" /\ pc'[P] = "take"
  /\ scans # <<>> /\ Head(scans) = None /\ scans' = Tail(scans)
  /\ last_scans' = [a \in Apps |-> None]
  /\ UNCHANGED <<cur, todo, out, live_ipc, last_process, cache, screen>>

GameMove ==
  /\ pc[P] = "idle" /\ pc'[P] = "check"
  /\ scans # <<>> /\ Head(scans) \in Game /\ Head(scans) # None
  /\ cur'[P] = Head(scans) /\ scans' = Tail(scans)
  /\ last_scans' = [last_scans EXCEPT ![Head(scans).app] = Head(scans).pid]
  /\ UNCHANGED <<todo, out, live_ipc, last_process, cache, screen>>

TakeMove ==
  /\ pc[P] = "take" /\ Onward(P)
  /\ todo'[P] = {[app |-> a, pid |-> last_process[a]] : a \in Keys(last_process)}
  /\ last_process' = [a \in Apps |-> None]
  /\ UNCHANGED <<out, live_ipc, cache, screen>>

ClearMove(game) ==
  /\ pc[P] = "next" /\ pc'[P] = "cache"
  /\ todo'[P] = todo[P] \ {game}
  /\ out'[P] = [socket |-> game.app, card |-> None]
  /\ UNCHANGED <<cur, live_ipc, last_process, cache, screen>>

CheckMove ==
  /\ pc[P] = "check"
  /\ pc'[P] = IF live_ipc[cur[P].app] # None THEN "yield" ELSE "dedup"
  /\ UNCHANGED <<cur, todo, out, live_ipc, last_process, cache, screen>>

YieldMove ==
  /\ pc[P] = "yield"
  /\ last_process' = Without(last_process, cur[P].app)
  /\ IF last_process[cur[P].app] = None
       THEN Onward(P) /\ UNCHANGED out
       ELSE /\ pc'[P] = "cache" /\ UNCHANGED cur
            /\ out'[P] = [socket |-> cur[P].app, card |-> None]
  /\ UNCHANGED <<todo, live_ipc, cache, screen>>

DedupMove ==
  /\ pc[P] = "dedup"
  /\ IF last_process[cur[P].app] # None
       THEN Onward(P)
       ELSE pc'[P] = "track" /\ UNCHANGED cur
  /\ UNCHANGED <<todo, out, live_ipc, last_process, cache, screen>>

GenericMove ==
  /\ pc[P] = "track" /\ pc'[P] = "cache"
  /\ last_process' = [last_process EXCEPT ![cur[P].app] = cur[P].pid]
  /\ out'[P] = [socket |-> cur[P].app, card |-> GenericCard(cur[P])]
  /\ UNCHANGED <<cur, todo, live_ipc, cache, screen>>

ProcessMove ==
  \/ TakeMove \/ CheckMove \/ YieldMove \/ DedupMove \/ GenericMove
  \/ \E game \in todo[P] : ClearMove(game)
  \/ CacheMove(P) \/ SendMove(P)

\* The steps of the refresh thread.
CopyMove ==
  /\ pc[R] = "idle" /\ pc'[R] = "next" /\ InFlight = {}
  /\ Keys(cache) # {}
  /\ copies' = {[socket |-> s, card |-> cache[s]] : s \in Keys(cache)}
  /\ UNCHANGED <<scans, screen>>

CopySent(copy) ==
  /\ pc[R] = "next"
  /\ screen' = Shown(copy)
  /\ copies' = copies \ {copy}
  /\ pc'[R] = IF copies' = {} THEN "idle" ELSE "next"
  /\ UNCHANGED scans

\* Where a thread goes on to.
LEMMA ProceedsOnward ==
  ASSUME TypeOK, NEW t \in Threads, t # R, Proceed(t)
  PROVE  Onward(t) /\ \A u \in Threads \ {t} : pc'[u] = pc[u] /\ cur'[u] = cur[u]
<1>t. /\ pc \in [Threads -> LoopLabels \cup ProcessLabels]
      /\ cur \in [Threads -> Frame \cup Game \cup {None}]
  BY DEF TypeOK, ThreadsOK
<1>1. CASE todo'[t] = {} /\ (t \in Channels => ~changed'[t])
  BY <1>t, <1>1 DEF Proceed, Goto, Onward
<1>2. CASE ~(todo'[t] = {} /\ (t \in Channels => ~changed'[t]))
  BY <1>t, <1>2, ThreadNames DEF Proceed, Goto, Onward
<1> QED
  BY <1>1, <1>2

\* A table for every application, at a cap above their number, has room.
LEMMA RoomForAll ==
  ASSUME Isolated, NEW map \in [Apps -> Pids \cup {None}]
  PROVE  Size(map) < MAX_HANDOFF_ENTRIES
<1>1. Keys(map) \subseteq Apps
  BY DEF Keys
<1>2. Cardinality(Keys(map)) <= Cardinality(Apps)
  BY <1>1, FS_Subset
<1>3. Cardinality(Keys(map)) \in Nat /\ Cardinality(Apps) \in Nat
  BY <1>1, FS_Subset, FS_CardinalityType
<1> QED
  BY <1>2, <1>3 DEF Size, Isolated

\* bounded_insert with room only sets the entry.
LEMMA InsertsOne ==
  ASSUME Isolated, NEW map \in [Apps -> Pids \cup {None}], NEW a \in Apps, NEW p \in Pids,
         NEW result \in BoundedInserts(map, a, p, Alive, MAX_HANDOFF_ENTRIES)
  PROVE  result = [map EXCEPT ![a] = p]
BY RoomForAll, InsertWithRoom

\* What broadcasting leaves in a thread.
LEMMA BroadcastMove ==
  ASSUME TypeOK, NEW t \in Threads, NEW s, NEW card, Broadcast(t, s, card)
  PROVE  /\ pc'[t] = "cache" /\ out'[t] = [socket |-> s, card |-> card]
         /\ \A u \in Threads \ {t} : pc'[u] = pc[u] /\ out'[u] = out[u]
BY DEF Broadcast, Goto, TypeOK, ThreadsOK

\* A thread moves alone.
LEMMA GotoMove ==
  ASSUME TypeOK, NEW t \in Threads, NEW label, Goto(t, label)
  PROVE  pc'[t] = label /\ \A u \in Threads \ {t} : pc'[u] = pc[u]
BY DEF Goto, TypeOK, ThreadsOK

\* broadcast_activity either caches or sends, and stays with its thread.
LEMMA BroadcastingMoves ==
  ASSUME TypeOK, Isolated, NEW t \in Channels \cup {P}, Broadcasting(t)
  PROVE  /\ OnlyOf(t)
         /\ CacheMove(t) \/ SendMove(t)
         /\ UNCHANGED <<outside, last_scans, copies>>
<1>0. t \in Threads /\ t # R
  BY ThreadNames
<1>t. out \in [Threads -> Payload \cup {None}]
  BY DEF TypeOK, ThreadsOK
<1>1. CASE UpdateCache(t)
  <2>1. /\ pc[t] = "cache" /\ Goto(t, "send")
        /\ UNCHANGED <<outside, live_ipc, last_process, last_scans, screen, todo, copies, out, cur>>
    BY <1>1 DEF UpdateCache, Isolated
  <2>2. cache' = [cache EXCEPT ![out[t].socket] = out[t].card]
    BY <1>1, NothingEvicted DEF Isolated
  <2> QED
    BY <1>0, <2>1, <2>2, GotoMove DEF CacheMove, OnlyOf
<1>2. CASE SendToAll(t)
  <2>1. /\ pc[t] = "send" /\ Proceed(t) /\ screen' = Shown(out[t])
        /\ UNCHANGED <<outside, live_ipc, last_process, last_scans, cache, todo, copies>>
        /\ out' = [out EXCEPT ![t] = None]
    BY <1>2 DEF SendToAll, tables
  <2>2. \A u \in Threads \ {t} : out'[u] = out[u]
    BY <1>t, <2>1
  <2> QED
    BY <1>0, <2>1, <2>2, ProceedsOnward DEF SendMove, OnlyOf
<1> QED
  BY <1>1, <1>2 DEF Broadcasting

\* A step of an event loop drops a frame, accepts one, or makes one of the moves.
LEMMA LoopMoves ==
  ASSUME TypeOK, Isolated, NEW c \in Channels, EventLoop(c) \/ Broadcasting(c)
  PROVE  /\ OnlyOf(c)
         /\ UNCHANGED <<life, wants, scans, last_scans, copies>>
         /\ Dropped(c) \/ Accepted(c) \/ (LoopMove(c) /\ UNCHANGED queue)
<1>0. c \in Threads /\ c # R /\ c # P
  BY ThreadNames
<1>t. /\ todo \in [Threads -> SUBSET Game] /\ cur \in [Threads -> Frame \cup Game \cup {None}]
      /\ live_ipc \in [Apps -> Pids \cup {None}] /\ last_process \in [Apps -> Pids \cup {None}]
  BY DEF TypeOK, ThreadsOK, TablesOK
<1>s. \A u \in Threads \ {c} : pc'[u] = pc[u] /\ cur'[u] = cur[u]
  BY LoopStep
<1>1. CASE Broadcasting(c)
  BY <1>1, BroadcastingMoves DEF LoopMove, outside
<1>2. CASE DropDuplicate(c) \/ Accept(c)
  <2>1. pc[c] = "idle" /\ UNCHANGED <<life, wants, scans, last_scans, copies, todo, out>>
    BY <1>2 DEF DropDuplicate, Accept, Recv
  <2>2. ~GoesOn(c)
    BY <2>1 DEF GoesOn
  <2> QED
    BY <1>2, <1>s, <2>1, <2>2, LoopStep DEF OnlyOf, EventLoop
<1>3. CASE NotePublish(c)
  <2>1. /\ pc[c] = "note" /\ Goto(c, "compare")
        /\ live_ipc' \in BoundedInserts(live_ipc, cur[c].app, cur[c].pid, Alive, MAX_HANDOFF_ENTRIES)
        /\ UNCHANGED <<outside, last_process, last_scans, cache, screen, cur, todo, out, copies>>
    BY <1>3 DEF NotePublish
  <2>2. cur[c].app \in Apps /\ cur[c].pid \in Pids
    BY <2>1 DEF TypeOK, ThreadsOK, Frame, Pids
  <2>3. live_ipc' = [live_ipc EXCEPT ![cur[c].app] = cur[c].pid]
    BY <1>t, <2>1, <2>2, InsertsOne
  <2> QED
    BY <1>0, <1>s, <2>1, <2>3, GotoMove DEF OnlyOf, LoopMove, NoteMove, outside
<1>4. CASE Compare(c)
  <2>1. /\ pc[c] = "compare" /\ ((Goto(c, "handback") /\ UNCHANGED cur) \/ Proceed(c))
        /\ UNCHANGED <<outside, tables, screen, todo, out, copies>>
    BY <1>4 DEF Compare
  <2> QED
    BY <1>0, <1>s, <2>1, GotoMove, ProceedsOnward DEF OnlyOf, LoopMove, CompareMove, outside, tables
<1>5. CASE HandBack(c)
  <2>1. /\ pc[c] = "handback" /\ Proceed(c)
        /\ live_ipc' = [a \in Apps |-> IF a \in Released(cur[c]) THEN None ELSE live_ipc[a]]
        /\ todo' = [todo EXCEPT ![c] = Resumable(Released(cur[c]))]
        /\ UNCHANGED <<outside, last_process, last_scans, cache, screen, out, copies>>
    BY <1>5 DEF HandBack
  <2>2. todo'[c] = Resumable(Released(cur[c])) /\ \A u \in Threads \ {c} : todo'[u] = todo[u]
    BY <1>0, <1>t, <2>1
  <2> QED
    BY <1>0, <1>s, <2>1, <2>2, ProceedsOnward DEF OnlyOf, LoopMove, HandBackMove, outside
<1>6. CASE Resume(c)
  <2>1. pc[c] = "next"
        /\ UNCHANGED <<outside, live_ipc, last_scans, cache, screen, copies>>
    BY <1>6 DEF Resume
  <2>2. PICK game \in todo[c] :
          /\ todo' = [todo EXCEPT ![c] = @ \ {game}]
          /\ IF game.pid \in Alive
               THEN Track(game) /\ Broadcast(c, game.app, GenericCard(game)) /\ UNCHANGED cur
               ELSE Proceed(c) /\ UNCHANGED <<last_process, out>>
    BY <1>6 DEF Resume
  <2>3. todo'[c] = todo[c] \ {game} /\ \A u \in Threads \ {c} : todo'[u] = todo[u]
    BY <1>0, <1>t, <2>2
  <2>4. game \in Game /\ game.app \in Apps /\ game.pid \in Pids
    BY <1>0, <1>t DEF Game
  <2>5. CASE game.pid \in Alive
    <3>1. last_process' = [last_process EXCEPT ![game.app] = game.pid]
      <4>1. last_process' \in BoundedInserts(last_process, game.app, game.pid, Alive, MAX_HANDOFF_ENTRIES)
        BY <2>2, <2>5 DEF Track
      <4> QED
        BY <1>t, <2>4, <4>1, InsertsOne
    <3>2. ResumeMove(c, game) /\ OnlyOf(c)
      BY <1>0, <1>s, <2>1, <2>2, <2>3, <2>5, <3>1, BroadcastMove DEF ResumeMove, OnlyOf
    <3> QED
      BY <2>1, <3>2 DEF LoopMove, outside
  <2>6. CASE game.pid \notin Alive
    <3>1. SkipMove(c, game) /\ OnlyOf(c)
      BY <1>0, <1>s, <2>1, <2>2, <2>3, <2>6, ProceedsOnward DEF SkipMove, OnlyOf
    <3> QED
      BY <2>1, <3>1 DEF LoopMove, outside
  <2> QED
    BY <2>5, <2>6
<1>7. CASE PublishFrame(c)
  <2>1. /\ pc[c] = "next" /\ todo[c] = {}
        /\ Broadcast(c, cur[c].pid, FrameCard(cur[c]))
        /\ UNCHANGED <<outside, tables, screen, cur, todo, copies>>
    BY <1>7 DEF PublishFrame
  <2> QED
    BY <1>0, <1>s, <2>1, BroadcastMove DEF OnlyOf, LoopMove, PublishMove, outside, tables
<1> QED
  BY <1>1, <1>2, <1>3, <1>4, <1>5, <1>6, <1>7 DEF EventLoop

\* A step of process_loop receives an event or makes one of the moves.
LEMMA ProcessMoves ==
  ASSUME TypeOK, Isolated, ProcessLoop \/ Broadcasting(P)
  PROVE  /\ OnlyOf(P)
         /\ UNCHANGED <<life, wants, queue, copies>>
         /\ NoneMove \/ GameMove \/ (ProcessMove /\ UNCHANGED <<scans, last_scans>>)
<1>0. P \in Threads /\ P # R /\ P \notin Channels
  BY ThreadNames
<1>t. /\ todo \in [Threads -> SUBSET Game] /\ cur \in [Threads -> Frame \cup Game \cup {None}]
      /\ last_scans \in [Apps -> Pids \cup {None}] /\ last_process \in [Apps -> Pids \cup {None}]
      /\ scans \in Seq(Game \cup {None})
  BY DEF TypeOK, ThreadsOK, TablesOK, OutsideOK
<1>c. pc[P] \in {"check", "yield", "dedup", "track"} =>
        cur[P] \in Game /\ cur[P].app \in Apps /\ cur[P].pid \in Pids
  BY DEF TypeOK, ThreadsOK, Game
<1>1. CASE Broadcasting(P)
  BY <1>1, BroadcastingMoves DEF ProcessMove, outside
<1>2. CASE NoteNone
  <2>1. /\ pc[P] = "idle" /\ scans # <<>> /\ Head(scans) = None /\ scans' = Tail(scans)
        /\ Goto(P, "take") /\ last_scans' = [a \in Apps |-> None]
        /\ UNCHANGED <<life, wants, queue, live_ipc, last_process, cache, screen, cur, todo, out, copies>>
    BY <1>2 DEF NoteNone, RecvScan
  <2> QED
    BY <1>0, <2>1, GotoMove DEF OnlyOf, NoneMove
<1>3. CASE NoteGame
  <2>1. /\ pc[P] = "idle" /\ scans # <<>> /\ Head(scans) # None /\ scans' = Tail(scans)
        /\ Goto(P, "check") /\ cur' = [cur EXCEPT ![P] = Head(scans)]
        /\ last_scans' \in BoundedInserts(last_scans, Head(scans).app, Head(scans).pid, Alive, MAX_HANDOFF_ENTRIES)
        /\ UNCHANGED <<life, wants, queue, live_ipc, last_process, cache, screen, todo, out, copies>>
    BY <1>3 DEF NoteGame, RecvScan, Scanned
  <2>2. Head(scans) \in Game
    BY <1>t, <2>1
  <2>3. Head(scans).app \in Apps /\ Head(scans).pid \in Pids
    BY <2>2 DEF Game
  <2>4. last_scans' = [last_scans EXCEPT ![Head(scans).app] = Head(scans).pid]
    BY <1>t, <2>1, <2>3, InsertsOne
  <2>5. cur'[P] = Head(scans) /\ \A u \in Threads \ {P} : cur'[u] = cur[u]
    BY <1>0, <1>t, <2>1
  <2> QED
    BY <1>0, <2>1, <2>2, <2>4, <2>5, GotoMove DEF OnlyOf, GameMove
<1>4. CASE TakeClears
  <2>1. /\ pc[P] = "take" /\ Proceed(P)
        /\ todo' = [todo EXCEPT ![P] = {[app |-> a, pid |-> last_process[a]] : a \in Keys(last_process)}]
        /\ last_process' = [a \in Apps |-> None]
        /\ UNCHANGED <<outside, live_ipc, last_scans, cache, screen, out, copies>>
    BY <1>4 DEF TakeClears
  <2>2. todo'[P] = {[app |-> a, pid |-> last_process[a]] : a \in Keys(last_process)}
        /\ \A u \in Threads \ {P} : todo'[u] = todo[u]
    BY <1>0, <1>t, <2>1
  <2> QED
    BY <1>0, <2>1, <2>2, ProceedsOnward DEF OnlyOf, ProcessMove, TakeMove, outside
<1>5. CASE BroadcastClear
  <2>1. pc[P] = "next" /\ UNCHANGED <<outside, tables, screen, cur, copies>>
    BY <1>5 DEF BroadcastClear
  <2>2. PICK game \in todo[P] : todo' = [todo EXCEPT ![P] = @ \ {game}] /\ Broadcast(P, game.app, None)
    BY <1>5 DEF BroadcastClear
  <2>3. todo'[P] = todo[P] \ {game} /\ \A u \in Threads \ {P} : todo'[u] = todo[u]
    BY <1>0, <1>t, <2>2
  <2>4. ClearMove(game) /\ OnlyOf(P)
    BY <1>0, <2>1, <2>2, <2>3, BroadcastMove DEF OnlyOf, ClearMove, tables
  <2> QED
    BY <2>1, <2>4 DEF ProcessMove, outside, tables
<1>6. CASE CheckSuppressed
  <2>1. /\ pc[P] = "check" /\ Goto(P, IF live_ipc[cur[P].app] # None THEN "yield" ELSE "dedup")
        /\ UNCHANGED <<outside, tables, screen, cur, todo, out, copies>>
    BY <1>6 DEF CheckSuppressed
  <2> QED
    BY <1>0, <2>1, GotoMove DEF OnlyOf, ProcessMove, CheckMove, outside, tables
<1>7. CASE Yield
  <2>1. /\ pc[P] = "yield" /\ last_process' = Without(last_process, cur[P].app)
        /\ UNCHANGED <<outside, live_ipc, last_scans, cache, screen, todo, copies>>
        /\ IF last_process[cur[P].app] = None
             THEN Proceed(P) /\ UNCHANGED out
             ELSE Broadcast(P, cur[P].app, None) /\ UNCHANGED cur
    BY <1>7 DEF Yield
  <2>2. YieldMove /\ OnlyOf(P)
    BY <1>0, <2>1, ProceedsOnward, BroadcastMove DEF OnlyOf, YieldMove
  <2> QED
    BY <2>1, <2>2 DEF ProcessMove, outside
<1>8. CASE Dedup
  <2>1. /\ pc[P] = "dedup" /\ UNCHANGED <<outside, tables, screen, todo, out, copies>>
        /\ IF last_process[cur[P].app] # None THEN Proceed(P) ELSE Goto(P, "track") /\ UNCHANGED cur
    BY <1>8 DEF Dedup
  <2>2. DedupMove /\ OnlyOf(P)
    BY <1>0, <2>1, ProceedsOnward, GotoMove DEF OnlyOf, DedupMove, tables
  <2> QED
    BY <2>1, <2>2 DEF ProcessMove, outside, tables
<1>9. CASE PublishGeneric
  <2>1. /\ pc[P] = "track"
        /\ last_process' \in BoundedInserts(last_process, cur[P].app, cur[P].pid, Alive, MAX_HANDOFF_ENTRIES)
        /\ Broadcast(P, cur[P].app, GenericCard(cur[P]))
        /\ UNCHANGED <<outside, live_ipc, last_scans, cache, screen, cur, todo, copies>>
    BY <1>9 DEF PublishGeneric, Track
  <2>2. last_process' = [last_process EXCEPT ![cur[P].app] = cur[P].pid]
    BY <1>t, <1>c, <2>1, InsertsOne
  <2>3. GenericMove /\ OnlyOf(P)
    BY <1>0, <2>1, <2>2, BroadcastMove DEF OnlyOf, GenericMove
  <2> QED
    BY <2>1, <2>3 DEF ProcessMove, outside
<1> QED
  BY <1>1, <1>2, <1>3, <1>4, <1>5, <1>6, <1>7, <1>8, <1>9 DEF ProcessLoop

\* refresh_clients copies the cache or sends one copy.
LEMMA RefreshMoves ==
  ASSUME TypeOK, Isolated, RefreshThread
  PROVE  /\ OnlyOf(R)
         /\ UNCHANGED <<outside, tables, cur, todo, out>>
         /\ CopyMove \/ \E copy \in copies : CopySent(copy)
<1>0. R \in Threads
  BY ThreadNames
<1>1. CASE CopyCache
  <2>1. /\ InFlight = {} /\ pc[R] = "idle" /\ Keys(cache) # {} /\ Goto(R, "next")
        /\ copies' = {[socket |-> s, card |-> cache[s]] : s \in Keys(cache)}
        /\ UNCHANGED <<outside, tables, screen, cur, todo, out>>
    BY <1>1 DEF CopyCache, Isolated
  <2> QED
    BY <1>0, <2>1, GotoMove DEF OnlyOf, CopyMove, outside
<1>2. CASE SendCopy
  <2>1. /\ pc[R] = "next" /\ Goto(R, IF copies' = {} THEN "idle" ELSE "next")
        /\ UNCHANGED <<outside, tables, cur, todo, out>>
    BY <1>2 DEF SendCopy
  <2>2. PICK copy \in copies : screen' = Shown(copy) /\ copies' = copies \ {copy}
    BY <1>2 DEF SendCopy
  <2>3. CopySent(copy) /\ OnlyOf(R)
    BY <1>0, <2>1, <2>2, GotoMove DEF OnlyOf, CopySent, outside
  <2> QED
    BY <2>1, <2>3
<1> QED
  BY <1>1, <1>2 DEF RefreshThread

-----------------------------------------------------------------------------
(* What each thread has in hand, before and after a step.                  *)

\* What each thread has in hand, before and after a step.
LEMMA Hands ==
  /\ \A c \in Channels :
       InHand(c) = IF pc[c] = "idle" THEN {} ELSE FrameSlots(cur[c])
  /\ InHand(P) = IF pc[P] = "idle" THEN {} ELSE ScanSlots(cur[P])
  /\ InHand(R) = IF pc[R] = "idle" THEN {} ELSE Apps
<1>1. ASSUME NEW c \in Channels
      PROVE  InHand(c) = IF pc[c] = "idle" THEN {} ELSE FrameSlots(cur[c])
  <2>1. c # "process" /\ c # "refresh"
    BY DEF Channels
  <2> QED
    BY <2>1 DEF InHand
<1>2. "process" \notin Channels /\ "refresh" \notin Channels
  BY DEF Channels
<1>3. InHand(P) = IF pc[P] = "idle" THEN {} ELSE ScanSlots(cur[P])
  BY <1>2 DEF InHand, P
<1>4. InHand(R) = IF pc[R] = "idle" THEN {} ELSE Apps
  BY <1>2 DEF InHand, R
<1> QED
  BY <1>1, <1>3, <1>4

\* The same after a step.
LEMMA HandsAfter ==
  /\ \A c \in Channels :
       InHand(c)' = IF pc'[c] = "idle" THEN {} ELSE FrameSlots(cur'[c])
  /\ InHand(P)' = IF pc'[P] = "idle" THEN {} ELSE ScanSlots(cur'[P])
  /\ InHand(R)' = IF pc'[R] = "idle" THEN {} ELSE Apps
<1>1. ASSUME NEW c \in Channels
      PROVE  InHand(c)' = IF pc'[c] = "idle" THEN {} ELSE FrameSlots(cur'[c])
  <2>1. c # "process" /\ c # "refresh"
    BY DEF Channels
  <2> QED
    BY <2>1 DEF InHand, FrameSlots
<1>2. "process" \notin Channels /\ "refresh" \notin Channels
  BY DEF Channels
<1>3. InHand(P)' = IF pc'[P] = "idle" THEN {} ELSE ScanSlots(cur'[P])
  BY <1>2 DEF InHand, P, ScanSlots
<1>4. InHand(R)' = IF pc'[R] = "idle" THEN {} ELSE Apps
  BY <1>2 DEF InHand, R
<1> QED
  BY <1>1, <1>3, <1>4

\* Two event loops, the process loop and the refresh thread.
LEMMA ThreadKinds == \A t \in Threads : t \in Channels \/ t = P \/ t = R
BY DEF Threads, Channels, P, R

\* A step leaves what the other threads have in hand.
LEMMA OthersHands ==
  ASSUME NEW t \in Threads, OnlyOf(t), NEW u \in Threads \ {t}
  PROVE  InHand(u)' = InHand(u)
<1>0. pc'[u] = pc[u] /\ cur'[u] = cur[u]
  BY DEF OnlyOf
<1>1. CASE u \in Channels
  BY <1>0, <1>1, Hands, HandsAfter
<1>2. CASE u = P
  BY <1>0, <1>2, Hands, HandsAfter
<1>3. CASE u = R
  BY <1>0, <1>3, Hands, HandsAfter
<1> QED
  BY <1>1, <1>2, <1>3, ThreadKinds

\* A thread that keeps its frame or game has the same slots in hand.
LEMMA SameHand ==
  ASSUME NEW t \in Threads, pc[t] # "idle", pc'[t] # "idle", cur'[t] = cur[t]
  PROVE  InHand(t)' = InHand(t)
BY Hands, HandsAfter, ThreadKinds, ThreadNames

\* A thread back at recv has nothing in hand.
LEMMA IdleHand ==
  ASSUME NEW t \in Threads
  PROVE  /\ pc[t] = "idle" => InHand(t) = {}
         /\ pc'[t] = "idle" => InHand(t)' = {}
BY Hands, HandsAfter, ThreadKinds, ThreadNames

\* A thread that goes on has no slot in hand that it had not.
LEMMA OnwardHand ==
  ASSUME NEW t \in Threads, pc[t] # "idle", Onward(t)
  PROVE  InHand(t)' = InHand(t) \/ (InHand(t)' = {} /\ todo'[t] = {} /\ pc'[t] = "idle")
BY SameHand, IdleHand DEF Onward

\* No move of an event loop takes a slot in hand.
LEMMA LoopMoveHand ==
  ASSUME NEW c \in Channels, LoopMove(c)
  PROVE  InHand(c)' = InHand(c) \/ (InHand(c)' = {} /\ todo'[c] = {} /\ pc'[c] = "idle")
<1>0. c \in Threads
  BY ThreadNames
<1>1. pc[c] # "idle" /\ (Onward(c) \/ (pc'[c] # "idle" /\ cur'[c] = cur[c]))
  BY DEF LoopMove, NoteMove, CompareMove, HandBackMove, PublishMove, ResumeMove, SkipMove,
     CacheMove, SendMove
<1> QED
  BY <1>0, <1>1, SameHand, OnwardHand

\* No move of the process loop takes a slot in hand.
LEMMA ProcessMoveHand ==
  ASSUME ProcessMove
  PROVE  InHand(P)' = InHand(P) \/ (InHand(P)' = {} /\ todo'[P] = {} /\ pc'[P] = "idle")
<1>1. pc[P] # "idle" /\ (Onward(P) \/ (pc'[P] # "idle" /\ cur'[P] = cur[P]))
  BY DEF ProcessMove, TakeMove, CheckMove, YieldMove, DedupMove, GenericMove, ClearMove,
     CacheMove, SendMove
<1> QED
  BY <1>1, SameHand, OnwardHand, ThreadNames

\* What is in flight, item by item.
LEMMA Flying ==
  ASSUME TypeOK
  PROVE  /\ \A t \in Threads : InHand(t) \subseteq InFlight
         /\ \A c \in Channels : \A i \in DOMAIN queue[c] : FrameSlots(queue[c][i]) \subseteq InFlight
         /\ \A i \in DOMAIN scans : ScanSlots(scans[i]) \subseteq InFlight
<1>1. \A c \in Channels : queue[c] \in Seq(Frame) /\ DOMAIN queue[c] = 1 .. Len(queue[c])
  BY DEF TypeOK, OutsideOK
<1>2. DOMAIN scans = 1 .. Len(scans)
  BY DEF TypeOK, OutsideOK
<1>3. \A t \in Threads : InHand(t) \subseteq InFlight
  BY DEF InFlight
<1>4. \A c \in Channels : \A i \in DOMAIN queue[c] : FrameSlots(queue[c][i]) \subseteq InFlight
  BY <1>1 DEF InFlight
<1>5. \A i \in DOMAIN scans : ScanSlots(scans[i]) \subseteq InFlight
  BY <1>2 DEF InFlight
<1> QED
  BY <1>3, <1>4, <1>5

\* The parts of Exclusive after a step.
LEMMA ExclusiveAfter ==
  ASSUME \A t, u \in Threads : t # u => InHand(t)' \cap InHand(u)' = {},
         \A t \in Threads, c \in Channels : \A i \in DOMAIN queue'[c] :
           InHand(t)' \cap FrameSlots(queue'[c][i]) = {},
         \A t \in Threads : \A i \in DOMAIN scans' :
           InHand(t)' \cap ScanSlots(scans'[i]) = {},
         \A c, d \in Channels : \A i \in DOMAIN queue'[c] : \A j \in DOMAIN queue'[d] :
           c # d \/ i # j => FrameSlots(queue'[c][i]) \cap FrameSlots(queue'[d][j]) = {},
         \A i, j \in DOMAIN scans' :
           i # j => ScanSlots(scans'[i]) \cap ScanSlots(scans'[j]) = {},
         \A c \in Channels : \A i \in DOMAIN queue'[c] : \A j \in DOMAIN scans' :
           FrameSlots(queue'[c][i]) \cap ScanSlots(scans'[j]) = {}
  PROVE  Exclusive'
<1>1. HandsApart'
  BY DEF HandsApart
<1>2. HandsOffQueues'
  BY DEF HandsOffQueues
<1>3. HandsOffScans'
  BY DEF HandsOffScans
<1>4. FramesApart'
  BY DEF FramesApart
<1>5. ScansApart'
  BY DEF ScansApart
<1>6. FramesOffScans'
  BY DEF FramesOffScans
<1> QED
  BY <1>1, <1>2, <1>3, <1>4, <1>5, <1>6 DEF Exclusive

-----------------------------------------------------------------------------
(* Everything under way stays about slots of its own.                      *)

\* What a step leaves exclusive: nothing new is in hand,
LEMMA ShrinkExclusive ==
  ASSUME Exclusive, UNCHANGED <<queue, scans>>,
         \A t \in Threads : InHand(t)' \subseteq InHand(t)
  PROVE  Exclusive'
<1>0. HandsApart /\ HandsOffQueues /\ HandsOffScans /\ FramesApart /\ ScansApart /\ FramesOffScans
  BY DEF Exclusive
<1>1. \A t, u \in Threads : t # u => InHand(t)' \cap InHand(u)' = {}
  BY <1>0 DEF HandsApart
<1>2. \A t \in Threads, c \in Channels : \A i \in DOMAIN queue'[c] :
        InHand(t)' \cap FrameSlots(queue'[c][i]) = {}
  BY <1>0 DEF HandsOffQueues
<1>3. \A t \in Threads : \A i \in DOMAIN scans' : InHand(t)' \cap ScanSlots(scans'[i]) = {}
  BY <1>0 DEF HandsOffScans
<1>4. \A c, d \in Channels : \A i \in DOMAIN queue'[c] : \A j \in DOMAIN queue'[d] :
        c # d \/ i # j => FrameSlots(queue'[c][i]) \cap FrameSlots(queue'[d][j]) = {}
  BY <1>0 DEF FramesApart
<1>5. \A i, j \in DOMAIN scans' : i # j => ScanSlots(scans'[i]) \cap ScanSlots(scans'[j]) = {}
  BY <1>0 DEF ScansApart
<1>6. \A c \in Channels : \A i \in DOMAIN queue'[c] : \A j \in DOMAIN scans' :
        FrameSlots(queue'[c][i]) \cap ScanSlots(scans'[j]) = {}
  BY <1>0 DEF FramesOffScans
<1> QED
  BY <1>1, <1>2, <1>3, <1>4, <1>5, <1>6, ExclusiveAfter

\* the first frame of a queue goes to its event loop,
LEMMA TakeExclusive ==
  ASSUME TypeOK, Exclusive, UNCHANGED scans, NEW c \in Channels,
         queue[c] # <<>>, queue'[c] = Tail(queue[c]),
         \A d \in Channels \ {c} : queue'[d] = queue[d],
         InHand(c)' \subseteq FrameSlots(Head(queue[c])),
         \A u \in Threads \ {c} : InHand(u)' = InHand(u)
  PROVE  Exclusive'
<1>0. HandsApart /\ HandsOffQueues /\ HandsOffScans /\ FramesApart /\ ScansApart /\ FramesOffScans
  BY DEF Exclusive
<1>c. c \in Threads
  BY ThreadNames
<1>h. queue[c] \in Seq(Frame)
  BY DEF TypeOK, OutsideOK
<1>m. /\ Head(queue[c]) = queue[c][1] /\ 1 \in DOMAIN queue[c]
      /\ \A i \in DOMAIN queue'[c] : i \in Nat /\ i >= 1 /\ i + 1 \in DOMAIN queue[c]
                                      /\ queue'[c][i] = queue[c][i + 1]
  BY <1>h, Tailed
<1>n. ASSUME NEW d \in Channels, NEW i \in DOMAIN queue'[d]
      PROVE  \E k \in DOMAIN queue[d] :
               /\ queue'[d][i] = queue[d][k]
               /\ k = (IF d = c THEN i + 1 ELSE i)
               /\ d # c \/ k # 1
  <2>1. CASE d = c
    <3>1. i \in Nat /\ i >= 1 /\ i + 1 \in DOMAIN queue[c] /\ queue'[c][i] = queue[c][i + 1]
      BY <1>m, <1>n, <2>1
    <3>2. i + 1 # 1
      BY <3>1
    <3>3. i + 1 \in DOMAIN queue[d]
      BY <2>1, <3>1
    <3>4. queue'[d][i] = queue[d][i + 1]
      BY <2>1, <3>1
    <3> QED
      BY <2>1, <3>2, <3>3, <3>4
  <2>2. CASE d # c
    BY <1>n, <2>2
  <2> QED
    BY <2>1, <2>2
<1>1. \A t, u \in Threads : t # u => InHand(t)' \cap InHand(u)' = {}
  <2>1. \A u \in Threads : InHand(u) \cap FrameSlots(queue[c][1]) = {}
    BY <1>0, <1>m DEF HandsOffQueues
  <2> QED
    BY <1>0, <1>m, <2>1 DEF HandsApart
<1>2. ASSUME NEW t \in Threads, NEW d \in Channels, NEW i \in DOMAIN queue'[d]
      PROVE  InHand(t)' \cap FrameSlots(queue'[d][i]) = {}
  <2>1. PICK k \in DOMAIN queue[d] : queue'[d][i] = queue[d][k] /\ (d # c \/ k # 1)
    BY <1>2, <1>n
  <2>2. CASE t = c
    <3>1. FrameSlots(queue[c][1]) \cap FrameSlots(queue[d][k]) = {}
      BY <1>0, <1>m, <2>1 DEF FramesApart
    <3> QED
      BY <1>m, <2>1, <2>2, <3>1
  <2>3. CASE t # c
    BY <1>0, <2>1, <2>3 DEF HandsOffQueues
  <2> QED
    BY <2>2, <2>3
<1>3. ASSUME NEW t \in Threads, NEW i \in DOMAIN scans'
      PROVE  InHand(t)' \cap ScanSlots(scans'[i]) = {}
  <2>1. CASE t = c
    <3>1. FrameSlots(queue[c][1]) \cap ScanSlots(scans[i]) = {}
      BY <1>0, <1>3, <1>m DEF FramesOffScans
    <3> QED
      BY <1>m, <2>1, <3>1
  <2>2. CASE t # c
    BY <1>0, <1>3, <2>2 DEF HandsOffScans
  <2> QED
    BY <2>1, <2>2
<1>4. ASSUME NEW d \in Channels, NEW e \in Channels, NEW i \in DOMAIN queue'[d],
             NEW j \in DOMAIN queue'[e], d # e \/ i # j
      PROVE  FrameSlots(queue'[d][i]) \cap FrameSlots(queue'[e][j]) = {}
  <2>1. PICK k \in DOMAIN queue[d] :
          queue'[d][i] = queue[d][k] /\ k = (IF d = c THEN i + 1 ELSE i)
    BY <1>4, <1>n
  <2>2. PICK l \in DOMAIN queue[e] :
          queue'[e][j] = queue[e][l] /\ l = (IF e = c THEN j + 1 ELSE j)
    BY <1>4, <1>n
  <2>3. d # e \/ k # l
    <3>1. CASE d = e /\ d = c
      <4>1. i \in Nat /\ j \in Nat
        BY <1>m, <3>1
      <4> QED
        BY <1>4, <2>1, <2>2, <3>1, <4>1
    <3>2. CASE d = e /\ d # c
      BY <1>4, <2>1, <2>2, <3>2
    <3> QED
      BY <3>1, <3>2
  <2>4. FrameSlots(queue[d][k]) \cap FrameSlots(queue[e][l]) = {}
    BY <1>0, <2>3 DEF FramesApart
  <2> QED
    BY <2>1, <2>2, <2>4
<1>5. \A i, j \in DOMAIN scans' : i # j => ScanSlots(scans'[i]) \cap ScanSlots(scans'[j]) = {}
  BY <1>0 DEF ScansApart
<1>6. ASSUME NEW d \in Channels, NEW i \in DOMAIN queue'[d], NEW j \in DOMAIN scans'
      PROVE  FrameSlots(queue'[d][i]) \cap ScanSlots(scans'[j]) = {}
  <2>1. PICK k \in DOMAIN queue[d] : queue'[d][i] = queue[d][k]
    BY <1>6, <1>n
  <2> QED
    BY <1>0, <1>6, <2>1 DEF FramesOffScans
<1> QED
  BY <1>1, <1>2, <1>3, <1>4, <1>5, <1>6, ExclusiveAfter

\* the first event goes to the process loop,
LEMMA ScanExclusive ==
  ASSUME TypeOK, Exclusive, UNCHANGED queue,
         scans # <<>>, scans' = Tail(scans),
         InHand(P)' \subseteq ScanSlots(Head(scans)),
         \A u \in Threads \ {P} : InHand(u)' = InHand(u)
  PROVE  Exclusive'
<1>0. HandsApart /\ HandsOffQueues /\ HandsOffScans /\ FramesApart /\ ScansApart /\ FramesOffScans
  BY DEF Exclusive
<1>h. scans \in Seq(Game \cup {None})
  BY DEF TypeOK, OutsideOK
<1>m. /\ Head(scans) = scans[1] /\ 1 \in DOMAIN scans
      /\ \A i \in DOMAIN scans' : i \in Nat /\ i >= 1 /\ i + 1 \in DOMAIN scans
                                      /\ scans'[i] = scans[i + 1]
  BY <1>h, Tailed
<1>n. \A i \in DOMAIN scans' : i + 1 # 1 /\ \A j \in DOMAIN scans' : i # j => i + 1 # j + 1
  <2>1. \A i \in DOMAIN scans' : i \in Nat /\ i >= 1
    BY <1>m
  <2> QED
    BY <2>1
<1>1. \A t, u \in Threads : t # u => InHand(t)' \cap InHand(u)' = {}
  <2>1. \A u \in Threads : InHand(u) \cap ScanSlots(scans[1]) = {}
    BY <1>0, <1>m DEF HandsOffScans
  <2> QED
    BY <1>0, <1>m, <2>1 DEF HandsApart
<1>2. ASSUME NEW t \in Threads, NEW d \in Channels, NEW i \in DOMAIN queue'[d]
      PROVE  InHand(t)' \cap FrameSlots(queue'[d][i]) = {}
  <2>2. CASE t = P
    <3>1. FrameSlots(queue[d][i]) \cap ScanSlots(scans[1]) = {}
      BY <1>0, <1>2, <1>m DEF FramesOffScans
    <3> QED
      BY <1>m, <2>2, <3>1
  <2>3. CASE t # P
    BY <1>0, <1>2, <2>3 DEF HandsOffQueues
  <2> QED
    BY <2>2, <2>3
<1>3. ASSUME NEW t \in Threads, NEW i \in DOMAIN scans'
      PROVE  InHand(t)' \cap ScanSlots(scans'[i]) = {}
  <2>0. i + 1 \in DOMAIN scans /\ scans'[i] = scans[i + 1] /\ i + 1 # 1
    BY <1>3, <1>m, <1>n
  <2>1. CASE t = P
    <3>1. ScanSlots(scans[1]) \cap ScanSlots(scans[i + 1]) = {}
      BY <1>0, <1>m, <2>0 DEF ScansApart
    <3> QED
      BY <1>m, <2>0, <2>1, <3>1
  <2>2. CASE t # P
    BY <1>0, <2>0, <2>2 DEF HandsOffScans
  <2> QED
    BY <2>1, <2>2
<1>4. \A d, e \in Channels : \A i \in DOMAIN queue'[d] : \A j \in DOMAIN queue'[e] :
        d # e \/ i # j => FrameSlots(queue'[d][i]) \cap FrameSlots(queue'[e][j]) = {}
  BY <1>0 DEF FramesApart
<1>5. ASSUME NEW i \in DOMAIN scans', NEW j \in DOMAIN scans', i # j
      PROVE  ScanSlots(scans'[i]) \cap ScanSlots(scans'[j]) = {}
  <2>1. /\ i + 1 \in DOMAIN scans /\ scans'[i] = scans[i + 1]
        /\ j + 1 \in DOMAIN scans /\ scans'[j] = scans[j + 1] /\ i + 1 # j + 1
    BY <1>5, <1>m, <1>n
  <2> QED
    BY <1>0, <2>1 DEF ScansApart
<1>6. \A d \in Channels : \A i \in DOMAIN queue'[d] : \A j \in DOMAIN scans' :
        FrameSlots(queue'[d][i]) \cap ScanSlots(scans'[j]) = {}
  BY <1>0, <1>m DEF FramesOffScans
<1> QED
  BY <1>1, <1>2, <1>3, <1>4, <1>5, <1>6, ExclusiveAfter

\* a frame about slots where nothing is in flight is queued,
LEMMA EnqueueExclusive ==
  ASSUME TypeOK, Exclusive, UNCHANGED scans, NEW c \in Channels, NEW f \in Frame,
         FrameSlots(f) \cap InFlight = {},
         queue'[c] = Append(queue[c], f),
         \A d \in Channels \ {c} : queue'[d] = queue[d],
         \A u \in Threads : InHand(u)' = InHand(u)
  PROVE  Exclusive'
<1>0. HandsApart /\ HandsOffQueues /\ HandsOffScans /\ FramesApart /\ ScansApart /\ FramesOffScans
  BY DEF Exclusive
<1>h. queue[c] \in Seq(Frame)
  BY DEF TypeOK, OutsideOK
<1> DEFINE n == Len(queue[c]) + 1
<1>m. /\ DOMAIN queue'[c] = DOMAIN queue[c] \cup {n}
      /\ \A i \in DOMAIN queue[c] : queue'[c][i] = queue[c][i]
      /\ queue'[c][n] = f
  BY <1>h, Appended
<1> HIDE DEF n
<1>n. \A d \in Channels : \A i \in DOMAIN queue'[d] :
        \/ i \in DOMAIN queue[d] /\ queue'[d][i] = queue[d][i]
        \/ d = c /\ i = n /\ queue'[d][i] = f
  BY <1>m
<1>f. /\ \A t \in Threads : InHand(t) \cap FrameSlots(f) = {}
      /\ \A d \in Channels : \A i \in DOMAIN queue[d] : FrameSlots(queue[d][i]) \cap FrameSlots(f) = {}
      /\ \A i \in DOMAIN scans : ScanSlots(scans[i]) \cap FrameSlots(f) = {}
  BY Flying
<1>1. \A t, u \in Threads : t # u => InHand(t)' \cap InHand(u)' = {}
  BY <1>0 DEF HandsApart
<1>2. ASSUME NEW t \in Threads, NEW d \in Channels, NEW i \in DOMAIN queue'[d]
      PROVE  InHand(t)' \cap FrameSlots(queue'[d][i]) = {}
  BY <1>0, <1>2, <1>f, <1>n DEF HandsOffQueues
<1>3. \A t \in Threads : \A i \in DOMAIN scans' : InHand(t)' \cap ScanSlots(scans'[i]) = {}
  BY <1>0 DEF HandsOffScans
<1>4. ASSUME NEW d \in Channels, NEW e \in Channels, NEW i \in DOMAIN queue'[d],
             NEW j \in DOMAIN queue'[e], d # e \/ i # j
      PROVE  FrameSlots(queue'[d][i]) \cap FrameSlots(queue'[e][j]) = {}
  <2>1. CASE i \in DOMAIN queue[d] /\ queue'[d][i] = queue[d][i]
    <3>1. CASE j \in DOMAIN queue[e] /\ queue'[e][j] = queue[e][j]
      BY <1>0, <1>4, <2>1, <3>1 DEF FramesApart
    <3>2. CASE queue'[e][j] = f
      BY <1>f, <2>1, <3>2
    <3> QED
      BY <1>4, <1>n, <3>1, <3>2
  <2>2. CASE d = c /\ i = n /\ queue'[d][i] = f
    <3>1. CASE j \in DOMAIN queue[e] /\ queue'[e][j] = queue[e][j]
      BY <1>f, <2>2, <3>1
    <3>2. ~(e = c /\ j = n)
      BY <1>4, <2>2
    <3> QED
      BY <1>4, <1>n, <3>1, <3>2
  <2> QED
    BY <1>4, <1>n, <2>1, <2>2
<1>5. \A i, j \in DOMAIN scans' : i # j => ScanSlots(scans'[i]) \cap ScanSlots(scans'[j]) = {}
  BY <1>0 DEF ScansApart
<1>6. ASSUME NEW d \in Channels, NEW i \in DOMAIN queue'[d], NEW j \in DOMAIN scans'
      PROVE  FrameSlots(queue'[d][i]) \cap ScanSlots(scans'[j]) = {}
  BY <1>0, <1>6, <1>f, <1>n DEF FramesOffScans
<1> QED
  BY <1>1, <1>2, <1>3, <1>4, <1>5, <1>6, ExclusiveAfter

\* and so is an event.
LEMMA ReportExclusive ==
  ASSUME TypeOK, Exclusive, UNCHANGED queue, NEW e,
         ScanSlots(e) \cap InFlight = {}, scans' = Append(scans, e),
         \A u \in Threads : InHand(u)' = InHand(u)
  PROVE  Exclusive'
<1>0. HandsApart /\ HandsOffQueues /\ HandsOffScans /\ FramesApart /\ ScansApart /\ FramesOffScans
  BY DEF Exclusive
<1>h. scans \in Seq(Game \cup {None})
  BY DEF TypeOK, OutsideOK
<1> DEFINE n == Len(scans) + 1
<1>m. /\ DOMAIN scans' = DOMAIN scans \cup {n}
      /\ \A i \in DOMAIN scans : scans'[i] = scans[i]
      /\ scans'[n] = e
  BY <1>h, Appended
<1> HIDE DEF n
<1>f. /\ \A t \in Threads : InHand(t) \cap ScanSlots(e) = {}
      /\ \A d \in Channels : \A i \in DOMAIN queue[d] : FrameSlots(queue[d][i]) \cap ScanSlots(e) = {}
      /\ \A i \in DOMAIN scans : ScanSlots(scans[i]) \cap ScanSlots(e) = {}
  BY Flying
<1>1. \A t, u \in Threads : t # u => InHand(t)' \cap InHand(u)' = {}
  BY <1>0 DEF HandsApart
<1>2. \A t \in Threads, c \in Channels : \A i \in DOMAIN queue'[c] :
        InHand(t)' \cap FrameSlots(queue'[c][i]) = {}
  BY <1>0 DEF HandsOffQueues
<1>3. \A t \in Threads : \A i \in DOMAIN scans' : InHand(t)' \cap ScanSlots(scans'[i]) = {}
  BY <1>0, <1>f, <1>m DEF HandsOffScans
<1>4. \A c, d \in Channels : \A i \in DOMAIN queue'[c] : \A j \in DOMAIN queue'[d] :
        c # d \/ i # j => FrameSlots(queue'[c][i]) \cap FrameSlots(queue'[d][j]) = {}
  BY <1>0 DEF FramesApart
<1>5. \A i, j \in DOMAIN scans' : i # j => ScanSlots(scans'[i]) \cap ScanSlots(scans'[j]) = {}
  BY <1>0, <1>f, <1>m DEF ScansApart
<1>6. \A c \in Channels : \A i \in DOMAIN queue'[c] : \A j \in DOMAIN scans' :
        FrameSlots(queue'[c][i]) \cap ScanSlots(scans'[j]) = {}
  BY <1>0, <1>f, <1>m DEF FramesOffScans
<1> QED
  BY <1>1, <1>2, <1>3, <1>4, <1>5, <1>6, ExclusiveAfter

\* What reaches the bridge from outside is about slots where nothing is in flight.
FrameComes(p, f) ==
  /\ Sent(p, f) /\ FrameSlots(f) \cap InFlight = {}
  /\ UNCHANGED <<life, scans>>

EventComes(e) ==
  /\ e \in Game \cup {None} /\ (e # None => life[e.pid] = "alive")
  /\ ScanSlots(e) \cap InFlight = {}
  /\ scans' = Append(scans, e)
  /\ UNCHANGED <<life, wants, queue>>

LifeGoesOn ==
  /\ \A p \in Pids : life'[p] = "alive" => life[p] \in {"unborn", "alive"}
  /\ \A p \in Pids : life[p] # "unborn" => life'[p] # "unborn"
  /\ UNCHANGED <<wants, queue, scans>>

\* What the outside world does: processes come and go, or a frame or an event
\* arrives that is about slots where nothing is in flight.
LEMMA OutsideMoves ==
  ASSUME TypeOK, Isolated, Environment
  PROVE  /\ UNCHANGED <<tables, screen, local>>
         /\ \/ LifeGoesOn
            \/ \E p \in Companions : \E f \in Frame : FrameComes(p, f)
            \/ \E e \in Game \cup {None} : EventComes(e)
<1>1. UNCHANGED <<tables, screen, local>>
  BY OutsideStep
<1>2. ASSUME NEW p \in Pids, Start(p) \/ Exit(p) PROVE LifeGoesOn
  <2>1. life \in [Pids -> {"unborn", "alive", "dead"}]
    BY DEF TypeOK, OutsideOK
  <2>2. CASE Start(p)
    BY <2>1, <2>2 DEF Start, LifeGoesOn
  <2>3. CASE Exit(p)
    BY <2>1, <2>3 DEF Exit, LifeGoesOn
  <2> QED
    BY <1>2, <2>2, <2>3
<1>3. ASSUME NEW e \in Game \cup {None}, e # None => life[e.pid] = "alive", Report(e)
      PROVE  EventComes(e)
  BY <1>3 DEF Report, Admitted, Isolated, EventComes
<1>4. ASSUME NEW g \in Games, ReportGame(g) PROVE \E e \in Game \cup {None} : EventComes(e)
  <2> DEFINE e == [app |-> DetectedAs[g], pid |-> g]
  <2>1. e \in Game /\ e.pid = g
    BY DEF Game, Pids
  <2>2. life[g] = "alive" /\ Report(e)
    BY <1>4 DEF ReportGame
  <2> QED
    BY <1>3, <2>1, <2>2
<1>5. CASE ReportNone
  <2>1. EventComes(None)
    BY <1>3, <1>5 DEF ReportNone
  <2> QED
    BY <1>1, <2>1
<1>6. ASSUME NEW p \in Companions, NEW f \in Frame, Sent(p, f), Enqueue(p, f)
      PROVE  FrameComes(p, f)
  BY <1>6 DEF Enqueue, Admitted, Isolated, FrameComes
<1>7. \/ UNCHANGED <<wants, queue>>
      \/ \E p \in Companions : \E f \in Frame : FrameComes(p, f)
  BY <1>6, OutsideStep
<1>8. CASE \E p \in Companions : Drop(p) \/ \E a \in AppsOf[p] : Clear(p, a) \/ \E b \in Bodies : Publish(p, a, b)
  <2>1. PICK p \in Companions : \E f : Enqueue(p, f)
    BY <1>8 DEF Drop, Clear, Publish
  <2>2. queue' # queue
    <3>1. PICK f : queue' = [queue EXCEPT ![ChannelOf[p]] = Append(@, f)]
      BY <2>1 DEF Enqueue
    <3>2. queue \in [Channels -> Seq(Frame)] /\ queue[ChannelOf[p]] \in Seq(Frame)
      BY DEF TypeOK, OutsideOK
    <3>3. queue'[ChannelOf[p]] = Append(queue[ChannelOf[p]], f)
      BY <3>1, <3>2
    <3>4. DOMAIN queue'[ChannelOf[p]] # DOMAIN queue[ChannelOf[p]]
      BY <3>2, <3>3, Appended
    <3> QED
      BY <3>4
  <2> QED
    BY <1>1, <1>7, <2>2
<1> QED
  BY <1>1, <1>2, <1>4, <1>5, <1>8 DEF Environment

\* A sequence with an empty domain is empty.
LEMMA NoneThere ==
  ASSUME NEW S, NEW s \in Seq(S), DOMAIN s = {}
  PROVE  s = <<>>
OBVIOUS

\* Every frame is about some slot.
LEMMA SlotsOfFrame ==
  ASSUME Isolated, NEW f \in Frame
  PROVE  FrameSlots(f) # {} /\ FrameSlots(f) \subseteq Apps
BY FrameParts DEF FrameSlots, Isolated

\* Exclusive is kept.
LEMMA NextExclusive ==
  ASSUME TypeOK, Isolated, Exclusive, pc[P] = "idle" => cur[P] = None, [Next]_vars
  PROVE  Exclusive'
<1>1. ASSUME UNCHANGED <<pc, cur>> PROVE \A u \in Threads : InHand(u)' = InHand(u)
  <2>1. ASSUME NEW u \in Threads PROVE InHand(u)' = InHand(u)
    <3>1. CASE u \in Channels
      BY <1>1, <3>1, Hands, HandsAfter
    <3>2. CASE u = P
      BY <1>1, <3>2, Hands, HandsAfter
    <3>3. CASE u = R
      BY <1>1, <3>3, Hands, HandsAfter
    <3> QED
      BY <3>1, <3>2, <3>3, ThreadKinds
  <2> QED
    BY <2>1
<1>2. CASE UNCHANGED vars
  <2>1. UNCHANGED <<pc, cur, queue, scans>>
    BY <1>2 DEF vars, local, outside
  <2> QED
    BY <1>1, <2>1, ShrinkExclusive
<1>3. CASE Environment
  <2>0. UNCHANGED <<pc, cur>>
    BY <1>3, OutsideMoves DEF local
  <2>1. CASE LifeGoesOn
    BY <1>1, <2>0, <2>1, ShrinkExclusive DEF LifeGoesOn
  <2>2. ASSUME NEW p \in Companions, NEW f \in Frame, FrameComes(p, f) PROVE Exclusive'
    <3>1. /\ ChannelOf[p] \in Channels /\ UNCHANGED scans /\ FrameSlots(f) \cap InFlight = {}
          /\ queue'[ChannelOf[p]] = Append(queue[ChannelOf[p]], f)
          /\ \A d \in Channels \ {ChannelOf[p]} : queue'[d] = queue[d]
      BY <2>2 DEF FrameComes, Sent
    <3> QED
      BY <1>1, <2>0, <3>1, EnqueueExclusive
  <2>3. ASSUME NEW e, EventComes(e) PROVE Exclusive'
    BY <1>1, <2>0, <2>3, ReportExclusive DEF EventComes
  <2> QED
    BY <1>3, <2>1, <2>2, <2>3, OutsideMoves
<1>4. ASSUME NEW c \in Channels, EventLoop(c) \/ Broadcasting(c) PROVE Exclusive'
  <2>0. c \in Threads
    BY ThreadNames
  <2>1. OnlyOf(c) /\ UNCHANGED scans /\ (Dropped(c) \/ Accepted(c) \/ (LoopMove(c) /\ UNCHANGED queue))
    BY <1>4, LoopMoves
  <2>2. \A u \in Threads \ {c} : InHand(u)' = InHand(u)
    BY <2>0, <2>1, OthersHands
  <2>3. ASSUME Taken(c), InHand(c)' \subseteq FrameSlots(Head(queue[c])) PROVE Exclusive'
    BY <2>1, <2>2, <2>3, TakeExclusive DEF Taken
  <2>4. CASE Dropped(c)
    <3>1. Taken(c) /\ pc'[c] = "idle"
      BY <2>4 DEF Dropped, Taken
    <3> QED
      BY <2>0, <2>3, <3>1, IdleHand
  <2>5. CASE Accepted(c)
    <3>1. Taken(c) /\ cur'[c] = Head(queue[c]) /\ pc'[c] # "idle"
      BY <2>5 DEF Accepted
    <3> QED
      BY <2>3, <3>1, HandsAfter
  <2>6. CASE LoopMove(c) /\ UNCHANGED queue
    <3>1. InHand(c)' \subseteq InHand(c)
      BY <2>6, LoopMoveHand
    <3> QED
      BY <2>1, <2>2, <2>6, <3>1, ShrinkExclusive
  <2> QED
    BY <2>1, <2>4, <2>5, <2>6
<1>5. CASE ProcessLoop \/ Broadcasting(P)
  <2>1. OnlyOf(P) /\ UNCHANGED queue /\ (NoneMove \/ GameMove \/ (ProcessMove /\ UNCHANGED scans))
    BY <1>5, ProcessMoves
  <2>2. \A u \in Threads \ {P} : InHand(u)' = InHand(u)
    BY <2>1, OthersHands, ThreadNames
  <2>3. CASE NoneMove
    <3>1. scans # <<>> /\ scans' = Tail(scans) /\ Head(scans) = None
      BY <2>3 DEF NoneMove
    <3>2. InHand(P)' \subseteq Apps
      <4>1. cur'[P] = None /\ pc'[P] # "idle"
        BY <2>3 DEF NoneMove
      <4> QED
        BY <4>1, HandsAfter DEF ScanSlots
    <3> QED
      BY <2>1, <2>2, <3>1, <3>2, ScanExclusive DEF ScanSlots
  <2>4. CASE GameMove
    <3>1. scans # <<>> /\ scans' = Tail(scans) /\ cur'[P] = Head(scans) /\ pc'[P] # "idle"
      BY <2>4 DEF GameMove
    <3> QED
      BY <2>1, <2>2, <3>1, ScanExclusive, HandsAfter
  <2>5. CASE ProcessMove /\ UNCHANGED scans
    <3>1. InHand(P)' \subseteq InHand(P)
      BY <2>5, ProcessMoveHand
    <3> QED
      BY <2>1, <2>2, <2>5, <3>1, ShrinkExclusive
  <2> QED
    BY <2>1, <2>3, <2>4, <2>5
<1>6. CASE RefreshThread
  <2>1. OnlyOf(R) /\ UNCHANGED <<queue, scans, cur>> /\ (CopyMove \/ \E copy \in copies : CopySent(copy))
    BY <1>6, RefreshMoves DEF outside
  <2>2. \A u \in Threads \ {R} : InHand(u)' = InHand(u)
    BY <2>1, OthersHands, ThreadNames
  <2>3. CASE \E copy \in copies : CopySent(copy)
    <3>1. InHand(R)' \subseteq InHand(R)
      BY <2>3, Hands, HandsAfter DEF CopySent
    <3> QED
      BY <2>1, <2>2, <3>1, ShrinkExclusive
  <2>4. CASE CopyMove
    <3>0. InFlight = {}
      BY <2>4 DEF CopyMove
    <3>1. /\ \A t \in Threads : InHand(t) = {}
          /\ \A c \in Channels : \A i \in DOMAIN queue[c] : FrameSlots(queue[c][i]) = {}
          /\ \A i \in DOMAIN scans : ScanSlots(scans[i]) = {}
      BY <3>0, Flying
    <3>2. \A t, u \in Threads : t # u => InHand(t)' \cap InHand(u)' = {}
      BY <2>2, <3>1
    <3> QED
      BY <2>1, <3>1, <3>2, ExclusiveAfter
  <2> QED
    BY <2>1, <2>3, <2>4
<1> QED
  BY <1>2, <1>3, <1>4, <1>5, <1>6 DEF Next

\* The refresh thread starts when nothing is under way, and nothing is admitted
\* until it has sent its copies.
LEMMA NextAlone ==
  ASSUME TypeOK, Isolated, FramesRouted, RefreshAlone, [Next]_vars
  PROVE  RefreshAlone'
<1>1. CASE pc'[R] = pc[R] /\ pc[R] = "idle"
  BY <1>1 DEF RefreshAlone
<1>2. CASE UNCHANGED vars
  BY <1>2 DEF vars, local, outside, tables, RefreshAlone
<1>q. \A c \in Channels : queue[c] \in Seq(Frame)
  BY DEF TypeOK, OutsideOK
<1>3. CASE Environment
  <2>1. UNCHANGED <<pc, copies, cache>>
    BY <1>3, OutsideMoves DEF local, tables
  <2>2. CASE pc[R] # "idle"
    <3>1. Apps \subseteq InFlight
      BY <2>2, Hands, ThreadNames, Flying
    <3>2. PICK copy \in copies : copy.card # None
      BY <2>2 DEF RefreshAlone
    <3>3. Apps # {}
      <4>1. copy.card \in Card
        BY <3>2 DEF TypeOK, ThreadsOK, Payload
      <4> QED
        BY <4>1 DEF Card
    <3>4. ASSUME NEW p \in Companions, NEW f \in Frame PROVE ~FrameComes(p, f)
      BY <3>1, SlotsOfFrame DEF FrameComes
    <3>5. ASSUME NEW e \in Game \cup {None} PROVE ~EventComes(e)
      BY <3>1, <3>3 DEF EventComes, ScanSlots, Game
    <3>6. UNCHANGED <<queue, scans>>
      BY <1>3, <3>4, <3>5, OutsideMoves DEF LifeGoesOn
    <3> QED
      BY <2>1, <3>6 DEF RefreshAlone
  <2> QED
    BY <1>1, <2>1, <2>2
<1>4. ASSUME NEW c \in Channels, EventLoop(c) \/ Broadcasting(c) PROVE RefreshAlone'
  <2>1. OnlyOf(c) /\ (Dropped(c) \/ Accepted(c) \/ LoopMove(c)) /\ c \in Threads /\ c # R
    BY <1>4, LoopMoves, ThreadNames
  <2>2. pc[c] # "idle" \/ queue[c] # <<>>
    BY <2>1 DEF Dropped, Accepted, Taken, LoopMove, NoteMove, CompareMove, HandBackMove,
       PublishMove, ResumeMove, SkipMove, CacheMove, SendMove
  <2>3. pc[R] = "idle"
    BY <2>1, <2>2 DEF RefreshAlone
  <2>4. pc'[R] = pc[R]
    BY <2>1, ThreadNames DEF OnlyOf
  <2> QED
    BY <1>1, <2>3, <2>4
<1>5. CASE ProcessLoop \/ Broadcasting(P)
  <2>1. OnlyOf(P) /\ (NoneMove \/ GameMove \/ ProcessMove)
    BY <1>5, ProcessMoves
  <2>2. pc[P] # "idle" \/ scans # <<>>
    BY <2>1 DEF NoneMove, GameMove, ProcessMove, TakeMove, CheckMove, YieldMove, DedupMove,
       GenericMove, ClearMove, CacheMove, SendMove
  <2>3. pc[R] = "idle"
    BY <2>2, ThreadNames DEF RefreshAlone
  <2>4. pc'[R] = pc[R]
    BY <2>1, ThreadNames DEF OnlyOf
  <2> QED
    BY <1>1, <2>3, <2>4
<1>6. CASE RefreshThread
  <2>1. OnlyOf(R) /\ UNCHANGED <<queue, scans, cache>> /\ (CopyMove \/ \E copy \in copies : CopySent(copy))
    BY <1>6, RefreshMoves DEF outside, tables
  <2>2. \A t \in Threads \ {R} : pc'[t] = pc[t]
    BY <2>1 DEF OnlyOf
  <2>3. CASE \E copy \in copies : CopySent(copy)
    <3>1. PICK copy \in copies : CopySent(copy)
      BY <2>3
    <3>2. /\ pc[R] = "next" /\ copies' = copies \ {copy}
          /\ pc'[R] = IF copies' = {} THEN "idle" ELSE "next"
      BY <3>1 DEF CopySent
    <3> QED
      BY <2>1, <2>2, <3>2 DEF RefreshAlone
  <2>4. CASE CopyMove
    <3>0. /\ InFlight = {} /\ Keys(cache) # {}
          /\ copies' = {[socket |-> s, card |-> cache[s]] : s \in Keys(cache)}
      BY <2>4 DEF CopyMove
    <3>1. /\ \A t \in Threads : InHand(t) = {}
          /\ \A c \in Channels : \A i \in DOMAIN queue[c] : FrameSlots(queue[c][i]) = {}
          /\ \A i \in DOMAIN scans : ScanSlots(scans[i]) = {}
      BY <3>0, Flying
    <3>2. cache \in [Sockets -> Card \cup {None}]
      BY DEF TypeOK, TablesOK
    <3>3. Apps # {}
      BY <3>0, <3>2 DEF Keys, Card
    <3>4. ASSUME NEW c \in Channels PROVE pc[c] = "idle" /\ queue[c] = <<>>
      <4>1. c \in Threads
        BY ThreadNames
      <4>2. pc[c] # "idle" => cur[c] \in Frame
        BY DEF TypeOK, ThreadsOK
      <4>3. pc[c] = "idle"
        BY <3>1, <4>1, <4>2, Hands, SlotsOfFrame
      <4>4. \A i \in DOMAIN queue[c] : queue[c][i] \in Frame
        BY <1>q
      <4>5. DOMAIN queue[c] = {}
        BY <3>1, <4>4, SlotsOfFrame
      <4> QED
        BY <1>q, <4>3, <4>5, NoneThere
    <3>5. scans = <<>>
      <4>1. scans \in Seq(Game \cup {None})
        BY DEF TypeOK, OutsideOK
      <4>2. \A i \in DOMAIN scans : ScanSlots(scans[i]) # {}
        BY <3>3 DEF ScanSlots
      <4> QED
        BY <3>1, <4>1, <4>2
    <3>6. pc[P] = "idle"
      <4>1. ScanSlots(cur[P]) # {}
        BY <3>3 DEF ScanSlots
      <4> QED
        BY <3>1, <4>1, Hands, ThreadNames
    <3>7. copies' # {} /\ \A copy \in copies' : copy.card # None /\ cache[copy.socket] = copy.card
      <4>1. \A s \in Keys(cache) : cache[s] # None
        BY DEF Keys
      <4>2. copies' # {}
        <5>1. PICK s \in Keys(cache) : TRUE
          BY <3>0
        <5>2. [socket |-> s, card |-> cache[s]] \in copies'
          BY <3>0, <5>1
        <5> QED
          BY <5>2
      <4>3. \A copy \in copies' : copy.card # None /\ cache[copy.socket] = copy.card
        BY <3>0, <4>1
      <4> QED
        BY <4>2, <4>3
    <3>8. \A t \in Threads \ {R} : pc'[t] = "idle"
      BY <2>2, <3>4, <3>6, ThreadKinds
    <3> QED
      BY <2>1, <3>4, <3>5, <3>7, <3>8 DEF RefreshAlone
  <2> QED
    BY <2>1, <2>3, <2>4
<1> QED
  BY <1>2, <1>3, <1>4, <1>5, <1>6 DEF Next

-----------------------------------------------------------------------------
(* What is held is about slots in hand.                                    *)

\* What a clear gives back is about its sender's slots.
LEMMA ReleasedInHand ==
  ASSUME SlotsInHand, NEW f \in Frame
  PROVE  /\ Released(f) \subseteq FrameSlots(f)
         /\ \A game \in Resumable(Released(f)) : game.app \in Released(f)
<1>1. ASSUME NEW a \in Released(f) PROVE a \in FrameSlots(f)
  <2>1. a \in Apps /\ live_ipc[a] = f.pid /\ f.app \in {a, None}
    BY <1>1 DEF Released
  <2>2. live_ipc[a] # None
    BY <2>1, FrameParts
  <2>3. a \in AppsOf[f.pid]
    BY <2>1, <2>2 DEF SlotsInHand
  <2> QED
    BY <2>1, <2>3 DEF FrameSlots
<1> QED
  BY <1>1 DEF Resumable

\* Every conjunct of SlotsInHand, after a step.
LEMMA NextOwners ==
  ASSUME TypeOK, Isolated, FramesRouted, SlotsInHand, [Next]_vars,
         NEW a \in Apps, live_ipc'[a] # None
  PROVE  live_ipc'[a] \in Companions /\ a \in AppsOf[live_ipc'[a]]
<1>0. live_ipc[a] # None => live_ipc[a] \in Companions /\ a \in AppsOf[live_ipc[a]]
  BY DEF SlotsInHand
<1>1. CASE UNCHANGED live_ipc
  BY <1>0, <1>1
<1>2. ASSUME NEW c \in Channels, NoteMove(c) PROVE live_ipc'[a] \in Companions /\ a \in AppsOf[live_ipc'[a]]
  <2>1. /\ pc[c] = "note" /\ live_ipc' = [live_ipc EXCEPT ![cur[c].app] = cur[c].pid]
    BY <1>2 DEF NoteMove
  <2>2. cur[c] \in Frame /\ cur[c].body # None /\ Routed(c, cur[c])
    BY <2>1 DEF TypeOK, ThreadsOK, FramesRouted
  <2>3. cur[c].app \in AppsOf[cur[c].pid] /\ cur[c].pid \in Companions
    BY <2>2, FrameParts DEF Routed
  <2>4. live_ipc'[a] = IF a = cur[c].app THEN cur[c].pid ELSE live_ipc[a]
    BY <2>1 DEF TypeOK, TablesOK
  <2> QED
    BY <1>0, <2>3, <2>4
<1>3. ASSUME NEW c \in Channels, HandBackMove(c) PROVE live_ipc'[a] \in Companions /\ a \in AppsOf[live_ipc'[a]]
  <2>1. live_ipc' = [b \in Apps |-> IF b \in Released(cur[c]) THEN None ELSE live_ipc[b]]
    BY <1>3 DEF HandBackMove
  <2> QED
    BY <1>0, <2>1
<1>4. ASSUME NEW c \in Channels, EventLoop(c) \/ Broadcasting(c)
      PROVE  UNCHANGED live_ipc \/ NoteMove(c) \/ HandBackMove(c)
  <2>1. Dropped(c) \/ Accepted(c) \/ LoopMove(c)
    BY <1>4, LoopMoves
  <2> QED
    BY <2>1 DEF Dropped, Accepted, Taken, LoopMove, CompareMove, PublishMove,
       ResumeMove, SkipMove, CacheMove, SendMove
<1>5. CASE ProcessLoop \/ Broadcasting(P) \/ RefreshThread \/ UNCHANGED vars
  BY <1>1, <1>5, OtherStep
<1>6. CASE Environment
  BY <1>1, <1>6, OutsideMoves DEF tables
<1> QED
  BY <1>1, <1>2, <1>3, <1>4, <1>5, <1>6 DEF Next

\* What one thread holds is about slots it has in hand.
Holds(t) ==
  /\ \A game \in todo[t] : game.app \in InHand(t)
  /\ pc[t] \in {"idle", "note", "compare", "handback", "take"} => todo[t] = {}
  /\ pc[t] \in {"cache", "send"} /\ out[t].socket \in Apps
       => out[t].socket \in InHand(t)

\* A step does not disturb what the other threads hold.
LEMMA OthersHold ==
  ASSUME NEW t \in Threads, OnlyOf(t), NEW u \in Threads \ {t}, Holds(u)
  PROVE  Holds(u)'
BY OthersHands DEF OnlyOf, Holds

\* What an event loop holds stays about slots it has in hand.
LEMMA LoopHolds ==
  ASSUME TypeOK, SlotsInHand, NEW c \in Channels,
         OnlyOf(c), Dropped(c) \/ Accepted(c) \/ LoopMove(c), Holds(c)
  PROVE  Holds(c)'
<1>0. c \in Threads
  BY ThreadNames
<1>1. CASE Dropped(c) \/ Accepted(c)
  <2>1. pc[c] = "idle" /\ UNCHANGED <<todo, out>> /\ pc'[c] \notin {"cache", "send"}
    BY <1>1 DEF Dropped, Accepted, Taken
  <2> QED
    BY <2>1 DEF Holds
<1>h. ASSUME LoopMove(c), pc'[c] # "idle" PROVE InHand(c)' = InHand(c)
  BY <1>h, LoopMoveHand
<1>o. ASSUME LoopMove(c), Onward(c), \A game \in todo'[c] : game.app \in InHand(c) PROVE Holds(c)'
  <2>1. CASE pc'[c] = "idle"
    BY <1>o, <2>1 DEF Onward, Holds
  <2>2. CASE pc'[c] # "idle"
    BY <1>o, <1>h, <2>2 DEF Onward, Holds
  <2> QED
    BY <2>1, <2>2
<1>2. CASE NoteMove(c)
  BY <1>2 DEF NoteMove, Holds
<1>3. CASE CompareMove(c)
  <2>1. CASE Onward(c)
    BY <1>3, <1>o, <2>1 DEF CompareMove, LoopMove, Holds
  <2>2. CASE pc'[c] = "handback"
    BY <1>3, <2>2 DEF CompareMove, Holds
  <2> QED
    BY <1>3, <2>1, <2>2 DEF CompareMove
<1>4. CASE HandBackMove(c)
  <2>1. pc[c] # "idle" /\ cur[c] \in Frame /\ Onward(c) /\ todo'[c] = Resumable(Released(cur[c]))
    BY <1>4 DEF HandBackMove, TypeOK, ThreadsOK
  <2>2. \A game \in todo'[c] : game.app \in InHand(c)
    BY <2>1, ReleasedInHand, Hands
  <2> QED
    BY <1>4, <1>o, <2>1, <2>2 DEF LoopMove
<1>5. CASE PublishMove(c)
  <2>1. out'[c].socket = cur[c].pid /\ cur[c] \in Frame
    BY <1>5 DEF PublishMove, TypeOK, ThreadsOK
  <2>2. out'[c].socket \notin Apps
    BY <2>1, FrameParts
  <2> QED
    BY <1>5, <2>2 DEF PublishMove, Holds
<1>6. ASSUME NEW game \in todo[c], ResumeMove(c, game) PROVE Holds(c)'
  <2>1. /\ pc'[c] = "cache" /\ todo'[c] \subseteq todo[c] /\ out'[c].socket = game.app
    BY <1>6 DEF ResumeMove
  <2>2. InHand(c)' = InHand(c)
    BY <1>6, <1>h, <2>1 DEF LoopMove
  <2> QED
    BY <2>1, <2>2 DEF Holds
<1>7. ASSUME NEW game \in todo[c], SkipMove(c, game) PROVE Holds(c)'
  <2>1. Onward(c) /\ todo'[c] \subseteq todo[c]
    BY <1>7 DEF SkipMove
  <2> QED
    BY <1>7, <1>o, <2>1 DEF LoopMove, Holds
<1>8. CASE CacheMove(c)
  BY <1>8, <1>h DEF CacheMove, LoopMove, Holds
<1>9. CASE SendMove(c)
  BY <1>9, <1>o DEF SendMove, LoopMove, Holds
<1> QED
  BY <1>1, <1>2, <1>3, <1>4, <1>5, <1>6, <1>7, <1>8, <1>9 DEF LoopMove

\* What the process loop holds stays about slots it has in hand.
LEMMA ProcessHolds ==
  ASSUME TypeOK, SlotsInHand, OnlyOf(P), NoneMove \/ GameMove \/ ProcessMove, Holds(P)
  PROVE  Holds(P)'
<1>1. CASE NoneMove \/ GameMove
  BY <1>1 DEF NoneMove, GameMove, Holds
<1>h. ASSUME ProcessMove, pc'[P] # "idle" PROVE InHand(P)' = InHand(P)
  BY <1>h, ProcessMoveHand
<1>o. ASSUME ProcessMove, Onward(P), \A game \in todo'[P] : game.app \in InHand(P) PROVE Holds(P)'
  <2>1. CASE pc'[P] = "idle"
    BY <1>o, <2>1 DEF Onward, Holds
  <2>2. CASE pc'[P] # "idle"
    BY <1>o, <1>h, <2>2 DEF Onward, Holds
  <2> QED
    BY <2>1, <2>2
<1>2. CASE TakeMove
  <2>1. Onward(P) /\ pc[P] = "take"
        /\ todo'[P] = {[app |-> a, pid |-> last_process[a]] : a \in Keys(last_process)}
    BY <1>2 DEF TakeMove
  <2>2. InHand(P) = Apps
    BY <2>1, Hands DEF SlotsInHand, ScanSlots
  <2>3. \A game \in todo'[P] : game.app \in InHand(P)
    BY <2>1, <2>2 DEF Keys, TypeOK, TablesOK
  <2> QED
    BY <1>2, <1>o, <2>1, <2>3 DEF ProcessMove
<1>3. CASE CheckMove
  <2>1. InHand(P)' = InHand(P) /\ pc'[P] \in {"yield", "dedup"} /\ UNCHANGED todo
    BY <1>3, <1>h DEF CheckMove, ProcessMove
  <2> QED
    BY <2>1 DEF Holds
<1>g. pc[P] \in {"yield", "track"} => cur[P] \in Game /\ cur[P].app \in InHand(P)
  <2>1. pc[P] \in {"yield", "track"} => cur[P] \in Game
    BY DEF TypeOK, ThreadsOK
  <2>2. pc[P] \in {"yield", "track"} => cur[P].app \in ScanSlots(cur[P])
    BY <2>1 DEF ScanSlots, Game
  <2> QED
    BY <2>1, <2>2, Hands
<1>4. CASE YieldMove
  <2>1. CASE Onward(P)
    BY <1>4, <1>o, <2>1 DEF YieldMove, ProcessMove, Holds
  <2>2. CASE pc'[P] = "cache" /\ out'[P] = [socket |-> cur[P].app, card |-> None]
    <3>1. InHand(P)' = InHand(P) /\ UNCHANGED todo /\ pc[P] = "yield"
      BY <1>4, <1>h, <2>2 DEF YieldMove, ProcessMove
    <3> QED
      BY <1>g, <2>2, <3>1 DEF Holds
  <2> QED
    BY <1>4, <2>1, <2>2 DEF YieldMove
<1>5. CASE DedupMove
  <2>1. CASE Onward(P)
    BY <1>5, <1>o, <2>1 DEF DedupMove, ProcessMove, Holds
  <2>2. CASE pc'[P] = "track"
    <3>1. InHand(P)' = InHand(P) /\ UNCHANGED todo
      BY <1>5, <1>h, <2>2 DEF DedupMove, ProcessMove
    <3> QED
      BY <2>2, <3>1 DEF Holds
  <2> QED
    BY <1>5, <2>1, <2>2 DEF DedupMove
<1>6. CASE GenericMove
  <2>1. /\ pc'[P] = "cache" /\ out'[P].socket = cur[P].app /\ UNCHANGED todo /\ pc[P] = "track"
    BY <1>6 DEF GenericMove
  <2>2. InHand(P)' = InHand(P)
    BY <1>6, <1>h, <2>1 DEF ProcessMove
  <2> QED
    BY <1>g, <2>1, <2>2 DEF Holds
<1>7. ASSUME NEW game \in todo[P], ClearMove(game) PROVE Holds(P)'
  <2>1. /\ pc'[P] = "cache" /\ out'[P].socket = game.app /\ todo'[P] \subseteq todo[P]
    BY <1>7 DEF ClearMove
  <2>2. InHand(P)' = InHand(P)
    BY <1>7, <1>h, <2>1 DEF ProcessMove
  <2> QED
    BY <2>1, <2>2 DEF Holds
<1>8. CASE CacheMove(P)
  BY <1>8, <1>h DEF CacheMove, ProcessMove, Holds
<1>9. CASE SendMove(P)
  BY <1>9, <1>o DEF SendMove, ProcessMove, Holds
<1> QED
  BY <1>1, <1>2, <1>3, <1>4, <1>5, <1>6, <1>7, <1>8, <1>9 DEF ProcessMove

\* What the process loop holds, place by place.
ProcessHand ==
  /\ pc[P] = "idle" => cur[P] = None
  /\ pc[P] = "take" => cur[P] = None /\ last_scans = [a \in Apps |-> None]
  /\ pc[P] = "next" => cur[P] = None
  /\ cur[P] # None => todo[P] = {}

\* What the process loop holds fits where it is, after a step.
LEMMA ProcessHandKept ==
  ASSUME TypeOK, ProcessHand, Holds(P),
         NoneMove \/ GameMove \/ (ProcessMove /\ UNCHANGED last_scans)
  PROVE  ProcessHand'
<1>1. CASE NoneMove
  BY <1>1 DEF NoneMove, ProcessHand
<1>2. CASE GameMove
  <2>1. todo'[P] = {}
    BY <1>2 DEF GameMove, Holds
  <2> QED
    BY <1>2, <2>1 DEF GameMove, ProcessHand
<1>o. ASSUME Onward(P), todo'[P] = {} \/ cur[P] = None PROVE ProcessHand'
  BY <1>o DEF Onward, ProcessHand
<1>3. CASE TakeMove
  BY <1>3, <1>o DEF TakeMove, ProcessHand
<1>4. CASE CheckMove \/ GenericMove \/ CacheMove(P)
  BY <1>4 DEF CheckMove, GenericMove, CacheMove, ProcessHand
<1>5. CASE YieldMove
  BY <1>5, <1>o DEF YieldMove, ProcessHand
<1>6. CASE DedupMove
  BY <1>6, <1>o DEF DedupMove, ProcessHand
<1>7. ASSUME NEW game \in todo[P], ClearMove(game) PROVE ProcessHand'
  BY <1>7 DEF ClearMove, ProcessHand
<1>8. CASE SendMove(P)
  BY <1>8, <1>o DEF SendMove, ProcessHand
<1> QED
  BY <1>1, <1>2, <1>3, <1>4, <1>5, <1>6, <1>7, <1>8 DEF ProcessMove

\* SlotsInHand is kept.
LEMMA NextInHand ==
  ASSUME TypeOK, Isolated, FramesRouted, SlotsInHand, [Next]_vars
  PROVE  SlotsInHand'
<1>1. \A t \in Threads : Holds(t)
  BY DEF SlotsInHand, Holds
<1>2. ProcessHand /\ todo[R] = {}
  BY DEF SlotsInHand, ProcessHand
<1>3. ASSUME NEW t \in Threads, NEW u \in Threads, OnlyOf(t), Holds(t)'
      PROVE  Holds(u)'
  BY <1>1, <1>3, OthersHold
<1>4. ASSUME \A t \in Threads : Holds(t)', ProcessHand', todo'[R] = {} PROVE SlotsInHand'
  <2>1. \A a \in Apps : live_ipc'[a] # None => live_ipc'[a] \in Companions /\ a \in AppsOf[live_ipc'[a]]
    BY NextOwners
  <2> QED
    BY <1>4, <2>1 DEF SlotsInHand, Holds, ProcessHand
<1>s. ASSUME UNCHANGED <<pc, cur, todo, out, last_scans>> PROVE SlotsInHand'
  <2>1. ASSUME NEW u \in Threads PROVE Holds(u)'
    <3>1. InHand(u)' = InHand(u)
      <4>1. CASE u \in Channels
        BY <1>s, <4>1, Hands, HandsAfter
      <4>2. CASE u = P
        BY <1>s, <4>2, Hands, HandsAfter
      <4>3. CASE u = R
        BY <1>s, <4>3, Hands, HandsAfter
      <4> QED
        BY <4>1, <4>2, <4>3, ThreadKinds
    <3> QED
      BY <1>1, <1>s, <3>1 DEF Holds
  <2>2. ProcessHand' /\ todo'[R] = {}
    BY <1>2, <1>s DEF ProcessHand
  <2> QED
    BY <1>4, <2>1, <2>2
<1>5. CASE UNCHANGED vars
  BY <1>5, <1>s DEF vars, local, tables
<1>6. CASE Environment
  BY <1>6, <1>s, OutsideMoves DEF local, tables
<1>7. ASSUME NEW c \in Channels, EventLoop(c) \/ Broadcasting(c) PROVE SlotsInHand'
  <2>1. /\ OnlyOf(c) /\ (Dropped(c) \/ Accepted(c) \/ LoopMove(c)) /\ UNCHANGED <<scans, last_scans>>
        /\ c \in Threads /\ c # R /\ c # P
    BY <1>7, LoopMoves, ThreadNames
  <2>2. \A u \in Threads : Holds(u)'
    BY <1>1, <1>3, <2>1, LoopHolds
  <2>3. ProcessHand' /\ todo'[R] = {}
    BY <1>2, <2>1, ThreadNames DEF OnlyOf, ProcessHand
  <2> QED
    BY <1>4, <2>2, <2>3
<1>8. CASE ProcessLoop \/ Broadcasting(P)
  <2>1. OnlyOf(P) /\ (NoneMove \/ GameMove \/ (ProcessMove /\ UNCHANGED last_scans))
    BY <1>8, ProcessMoves
  <2>2. \A u \in Threads : Holds(u)'
    BY <1>1, <1>3, <2>1, ProcessHolds, ThreadNames
  <2>3. ProcessHand' /\ todo'[R] = {}
    BY <1>1, <1>2, <2>1, ProcessHandKept, ThreadNames DEF OnlyOf
  <2> QED
    BY <1>4, <2>2, <2>3
<1>9. CASE RefreshThread
  <2>1. /\ OnlyOf(R) /\ UNCHANGED <<cur, todo, out, last_scans>>
        /\ pc'[R] \in {"idle", "next"}
    BY <1>9, RefreshMoves DEF tables, CopyMove, CopySent
  <2>2. Holds(R)'
    BY <1>2, <2>1 DEF Holds
  <2>3. ProcessHand' /\ todo'[R] = {}
    BY <1>2, <2>1, ThreadNames DEF OnlyOf, ProcessHand
  <2> QED
    BY <1>3, <1>4, <2>1, <2>2, <2>3, ThreadNames
<1> QED
  BY <1>5, <1>6, <1>7, <1>8, <1>9 DEF Next

-----------------------------------------------------------------------------
(* What is to be resumed or published was scanned last.                    *)

\* A thread that moves meets nobody else's slots.
LEMMA SlotsApart ==
  ASSUME Exclusive, NEW t \in Threads, NEW u \in Threads \ {t}, NEW a \in InHand(t)
  PROVE  a \notin InHand(u)
BY DEF Exclusive, HandsApart

\* The next scanner event is about slots no thread has in hand.
LEMMA HeadScanApart ==
  ASSUME TypeOK, Exclusive, scans # <<>>, NEW t \in Threads
  PROVE  InHand(t) \cap ScanSlots(Head(scans)) = {}
<1>1. scans \in Seq(Game \cup {None})
  BY DEF TypeOK, OutsideOK
<1>2. Head(scans) = scans[1] /\ 1 \in DOMAIN scans
  BY <1>1, Tailed
<1> QED
  BY <1>2 DEF Exclusive, HandsOffScans

\* The games that were reported had started.
LEMMA NextReported ==
  ASSUME TypeOK, Isolated, GamesReported, [Next]_vars
  PROVE  GamesReported'
<1>t. /\ scans \in Seq(Game \cup {None}) /\ last_scans \in [Apps -> Pids \cup {None}]
      /\ None \notin Pids
  BY DEF TypeOK, OutsideOK, TablesOK
<1>g. \A e \in Game : e.pid \in Pids /\ e.app \in Apps
  BY DEF Game
<1>i. \A i \in DOMAIN scans : scans[i] \in Game \cup {None}
  BY <1>t
<1>1. ASSUME UNCHANGED <<life, last_scans, scans>> PROVE GamesReported'
  BY <1>1 DEF GamesReported, Reported
<1>2. CASE UNCHANGED vars
  BY <1>1, <1>2 DEF vars, outside, tables
<1>3. CASE Environment
  <2>0. UNCHANGED last_scans
    BY <1>3, OutsideMoves DEF tables
  <2>1. CASE LifeGoesOn
    BY <1>i, <1>g, <1>t, <2>0, <2>1 DEF LifeGoesOn, GamesReported, Reported
  <2>2. ASSUME NEW p \in Companions, NEW f \in Frame, FrameComes(p, f) PROVE GamesReported'
    BY <1>1, <2>0, <2>2 DEF FrameComes
  <2>3. ASSUME NEW e \in Game \cup {None}, EventComes(e) PROVE GamesReported'
    <3>1. scans' = Append(scans, e) /\ UNCHANGED life /\ (e # None => life[e.pid] = "alive")
      BY <2>3 DEF EventComes
    <3>2. /\ DOMAIN scans' = DOMAIN scans \cup {Len(scans) + 1}
          /\ \A i \in DOMAIN scans : scans'[i] = scans[i]
          /\ scans'[Len(scans) + 1] = e
      BY <1>t, <3>1, Appended
    <3>3. \A i \in DOMAIN scans' : scans'[i] = e \/ (i \in DOMAIN scans /\ scans'[i] = scans[i])
      BY <3>2
    <3> QED
      BY <2>0, <3>1, <3>3 DEF GamesReported, Reported
  <2> QED
    BY <1>3, <2>1, <2>2, <2>3, OutsideMoves
<1>4. ASSUME NEW c \in Channels, EventLoop(c) \/ Broadcasting(c) PROVE GamesReported'
  BY <1>1, <1>4, LoopMoves
<1>5. CASE ProcessLoop \/ Broadcasting(P)
  <2>1. UNCHANGED life /\ (NoneMove \/ GameMove \/ UNCHANGED <<scans, last_scans>>)
    BY <1>5, ProcessMoves
  <2>2. ASSUME scans # <<>>, scans' = Tail(scans)
        PROVE  /\ \A i \in DOMAIN scans' : scans'[i] # None => Reported(scans'[i].pid)
               /\ Head(scans) # None => Reported(Head(scans).pid)
    <3>1. /\ Head(scans) = scans[1] /\ 1 \in DOMAIN scans
          /\ \A i \in DOMAIN scans' : i + 1 \in DOMAIN scans /\ scans'[i] = scans[i + 1]
      BY <1>t, <2>2, Tailed
    <3> QED
      BY <3>1 DEF GamesReported
  <2>3. CASE NoneMove
    BY <2>1, <2>2, <2>3 DEF NoneMove, GamesReported, Reported
  <2>4. CASE GameMove
    <3>1. /\ scans # <<>> /\ scans' = Tail(scans) /\ Head(scans) \in Game /\ Head(scans) # None
          /\ last_scans' = [last_scans EXCEPT ![Head(scans).app] = Head(scans).pid]
      BY <2>4 DEF GameMove
    <3>2. \A a \in Apps : last_scans'[a] = IF a = Head(scans).app THEN Head(scans).pid ELSE last_scans[a]
      BY <1>t, <3>1
    <3> QED
      BY <2>1, <2>2, <3>1, <3>2 DEF GamesReported, Reported
  <2> QED
    BY <1>1, <2>1, <2>3, <2>4
<1>6. CASE RefreshThread
  BY <1>1, <1>6, RefreshMoves DEF outside, tables
<1> QED
  BY <1>2, <1>3, <1>4, <1>5, <1>6 DEF Next

\* What is to be resumed or published was scanned last.
PendingScanned ==
  \A c \in Channels : \A game \in todo[c] : last_scans[game.app] = game.pid

\* A scan that would change last_scans under a pending resumption is about a slot
\* in hand, so it is not there yet.
LEMMA NextPendingScanned ==
  ASSUME TypeOK, Isolated, Exclusive, SlotsInHand, PendingScanned, [Next]_vars
  PROVE  PendingScanned'
<1>1. ASSUME UNCHANGED last_scans, \A c \in Channels : todo'[c] \subseteq todo[c]
      PROVE  PendingScanned'
  BY <1>1 DEF PendingScanned
<1>2. CASE UNCHANGED vars \/ Environment
  <2>1. UNCHANGED <<last_scans, todo>>
    BY <1>2, OutsideMoves DEF vars, tables, local
  <2> QED
    BY <1>1, <2>1
<1>3. CASE RefreshThread
  <2>1. UNCHANGED <<last_scans, todo>>
    BY <1>3, RefreshMoves DEF tables
  <2> QED
    BY <1>1, <2>1
<1>4. ASSUME NEW c \in Channels, EventLoop(c) \/ Broadcasting(c) PROVE PendingScanned'
  <2>1. /\ OnlyOf(c) /\ UNCHANGED last_scans /\ c \in Threads
        /\ Dropped(c) \/ Accepted(c) \/ LoopMove(c)
    BY <1>4, LoopMoves, ThreadNames
  <2>2. \A d \in Channels \ {c} : todo'[d] = todo[d]
    BY <2>1, ThreadNames DEF OnlyOf
  <2>3. CASE HandBackMove(c)
    <3>1. todo'[c] = Resumable(Released(cur[c]))
      BY <2>3 DEF HandBackMove
    <3>2. \A game \in todo'[c] : last_scans[game.app] = game.pid
      BY <3>1 DEF Resumable
    <3> QED
      BY <2>1, <2>2, <3>2 DEF PendingScanned
  <2>4. todo'[c] \subseteq todo[c] \/ HandBackMove(c)
    BY <2>1 DEF Dropped, Accepted, Taken, LoopMove, NoteMove, CompareMove, PublishMove,
       ResumeMove, SkipMove, CacheMove, SendMove
  <2> QED
    BY <1>1, <2>1, <2>2, <2>3, <2>4
<1>5. CASE ProcessLoop \/ Broadcasting(P)
  <2>1. OnlyOf(P) /\ (NoneMove \/ GameMove \/ UNCHANGED last_scans)
    BY <1>5, ProcessMoves
  <2>2. \A c \in Channels : todo'[c] = todo[c] /\ c \in Threads
    BY <2>1, ThreadNames DEF OnlyOf
  <2>3. \A c \in Channels : \A game \in todo[c] : game.app \in InHand(c) /\ game.app \in Apps
    BY <2>2 DEF SlotsInHand, TypeOK, ThreadsOK, Game
  <2>4. CASE NoneMove
    <3>1. scans # <<>> /\ ScanSlots(Head(scans)) = Apps
      BY <2>4 DEF NoneMove, ScanSlots
    <3>2. \A c \in Channels : todo[c] = {}
      BY <2>2, <2>3, <3>1, HeadScanApart
    <3> QED
      BY <2>2, <3>2 DEF PendingScanned
  <2>5. CASE GameMove
    <3>1. /\ scans # <<>> /\ ScanSlots(Head(scans)) = {Head(scans).app}
          /\ last_scans' = [last_scans EXCEPT ![Head(scans).app] = Head(scans).pid]
      BY <2>5 DEF GameMove, ScanSlots
    <3>2. \A c \in Channels : \A game \in todo[c] : game.app # Head(scans).app
      BY <2>2, <2>3, <3>1, HeadScanApart
    <3>3. \A a \in Apps : a # Head(scans).app => last_scans'[a] = last_scans[a]
      BY <3>1 DEF TypeOK, TablesOK
    <3> QED
      BY <2>2, <2>3, <3>2, <3>3 DEF PendingScanned
  <2> QED
    BY <1>1, <2>1, <2>2, <2>4, <2>5
<1> QED
  BY <1>2, <1>3, <1>4, <1>5 DEF Next

PublishedScanned ==
  /\ pc[P] \in {"check", "yield", "dedup", "track"}
       => last_scans[cur[P].app] = cur[P].pid
  /\ pc[P] = "yield" => live_ipc[cur[P].app] # None

\* Where the process loop has a game in hand, it has that game's slot in hand.
LEMMA GameInHand ==
  ASSUME TypeOK, pc[P] \in {"check", "yield", "dedup", "track"}
  PROVE  cur[P].app \in Apps /\ cur[P].pid \in Pids /\ cur[P].app \in InHand(P)
<1>1. cur[P] \in Game
  BY DEF TypeOK, ThreadsOK
<1>2. cur[P].app \in ScanSlots(cur[P]) /\ cur[P].app \in Apps /\ cur[P].pid \in Pids
  BY <1>1 DEF ScanSlots, Game
<1> QED
  BY <1>2, Hands

\* The slot under publication keeps its owner and its scan to the end.
LEMMA NextPublishedScanned ==
  ASSUME TypeOK, Isolated, Exclusive, FramesRouted, SlotsInHand, PublishedScanned, [Next]_vars
  PROVE  PublishedScanned'
<1>1. ASSUME UNCHANGED last_scans, pc'[P] = pc[P], cur'[P] = cur[P],
             pc[P] = "yield" => live_ipc'[cur[P].app] # None
      PROVE  PublishedScanned'
  BY <1>1 DEF PublishedScanned
<1>2. CASE UNCHANGED vars \/ Environment
  <2>1. UNCHANGED <<last_scans, pc, cur, live_ipc>>
    BY <1>2, OutsideMoves DEF vars, tables, local
  <2> QED
    BY <1>1, <2>1 DEF PublishedScanned
<1>3. CASE RefreshThread
  <2>1. UNCHANGED <<last_scans, cur, live_ipc>> /\ pc'[P] = pc[P]
    BY <1>3, RefreshMoves, ThreadNames DEF tables, OnlyOf
  <2> QED
    BY <1>1, <2>1 DEF PublishedScanned
<1>4. ASSUME NEW c \in Channels, EventLoop(c) \/ Broadcasting(c) PROVE PublishedScanned'
  <2>1. /\ OnlyOf(c) /\ UNCHANGED last_scans /\ c \in Threads /\ P \in Threads \ {c}
        /\ Dropped(c) \/ Accepted(c) \/ LoopMove(c)
    BY <1>4, LoopMoves, ThreadNames
  <2>2. pc'[P] = pc[P] /\ cur'[P] = cur[P]
    BY <2>1 DEF OnlyOf
  <2>3. ASSUME pc[P] = "yield" PROVE live_ipc'[cur[P].app] # None
    <3>0. /\ live_ipc[cur[P].app] # None /\ cur[P].app \in Apps /\ cur[P].app \notin InHand(c)
          /\ live_ipc \in [Apps -> Pids \cup {None}]
      BY <2>1, <2>3, GameInHand, SlotsApart DEF PublishedScanned, TypeOK, TablesOK
    <3>1. CASE HandBackMove(c)
      <4>1. pc[c] # "idle" /\ cur[c] \in Frame
            /\ live_ipc' = [a \in Apps |-> IF a \in Released(cur[c]) THEN None ELSE live_ipc[a]]
        BY <3>1 DEF HandBackMove, TypeOK, ThreadsOK
      <4>2. cur[P].app \notin Released(cur[c])
        BY <3>0, <4>1, ReleasedInHand, Hands
      <4> QED
        BY <3>0, <4>1, <4>2
    <3>2. CASE NoteMove(c)
      <4>1. live_ipc' = [live_ipc EXCEPT ![cur[c].app] = cur[c].pid] /\ cur[c] \in Frame
        BY <3>2 DEF NoteMove, TypeOK, ThreadsOK
      <4>2. cur[c].pid # None
        BY <4>1, FrameParts
      <4> QED
        BY <3>0, <4>1, <4>2
    <3>3. UNCHANGED live_ipc \/ HandBackMove(c) \/ NoteMove(c)
      BY <2>1 DEF Dropped, Accepted, Taken, LoopMove, CompareMove, PublishMove,
         ResumeMove, SkipMove, CacheMove, SendMove
    <3> QED
      BY <3>0, <3>1, <3>2, <3>3
  <2> QED
    BY <1>1, <2>1, <2>2, <2>3
<1>5. CASE ProcessLoop \/ Broadcasting(P)
  <2>1. NoneMove \/ GameMove \/ (ProcessMove /\ UNCHANGED last_scans)
    BY <1>5, ProcessMoves
  <2>2. CASE NoneMove
    BY <2>2 DEF NoneMove, PublishedScanned
  <2>3. CASE GameMove
    <3>1. /\ pc'[P] = "check" /\ cur'[P] = Head(scans) /\ Head(scans) \in Game
          /\ last_scans' = [last_scans EXCEPT ![Head(scans).app] = Head(scans).pid]
      BY <2>3 DEF GameMove
    <3>2. last_scans'[Head(scans).app] = Head(scans).pid
      BY <3>1 DEF Game, TypeOK, TablesOK
    <3> QED
      BY <3>1, <3>2 DEF PublishedScanned
  <2>4. CASE ProcessMove /\ UNCHANGED last_scans
    <3>1. CASE CheckMove
      BY <2>4, <3>1 DEF CheckMove, PublishedScanned
    <3>2. CASE DedupMove /\ pc'[P] = "track" /\ UNCHANGED cur
      BY <2>4, <3>2 DEF DedupMove, PublishedScanned
    <3>3. CASE pc'[P] \in {"idle", "next", "cache", "send"}
      BY <3>3 DEF PublishedScanned
    <3> QED
      BY <2>4, <3>1, <3>2, <3>3 DEF ProcessMove, TakeMove, YieldMove, DedupMove, GenericMove,
         ClearMove, CacheMove, SendMove, Onward
  <2> QED
    BY <2>1, <2>2, <2>3, <2>4
<1> QED
  BY <1>2, <1>3, <1>4, <1>5 DEF Next

-----------------------------------------------------------------------------
(* last_process tells which slots have a generic card.                     *)

\* What a thread tracks or caches is about a slot it has in hand.
Confined(t) ==
  \A a \in Apps : a \notin InHand(t) => last_process'[a] = last_process[a] /\ cache'[a] = cache[a]

\* The replay cache changes at the socket broadcast.
LEMMA CacheConfined ==
  ASSUME TypeOK, SlotsInHand, NEW t \in Threads, CacheMove(t)
  PROVE  Confined(t)
<1>1. /\ pc[t] = "cache" /\ UNCHANGED last_process
      /\ cache' = [cache EXCEPT ![out[t].socket] = out[t].card]
  BY DEF CacheMove
<1>2. out[t].socket \in Apps => out[t].socket \in InHand(t)
  BY <1>1 DEF SlotsInHand
<1>3. cache \in [Sockets -> Card \cup {None}]
  BY DEF TypeOK, TablesOK
<1> QED
  BY <1>1, <1>2, <1>3 DEF Confined

\* An event loop tracks and caches slots it has in hand only.
LEMMA LoopConfined ==
  ASSUME TypeOK, SlotsInHand, NEW c \in Channels, Dropped(c) \/ Accepted(c) \/ LoopMove(c)
  PROVE  Confined(c)
<1>0. c \in Threads
  BY ThreadNames
<1>1. ASSUME NEW game \in todo[c], ResumeMove(c, game) PROVE Confined(c)
  <2>1. game.app \in InHand(c) /\ UNCHANGED cache
        /\ last_process' = [last_process EXCEPT ![game.app] = game.pid]
    BY <1>0, <1>1 DEF SlotsInHand, ResumeMove
  <2> QED
    BY <2>1 DEF Confined, TypeOK, TablesOK
<1>2. CASE UNCHANGED <<last_process, cache>>
  BY <1>2 DEF Confined
<1> QED
  BY <1>0, <1>1, <1>2, CacheConfined DEF Dropped, Accepted, Taken, LoopMove, NoteMove, CompareMove,
     HandBackMove, PublishMove, SkipMove, SendMove

\* The process loop tracks and caches slots it has in hand only.
LEMMA ProcessConfined ==
  ASSUME TypeOK, SlotsInHand, NoneMove \/ GameMove \/ ProcessMove
  PROVE  Confined(P)
<1>1. CASE TakeMove
  <2>1. InHand(P) = Apps
    BY <1>1, Hands DEF TakeMove, SlotsInHand, ScanSlots
  <2> QED
    BY <2>1 DEF Confined
<1>2. CASE YieldMove
  <2>1. cur[P].app \in InHand(P) /\ UNCHANGED cache
        /\ last_process' = Without(last_process, cur[P].app)
    BY <1>2, GameInHand DEF YieldMove
  <2> QED
    BY <2>1 DEF Confined, Without, TypeOK, TablesOK
<1>3. CASE GenericMove
  <2>1. cur[P].app \in InHand(P) /\ UNCHANGED cache
        /\ last_process' = [last_process EXCEPT ![cur[P].app] = cur[P].pid]
    BY <1>3, GameInHand DEF GenericMove
  <2> QED
    BY <2>1 DEF Confined, TypeOK, TablesOK
<1>4. CASE UNCHANGED <<last_process, cache>>
  BY <1>4 DEF Confined
<1> QED
  BY <1>1, <1>2, <1>3, <1>4, CacheConfined, ThreadNames DEF NoneMove, GameMove, ProcessMove,
     CheckMove, DedupMove, ClearMove, SendMove

\* A broadcast of a slot's card agrees with what is tracked.
Fits(t) ==
  pc[t] = "cache" /\ out[t].socket \in Apps
    => (out[t].card # None <=> last_process[out[t].socket] # None)

Unclear == \A game \in todo[P] : last_process[game.app] = None

Balanced(a) ==
  \/ last_process[a] # None <=> cache[a] # None
  \/ \E t \in Threads : pc[t] = "cache" /\ out[t].socket = a
  \/ \E game \in todo[P] : game.app = a

\* The other threads' part in it.
LEMMA OthersFit ==
  ASSUME TypeOK, Exclusive, SlotsInHand, NEW t \in Threads, OnlyOf(t), Confined(t),
         NEW u \in Threads \ {t}, Fits(u)
  PROVE  Fits(u)'
<1>1. pc[u] = "cache" /\ out[u].socket \in Apps => out[u].socket \notin InHand(t)
  BY SlotsApart DEF SlotsInHand
<1> QED
  BY <1>1 DEF OnlyOf, Confined, Fits

\* What the process loop has yet to clear stays untracked under the other threads.
LEMMA UnclearKept ==
  ASSUME TypeOK, Exclusive, SlotsInHand, NEW t \in Threads \ {P}, OnlyOf(t), Confined(t), Unclear
  PROVE  Unclear'
<1>1. P \in Threads
  BY ThreadNames
<1>2. \A game \in todo[P] : game.app \in InHand(P) /\ game.app \in Apps
  BY <1>1 DEF SlotsInHand, TypeOK, ThreadsOK, Game
<1>3. \A game \in todo[P] : game.app \notin InHand(t)
  BY <1>1, <1>2, SlotsApart
<1> QED
  BY <1>1, <1>2, <1>3 DEF OnlyOf, Confined, Unclear

\* A slot the moving thread has not in hand keeps record and card.
LEMMA OthersBalanced ==
  ASSUME TypeOK, SlotsInHand, NEW t \in Threads, OnlyOf(t), Confined(t),
         NEW a \in Apps, a \notin InHand(t), Balanced(a)
  PROVE  Balanced(a)'
<1>1. last_process'[a] = last_process[a] /\ cache'[a] = cache[a]
  BY DEF Confined
<1>2. ASSUME NEW u \in Threads, pc[u] = "cache", out[u].socket = a PROVE pc'[u] = "cache" /\ out'[u].socket = a
  <2>1. a \in InHand(u)
    BY <1>2 DEF SlotsInHand
  <2> QED
    BY <1>2, <2>1 DEF OnlyOf
<1>3. ASSUME NEW game \in todo[P], game.app = a PROVE game \in todo'[P]
  <2>1. a \in InHand(P) /\ P \in Threads
    BY <1>3, ThreadNames DEF SlotsInHand
  <2> QED
    BY <2>1 DEF OnlyOf
<1> QED
  BY <1>1, <1>2, <1>3 DEF Balanced

\* A step that neither tracks nor caches, of a thread that was not about to.
LEMMA QuietBalanced ==
  ASSUME NEW t \in Threads, OnlyOf(t), pc[t] # "cache", NEW a \in Apps,
         last_process'[a] = last_process[a], cache'[a] = cache[a],
         \A game \in todo[P] : game.app = a => game \in todo'[P],
         Balanced(a)
  PROVE  Balanced(a)'
BY DEF OnlyOf, Balanced

\* Caching a card settles its slot.
LEMMA CacheBalanced ==
  ASSUME TypeOK, NEW t \in Threads, OnlyOf(t), CacheMove(t), Fits(t),
         NEW a \in Apps, Balanced(a)
  PROVE  Balanced(a)'
<1>1. /\ pc[t] = "cache" /\ UNCHANGED <<last_process, todo>>
      /\ cache' = [cache EXCEPT ![out[t].socket] = out[t].card]
      /\ cache \in [Sockets -> Card \cup {None}] /\ a \in Sockets
  BY DEF CacheMove, TypeOK, TablesOK, Sockets
<1>2. CASE out[t].socket = a
  <2>1. cache'[a] = out[t].card
    BY <1>1, <1>2
  <2> QED
    BY <1>1, <1>2, <2>1 DEF Fits, Balanced
<1>3. CASE out[t].socket # a
  <2>1. cache'[a] = cache[a]
    BY <1>1, <1>3
  <2> QED
    BY <1>1, <1>3, <2>1 DEF Balanced, OnlyOf
<1> QED
  BY <1>2, <1>3

\* An event loop that tracks a card is about to cache it.
LEMMA LoopTracks ==
  ASSUME TypeOK, SlotsInHand, NEW c \in Channels, OnlyOf(c),
         Dropped(c) \/ Accepted(c) \/ LoopMove(c), Fits(c)
  PROVE  /\ Fits(c)'
         /\ \A a \in Apps : Balanced(a) => Balanced(a)'
<1>0. c \in Threads /\ c # P /\ P \in Threads
  BY ThreadNames
<1>p. todo'[P] = todo[P]
  BY <1>0 DEF OnlyOf
<1>q. ASSUME pc[c] # "cache", UNCHANGED <<last_process, cache>> PROVE \A a \in Apps : Balanced(a) => Balanced(a)'
  BY <1>0, <1>p, <1>q, QuietBalanced
<1>1. CASE Dropped(c) \/ Accepted(c)
  <2>1. pc[c] = "idle" /\ UNCHANGED <<last_process, cache>> /\ pc'[c] # "cache"
    BY <1>1 DEF Dropped, Accepted, Taken
  <2> QED
    BY <1>q, <2>1 DEF Fits
<1>2. CASE NoteMove(c) \/ CompareMove(c) \/ HandBackMove(c) \/ \E game \in todo[c] : SkipMove(c, game)
  <2>1. pc[c] # "cache" /\ UNCHANGED <<last_process, cache>> /\ pc'[c] # "cache"
    BY <1>2 DEF NoteMove, CompareMove, HandBackMove, SkipMove, Onward
  <2> QED
    BY <1>q, <2>1 DEF Fits
<1>3. CASE SendMove(c)
  <2>1. pc[c] # "cache" /\ UNCHANGED <<last_process, cache>> /\ pc'[c] # "cache"
    BY <1>3 DEF SendMove, Onward
  <2> QED
    BY <1>q, <2>1 DEF Fits
<1>4. CASE PublishMove(c)
  <2>1. pc[c] # "cache" /\ UNCHANGED <<last_process, cache>> /\ out'[c].socket = cur[c].pid
        /\ cur[c] \in Frame
    BY <1>4 DEF PublishMove, TypeOK, ThreadsOK
  <2>2. out'[c].socket \notin Apps
    BY <2>1, FrameParts
  <2> QED
    BY <1>q, <2>1, <2>2 DEF Fits
<1>5. ASSUME NEW game \in todo[c], ResumeMove(c, game)
      PROVE  Fits(c)' /\ \A a \in Apps : Balanced(a) => Balanced(a)'
  <2>0. game \in Game /\ game.app \in Apps /\ game.pid \in Pids /\ GenericCard(game) # None
    <3>1. game \in Game
      BY <1>0 DEF TypeOK, ThreadsOK
    <3> QED
      BY <3>1, GenericCardType DEF Game
  <2>1. /\ pc[c] # "cache" /\ pc'[c] = "cache" /\ UNCHANGED cache
        /\ last_process' = [last_process EXCEPT ![game.app] = game.pid]
        /\ out'[c].socket = game.app /\ out'[c].card = GenericCard(game)
    BY <1>5 DEF ResumeMove
  <2>2. /\ last_process'[game.app] # None
        /\ \A a \in Apps \ {game.app} : last_process'[a] = last_process[a]
    BY <2>0, <2>1 DEF TypeOK, TablesOK
  <2>3. Fits(c)'
    BY <2>0, <2>1, <2>2 DEF Fits
  <2>4. Balanced(game.app)'
    BY <1>0, <2>1 DEF Balanced
  <2>5. ASSUME NEW a \in Apps \ {game.app}, Balanced(a) PROVE Balanced(a)'
    BY <1>0, <1>p, <2>1, <2>2, <2>5, QuietBalanced
  <2> QED
    BY <2>3, <2>4, <2>5
<1>6. CASE CacheMove(c)
  BY <1>0, <1>6, CacheBalanced DEF CacheMove, Fits
<1> QED
  BY <1>1, <1>2, <1>3, <1>4, <1>5, <1>6 DEF LoopMove

\* The process loop tracks a card it is about to cache, and forgets one whose clear
\* it is about to broadcast.
LEMMA ProcessTracks ==
  ASSUME TypeOK, SlotsInHand, OnlyOf(P), NoneMove \/ GameMove \/ ProcessMove,
         Fits(P), Unclear
  PROVE  /\ Fits(P)' /\ Unclear'
         /\ \A a \in Apps : Balanced(a) => Balanced(a)'
<1>0. P \in Threads
  BY ThreadNames
<1>t. /\ last_process \in [Apps -> Pids \cup {None}] /\ todo[P] \subseteq Game
      /\ \A game \in Game : game.app \in Apps /\ game.pid \in Pids
  BY <1>0 DEF TypeOK, TablesOK, ThreadsOK, Game
<1>1. ASSUME pc[P] # "cache", pc'[P] # "cache", UNCHANGED <<last_process, cache, todo>>
      PROVE  /\ Fits(P)' /\ Unclear'
             /\ \A a \in Apps : Balanced(a) => Balanced(a)'
  BY <1>0, <1>1, QuietBalanced DEF Fits, Unclear
<1>2. CASE NoneMove \/ GameMove
  BY <1>1, <1>2 DEF NoneMove, GameMove
<1>3. CASE CheckMove \/ DedupMove \/ SendMove(P)
  BY <1>1, <1>3 DEF CheckMove, DedupMove, SendMove, Onward
<1>4. CASE TakeMove
  <2>1. /\ pc[P] = "take" /\ UNCHANGED cache /\ last_process' = [a \in Apps |-> None]
        /\ todo'[P] = {[app |-> a, pid |-> last_process[a]] : a \in Keys(last_process)}
        /\ pc'[P] # "cache" /\ todo[P] = {}
    BY <1>0, <1>4 DEF TakeMove, Onward, SlotsInHand
  <2>2. Fits(P)'
    BY <2>1 DEF Fits
  <2>3. Unclear'
    BY <1>t, <2>1 DEF Unclear, Keys
  <2>4. ASSUME NEW a \in Apps, Balanced(a) PROVE Balanced(a)'
    <3>1. CASE last_process[a] = None
      BY <1>0, <2>1, <2>4, <3>1, QuietBalanced
    <3>2. CASE last_process[a] # None
      <4>1. [app |-> a, pid |-> last_process[a]] \in todo'[P]
        BY <1>t, <2>1, <3>2 DEF Keys
      <4> QED
        BY <4>1 DEF Balanced
    <3> QED
      BY <3>1, <3>2
  <2> QED
    BY <2>2, <2>3, <2>4
<1>5. CASE YieldMove
  <2>1. /\ pc[P] = "yield" /\ last_process' = Without(last_process, cur[P].app)
        /\ UNCHANGED <<todo, cache>> /\ cur[P].app \in Apps
    BY <1>5, GameInHand DEF YieldMove
  <2>2. /\ last_process'[cur[P].app] = None
        /\ \A a \in Apps \ {cur[P].app} : last_process'[a] = last_process[a]
    BY <1>t, <2>1 DEF Without
  <2>3. Unclear'
    BY <1>t, <2>1, <2>2 DEF Unclear
  <2>4. CASE last_process[cur[P].app] = None
    <3>1. pc'[P] # "cache"
      BY <1>5, <2>4 DEF YieldMove, Onward
    <3>2. \A a \in Apps : last_process'[a] = last_process[a]
      BY <2>2, <2>4
    <3> QED
      BY <1>0, <2>1, <2>3, <3>1, <3>2, QuietBalanced DEF Fits
  <2>5. CASE last_process[cur[P].app] # None
    <3>1. pc'[P] = "cache" /\ out'[P].socket = cur[P].app /\ out'[P].card = None
      BY <1>5, <2>5 DEF YieldMove
    <3>2. ASSUME NEW a \in Apps, a = cur[P].app PROVE Balanced(a)'
      BY <1>0, <3>1, <3>2 DEF Balanced
    <3>3. ASSUME NEW a \in Apps \ {cur[P].app}, Balanced(a) PROVE Balanced(a)'
      BY <1>0, <2>1, <2>2, <3>3, QuietBalanced
    <3> QED
      BY <2>2, <2>3, <3>1, <3>2, <3>3 DEF Fits
  <2> QED
    BY <2>4, <2>5
<1>6. CASE GenericMove
  <2>0. cur[P] \in Game /\ GenericCard(cur[P]) # None
    BY <1>6, GenericCardType DEF GenericMove, TypeOK, ThreadsOK
  <2>1. /\ pc[P] = "track" /\ last_process' = [last_process EXCEPT ![cur[P].app] = cur[P].pid]
        /\ UNCHANGED <<todo, cache>> /\ cur[P].app \in Apps /\ cur[P].pid \in Pids
        /\ pc'[P] = "cache" /\ out'[P].socket = cur[P].app /\ out'[P].card = GenericCard(cur[P])
    BY <1>6, GameInHand DEF GenericMove
  <2>2. /\ last_process'[cur[P].app] # None
        /\ \A a \in Apps \ {cur[P].app} : last_process'[a] = last_process[a]
    BY <1>t, <2>1
  <2>3. Unclear'
    <3>1. cur[P] # None
      BY <2>0
    <3> QED
      BY <2>1, <3>1 DEF Unclear, SlotsInHand
  <2>4. ASSUME NEW a \in Apps, a = cur[P].app PROVE Balanced(a)'
    BY <1>0, <2>1, <2>4 DEF Balanced
  <2>5. ASSUME NEW a \in Apps \ {cur[P].app}, Balanced(a) PROVE Balanced(a)'
    BY <1>0, <2>1, <2>2, <2>5, QuietBalanced
  <2> QED
    BY <2>0, <2>1, <2>2, <2>3, <2>4, <2>5 DEF Fits
<1>7. ASSUME NEW game \in todo[P], ClearMove(game)
      PROVE  /\ Fits(P)' /\ Unclear'
             /\ \A a \in Apps : Balanced(a) => Balanced(a)'
  <2>1. /\ pc[P] = "next" /\ pc'[P] = "cache" /\ todo'[P] = todo[P] \ {game}
        /\ UNCHANGED <<last_process, cache>>
        /\ out'[P].socket = game.app /\ out'[P].card = None
    BY <1>7 DEF ClearMove
  <2>2. last_process[game.app] = None
    BY DEF Unclear
  <2>3. Balanced(game.app)'
    BY <1>0, <2>1 DEF Balanced
  <2>4. ASSUME NEW a \in Apps \ {game.app}, Balanced(a) PROVE Balanced(a)'
    BY <1>0, <2>1, <2>4, QuietBalanced
  <2> QED
    BY <2>1, <2>2, <2>3, <2>4 DEF Fits, Unclear
<1>8. CASE CacheMove(P)
  BY <1>0, <1>8, CacheBalanced DEF CacheMove, Fits, Unclear
<1> QED
  BY <1>2, <1>3, <1>4, <1>5, <1>6, <1>7, <1>8 DEF ProcessMove

\* last_process tells which slots have a generic card.
LEMMA TrackedParts ==
  TrackedIsCached <=>
    /\ \A t \in Threads : Fits(t)
    /\ Unclear
    /\ \A a \in Apps : Balanced(a)
    /\ \A a \in Apps : last_scans[a] = None => last_process[a] = None \/ pc[P] = "take"
BY DEF TrackedIsCached, Fits, Unclear, Balanced

\* The same of the next state.
LEMMA TrackedAfter ==
  ASSUME \A t \in Threads : Fits(t)', Unclear', \A a \in Apps : Balanced(a)',
         \A a \in Apps : last_scans'[a] = None => last_process'[a] = None \/ pc'[P] = "take"
  PROVE  TrackedIsCached'
BY DEF TrackedIsCached, Fits, Unclear, Balanced

\* TrackedIsCached is kept.
LEMMA NextTracked ==
  ASSUME TypeOK, Isolated, Exclusive, SlotsInHand, PendingScanned, PublishedScanned,
         RefreshAlone, TrackedIsCached, [Next]_vars
  PROVE  TrackedIsCached'
<1>t. /\ last_process \in [Apps -> Pids \cup {None}] /\ last_scans \in [Apps -> Pids \cup {None}]
      /\ None \notin Pids
  BY DEF TypeOK, TablesOK
<1>p. /\ \A t \in Threads : Fits(t)
      /\ Unclear
      /\ \A a \in Apps : Balanced(a)
      /\ \A a \in Apps : last_scans[a] = None => last_process[a] = None \/ pc[P] = "take"
  BY TrackedParts
<1>1. CASE UNCHANGED vars \/ Environment
  <2>1. UNCHANGED <<tables, local>>
    BY <1>1, OutsideMoves DEF vars
  <2> QED
    BY <2>1 DEF tables, local, TrackedIsCached
<1>2. CASE RefreshThread
  <2>1. /\ OnlyOf(R) /\ UNCHANGED <<outside, tables, cur, todo, out>>
        /\ CopyMove \/ \E copy \in copies : CopySent(copy)
    BY <1>2, RefreshMoves
  <2>2. pc[R] # "cache" /\ pc'[R] # "cache"
    BY <2>1 DEF CopyMove, CopySent
  <2>3. \A t \in Threads : pc'[t] = "cache" <=> pc[t] = "cache"
    BY <2>1, <2>2 DEF OnlyOf
  <2>4. pc'[P] = pc[P]
    BY <2>1, ThreadNames DEF OnlyOf
  <2> QED
    BY <2>1, <2>3, <2>4 DEF tables, TrackedIsCached
<1>3. ASSUME NEW c \in Channels, EventLoop(c) \/ Broadcasting(c) PROVE TrackedIsCached'
  <2>1. /\ OnlyOf(c) /\ UNCHANGED last_scans /\ c \in Threads \ {P} /\ P \in Threads \ {c}
        /\ Dropped(c) \/ Accepted(c) \/ LoopMove(c)
    BY <1>3, LoopMoves, ThreadNames
  <2>2. Confined(c)
    BY <2>1, LoopConfined
  <2>3. /\ Fits(c)'
        /\ \A a \in Apps : Balanced(a)'
    BY <1>p, <2>1, LoopTracks
  <2>4. \A u \in Threads \ {c} : Fits(u)'
    BY <1>p, <2>1, <2>2, OthersFit
  <2>5. Unclear'
    BY <1>p, <2>1, <2>2, UnclearKept
  <2>6. pc'[P] = pc[P]
    BY <2>1 DEF OnlyOf
  <2>7. ASSUME NEW a \in Apps, last_scans'[a] = None PROVE last_process'[a] = None \/ pc'[P] = "take"
    <3>1. ASSUME NEW game \in todo[c], ResumeMove(c, game) PROVE last_process'[a] = last_process[a]
      <4>1. game \in Game
        BY <2>1 DEF TypeOK, ThreadsOK
      <4>2. last_scans[game.app] = game.pid /\ game.pid # None
        BY <4>1, <1>t DEF PendingScanned, Game
      <4>3. last_process' = [last_process EXCEPT ![game.app] = game.pid]
        BY <3>1 DEF ResumeMove
      <4> QED
        BY <1>t, <2>1, <2>7, <4>2, <4>3
    <3>2. last_process' = last_process \/ \E game \in todo[c] : ResumeMove(c, game)
      BY <2>1 DEF Dropped, Accepted, Taken, LoopMove, NoteMove, CompareMove, HandBackMove,
         PublishMove, SkipMove, CacheMove, SendMove
    <3>3. last_process'[a] = last_process[a]
      BY <3>1, <3>2
    <3> QED
      BY <1>p, <2>1, <2>6, <2>7, <3>3
  <2> QED
    BY <2>3, <2>4, <2>5, <2>7, TrackedAfter
<1>4. CASE ProcessLoop \/ Broadcasting(P)
  <2>1. /\ OnlyOf(P) /\ P \in Threads
        /\ NoneMove \/ GameMove \/ (ProcessMove /\ UNCHANGED last_scans)
    BY <1>4, ProcessMoves, ThreadNames
  <2>2. Confined(P)
    BY <2>1, ProcessConfined
  <2>3. /\ Fits(P)' /\ Unclear'
        /\ \A a \in Apps : Balanced(a)'
    BY <1>p, <2>1, ProcessTracks
  <2>4. \A u \in Threads \ {P} : Fits(u)'
    BY <1>p, <2>1, <2>2, OthersFit
  <2>5. ASSUME NEW a \in Apps, last_scans'[a] = None PROVE last_process'[a] = None \/ pc'[P] = "take"
    <3>1. CASE NoneMove
      BY <3>1 DEF NoneMove
    <3>2. CASE GameMove
      <4>1. /\ pc[P] = "idle" /\ UNCHANGED last_process /\ Head(scans) \in Game
            /\ last_scans' = [last_scans EXCEPT ![Head(scans).app] = Head(scans).pid]
        BY <3>2 DEF GameMove
      <4>2. last_scans[a] = None
        BY <1>t, <2>5, <4>1 DEF Game
      <4> QED
        BY <1>p, <4>1, <4>2
    <3>3. CASE TakeMove
      BY <3>3 DEF TakeMove
    <3>4. CASE YieldMove /\ UNCHANGED last_scans
      <4>1. pc[P] = "yield" /\ last_process' = Without(last_process, cur[P].app)
        BY <3>4 DEF YieldMove
      <4> QED
        BY <1>p, <1>t, <2>5, <3>4, <4>1 DEF Without
    <3>5. CASE GenericMove /\ UNCHANGED last_scans
      <4>1. pc[P] = "track" /\ last_process' = [last_process EXCEPT ![cur[P].app] = cur[P].pid]
        BY <3>5 DEF GenericMove
      <4>2. last_scans[cur[P].app] = cur[P].pid /\ cur[P].pid # None
        BY <1>t, <4>1, GameInHand DEF PublishedScanned
      <4> QED
        BY <1>p, <1>t, <2>5, <3>5, <4>1, <4>2
    <3>6. CASE UNCHANGED <<last_process, last_scans>> /\ pc[P] # "take"
      BY <1>p, <2>5, <3>6
    <3> QED
      BY <2>1, <3>1, <3>2, <3>3, <3>4, <3>5, <3>6 DEF ProcessMove, CheckMove, DedupMove,
         ClearMove, CacheMove, SendMove
  <2> QED
    BY <2>3, <2>4, <2>5, TrackedAfter
<1> QED
  BY <1>1, <1>2, <1>3, <1>4 DEF Next

-----------------------------------------------------------------------------
(* A scanned game without an owner gets its card.                          *)

\* The slot has its card or will have it.
Lit(a) ==
  \/ last_process[a] # None
  \/ pc[P] \in {"check", "dedup", "track"} /\ cur[P].app = a
  \/ \E c \in Channels : \E game \in todo[c] : game.app = a

\* NotDark, slot by slot.
LEMMA LitParts ==
  ASSUME NotDark, NEW a \in Apps, last_scans[a] \in Alive, live_ipc[a] = None
  PROVE  Lit(a)
BY DEF NotDark, Lit

\* The same after a step.
LEMMA LitAfter ==
  ASSUME \A a \in Apps : last_scans'[a] \in Alive' /\ live_ipc'[a] = None => Lit(a)'
  PROVE  NotDark'
BY DEF NotDark, Lit

\* NotDark is kept: a slot loses its owner by a clear, which resumes the game, and
\* loses its card to an owner or to a scan of nothing.
LEMMA NextNotDark ==
  ASSUME TypeOK, Isolated, SlotsInHand, GamesReported, PendingScanned, PublishedScanned,
         NotDark, [Next]_vars
  PROVE  NotDark'
<1>t. /\ last_process \in [Apps -> Pids \cup {None}] /\ last_scans \in [Apps -> Pids \cup {None}]
      /\ live_ipc \in [Apps -> Pids \cup {None}]
      /\ None \notin Pids
  BY DEF TypeOK, TablesOK
<1>1. CASE UNCHANGED vars \/ Environment
  <2>1. UNCHANGED <<tables, local>>
    BY <1>1, OutsideMoves DEF vars
  <2>2. \A a \in Apps : last_scans'[a] \in Alive' => last_scans[a] \in Alive
    <3>1. UNCHANGED life \/ LifeGoesOn
      BY <1>1, OutsideMoves DEF vars, outside, FrameComes, EventComes
    <3>2. UNCHANGED last_scans
      BY <2>1 DEF tables
    <3> QED
      BY <3>1, <3>2, <1>t DEF LifeGoesOn, Alive, GamesReported, Reported
  <2> QED
    BY <2>1, <2>2 DEF tables, local, NotDark
<1>2. CASE RefreshThread
  <2>1. OnlyOf(R) /\ UNCHANGED <<outside, tables, cur, todo>>
    BY <1>2, RefreshMoves
  <2>2. pc'[P] = pc[P]
    BY <2>1, ThreadNames DEF OnlyOf
  <2> QED
    BY <2>1, <2>2 DEF tables, outside, Alive, NotDark
<1>3. ASSUME NEW c \in Channels, EventLoop(c) \/ Broadcasting(c) PROVE NotDark'
  <2>1. /\ OnlyOf(c) /\ UNCHANGED <<life, last_scans>> /\ c \in Threads /\ P \in Threads \ {c}
        /\ Dropped(c) \/ Accepted(c) \/ LoopMove(c)
    BY <1>3, LoopMoves, ThreadNames
  <2>2. /\ pc'[P] = pc[P] /\ cur'[P] = cur[P] /\ Alive' = Alive
        /\ \A d \in Channels \ {c} : todo'[d] = todo[d]
    BY <2>1, ThreadNames DEF OnlyOf, Alive
  <2>3. SUFFICES ASSUME NEW a \in Apps, last_scans[a] \in Alive, live_ipc'[a] = None
                 PROVE  Lit(a)'
    BY <2>1, <2>2, LitAfter
  <2>l. last_scans[a] \in Pids
    BY <2>3 DEF Alive
  <2>4. ASSUME live_ipc[a] = None, last_process'[a] = last_process[a],
               \A game \in todo[c] : game.app = a => game \in todo'[c]
        PROVE  Lit(a)'
    <3>1. Lit(a)
      BY <2>3, <2>4, LitParts
    <3> QED
      BY <3>1, <2>2, <2>4 DEF Lit
  <2>5. CASE NoteMove(c)
    <3>1. /\ live_ipc' = [live_ipc EXCEPT ![cur[c].app] = cur[c].pid]
          /\ UNCHANGED <<last_process, todo>> /\ cur[c] \in Frame
      BY <2>5 DEF NoteMove, TypeOK, ThreadsOK
    <3>2. cur[c].pid # None
      BY <3>1, FrameParts
    <3> QED
      BY <1>t, <2>3, <2>4, <3>1, <3>2
  <2>6. CASE HandBackMove(c)
    <3>1. /\ live_ipc' = [b \in Apps |-> IF b \in Released(cur[c]) THEN None ELSE live_ipc[b]]
          /\ todo'[c] = Resumable(Released(cur[c])) /\ UNCHANGED last_process
          /\ todo[c] = {}
      BY <2>1, <2>6 DEF HandBackMove, SlotsInHand
    <3>2. CASE a \in Released(cur[c])
      <4>1. [app |-> a, pid |-> last_scans[a]] \in todo'[c]
        BY <1>t, <2>l, <3>1, <3>2 DEF Resumable, Keys
      <4> QED
        BY <4>1 DEF Lit
    <3>3. CASE a \notin Released(cur[c])
      BY <2>3, <2>4, <3>1, <3>3
    <3> QED
      BY <3>2, <3>3
  <2>7. ASSUME NEW game \in todo[c], ResumeMove(c, game) PROVE Lit(a)'
    <3>0. game \in Game
      BY <2>1 DEF TypeOK, ThreadsOK
    <3>1. /\ last_process' = [last_process EXCEPT ![game.app] = game.pid]
          /\ todo'[c] = todo[c] \ {game} /\ UNCHANGED live_ipc
          /\ game.pid # None
      BY <1>t, <2>7, <3>0 DEF ResumeMove, Game
    <3>2. CASE a = game.app
      BY <1>t, <3>1, <3>2 DEF Lit
    <3>3. CASE a # game.app
      BY <1>t, <2>3, <2>4, <3>1, <3>3
    <3> QED
      BY <3>2, <3>3
  <2>8. ASSUME NEW game \in todo[c], SkipMove(c, game) PROVE Lit(a)'
    <3>1. /\ todo'[c] = todo[c] \ {game} /\ UNCHANGED <<live_ipc, last_process>>
          /\ game.pid \notin Alive /\ last_scans[game.app] = game.pid
      BY <2>8 DEF SkipMove, PendingScanned
    <3> QED
      BY <2>3, <2>4, <3>1
  <2>9. CASE UNCHANGED <<live_ipc, last_process>> /\ todo'[c] = todo[c]
    BY <2>3, <2>4, <2>9
  <2> QED
    BY <2>1, <2>5, <2>6, <2>7, <2>8, <2>9 DEF Dropped, Accepted, Taken, LoopMove, CompareMove,
       PublishMove, CacheMove, SendMove
<1>4. CASE ProcessLoop \/ Broadcasting(P)
  <2>1. /\ OnlyOf(P) /\ P \in Threads /\ UNCHANGED life
        /\ NoneMove \/ GameMove \/ (ProcessMove /\ UNCHANGED last_scans)
    BY <1>4, ProcessMoves, ThreadNames
  <2>2. Alive' = Alive /\ \A d \in Channels : todo'[d] = todo[d]
    BY <2>1, ThreadNames DEF OnlyOf, Alive
  <2>3. SUFFICES ASSUME NEW a \in Apps, last_scans'[a] \in Alive, live_ipc'[a] = None
                 PROVE  Lit(a)'
    BY <2>2, LitAfter
  <2>l. last_scans'[a] # None
    BY <2>3, <1>t DEF Alive
  <2>u. UNCHANGED live_ipc
    BY <2>1 DEF NoneMove, GameMove, ProcessMove, TakeMove, CheckMove, YieldMove, DedupMove,
       GenericMove, ClearMove, CacheMove, SendMove
  <2>4. ASSUME last_scans'[a] = last_scans[a], last_process'[a] = last_process[a],
               pc[P] \in {"check", "dedup", "track"} /\ cur[P].app = a => Lit(a)'
        PROVE  Lit(a)'
    <3>1. Lit(a)
      BY <2>3, <2>u, <2>4, LitParts
    <3> QED
      BY <3>1, <2>2, <2>4 DEF Lit
  <2>5. CASE NoneMove
    BY <2>l, <2>5 DEF NoneMove
  <2>6. CASE GameMove
    <3>1. /\ pc[P] = "idle" /\ pc'[P] = "check" /\ cur'[P] = Head(scans) /\ UNCHANGED last_process
          /\ last_scans' = [last_scans EXCEPT ![Head(scans).app] = Head(scans).pid]
      BY <2>6 DEF GameMove
    <3>2. CASE a = Head(scans).app
      BY <3>1, <3>2 DEF Lit
    <3>3. CASE a # Head(scans).app
      BY <1>t, <2>4, <3>1, <3>3
    <3> QED
      BY <3>2, <3>3
  <2>7. CASE TakeMove /\ UNCHANGED last_scans
    <3>1. last_scans[a] = None
      BY <2>7 DEF TakeMove, SlotsInHand
    <3> QED
      BY <2>l, <2>7, <3>1
  <2>8. CASE CheckMove /\ UNCHANGED last_scans
    <3>1. /\ pc[P] = "check" /\ UNCHANGED <<cur, last_process>>
          /\ pc'[P] = IF live_ipc[cur[P].app] # None THEN "yield" ELSE "dedup"
      BY <2>8 DEF CheckMove
    <3>2. cur[P].app = a => Lit(a)'
      BY <2>3, <2>u, <3>1 DEF Lit
    <3> QED
      BY <2>4, <2>8, <3>1, <3>2
  <2>9. CASE YieldMove /\ UNCHANGED last_scans
    <3>1. pc[P] = "yield" /\ last_process' = Without(last_process, cur[P].app)
      BY <2>9 DEF YieldMove
    <3>2. a # cur[P].app
      BY <2>3, <2>u, <3>1 DEF PublishedScanned
    <3> QED
      BY <1>t, <2>4, <2>9, <3>1, <3>2 DEF Without
  <2>10. CASE DedupMove /\ UNCHANGED last_scans
    <3>1. /\ pc[P] = "dedup" /\ UNCHANGED last_process
          /\ last_process[cur[P].app] # None \/ (pc'[P] = "track" /\ UNCHANGED cur)
      BY <2>10 DEF DedupMove
    <3>2. cur[P].app = a => Lit(a)'
      BY <3>1 DEF Lit
    <3> QED
      BY <2>4, <2>10, <3>1, <3>2
  <2>11. CASE GenericMove /\ UNCHANGED last_scans
    <3>1. /\ pc[P] = "track" /\ last_process' = [last_process EXCEPT ![cur[P].app] = cur[P].pid]
      BY <2>11 DEF GenericMove
    <3>2. cur[P].pid # None
      BY <1>t, <3>1, GameInHand
    <3>3. CASE a = cur[P].app
      BY <1>t, <3>1, <3>2, <3>3 DEF Lit
    <3>4. CASE a # cur[P].app
      BY <1>t, <2>4, <2>11, <3>1, <3>4
    <3> QED
      BY <3>3, <3>4
  <2>12. CASE UNCHANGED <<last_scans, last_process>> /\ pc[P] \in {"next", "cache", "send"}
    BY <2>4, <2>12
  <2> QED
    BY <2>1, <2>5, <2>6, <2>7, <2>8, <2>9, <2>10, <2>11, <2>12 DEF ProcessMove, ClearMove,
       CacheMove, SendMove
<1> QED
  BY <1>1, <1>2, <1>3, <1>4 DEF Next

-----------------------------------------------------------------------------
(* Clients show what is cached.                                            *)

\* Two broadcasts under way are about different sockets.
LEMMA SocketsApart ==
  ASSUME TypeOK, FramesRouted, PayloadsFit, HandsApart, SlotsInHand,
         NEW t \in Threads, NEW u \in Threads \ {t},
         pc[t] \in {"cache", "send"}, pc[u] \in {"cache", "send"}
  PROVE  out[t].socket # out[u].socket
<1>1. ASSUME NEW v \in Threads, pc[v] \in {"cache", "send"}, out[v].socket \notin Apps
      PROVE  /\ v \in Channels /\ out[v].socket \in Companions
             /\ ChannelOf[out[v].socket] = v
  <2>1. v \in Channels /\ out[v].socket = cur[v].pid
    BY <1>1 DEF PayloadsFit
  <2>2. cur[v] \in Frame /\ Routed(v, cur[v])
    BY <1>1, <2>1 DEF TypeOK, ThreadsOK, FramesRouted
  <2> QED
    BY <2>1, <2>2, FrameParts DEF Routed
<1>2. ASSUME NEW v \in Threads, pc[v] \in {"cache", "send"}, out[v].socket \in Apps
      PROVE  out[v].socket \in InHand(v)
  BY <1>2 DEF SlotsInHand
<1> QED
  BY <1>1, <1>2 DEF HandsApart

\* A step that neither caches nor sends.
LEMMA QuietMirrored ==
  ASSUME Mirrored, NEW t \in Threads, OnlyOf(t), UNCHANGED <<cache, screen>>,
         pc[t] # "send", pc'[t] # "send"
  PROVE  Mirrored'
<1>1. \A u \in Threads : (pc'[u] = "send" <=> pc[u] = "send") /\ (pc[u] = "send" => out'[u] = out[u])
  BY DEF OnlyOf
<1> QED
  BY <1>1 DEF Mirrored

\* Between the two halves of broadcast_activity only its own socket differs.
LEMMA CacheMirrored ==
  ASSUME TypeOK, FramesRouted, PayloadsFit, HandsApart, SlotsInHand, Mirrored,
         NEW t \in Threads, OnlyOf(t), CacheMove(t)
  PROVE  Mirrored'
<1>1. /\ pc[t] = "cache" /\ pc'[t] = "send" /\ UNCHANGED <<out, screen>>
      /\ cache' = [cache EXCEPT ![out[t].socket] = out[t].card]
  BY DEF CacheMove
<1>2. /\ cache \in [Sockets -> Card \cup {None}] /\ out[t].socket \in Sockets
  BY <1>1 DEF TypeOK, TablesOK, ThreadsOK, Payload
<1>3. ASSUME NEW u \in Threads, pc'[u] = "send" PROVE cache'[out'[u].socket] = out'[u].card
  <2>1. CASE u = t
    BY <1>1, <1>2, <2>1
  <2>2. CASE u # t
    <3>1. pc[u] = "send"
      BY <1>3, <2>2 DEF OnlyOf
    <3>2. out[u].socket # out[t].socket
      BY <1>1, <2>2, <3>1, SocketsApart
    <3>3. out[u].socket \in Sockets /\ cache[out[u].socket] = out[u].card
      BY <3>1 DEF TypeOK, ThreadsOK, Payload, Mirrored
    <3> QED
      BY <1>1, <1>2, <3>2, <3>3
  <2> QED
    BY <2>1, <2>2
<1>4. ASSUME NEW s \in Sockets
      PROVE  screen'[s] = cache'[s] \/ \E u \in Threads : pc'[u] = "send" /\ out'[u].socket = s
  <2>1. CASE s = out[t].socket
    BY <1>1, <2>1
  <2>2. CASE s # out[t].socket
    <3>1. cache'[s] = cache[s]
      BY <1>1, <1>2, <2>2
    <3>2. ASSUME NEW u \in Threads, pc[u] = "send" PROVE pc'[u] = "send"
      BY <1>1, <3>2 DEF OnlyOf
    <3> QED
      BY <1>1, <3>1, <3>2 DEF Mirrored
  <2> QED
    BY <2>1, <2>2
<1> QED
  BY <1>3, <1>4 DEF Mirrored

\* The second half sends what the first has cached.
LEMMA SendMirrored ==
  ASSUME TypeOK, Mirrored, NEW t \in Threads, OnlyOf(t), SendMove(t)
  PROVE  Mirrored'
<1>1. /\ pc[t] = "send" /\ pc'[t] # "send" /\ UNCHANGED cache
      /\ screen' = [screen EXCEPT ![out[t].socket] = out[t].card]
      /\ cache[out[t].socket] = out[t].card
  BY DEF SendMove, Onward, Shown, Mirrored
<1>2. screen \in [Sockets -> Card \cup {None}]
  BY DEF TypeOK, TablesOK
<1>3. ASSUME NEW u \in Threads, pc'[u] = "send" PROVE cache'[out'[u].socket] = out'[u].card
  <2>1. u # t /\ pc[u] = "send" /\ out'[u] = out[u]
    BY <1>1, <1>3 DEF OnlyOf
  <2> QED
    BY <1>1, <2>1 DEF Mirrored
<1>4. ASSUME NEW s \in Sockets
      PROVE  screen'[s] = cache'[s] \/ \E u \in Threads : pc'[u] = "send" /\ out'[u].socket = s
  <2>1. CASE s = out[t].socket
    BY <1>1, <1>2, <2>1
  <2>2. CASE s # out[t].socket
    <3>1. screen'[s] = screen[s]
      BY <1>1, <1>2, <2>2
    <3>2. ASSUME NEW u \in Threads, pc[u] = "send", out[u].socket = s
          PROVE  pc'[u] = "send" /\ out'[u].socket = s
      BY <1>1, <2>2, <3>2 DEF OnlyOf
    <3> QED
      BY <1>1, <3>1, <3>2 DEF Mirrored
  <2> QED
    BY <2>1, <2>2
<1> QED
  BY <1>3, <1>4 DEF Mirrored

\* Mirrored is kept; the refresh thread sends what is cached already.
LEMMA NextMirrored ==
  ASSUME TypeOK, Isolated, FramesRouted, PayloadsFit, HandsApart, SlotsInHand, RefreshAlone,
         Mirrored, [Next]_vars
  PROVE  Mirrored'
<1>1. CASE UNCHANGED vars \/ Environment
  <2>1. UNCHANGED <<tables, local, screen>>
    BY <1>1, OutsideMoves DEF vars
  <2> QED
    BY <2>1 DEF tables, local, Mirrored
<1>2. CASE RefreshThread
  <2>1. /\ OnlyOf(R) /\ UNCHANGED <<tables, out>> /\ R \in Threads
        /\ CopyMove \/ \E copy \in copies : CopySent(copy)
    BY <1>2, RefreshMoves, ThreadNames
  <2>2. CASE CopyMove
    BY <2>1, <2>2, QuietMirrored DEF CopyMove, tables
  <2>3. ASSUME NEW copy \in copies, CopySent(copy) PROVE Mirrored'
    <3>1. /\ pc[R] = "next" /\ pc'[R] # "send" /\ UNCHANGED cache
          /\ screen' = [screen EXCEPT ![copy.socket] = copy.card]
          /\ copy.card = cache[copy.socket]
          /\ \A u \in Threads : pc'[u] # "send" /\ pc[u] # "send"
      BY <2>1, <2>3 DEF CopySent, Shown, RefreshAlone, OnlyOf, tables
    <3>2. screen \in [Sockets -> Card \cup {None}] /\ cache \in [Sockets -> Card \cup {None}]
      BY DEF TypeOK, TablesOK
    <3>3. \A s \in Sockets : screen[s] = cache[s]
      BY <3>1 DEF Mirrored
    <3> QED
      BY <3>1, <3>2, <3>3 DEF Mirrored
  <2> QED
    BY <2>1, <2>2, <2>3
<1>3. ASSUME NEW c \in Channels, EventLoop(c) \/ Broadcasting(c) PROVE Mirrored'
  <2>1. OnlyOf(c) /\ c \in Threads /\ (Dropped(c) \/ Accepted(c) \/ LoopMove(c))
    BY <1>3, LoopMoves, ThreadNames
  <2>2. CASE CacheMove(c)
    BY <2>1, <2>2, CacheMirrored
  <2>3. CASE SendMove(c)
    BY <2>1, <2>3, SendMirrored
  <2>4. (UNCHANGED <<cache, screen>> /\ pc[c] # "send" /\ pc'[c] # "send") \/ CacheMove(c) \/ SendMove(c)
    <3>1. Dropped(c) \/ Accepted(c) => UNCHANGED <<cache, screen>> /\ pc[c] # "send" /\ pc'[c] # "send"
      BY DEF Dropped, Accepted, Taken
    <3> QED
      BY <2>1, <3>1 DEF LoopMove, NoteMove, CompareMove, HandBackMove, PublishMove, ResumeMove,
         SkipMove, Onward
  <2> QED
    BY <2>1, <2>2, <2>3, <2>4, QuietMirrored
<1>4. CASE ProcessLoop \/ Broadcasting(P)
  <2>1. OnlyOf(P) /\ P \in Threads /\ (NoneMove \/ GameMove \/ ProcessMove)
    BY <1>4, ProcessMoves, ThreadNames
  <2>2. CASE CacheMove(P)
    BY <2>1, <2>2, CacheMirrored
  <2>3. CASE SendMove(P)
    BY <2>1, <2>3, SendMirrored
  <2>4. (UNCHANGED <<cache, screen>> /\ pc[P] # "send" /\ pc'[P] # "send") \/ CacheMove(P) \/ SendMove(P)
    BY <2>1 DEF NoneMove, GameMove, ProcessMove, TakeMove, CheckMove, YieldMove, DedupMove,
       GenericMove, ClearMove, Onward
  <2> QED
    BY <2>1, <2>2, <2>3, <2>4, QuietMirrored
<1> QED
  BY <1>1, <1>2, <1>3, <1>4 DEF Next

-----------------------------------------------------------------------------
(* The inductive invariant, and what it says of a settled slot.            *)

\* Nothing is under way at first, and there is no card.
LEMMA InitCards == Init => CardsInv
<1> SUFFICES ASSUME Init PROVE CardsInv
  OBVIOUS
<1>1. /\ queue = [c \in Channels |-> <<>>] /\ scans = <<>>
      /\ pc = [t \in Threads |-> "idle"] /\ cur = [t \in Threads |-> None]
      /\ todo = [t \in Threads |-> {}] /\ out = [t \in Threads |-> None]
      /\ live_ipc = [a \in Apps |-> None] /\ last_scans = [a \in Apps |-> None]
      /\ last_process = [a \in Apps |-> None]
      /\ cache = [s \in Sockets |-> None] /\ screen = [s \in Sockets |-> None]
  BY DEF Init
<1>2. \A t \in Threads : pc[t] = "idle" /\ cur[t] = None /\ todo[t] = {} /\ InHand(t) = {}
  BY <1>1 DEF InHand
<1>3. Exclusive
  BY <1>1, <1>2 DEF Exclusive, HandsApart, HandsOffQueues, HandsOffScans, FramesApart,
     ScansApart, FramesOffScans
<1>4. SlotsInHand /\ RefreshAlone
  BY <1>1, <1>2, ThreadNames DEF SlotsInHand, RefreshAlone
<1>5. GamesReported /\ ScannedLast
  BY <1>1, <1>2, ThreadNames DEF GamesReported, ScannedLast
<1>6. TrackedIsCached
  BY <1>1, <1>2, ThreadNames DEF TrackedIsCached, Sockets
<1>7. NotDark /\ Mirrored
  BY <1>1, <1>2 DEF NotDark, Mirrored, Alive
<1> QED
  BY <1>3, <1>4, <1>5, <1>6, <1>7, InitRouted, InitPayloadsFit DEF CardsInv

\* The parts of CardsInv carry each other over a step.
LEMMA NextCards ==
  ASSUME TypeOK, Isolated, CardsInv, [Next]_vars
  PROVE  CardsInv'
<1>1. /\ FramesRouted /\ PayloadsFit /\ Exclusive /\ HandsApart /\ RefreshAlone /\ SlotsInHand
      /\ GamesReported /\ PendingScanned /\ PublishedScanned
      /\ TrackedIsCached /\ NotDark /\ Mirrored
      /\ pc[P] = "idle" => cur[P] = None
  BY DEF CardsInv, Exclusive, ScannedLast, PendingScanned, PublishedScanned, SlotsInHand
<1>2. FramesRouted' /\ PayloadsFit'
  BY <1>1, NextRouted, NextPayloadsFit
<1>3. Exclusive'
  BY <1>1, NextExclusive
<1>4. RefreshAlone' /\ SlotsInHand'
  BY <1>1, NextAlone, NextInHand
<1>5. GamesReported'
  BY <1>1, NextReported
<1>6. ScannedLast'
  <2>1. PendingScanned' /\ PublishedScanned'
    BY <1>1, NextPendingScanned, NextPublishedScanned
  <2> QED
    BY <2>1 DEF ScannedLast, PendingScanned, PublishedScanned
<1>7. TrackedIsCached'
  BY <1>1, NextTracked
<1>8. NotDark'
  BY <1>1, NextNotDark
<1>9. Mirrored'
  BY <1>1, NextMirrored
<1> QED
  BY <1>2, <1>3, <1>4, <1>5, <1>6, <1>7, <1>8, <1>9 DEF CardsInv

\* What no thread has in hand is settled: card, record and screen agree.
LEMMA CardsSettled ==
  ASSUME TypeOK, Isolated, CardsInv
  PROVE  CardsAgree
<1>1. ASSUME NEW a \in Apps, SlotIdle(a), NEW t \in Threads PROVE a \notin InHand(t)
  BY <1>1, Flying DEF SlotIdle
<1>2. ASSUME NEW a \in Apps, SlotIdle(a)
      PROVE  /\ last_process[a] # None <=> cache[a] # None
             /\ \A t \in Threads : pc[t] \in {"cache", "send"} => out[t].socket # a
             /\ \A t \in Threads : \A game \in todo[t] : game.app # a
  BY <1>1, <1>2, ThreadNames DEF CardsInv, SlotsInHand, TrackedIsCached
<1>3. NoGhostCards
  <2> SUFFICES ASSUME NEW a \in Apps, SlotIdle(a), last_scans[a] = None PROVE cache[a] = None
    BY DEF NoGhostCards
  <2>1. pc[P] # "take"
    <3>1. ASSUME pc[P] = "take" PROVE FALSE
      <4>1. InHand(P) = Apps
        BY <3>1, Hands DEF CardsInv, SlotsInHand, ScanSlots
      <4> QED
        BY <1>1, <4>1, ThreadNames
    <3> QED
      BY <3>1
  <2> QED
    BY <1>2, <2>1 DEF CardsInv, TrackedIsCached
<1>4. SlotNotDark
  <2> SUFFICES ASSUME NEW a \in Apps, SlotIdle(a), last_scans[a] \in Alive, live_ipc[a] = None
               PROVE  cache[a] # None
    BY DEF SlotNotDark
  <2>1. ~(pc[P] \in {"check", "dedup", "track"} /\ cur[P].app = a)
    BY <1>1, GameInHand, ThreadNames
  <2>2. ~(\E c \in Channels : \E game \in todo[c] : game.app = a)
    BY <1>2, ThreadNames
  <2>3. last_process[a] # None
    BY <2>1, <2>2 DEF CardsInv, NotDark
  <2> QED
    BY <1>2, <2>3
<1>5. ScreenIsCache
  <2>1. ASSUME NEW a \in Apps, SlotIdle(a) PROVE screen[a] = cache[a]
    BY <1>2, <2>1 DEF CardsInv, Mirrored, Sockets
  <2>2. ASSUME NEW p \in Companions, AppsOf[p] \cap InFlight = {} PROVE screen[p] = cache[p]
    <3>1. ASSUME NEW t \in Threads, pc[t] = "send", out[t].socket = p PROVE FALSE
      <4>1. p \notin Apps
        BY DEF Pids
      <4>2. t \in Channels /\ p = cur[t].pid /\ pc[t] # "idle"
        BY <3>1, <4>1 DEF CardsInv, PayloadsFit
      <4>3. cur[t] \in Frame /\ Routed(t, cur[t])
        BY <4>2 DEF TypeOK, ThreadsOK, CardsInv, FramesRouted
      <4>4. InHand(t) = FrameSlots(cur[t])
        BY <4>2, Hands
      <4>5. InHand(t) \subseteq AppsOf[p] /\ InHand(t) # {}
        BY <4>2, <4>3, <4>4, SlotsOfFrame DEF FrameSlots, Routed
      <4>6. InHand(t) \subseteq InFlight
        BY Flying
      <4> QED
        BY <2>2, <4>5, <4>6
    <3> QED
      BY <3>1 DEF CardsInv, Mirrored, Sockets, Pids
  <2> QED
    BY <2>1, <2>2 DEF ScreenIsCache
<1> QED
  BY <1>3, <1>4, <1>5 DEF CardsAgree

\* With one frame or event at a time per slot, and room in the tables, no generic
\* card outlives its game, no running game without an owner stays dark, and every
\* client shows what the replay cache replays (broadcast_activity, process_loop,
\* resume_generic).
THEOREM CardsRight ==
  ASSUME Isolated
  PROVE  Spec => []CardsAgree
<1>1. Init => TypeOK /\ CardsInv
  BY InitType, InitCards
<1>2. TypeOK /\ CardsInv /\ [Next]_vars => (TypeOK /\ CardsInv)'
  BY NextType, NextCards
<1>3. TypeOK /\ CardsInv => CardsAgree
  BY CardsSettled
<1> QED
  BY <1>1, <1>2, <1>3, PTL DEF Spec
=============================================================================

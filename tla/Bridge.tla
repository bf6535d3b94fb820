------------------------------- MODULE Bridge -------------------------------
(***************************************************************************)
(* The bridge (src/lib/src/server/client_connector.rs): the threads that   *)
(* turn SET_ACTIVITY frames and scanner events into the presence every     *)
(* bridge client shows.  Two event loops (IPC and WebSocket frames), the   *)
(* process loop (scanner events) and the 30 s refresh thread share four    *)
(* maps, each behind a lock of its own; one action is one critical section *)
(* together with the thread's local work around it.                        *)
(*                                                                         *)
(* The bridge runs with no RSRPC_STATE_FILE, so persist_state returns at   *)
(* once.  `screen` is what a bridge client connected throughout has last   *)
(* been told about every socket; with none connected nothing is sent.      *)
(***************************************************************************)
EXTENDS Sequences, Tables

CONSTANTS
  Apps,         \* application ids (also the socket ids of generic cards)
  Games,        \* pids of the games the scanner can detect
  Companions,   \* pids that publish over IPC or WebSocket (a game may be one)
  Zero,         \* pid 0: what a frame without a pid carries
  Bodies,       \* activity contents
  DetectedAs,   \* DetectedAs[g]: the application game g is detected as
  AppsOf,       \* AppsOf[p]: the applications companion p publishes for
  ChannelOf,    \* ChannelOf[p]: the connector companion p talks to
  Abrupt,       \* IPC companions whose socket may die without a Close packet
  Mortal,       \* pids that start late and exit in this instance
  Connected,    \* whether a bridge client is connected in this instance
  Refreshing,   \* whether the 30 s refresh thread wakes in this instance
  Overlap,      \* FALSE: no frame or event comes for a slot still being handled
  MaxQueue,     \* bound on each queue (the IPC queue is bounded in the code too)
  MAX_HANDOFF_ENTRIES,
  MAX_CACHED_ACTIVITIES

Pids     == Games \cup Companions
Sockets  == Apps \cup Pids
Channels == {"ipc", "ws"}
Threads  == Channels \cup {"process", "refresh"}

ASSUME ConstantsAssumption ==
  /\ IsFiniteSet(Apps) /\ IsFiniteSet(Games) /\ IsFiniteSet(Companions)
  /\ None \notin Apps \cup Pids \cup Bodies
  /\ Apps \cap Pids = {}
  /\ Zero \notin Games
  /\ DetectedAs \in [Games -> Apps]
  /\ AppsOf \in [Companions -> SUBSET Apps]
  /\ ChannelOf \in [Companions -> Channels]
  /\ Abrupt \subseteq Companions
  /\ Mortal \subseteq Pids \ {Zero}
  /\ Connected \in BOOLEAN
  /\ Refreshing \in BOOLEAN
  /\ Overlap \in BOOLEAN
  /\ MAX_HANDOFF_ENTRIES \in Nat \ {0}
  /\ MAX_CACHED_ACTIVITIES \in Nat \ {0}

\* The generic card of a detected game carries no body of its own.
Generic == "generic"

\* Only a clear may lack an application.
Frame   == {f \in [app : Apps \cup {None}, pid : Companions,
                   body : Bodies \cup {None}] :
              f.app = None => f.body = None}
Game    == [app : Apps, pid : Pids]
Card    == [app : Apps, pid : Pids, body : Bodies \cup {Generic}]
Payload == [socket : Sockets, card : Card \cup {None}]

\* The absence of a card or of a game is neither.
ASSUME NoCardAssumption == None \notin Card \cup Game

VARIABLES
  life,         \* life[p]: "unborn", "alive" or "dead"
  wants,        \* wants[p][a]: what p last asked to show for a, or None
  queue,        \* queue[c]: the frames on their way to event loop c
  scans,        \* the scanner events on their way to the process loop
  live_ipc,     \* HandoffState.live_ipc: app -> pid of the owner
  last_scans,   \* HandoffState.last_scans: app -> pid of the scanned game
  last_process, \* app -> pid of the generic card published and not cleared
  recent,       \* RecentActivities: <<app, pid>> -> body recorded last
  cache,        \* last_activities: socket -> card
  older,        \* the order of the cache's sequence numbers
  screen,       \* what the connected bridge client shows: socket -> card
  pc,           \* where each thread is
  cur,          \* the frame or game a thread is handling
  changed,      \* event_loop's `changed`
  todo,         \* games still to resume, or clears still to broadcast
  out,          \* the payload of the broadcast_activity under way
  copies        \* refresh_clients' copy of the cache still to be sent

tables   == <<live_ipc, last_scans, last_process, recent, cache, older>>
local    == <<pc, cur, changed, todo, out, copies>>
outside  == <<life, wants, queue, scans>>
vars     == <<outside, tables, screen, local>>

Alive == {p \in Pids : life[p] = "alive"}

GenericCard(game) == [app |-> game.app, pid |-> game.pid, body |-> Generic]

Goto(t, label) == pc' = [pc EXCEPT ![t] = label]

\* On with what is left to do for the frame or event in hand, or back to recv.
Proceed(t) ==
  IF todo'[t] = {} /\ (t \in Channels => ~changed'[t])
    THEN cur' = [cur EXCEPT ![t] = None] /\ Goto(t, "idle")
    ELSE UNCHANGED cur /\ Goto(t, "next")

Init ==
  /\ life = [p \in Pids |->
               IF p = Zero THEN "dead"
               ELSE IF p \in Mortal THEN "unborn" ELSE "alive"]
  /\ wants = [p \in Companions |-> [a \in Apps |-> None]]
  /\ queue = [c \in Channels |-> <<>>]
  /\ scans = <<>>
  /\ live_ipc = [a \in Apps |-> None]
  /\ last_scans = [a \in Apps |-> None]
  /\ last_process = [a \in Apps |-> None]
  /\ recent = [k \in Apps \X Pids |-> None]
  /\ cache = [s \in Sockets |-> None]
  /\ older = {}
  /\ screen = [s \in Sockets |-> None]
  /\ pc = [t \in Threads |-> "idle"]
  /\ cur = [t \in Threads |-> None]
  /\ changed = [c \in Channels |-> FALSE]
  /\ todo = [t \in Threads |-> {}]
  /\ out = [t \in Threads |-> None]
  /\ copies = {}

-----------------------------------------------------------------------------
(* What reaches the bridge: processes that start and exit, frames forwarded *)
(* by the IPC and WebSocket sessions, and events from the process scanner.  *)

\* The slots a frame, an event or a busy thread is about.
FrameSlots(f) == IF f.app = None THEN AppsOf[f.pid] ELSE {f.app}
ScanSlots(e)  == IF e = None THEN Apps ELSE {e.app}

InHand(t) ==
  IF pc[t] = "idle" THEN {}
  ELSE CASE t \in Channels -> FrameSlots(cur[t])
         [] t = "process"  -> ScanSlots(cur[t])
         [] t = "refresh"  -> Apps

InFlight ==
  (UNION {InHand(t) : t \in Threads})
    \cup (UNION {UNION {FrameSlots(queue[c][i]) : i \in 1 .. Len(queue[c])} :
                    c \in Channels})
    \cup (UNION {ScanSlots(scans[i]) : i \in 1 .. Len(scans)})

Admitted(slots) == Overlap \/ slots \cap InFlight = {}

Start(p) ==
  /\ life[p] = "unborn"
  /\ life' = [life EXCEPT ![p] = "alive"]
  /\ UNCHANGED <<wants, queue, scans, tables, screen, local>>

Exit(p) ==
  /\ p \in Mortal
  /\ life[p] = "alive"
  /\ life' = [life EXCEPT ![p] = "dead"]
  /\ UNCHANGED <<wants, queue, scans, tables, screen, local>>

Enqueue(p, f) ==
  /\ Len(queue[ChannelOf[p]]) < MaxQueue
  /\ Admitted(FrameSlots(f))
  /\ queue' = [queue EXCEPT ![ChannelOf[p]] = Append(@, f)]
  /\ UNCHANGED <<life, scans, tables, screen, local>>

\* SET_ACTIVITY with an activity, and with a null one (or a Close packet).
Publish(p, a, b) ==
  /\ wants' = [wants EXCEPT ![p][a] = b]
  /\ Enqueue(p, [app |-> a, pid |-> p, body |-> b])

Clear(p, a) ==
  /\ wants' = [wants EXCEPT ![p][a] = None]
  /\ Enqueue(p, [app |-> a, pid |-> p, body |-> None])

\* The IPC socket died: send_empty knows the pid and no application.
Drop(p) ==
  /\ p \in Abrupt
  /\ wants' = [wants EXCEPT ![p] = [a \in Apps |-> None]]
  /\ Enqueue(p, [app |-> None, pid |-> p, body |-> None])

Report(e) ==
  /\ Len(scans) < MaxQueue
  /\ Admitted(ScanSlots(e))
  /\ scans' = Append(scans, e)
  /\ UNCHANGED <<life, wants, queue, tables, screen, local>>

ReportGame(g) ==
  /\ life[g] = "alive"
  /\ Report([app |-> DetectedAs[g], pid |-> g])

ReportNone ==
  /\ Games \cap Alive = {}
  /\ \E g \in Games : life[g] = "dead"
  /\ Report(None)

-----------------------------------------------------------------------------
(* broadcast_activity: the replay cache first, then every client, under     *)
(* different locks.                                                         *)

Broadcast(t, socket, card) ==
  /\ out' = [out EXCEPT ![t] = [socket |-> socket, card |-> card]]
  /\ Goto(t, "cache")

UpdateCache(t) ==
  LET s == out[t].socket
  IN  /\ pc[t] = "cache"
      /\ IF out[t].card = None
           THEN /\ cache' = Without(cache, s)
                /\ older' = Forgotten(older, s)
           ELSE LET full == [cache EXCEPT ![s] = out[t].card]
                    seen == Touched(older, cache, s)
                IN  IF Size(full) <= MAX_CACHED_ACTIVITIES
                      THEN cache' = full /\ older' = seen
                      ELSE \E victim \in Oldest(full, seen) :
                             /\ cache' = Without(full, victim)
                             /\ older' = Forgotten(seen, victim)
      /\ UNCHANGED <<outside, live_ipc, last_scans, last_process, recent,
                     screen, changed, todo, copies>>
      /\ IF Connected
           THEN Goto(t, "send") /\ UNCHANGED <<out, cur>>
           ELSE Proceed(t) /\ out' = [out EXCEPT ![t] = None]

\* Faulty: clears are not sent.
ShownUnlessClear(payload) ==
  IF payload.card = None THEN screen
  ELSE [screen EXCEPT ![payload.socket] = payload.card]

\* What the client shows once it has received a payload.
Shown(payload) == [screen EXCEPT ![payload.socket] = payload.card]

SendToAll(t) ==
  /\ pc[t] = "send"
  /\ screen' = Shown(out[t])
  /\ out' = [out EXCEPT ![t] = None]
  /\ UNCHANGED <<outside, tables, changed, todo, copies>>
  /\ Proceed(t)

-----------------------------------------------------------------------------
(* event_loop, one thread per connector.                                    *)

\* The card a frame puts on its pid's socket: none for a clear.
FrameCard(f) ==
  IF f.body = None THEN None
  ELSE [app |-> f.app, pid |-> f.pid, body |-> f.body]

\* is_genuine_clear.
GenuineClear(f) == f.body = None /\ f.pid # Zero

Recv(c) ==
  /\ c \in Channels
  /\ pc[c] = "idle"
  /\ queue[c] # <<>>
  /\ queue' = [queue EXCEPT ![c] = Tail(@)]
  /\ UNCHANGED <<life, wants, scans, live_ipc, last_scans, last_process,
                 cache, older, screen, changed, todo, out, copies>>

\* RecentActivities::should_drop says the same bytes came within the window.
DropDuplicate(c) ==
  LET f == Head(queue[c])
  IN  /\ Recv(c)
      /\ f.body # None
      /\ recent[<<f.app, f.pid>>] = f.body
      /\ UNCHANGED <<recent, pc, cur>>

\* What the flood guard remembers once a frame has passed.
\* Faulty: a clear leaves the bytes before it on record.
RememberedDespiteClear(f) ==
  IF f.body = None THEN recent ELSE [recent EXCEPT ![<<f.app, f.pid>>] = f.body]

Remembered(f) ==
  IF f.app = None THEN recent ELSE [recent EXCEPT ![<<f.app, f.pid>>] = f.body]

\* Other bytes, a clear, or the same bytes after the window.  A clear without
\* an application forgets the slot of the empty application only.
Accept(c) ==
  LET f == Head(queue[c])
  IN  /\ Recv(c)
      /\ recent' = Remembered(f)
      /\ cur' = [cur EXCEPT ![c] = f]
      /\ Goto(c, IF f.body = None THEN "compare" ELSE "note")

NotePublish(c) ==
  /\ pc[c] = "note"
  /\ live_ipc' \in BoundedInserts(live_ipc, cur[c].app, cur[c].pid, Alive,
                                  MAX_HANDOFF_ENTRIES)
  /\ Goto(c, "compare")
  /\ UNCHANGED <<outside, last_scans, last_process, recent, cache, older,
                 screen, cur, changed, todo, out, copies>>

Compare(c) ==
  LET f == cur[c]
  IN  /\ pc[c] = "compare"
      /\ changed' = [changed EXCEPT ![c] = cache[f.pid] # FrameCard(f)]
      /\ UNCHANGED <<outside, tables, screen, todo, out, copies>>
      /\ IF GenuineClear(f)
           THEN Goto(c, "handback") /\ UNCHANGED cur
           ELSE Proceed(c)

\* The slots a clear gives back: note_clear's one when its owner is the sender,
\* or all the sender owns, note_clear_pid, when the clear names no application.
\* Faulty: a stale clear releases the slot of a later publisher.
ReleasedByAnyone(f) ==
  {a \in Apps : live_ipc[a] # None /\ f.app \in {a, None}}

\* Faulty: the slot is kept when there is no game to resume.
ReleasedIfScanned(f) ==
  {a \in Apps : live_ipc[a] = f.pid /\ f.app = a /\ last_scans[a] # None}

Released(f) ==
  {a \in Apps : live_ipc[a] = f.pid /\ f.app \in {a, None}}

\* resume_for: the games last scanned for these slots.
\* Faulty: a slot nothing was scanned for is resumed too.
ResumableUnchecked(slots) == {[app |-> a, pid |-> last_scans[a]] : a \in slots}

\* Faulty: nothing is handed back to detection.
ResumableNever(slots) == {}

Resumable(slots) ==
  {[app |-> a, pid |-> last_scans[a]] : a \in slots \cap Keys(last_scans)}

HandBack(c) ==
  LET released == Released(cur[c])
  IN  /\ pc[c] = "handback"
      /\ live_ipc' = [a \in Apps |-> IF a \in released THEN None
                                     ELSE live_ipc[a]]
      /\ todo' = [todo EXCEPT ![c] = Resumable(released)]
      /\ UNCHANGED <<outside, last_scans, last_process, recent, cache, older,
                     screen, changed, out, copies>>
      /\ Proceed(c)

\* track_process_publication.
Track(game) ==
  last_process' \in BoundedInserts(last_process, game.app, game.pid, Alive,
                                   MAX_HANDOFF_ENTRIES)

\* resume_generic for a game that is still alive.
Resume(c) ==
  /\ c \in Channels
  /\ pc[c] = "next"
  /\ UNCHANGED <<outside, live_ipc, last_scans, recent, cache, older, screen,
                 changed, copies>>
  /\ \E game \in todo[c] :
       /\ todo' = [todo EXCEPT ![c] = @ \ {game}]
       /\ IF game.pid \in Alive
            THEN /\ Track(game)
                 /\ Broadcast(c, game.app, GenericCard(game))
                 /\ UNCHANGED cur
            ELSE /\ Proceed(c)
                 /\ UNCHANGED <<last_process, out>>

PublishFrame(c) ==
  /\ c \in Channels
  /\ pc[c] = "next"
  /\ todo[c] = {}
  /\ changed[c]
  /\ changed' = [changed EXCEPT ![c] = FALSE]
  /\ Broadcast(c, cur[c].pid, FrameCard(cur[c]))
  /\ UNCHANGED <<outside, tables, screen, cur, todo, copies>>

-----------------------------------------------------------------------------
(* process_loop.                                                            *)

P == "process"

RecvScan ==
  /\ pc[P] = "idle"
  /\ scans # <<>>
  /\ scans' = Tail(scans)
  /\ UNCHANGED <<life, wants, queue, live_ipc, last_process, recent, cache,
                 older, screen, changed, todo, out, copies>>

\* note_scan(None): nothing is detected any more.
NoteNone ==
  /\ RecvScan
  /\ Head(scans) = None
  /\ last_scans' = [a \in Apps |-> None]
  /\ Goto(P, "take")
  /\ UNCHANGED cur

\* take_process_clear.
TakeClears ==
  /\ pc[P] = "take"
  /\ todo' = [todo EXCEPT ![P] = {[app |-> a, pid |-> last_process[a]] :
                                    a \in Keys(last_process)}]
  /\ last_process' = [a \in Apps |-> None]
  /\ UNCHANGED <<outside, live_ipc, last_scans, recent, cache, older, screen,
                 changed, out, copies>>
  /\ Proceed(P)

BroadcastClear ==
  /\ pc[P] = "next"
  /\ \E game \in todo[P] :
       /\ todo' = [todo EXCEPT ![P] = @ \ {game}]
       /\ Broadcast(P, game.app, None)
  /\ UNCHANGED <<outside, tables, screen, cur, changed, copies>>

Scanned(game) ==
  BoundedInserts(last_scans, game.app, game.pid, Alive, MAX_HANDOFF_ENTRIES)

NoteGame ==
  /\ RecvScan
  /\ Head(scans) # None
  /\ last_scans' \in Scanned(Head(scans))
  /\ cur' = [cur EXCEPT ![P] = Head(scans)]
  /\ Goto(P, "check")

CheckSuppressed ==
  /\ pc[P] = "check"
  /\ Goto(P, IF live_ipc[cur[P].app] # None THEN "yield" ELSE "dedup")
  /\ UNCHANGED <<outside, tables, screen, cur, changed, todo, out, copies>>

\* Yield the slot to the IPC presence: withdraw the generic card if shown.
\* Faulty: the entry goes, the card stays.
YieldSilently ==
  /\ pc[P] = "yield"
  /\ last_process' = Without(last_process, cur[P].app)
  /\ UNCHANGED <<outside, live_ipc, last_scans, recent, cache, older, screen,
                 changed, todo, out, copies>>
  /\ Proceed(P)

Yield ==
  LET a == cur[P].app
  IN  /\ pc[P] = "yield"
      /\ last_process' = Without(last_process, a)
      /\ UNCHANGED <<outside, live_ipc, last_scans, recent, cache, older,
                     screen, changed, todo, copies>>
      /\ IF last_process[a] = None
           THEN Proceed(P) /\ UNCHANGED out
           ELSE Broadcast(P, a, None) /\ UNCHANGED cur

Dedup ==
  /\ pc[P] = "dedup"
  /\ UNCHANGED <<outside, tables, screen, changed, todo, out, copies>>
  /\ IF last_process[cur[P].app] # None
       THEN Proceed(P)
       ELSE Goto(P, "track") /\ UNCHANGED cur

PublishGeneric ==
  /\ pc[P] = "track"
  /\ Track(cur[P])
  /\ Broadcast(P, cur[P].app, GenericCard(cur[P]))
  /\ UNCHANGED <<outside, live_ipc, last_scans, recent, cache, older, screen,
                 cur, changed, todo, copies>>

-----------------------------------------------------------------------------
(* refresh_clients, every BRIDGE_REFRESH_INTERVAL_SECS: rebroadcast a copy  *)
(* of the cache.                                                            *)

R == "refresh"

CopyCache ==
  /\ Refreshing /\ Connected
  /\ Overlap \/ InFlight = {}
  /\ pc[R] = "idle"
  /\ Keys(cache) # {}
  /\ copies' = {[socket |-> s, card |-> cache[s]] : s \in Keys(cache)}
  /\ Goto(R, "next")
  /\ UNCHANGED <<outside, tables, screen, cur, changed, todo, out>>

SendCopy ==
  /\ pc[R] = "next"
  /\ \E copy \in copies :
       /\ screen' = Shown(copy)
       /\ copies' = copies \ {copy}
  /\ Goto(R, IF copies' = {} THEN "idle" ELSE "next")
  /\ UNCHANGED <<outside, tables, cur, changed, todo, out>>

-----------------------------------------------------------------------------
EventLoop(c) ==
  \/ DropDuplicate(c)
  \/ Accept(c)
  \/ NotePublish(c)
  \/ Compare(c)
  \/ HandBack(c)
  \/ Resume(c)
  \/ PublishFrame(c)

ProcessLoop ==
  \/ NoteNone
  \/ TakeClears
  \/ BroadcastClear
  \/ NoteGame
  \/ CheckSuppressed
  \/ Yield
  \/ Dedup
  \/ PublishGeneric

RefreshThread == CopyCache \/ SendCopy

Broadcasting(t) == UpdateCache(t) \/ SendToAll(t)

Environment ==
  \/ \E p \in Pids : Start(p) \/ Exit(p)
  \/ \E p \in Companions :
       \/ \E a \in AppsOf[p] : Clear(p, a) \/ \E b \in Bodies : Publish(p, a, b)
       \/ Drop(p)
  \/ \E g \in Games : ReportGame(g)
  \/ ReportNone

Next ==
  \/ Environment
  \/ \E c \in Channels : EventLoop(c) \/ Broadcasting(c)
  \/ ProcessLoop \/ Broadcasting(P)
  \/ RefreshThread

Spec == Init /\ [][Next]_vars

\* Every thread keeps running; nothing obliges the outside world to act.
FairSpec ==
  /\ Spec
  /\ \A c \in Channels : WF_vars(EventLoop(c) \/ Broadcasting(c))
  /\ WF_vars(ProcessLoop \/ Broadcasting(P))
  /\ WF_vars(RefreshThread)

-----------------------------------------------------------------------------
(* Properties.                                                              *)

LoopLabels    == {"idle", "note", "compare", "handback", "next", "cache", "send"}
ProcessLabels == {"idle", "take", "check", "yield", "dedup", "track", "next",
                  "cache", "send"}

\* Every variable has its type, and what a thread holds fits where it is.
OutsideOK ==
  /\ life \in [Pids -> {"unborn", "alive", "dead"}]
  /\ wants \in [Companions -> [Apps -> Bodies \cup {None}]]
  /\ queue \in [Channels -> Seq(Frame)]
  /\ scans \in Seq(Game \cup {None})

TablesOK ==
  /\ live_ipc \in [Apps -> Pids \cup {None}]
  /\ last_scans \in [Apps -> Pids \cup {None}]
  /\ last_process \in [Apps -> Pids \cup {None}]
  /\ recent \in [Apps \X Pids -> Bodies \cup {None}]
  /\ cache \in [Sockets -> Card \cup {None}]
  /\ older \subseteq Sockets \X Sockets
  /\ screen \in [Sockets -> Card \cup {None}]

ThreadsOK ==
  /\ pc \in [Threads -> LoopLabels \cup ProcessLabels]
  /\ cur \in [Threads -> Frame \cup Game \cup {None}]
  /\ changed \in [Channels -> BOOLEAN]
  /\ todo \in [Threads -> SUBSET Game]
  /\ out \in [Threads -> Payload \cup {None}]
  /\ copies \subseteq Payload
  /\ \A c \in Channels : /\ pc[c] \in LoopLabels
                         /\ pc[c] # "idle" => cur[c] \in Frame
                         /\ pc[c] = "note" => cur[c].body # None
                         /\ pc[c] = "handback" => GenuineClear(cur[c])
  /\ pc[P] \in ProcessLabels
  /\ pc[P] \in {"check", "yield", "dedup", "track"} => cur[P] \in Game
  /\ \A t \in Threads : pc[t] \in {"cache", "send"} => out[t] \in Payload

TypeOK == OutsideOK /\ TablesOK /\ ThreadsOK

\* The handoff tables and the replay cache never outgrow their caps, whatever
\* the companions publish and the scanner reports (MAX_HANDOFF_ENTRIES,
\* MAX_CACHED_ACTIVITIES).
TablesBounded ==
  /\ Size(live_ipc) <= MAX_HANDOFF_ENTRIES
  /\ Size(last_scans) <= MAX_HANDOFF_ENTRIES
  /\ Size(last_process) <= MAX_HANDOFF_ENTRIES
  /\ Size(cache) <= MAX_CACHED_ACTIVITIES

\* The threads, the flood guard and the tables together implement the abstract
\* register of slot owners: a request is what an event loop has accepted and
\* not yet applied under the handoff lock.
Asked(c) ==
  IF pc[c] = "note"
    THEN [kind |-> "publish", app |-> cur[c].app, pid |-> cur[c].pid]
  ELSE IF pc[c] \in {"compare", "handback"} /\ GenuineClear(cur[c])
    THEN [kind |-> "clear", app |-> cur[c].app, pid |-> cur[c].pid]
  ELSE [kind |-> "nothing"]

Ownership == INSTANCE SlotOwnership
  WITH Capacity <- MAX_HANDOFF_ENTRIES,
       owner    <- live_ipc,
       request  <- [c \in Channels |-> Asked(c)]

OwnershipImplemented == Ownership!Spec

\* Only a full table costs a live owner its slot without a clear of its own,
\* and only once every dead owner is gone ("purges dead owners first").
LiveOwnersEvictedLast ==
  [][\A a \in Apps :
       /\ live_ipc[a] \in Alive
       /\ live_ipc'[a] = None
       /\ \A c \in Channels : pc[c] # "handback" \/ pc'[c] = "handback"
       => /\ Size(live_ipc) = MAX_HANDOFF_ENTRIES
          /\ \A b \in Apps : live_ipc[b] \in Alive \cup {None}]_vars

\* Nothing of p's is queued or being handled.
Settled(p) ==
  LET c == ChannelOf[p]
  IN  /\ pc[c] = "idle" \/ cur[c].pid # p
      /\ \A i \in 1 .. Len(queue[c]) : queue[c][i].pid # p

SlotIdle(a) == a \notin InFlight

\* A companion that has cleared a slot, by a null activity, a Close packet or a
\* dead socket, does not own it any more once its frames are handled: neither a
\* dropped duplicate nor a takeover in between leaves the slot to a source that
\* went away, which would suppress its generic card for ever.
OwnerStillWants ==
  \A p \in Companions \ {Zero}, a \in Apps :
    Settled(p) /\ live_ipc[a] = p => wants[p][a] # None

\* The same of every source, the one that sends no pid included ("when that
\* source clears, the generic card comes back", README).
EveryOwnerStillWants ==
  \A p \in Companions, a \in Apps :
    Settled(p) /\ live_ipc[a] = p => wants[p][a] # None

\* Once a companion's frames are handled, the replay cache holds what it asked
\* for last: the flood guard and the `changed` comparison only ever skip work
\* that would change nothing.
LastFrameCached ==
  \A p \in Companions :
    Settled(p) =>
      cache[p] = IF \E a \in Apps : wants[p][a] # None
                   THEN LET a == CHOOSE b \in Apps : wants[p][b] # None
                        IN  [app |-> a, pid |-> p, body |-> wants[p][a]]
                   ELSE None

\* "An entry lives exactly from its generic publication to its process clear,
\* and every later bridge client replays only live games": once the scanner has
\* reported that nothing is detected, the replay cache holds no generic card.
NoGhostCards ==
  \A a \in Apps : SlotIdle(a) /\ last_scans[a] = None => cache[a] = None

\* A game that is running, and was reported last, has its generic card while no
\* IPC source owns the slot ("without this the slot would stay dark until the
\* next game switch").
SlotNotDark ==
  \A a \in Apps :
    SlotIdle(a) /\ last_scans[a] \in Alive /\ live_ipc[a] = None
      => cache[a] # None

\* What a bridge client shows is what the replay cache holds: a client that saw
\* every frame and one that connects now agree.
ScreenIsCache ==
  /\ \A a \in Apps : SlotIdle(a) => screen[a] = cache[a]
  /\ \A p \in Companions :
       AppsOf[p] \cap InFlight = {} => screen[p] = cache[p]

\* With one frame or event at a time the generic cards are there exactly when
\* they should be, and every client shows them.
CardsAgree == NoGhostCards /\ SlotNotDark /\ ScreenIsCache

\* "The moment a game SDK publishes SET_ACTIVITY for the same app, the generic
\* card is withdrawn" (README).
GenericWithdrawn ==
  \A a \in Apps : SlotIdle(a) /\ live_ipc[a] # None => cache[a] = None

\* When every companion has cleared a slot for good and its game keeps running,
\* the clients end up showing the game's generic card.
GenericReturns ==
  \A a \in Apps :
    <>[](/\ last_scans[a] \in Alive
         /\ \A p \in Companions : wants[p][a] = None)
      => <>[](screen[a] # None)
-----------------------------------------------------------------------------
(* What the event loops rely on, behind OwnerStillWants and LastFrameCached. *)

\* A frame is about a slot its sender publishes for, or about all of them after
\* the sender's socket died, and is handled by the sender's connector.
Routed(c, f) ==
  /\ ChannelOf[f.pid] = c
  /\ f.app \in AppsOf[f.pid] \/ (f.app = None /\ f.pid \in Abrupt)

FramesRouted ==
  \A c \in Channels :
    /\ \A i \in DOMAIN queue[c] : Routed(c, queue[c][i])
    /\ pc[c] # "idle" => Routed(c, cur[c])

Clears(f, p, a)    == f.pid = p /\ f.body = None /\ f.app \in {a, None}
Publishes(f, p, a) == f.pid = p /\ f.body # None /\ f.app = a

ClearQueued(p, a) ==
  \E i \in DOMAIN queue[ChannelOf[p]] : Clears(queue[ChannelOf[p]][i], p, a)

ClearPends(p, a) ==
  \/ ClearQueued(p, a)
  \/ /\ pc[ChannelOf[p]] \in {"compare", "handback"}
     /\ Clears(cur[ChannelOf[p]], p, a)

\* Whoever wants a slot no more has a clear under way that comes after every
\* frame of its own that could make it the owner (again).
ClearComes ==
  \A p \in Companions \ {Zero}, a \in Apps :
    wants[p][a] = None =>
      /\ live_ipc[a] = p => ClearPends(p, a)
      /\ pc[ChannelOf[p]] = "note" /\ Publishes(cur[ChannelOf[p]], p, a)
           => ClearQueued(p, a)
      /\ \A i \in DOMAIN queue[ChannelOf[p]] :
           Publishes(queue[ChannelOf[p]][i], p, a)
             => \E j \in DOMAIN queue[ChannelOf[p]] :
                  j > i /\ Clears(queue[ChannelOf[p]][j], p, a)

OwnerInv == FramesRouted /\ ClearComes

\* What broadcast_activity was called with: a card or a clear of a slot, or what
\* the frame in hand says of its sender.
PayloadsFit ==
  \A t \in Threads :
    pc[t] \in {"cache", "send"} =>
      \/ out[t].socket \in Apps
      \/ /\ t \in Channels
         /\ out[t].socket = cur[t].pid
         /\ out[t].card = FrameCard(cur[t])

\* Companions of one application each, whose sockets are closed properly.
Plain == \A p \in Companions : p \notin Abrupt /\ \E a \in Apps : AppsOf[p] = {a}

CardOf(p, a, body) ==
  IF body = None THEN None ELSE [app |-> a, pid |-> p, body |-> body]

\* The flood guard holds the last body taken from the queue, dropped ones
\* included, and the companion's wish is the last one put there.
LastWord(p, a) ==
  LET q == queue[ChannelOf[p]]
  IN  /\ \A i \in DOMAIN q :
           q[i].pid = p /\ (\A j \in DOMAIN q : j > i => q[j].pid # p)
             => q[i].body = wants[p][a]
      /\ (\A i \in DOMAIN q : q[i].pid # p) => recent[<<a, p>>] = wants[p][a]

\* The cache has what the flood guard holds, or the event loop is on its way to
\* put it there.
CachedOrComing(p, a) ==
  LET c    == ChannelOf[p]
      mine == pc[c] # "idle" /\ cur[c].pid = p
  IN  /\ mine => cur[c].body = recent[<<a, p>>]
      /\ \/ cache[p] = CardOf(p, a, recent[<<a, p>>])
         \/ mine /\ pc[c] \in {"note", "compare"}
         \/ mine /\ changed[c]
         \/ pc[c] = "cache" /\ out[c].socket = p

FrameInv ==
  /\ FramesRouted
  /\ PayloadsFit
  /\ \A p \in Companions : \A b \in Apps \ AppsOf[p] : wants[p][b] = None
  /\ \A p \in Companions, a \in Apps :
       a \in AppsOf[p] => LastWord(p, a) /\ CachedOrComing(p, a)

-----------------------------------------------------------------------------
(* What keeps the cards right when no two frames or events for one slot are  *)
(* under way (Overlap = FALSE), behind CardsAgree.                           *)

\* One thing at a time per slot, tables with room, and a client to show it all.
Isolated ==
  /\ Overlap = FALSE /\ Connected = TRUE
  /\ Cardinality(Apps) < MAX_HANDOFF_ENTRIES
  /\ Cardinality(Sockets) <= MAX_CACHED_ACTIVITIES
  /\ \A p \in Companions : AppsOf[p] # {}

\* Everything under way is about slots of its own.
HandsApart ==
  \A t, u \in Threads : t # u => InHand(t) \cap InHand(u) = {}

HandsOffQueues ==
  \A t \in Threads, c \in Channels : \A i \in DOMAIN queue[c] :
    InHand(t) \cap FrameSlots(queue[c][i]) = {}

HandsOffScans ==
  \A t \in Threads : \A i \in DOMAIN scans :
    InHand(t) \cap ScanSlots(scans[i]) = {}

FramesApart ==
  \A c, d \in Channels : \A i \in DOMAIN queue[c] : \A j \in DOMAIN queue[d] :
    c # d \/ i # j
      => FrameSlots(queue[c][i]) \cap FrameSlots(queue[d][j]) = {}

ScansApart ==
  \A i, j \in DOMAIN scans :
    i # j => ScanSlots(scans[i]) \cap ScanSlots(scans[j]) = {}

FramesOffScans ==
  \A c \in Channels : \A i \in DOMAIN queue[c] : \A j \in DOMAIN scans :
    FrameSlots(queue[c][i]) \cap ScanSlots(scans[j]) = {}

Exclusive ==
  /\ HandsApart /\ HandsOffQueues /\ HandsOffScans
  /\ FramesApart /\ ScansApart /\ FramesOffScans

\* The refresh thread works alone.
RefreshAlone ==
  pc[R] # "idle" =>
    /\ \A t \in Threads \ {R} : pc[t] = "idle"
    /\ \A c \in Channels : queue[c] = <<>>
    /\ scans = <<>>
    /\ copies # {}
    /\ \A copy \in copies : copy.card # None /\ cache[copy.socket] = copy.card

\* An owner publishes for its slot; what a thread broadcasts, or will, is about
\* a slot it has in hand.
SlotsInHand ==
  /\ \A a \in Apps : live_ipc[a] # None =>
       live_ipc[a] \in Companions /\ a \in AppsOf[live_ipc[a]]
  /\ \A t \in Threads :
       /\ \A game \in todo[t] : game.app \in InHand(t)
       /\ pc[t] \in {"idle", "note", "compare", "handback", "take"} => todo[t] = {}
       /\ pc[t] \in {"cache", "send"} /\ out[t].socket \in Apps
            => out[t].socket \in InHand(t)
  /\ todo[R] = {}
  /\ pc[P] = "idle" => cur[P] = None
  /\ pc[P] = "take" => cur[P] = None /\ last_scans = [a \in Apps |-> None]
  /\ pc[P] = "next" => cur[P] = None
  /\ cur[P] # None => todo[P] = {}

\* The games that were reported had started.
Reported(pid) == life[pid] # "unborn"

GamesReported ==
  /\ \A a \in Apps : last_scans[a] # None => Reported(last_scans[a])
  /\ \A i \in DOMAIN scans : scans[i] # None => Reported(scans[i].pid)

\* What is to be resumed or published was scanned last.
ScannedLast ==
  /\ \A c \in Channels : \A game \in todo[c] : last_scans[game.app] = game.pid
  /\ pc[P] \in {"check", "yield", "dedup", "track"}
       => last_scans[cur[P].app] = cur[P].pid
  /\ pc[P] = "yield" => live_ipc[cur[P].app] # None

\* last_process tells which slots have a generic card, but for the broadcasts
\* that are under way.
TrackedIsCached ==
  /\ \A t \in Threads :
       pc[t] = "cache" /\ out[t].socket \in Apps
         => (out[t].card # None <=> last_process[out[t].socket] # None)
  /\ \A game \in todo[P] : last_process[game.app] = None
  /\ \A a \in Apps :
       \/ last_process[a] # None <=> cache[a] # None
       \/ \E t \in Threads : pc[t] = "cache" /\ out[t].socket = a
       \/ \E game \in todo[P] : game.app = a
  /\ \A a \in Apps :
       last_scans[a] = None => last_process[a] = None \/ pc[P] = "take"

\* A scanned game without an owner has its card, or is about to get it.
NotDark ==
  \A a \in Apps :
    last_scans[a] \in Alive /\ live_ipc[a] = None =>
      \/ last_process[a] # None
      \/ pc[P] \in {"check", "dedup", "track"} /\ cur[P].app = a
      \/ \E c \in Channels : \E game \in todo[c] : game.app = a

\* Clients show what is cached, but for the payload about to be sent.
Mirrored ==
  /\ \A t \in Threads : pc[t] = "send" => cache[out[t].socket] = out[t].card
  /\ \A s \in Sockets :
       screen[s] = cache[s] \/ \E t \in Threads : pc[t] = "send" /\ out[t].socket = s

CardsInv ==
  /\ FramesRouted /\ PayloadsFit
  /\ Exclusive /\ RefreshAlone /\ SlotsInHand /\ GamesReported
  /\ ScannedLast /\ TrackedIsCached /\ NotDark /\ Mirrored
=============================================================================

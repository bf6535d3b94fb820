----------------------------- MODULE IpcSession -----------------------------
(***************************************************************************)
(* The connections of the IPC connector: handle_stream of                  *)
(* lib/src/server/ipc_utils.rs, one thread per connection, between the     *)
(* game that writes packets and the event loop that applies events.        *)
(*                                                                         *)
(* A game waits for each answer (lock-step) or writes ahead.  The thread *)
(* makes a new BufReader for every packet and drops it with what it has    *)
(* read ahead, so what was written behind a packet is lost with it, and a  *)
(* packet cut by the end of the buffer leaves a tail that reads as a       *)
(* packet of absurd size.                                                  *)
(*                                                                         *)
(* Of the bridge it keeps what a connection can change: the card shown for *)
(* a pid and the pid that owns an application.  Its flood guard and caps   *)
(* are in Bridge; recreating the socket is in IpcSockets.                  *)
(***************************************************************************)
EXTENDS Naturals, Sequences, Tables

CONSTANTS
  Conns,       \* connections
  Apps,        \* client ids
  Pids,        \* pids a frame may carry
  NoPid,       \* args without a pid: 0
  Acts,        \* activities
  Packets,     \* Packets[c]: what the game of c may write
  Patient,     \* the games that wait for an answer before they write again
  QueueCap,    \* sync_channel(64)
  MaxPackets   \* MaxPackets[c]: bound on the packets of c

PidKeys == Pids \cup {NoPid}

\* A packet.  "frame" is SET_ACTIVITY with args (act None: a clear), "bare"
\* one without; "local" a command answered here (SUBSCRIBE, GET_USER, an
\* unknown one, a frame that does not parse); "relay" one forwarded to the
\* clients.  "refused" is a handshake of another version or without client
\* id, "odd" one that does not parse; "huge" is over MAX_IPC_PAYLOAD, "alien"
\* of no known type, "broken" one whose body cannot be read.
Simple(kind) == [kind |-> kind, app |-> None, pid |-> NoPid, act |-> None]
Hello(a)     == [Simple("hello") EXCEPT !.app = a]
Frame(p, x)  == [Simple("frame") EXCEPT !.pid = p, !.act = x]
Kinds == {"hello", "odd", "refused", "frame", "bare", "local", "relay",
          "close", "ping", "pong", "huge", "alien", "broken"}
FrameKinds == {"frame", "bare", "local", "relay"}
Packet == [kind : Kinds, app : Apps \cup {None}, pid : PidKeys, act : Acts \cup {None}]

ASSUME IpcAssumption ==
  /\ QueueCap \in Nat /\ QueueCap > 0
  /\ MaxPackets \in [Conns -> Nat]
  /\ Patient \subseteq Conns
  /\ NoPid \notin Pids /\ None \notin Apps \cup PidKeys \cup Acts
  /\ \A c \in Conns : Packets[c] \subseteq Packet

Cut == Simple("huge")

\* An event for the bridge: the client id (None in send_empty), pid, activity.
Event(a, p, x) == [app |-> a, pid |-> p, act |-> x]
Events == [app : Apps \cup {None}, pid : PidKeys, act : Acts \cup {None}]

VARIABLES
  pipe,     \* pipe[c]: packets written and not read
  game,     \* game[c]: connected, greeted, the packet it waits on, the last echo
  handler,  \* handler[c]: the thread of the connection
  queue,    \* events for the bridge
  shown,    \* shown[p]: the card for pid p
  owner     \* owner[a]: the pid that published for application a last

sessionVars == <<pipe, game, handler, queue, shown, owner>>

Idle == [at |-> "off", greeted |-> FALSE, app |-> None, pid |-> NoPid,
         event |-> None, then |-> "read", answered |-> None]

Away == [on |-> FALSE, ready |-> FALSE, asked |-> None, echoed |-> None, written |-> 0]

SessionInit ==
  /\ pipe    = [c \in Conns |-> <<>>]
  /\ game    = [c \in Conns |-> Away]
  /\ handler = [c \in Conns |-> Idle]
  /\ queue   = <<>>
  /\ shown   = [p \in PidKeys |-> None]
  /\ owner   = [a \in Apps |-> None]

At(c, here) == handler[c].at = here

-----------------------------------------------------------------------------
(* The game.                                                               *)

Connect(c) ==
  /\ At(c, "off")
  /\ handler' = [handler EXCEPT ![c].at = "read"]
  /\ game' = [game EXCEPT ![c].on = TRUE]
  /\ UNCHANGED <<pipe, queue, shown, owner>>

\* What a client waits for an answer to.
Awaits(k) == k.kind \in {"hello", "ping"} \cup FrameKinds

Write(c, k) ==
  /\ game[c].on /\ k \in Packets[c]
  /\ game[c].written < MaxPackets[c]
  /\ c \in Patient => game[c].asked = None /\ pipe[c] = <<>>
  /\ pipe' = [pipe EXCEPT ![c] = Append(@, k)]
  /\ game' = [game EXCEPT ![c].written = @ + 1,
                          ![c].asked   = IF Awaits(k) THEN k ELSE @]
  /\ UNCHANGED <<handler, queue, shown, owner>>

\* The game exits, is killed, or drops the connection.
Leave(c) ==
  /\ game[c].on
  /\ game' = [game EXCEPT ![c].on = FALSE, ![c].asked = None]
  /\ UNCHANGED <<pipe, handler, queue, shown, owner>>

-----------------------------------------------------------------------------
(* handle_stream.                                                          *)

\* The thread reads a packet; what is left behind it.
Got(c) == Head(pipe[c])

Reads(c, kinds) ==
  /\ At(c, "read") /\ pipe[c] # <<>> /\ Got(c).kind \in kinds
  /\ \/ pipe' = [pipe EXCEPT ![c] = <<>>]
     \/ Len(pipe[c]) > 1 /\ pipe' = [pipe EXCEPT ![c] = <<Cut>>]

Continue(c) == handler' = handler

\* Faulty: a command without a backend is dropped.
AnswerOwn(c, k) ==
  handler' = IF k.kind = "local" THEN handler
             ELSE [handler EXCEPT ![c].at = "reply", ![c].answered = k]

Answer(c, k) == handler' = [handler EXCEPT ![c].at = "reply", ![c].answered = k]

\* Send event e (blocking while the queue is full), then go on.
Send(c, e, then) ==
  handler' = [handler EXCEPT ![c].at = "send", ![c].event = e, ![c].then = then]

\* Faulty: without args.
EmptyNoArgs(p) == Event(None, None, None)

SendEmpty(p) == Event(None, p, None)

\* A read fails: the peer is gone.
HangUp(c) ==
  /\ At(c, "read") /\ pipe[c] = <<>> /\ ~game[c].on
  /\ Send(c, SendEmpty(handler[c].pid), "ended")
  /\ UNCHANGED <<pipe, game, queue, shown, owner>>

\* Connections the bridge ends itself; it sends no clear.
Refuse(c) ==
  /\ Reads(c, {"refused", "huge", "alien", "broken"})
  /\ handler' = [handler EXCEPT ![c].at = "refused"]
  /\ UNCHANGED <<game, queue, shown, owner>>

Handshake(c) ==
  /\ \/ Reads(c, {"odd"}) /\ Continue(c)
     \/ /\ Reads(c, {"hello"})
        /\ handler' = [handler EXCEPT ![c].greeted = TRUE, ![c].app = Got(c).app,
                                      ![c].at = "reply", ![c].answered = Got(c)]
  /\ UNCHANGED <<game, queue, shown, owner>>

\* handle_set_activity, once the packet is read.
SetActivity(c, k) ==
  \/ /\ k.kind = "bare"
     /\ Send(c, SendEmpty(handler[c].pid), "read")
  \/ /\ k.kind = "frame"
     /\ handler' = [handler EXCEPT ![c].at = "send", ![c].then = "reply",
                                   ![c].event = Event(handler[c].app, k.pid, k.act),
                                   ![c].answered = k,
                                   ![c].pid = k.pid]

HandleFrame(c) ==
  /\ Reads(c, FrameKinds)
  /\ \/ ~handler[c].greeted /\ Continue(c)
     \/ handler[c].greeted /\ SetActivity(c, Got(c))
     \/ handler[c].greeted /\ Got(c).kind \in {"local", "relay"} /\ Answer(c, Got(c))
  /\ UNCHANGED <<game, queue, shown, owner>>

\* Faulty: the values are reset first.
CloseEventReset(c) == Event(None, NoPid, None)

\* The clear carries the client id; the values are reset behind it.
CloseEvent(c) == Event(handler[c].app, handler[c].pid, None)

Close(c) ==
  /\ Reads(c, {"close"})
  /\ Send(c, CloseEvent(c), "recreate")
  /\ UNCHANGED <<game, queue, shown, owner>>

Ping(c) ==
  /\ \/ Reads(c, {"ping"}) /\ Answer(c, Got(c))
     \/ Reads(c, {"pong"}) /\ Continue(c)
  /\ UNCHANGED <<game, queue, shown, owner>>

\* Faulty: try_send.
EnqueueOrDrop(c) ==
  /\ At(c, "send")
  /\ queue' = IF Len(queue) < QueueCap THEN Append(queue, handler[c].event) ELSE queue
  /\ handler' = [handler EXCEPT ![c].at = handler[c].then, ![c].event = None]
  /\ UNCHANGED <<pipe, game, shown, owner>>

Enqueue(c) ==
  /\ At(c, "send") /\ Len(queue) < QueueCap
  /\ queue' = Append(queue, handler[c].event)
  /\ handler' = [handler EXCEPT ![c].at = handler[c].then, ![c].event = None]
  /\ UNCHANGED <<pipe, game, shown, owner>>

\* Write the answer; a peer that is gone is found out by the next read.
Reply(c) ==
  /\ At(c, "reply")
  /\ handler' = [handler EXCEPT ![c].at = "read", ![c].answered = None]
  /\ LET k == handler[c].answered IN
       game' = IF ~game[c].on THEN game
               ELSE [game EXCEPT ![c].asked  = IF @ = k THEN None ELSE @,
                                 ![c].ready  = @ \/ k.kind = "hello",
                                 ![c].echoed = IF k.kind = "frame" THEN k ELSE @]
  /\ UNCHANGED <<pipe, queue, shown, owner>>

\* Close: reset, recreate the socket (IpcSockets), end.
Recreate(c) ==
  /\ At(c, "recreate")
  /\ handler' = [handler EXCEPT ![c].at = "ended", ![c].greeted = FALSE,
                                ![c].app = None, ![c].pid = NoPid]
  /\ UNCHANGED <<pipe, game, queue, shown, owner>>

Handle(c) ==
  \/ HangUp(c) \/ Refuse(c) \/ Handshake(c) \/ HandleFrame(c) \/ Close(c)
  \/ Ping(c) \/ Enqueue(c) \/ Reply(c) \/ Recreate(c)

-----------------------------------------------------------------------------
(* The bridge's event loop, as far as the cards and their owners go.       *)

\* The owners after a clear: its own application's when it names one and the
\* owner is this pid, every application of the pid when it does not.
Released(e) ==
  [a \in Apps |-> IF owner[a] = e.pid /\ e.pid # NoPid /\ e.app \in {a, None}
                    THEN None ELSE owner[a]]

Apply ==
  /\ queue # <<>>
  /\ LET e == Head(queue) IN
       /\ shown' = [shown EXCEPT ![e.pid] = e.act]
       /\ owner' = IF e.act = None THEN Released(e)
                   ELSE [owner EXCEPT ![e.app] = e.pid]
  /\ queue' = Tail(queue)
  /\ UNCHANGED <<pipe, game, handler>>

Game(c) == Connect(c) \/ (\E k \in Packets[c] : Write(c, k)) \/ Leave(c)

Done ==
  /\ \A c \in Conns : ~game[c].on /\ handler[c].at \in {"off", "refused", "ended"}
  /\ queue = <<>>
  /\ UNCHANGED sessionVars

SessionNext == (\E c \in Conns : Game(c) \/ Handle(c)) \/ Apply \/ Done

SessionSpec == SessionInit /\ [][SessionNext]_sessionVars

\* A thread per connection and the event loop, each a loop over blocking
\* calls; games are not fair.
SessionFairSpec == SessionSpec /\ (\A c \in Conns : WF_sessionVars(Handle(c))) /\ WF_sessionVars(Apply)

-----------------------------------------------------------------------------
(* Properties.                                                             *)

\* Every variable has its type.
SessionTypeOK ==
  /\ pipe \in [Conns -> Seq(Packet)]
  /\ game \in [Conns -> [on : BOOLEAN, ready : BOOLEAN, asked : Packet \cup {None},
                         echoed : Packet \cup {None}, written : Nat]]
  /\ handler \in [Conns ->
       [at : {"off", "read", "send", "reply", "recreate", "refused", "ended"},
        greeted : BOOLEAN, app : Apps \cup {None}, pid : PidKeys,
        event : Events \cup {None}, then : {"read", "reply", "recreate", "ended"},
        answered : Packet \cup {None}]]
  /\ queue \in Seq(Events) /\ Len(queue) <= QueueCap
  /\ shown \in [PidKeys -> Acts \cup {None}]
  /\ owner \in [Apps -> PidKeys \cup {None}]

\* Once every connection has ended, by a Close, a dropped socket or a kill at
\* any point, no card is left and no application is owned by a pid, when a
\* connection keeps its pid ("Stuck presence after game close", fixed;
\* "Abrupt closes now release every slot owned by the dead pid").
ClearedAtEnd ==
  (\A c \in Conns : handler[c].at \in {"off", "recreate", "ended"}) /\ queue = <<>>
    => /\ \A p \in PidKeys : shown[p] = None
       /\ \A a \in Apps : owner[a] \in {None, NoPid}

\* What a game was told of as published is what the bridge shows once the
\* queue is drained, whatever other connections do: no event is dropped
\* between the answer and the bridge, and no other end clears the card.
EchoedShown(keys) ==
  \A c \in Conns :
    LET k == game[c].echoed IN
      /\ game[c].on /\ At(c, "read") /\ game[c].asked = None /\ queue = <<>>
      /\ k # None /\ k.pid \in keys
      => shown[k.pid] = k.act

EchoedIsShown == EchoedShown(Pids)

\* The cards follow the connections: there while one is told so, gone with the last.
CardsFollowSessions == EchoedIsShown /\ ClearedAtEnd

\* It holds of a card without a pid too: a connection on which no game was
\* ever identified is ignored, "or every fresh connection would flap the
\* display".
FreshConnectionIgnored == EchoedShown({NoPid})

Ended(c) == handler[c].at \in {"refused", "recreate", "ended"}

\* A game that waits for its answer gets it ("a reply is always sent"), when
\* it shook hands first and its SET_ACTIVITY has args, or sees the connection end.
Answered ==
  \A c \in Patient :
    LET k == game[c].asked IN
      (k # None /\ k.kind # "bare" /\ (k.kind \in FrameKinds => game[c].ready))
        ~> (game[c].asked = None \/ Ended(c))

\* The same of every SET_ACTIVITY, and of games that write ahead.
AlwaysAnswered ==
  \A c \in Conns :
    (game[c].asked # None /\ game[c].asked.kind \in FrameKinds /\ game[c].ready)
      ~> (game[c].asked = None \/ Ended(c))
=============================================================================

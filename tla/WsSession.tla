----------------------------- MODULE WsSession ------------------------------
(***************************************************************************)
(* The WebSocket connector (src/lib/src/server/websocket.rs): the port it  *)
(* binds, and the one thread that polls the events of all its clients, in  *)
(* the order the server library queues them: a client's own come in order, *)
(* but a connection that died may be reported long after its successor.    *)
(*                                                                         *)
(* Of the bridge it keeps what the events handed over come to: a card per  *)
(* application and pid.  The bridge's event loop lives as long as the      *)
(* daemon, and what was parsed from JSON can be encoded: failures of       *)
(* either are left out.                                                    *)
(***************************************************************************)
EXTENDS Integers, Sequences, Tables

CONSTANTS
  WsClients,   \* connections: each client id is new
  WsApps, WsPids,
  NoWsPid,     \* a command without a pid, and the pid 0 it is published with
  WsCommands,  \* WsCommands[c]: what client c may send
  WsQueries,   \* WsQueries[c]: the queries and origins c may connect with
  FirstPort, LastPort,
  HeldPorts,   \* the ports that others may hold
  MaxSaid,     \* messages of one client
  SecondaryOn,   \* secondary_events
  SetActivityOn  \* set_activity

Ports == FirstPort .. LastPort

\* A message: of what kind, with which id, args and activity.  "ask" is answered
\* here (DEEP_LINK, CONNECTIONS_CALLBACK, SUBSCRIBE, GET_USER, an unknown one);
\* "browse" is INVITE_BROWSER and its like; "noise" does not parse.
Command == [kind : {"ask", "browse", "set", "noise"}, app : WsApps \cup {None},
            pid : WsPids \cup {NoWsPid}, args : BOOLEAN, activity : BOOLEAN]
Origins == {"none", "discord", "other"}
Query   == [valid : BOOLEAN, app : WsApps \cup {None}, origin : Origins]

\* What the connector knows of a client: its last activity, its connect query.
Entry == [last : Command \cup {None}, app : WsApps \cup {None}, origin : Origins]

ASSUME WsAssumption ==
  /\ FirstPort \in Int /\ LastPort \in Int /\ FirstPort <= LastPort
  /\ HeldPorts \subseteq SUBSET Ports
  /\ NoWsPid \notin WsPids /\ None \notin Command \cup Entry
  /\ \A c \in WsClients : WsCommands[c] \subseteq Command
  /\ \A c \in WsClients : WsQueries[c] \subseteq Query
  /\ SecondaryOn \in BOOLEAN /\ SetActivityOn \in BOOLEAN

VARIABLES
  connector,  \* where it is, the port it tries or has, the ports of others
  peer,       \* peer[c]: the client's end
  hub,        \* the events queued by the server library
  clients,    \* clients[c]: last activity and connect parameters, or None
  cards       \* the cards left by what was handed over to the bridge

wsVars == <<connector, peer, hub, clients, cards>>

Nowhere == [at |-> "away", query |-> None, asked |-> <<>>, got |-> <<>>]

\* The elements of s that are in S, in their order.
Plus(kept, e, S) == IF e \in S THEN Append(kept, e) ELSE kept
Among(s, S) ==
  LET kept[i \in 0 .. Len(s)] ==
        IF i = 0 THEN <<>> ELSE Plus(kept[i - 1], s[i], S)
  IN  kept[Len(s)]

-----------------------------------------------------------------------------
(* Binding.                                                                 *)

\* WebsocketConnector::new: the next port of the range, or the one after it.
TryPort ==
  /\ connector.at = "bind"
  /\ connector' =
       IF connector.port > LastPort THEN [connector EXCEPT !.at = "failed"]
       ELSE IF connector.port \in connector.others
              THEN [connector EXCEPT !.port = @ + 1]
              ELSE [connector EXCEPT !.at = "built"]
  /\ UNCHANGED <<peer, hub, clients, cards>>

\* start; the server is taken once.
StartPolling ==
  /\ connector.at = "built"
  /\ connector' = [connector EXCEPT !.at = "up"]
  /\ UNCHANGED <<peer, hub, clients, cards>>

-----------------------------------------------------------------------------
(* The clients and the server library.                                      *)

Queued(kind, c, what) == hub' = Append(hub, [kind |-> kind, of |-> c, what |-> what])

\* The library accepts as soon as it has the port.
OpenWs(c, q) ==
  /\ connector.at \in {"built", "up"}
  /\ peer[c].at = "away"
  /\ peer' = [peer EXCEPT ![c].at = "open", ![c].query = q]
  /\ Queued("connect", c, None)
  /\ UNCHANGED <<connector, clients, cards>>

\* What a client that takes part in the protocol has an answer to.
Answerable(c, k) ==
  /\ peer[c].query.valid
  /\ peer[c].query.origin # "other"
  /\ \/ k.kind = "ask"
     \/ k.kind = "browse" /\ SecondaryOn
     \/ k.kind = "set" /\ SetActivityOn /\ k.args

Say(c, k) ==
  /\ peer[c].at = "open"
  /\ Len(peer[c].asked) < MaxSaid
  /\ Queued("message", c, k)
  /\ peer' = [peer EXCEPT ![c].asked = Append(@, k)]
  /\ UNCHANGED <<connector, clients, cards>>

\* It leaves, or the connection that was refused is closed.
Hangup(c) ==
  /\ peer[c].at \in {"open", "closing"}
  /\ peer' = [peer EXCEPT ![c].at = "gone"]
  /\ Queued("disconnect", c, None)
  /\ UNCHANGED <<connector, clients, cards>>

-----------------------------------------------------------------------------
(* The polling thread.                                                      *)

Polled(kind) ==
  /\ connector.at = "up"
  /\ hub # <<>>
  /\ Head(hub).kind = kind
  /\ hub' = Tail(hub)
  /\ UNCHANGED connector

Replied(c, what) == peer' = [peer EXCEPT ![c].got = Append(@, what)]

Ready == "READY"

\* Faulty: the version is not looked at.
AnyVersion(q) == TRUE

Welcome(q) == q.valid

\* Event::Connect: another version or encoding is closed, and never known.
PollConnect ==
  /\ Polled("connect")
  /\ LET c == Head(hub).of
         q == peer[c].query
     IN  IF Welcome(q)
           THEN /\ clients' = [clients EXCEPT ![c] = [last |-> None, app |-> q.app,
                                                      origin |-> q.origin]]
                /\ Replied(c, Ready)
           ELSE /\ peer' = [peer EXCEPT ![c].at = IF @ = "open" THEN "closing" ELSE @]
                /\ UNCHANGED clients
  /\ UNCHANGED cards

\* What handle_set_activity remembers: the pid is 0 without one, and without args.
Card(k) == <<k.app, IF k.args THEN k.pid ELSE NoWsPid>>

\* The bridge: an activity shows a card; a clear needs a pid.
Applied(k) ==
  IF ~k.args \/ (~k.activity /\ k.pid = NoWsPid) THEN cards
  ELSE IF k.activity THEN cards \cup {Card(k)} ELSE cards \ {Card(k)}

\* Faulty: the clear names the application of the connect query.
ClearedAsConnected(entry) == cards \ {<<entry.app, Card(entry.last)[2]>>}

\* handle_disconnect: a clear for the last activity, if there was one.
Cleared(entry) ==
  IF Card(entry.last)[2] = NoWsPid THEN cards ELSE cards \ {Card(entry.last)}

\* Event::Disconnect.
PollDisconnect ==
  /\ Polled("disconnect")
  /\ LET c == Head(hub).of IN
       /\ clients' = [clients EXCEPT ![c] = None]
       /\ cards' = IF clients[c] # None /\ clients[c].last # None
                     THEN Cleared(clients[c]) ELSE cards
  /\ UNCHANGED peer

\* Faulty: wherever it comes from.
FromAnywhere(c, k) == clients[c] # None /\ k.kind # "noise"

\* The command is read, and its sender may give it.
Accepted(c, k) ==
  /\ clients[c] # None
  /\ k.kind # "noise"
  /\ clients[c].origin # "other"

\* The application of the connect query stands in for one.
Completed(c, k) == IF k.app = None THEN [k EXCEPT !.app = clients[c].app] ELSE k

\* Event::Message.
PollMessage ==
  /\ Polled("message")
  /\ LET c == Head(hub).of
         k == Head(hub).what
         s == Completed(c, k)
     IN  IF ~Accepted(c, k)
           THEN UNCHANGED <<peer, clients, cards>>
         ELSE IF k.kind = "set" /\ SetActivityOn
           THEN /\ clients' = [clients EXCEPT ![c].last = s]
                /\ cards' = Applied(s)
                /\ IF k.args THEN Replied(c, k) ELSE UNCHANGED peer
         ELSE /\ IF k.kind = "ask" \/ (k.kind = "browse" /\ SecondaryOn)
                   THEN Replied(c, k) ELSE UNCHANGED peer
              /\ UNCHANGED <<clients, cards>>

-----------------------------------------------------------------------------
WsInit ==
  /\ connector \in [at : {"bind"}, port : {FirstPort}, others : HeldPorts]
  /\ peer = [c \in WsClients |-> Nowhere]
  /\ hub = <<>>
  /\ clients = [c \in WsClients |-> None]
  /\ cards = {}

WsPeers ==
  \E c \in WsClients :
    \/ \E q \in WsQueries[c] : OpenWs(c, q)
    \/ \E k \in WsCommands[c] : Say(c, k)
    \/ Hangup(c)

WsThread == TryPort \/ StartPolling \/ PollConnect \/ PollDisconnect \/ PollMessage

WsNext == WsPeers \/ WsThread

WsSpec == WsInit /\ [][WsNext]_wsVars

-----------------------------------------------------------------------------
(* Properties.                                                              *)

\* Every variable has its type; whoever is polled has the port it tried last.
WsTypeOK ==
  /\ connector.at \in {"bind", "built", "up", "failed"}
  /\ connector.port \in Ports \cup {LastPort + 1}
  /\ connector.at \in {"built", "up"} => connector.port \in Ports \ connector.others
  /\ connector.at = "failed" => Ports \subseteq connector.others
  /\ \A c \in WsClients :
       /\ peer[c].at \in {"away", "open", "closing", "gone"}
       /\ peer[c].query \in Query \cup {None}
       /\ clients[c] # None => /\ peer[c].query.valid
                               /\ clients[c].last \in Command \cup {None}
  /\ cards \subseteq (WsApps \cup {None}) \X (WsPids \cup {NoWsPid})

Shows(c) == clients[c] # None /\ clients[c].last # None /\ clients[c].last.activity

\* The cards are those the connected clients set last, through any interleaving
\* of their commands and ends, where no two share one and each keeps to its own
\* application and pid (handle_set_activity, handle_disconnect).
CardsMirrorClients ==
  cards = {Card(clients[c].last) : c \in {d \in WsClients : Shows(d)}}

\* The commands of c that wait in the queue, of those in S.
Messages(c, S) == [kind : {"message"}, of : {c}, what : S]
Whats(events) == [i \in DOMAIN events |-> events[i].what]
Unread(c, S) == Whats(Among(hub, Messages(c, S)))

Asks(c) == {k \in Command : Answerable(c, k)}

\* Lock-step: the answers a client has and those still queued for it are those it
\* asked for, in that order, after its READY.
AnsweredInOrder ==
  \A c \in WsClients :
    clients[c] # None =>
      <<Ready>> \o Among(peer[c].asked, Asks(c)) = peer[c].got \o Unread(c, Asks(c))

\* Whatever parses is answered; an RPC library hangs without.
EverythingAnswered ==
  LET read == {k \in Command : k.kind # "noise"} IN
    \A c \in WsClients :
      clients[c] # None =>
        Len(Among(peer[c].asked, read)) = Len(Tail(peer[c].got)) + Len(Unread(c, read))
=============================================================================

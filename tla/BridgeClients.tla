---------------------------- MODULE BridgeClients ---------------------------
(***************************************************************************)
(* The bridge's own clients (src/lib/src/server/client_connector.rs and    *)
(* user.rs): the web pages and mods that connect to the JSON or to the     *)
(* MessagePack port, are greeted, brought up to date from the replay       *)
(* cache, told of what changes, and dropped when they are gone.            *)
(*                                                                         *)
(* One poll loop per port handles the port's events one by one.  The       *)
(* threads that broadcast (event loops, process loop; what they broadcast  *)
(* is Bridge's subject) and the refresh thread send to whoever is in the   *)
(* port's table at that moment.  One action is one critical section.       *)
(***************************************************************************)
EXTENDS Sequences, Tables

CONSTANTS
  Clients,       \* connections; each is made, and closed, once
  PortOf,        \* PortOf[c]: the port c connects to
  FormatOf,      \* FormatOf[c]: the ?format= of its URI, or None
  ServedSockets, \* the socket ids presence is published under
  ServedCards,   \* activities
  Casters,       \* the threads that broadcast
  Fields,        \* the parts of the identity a SET_USER may patch
  Values,        \* what they may be set to
  Startup,       \* RpcUser::from_env, read at start
  Controllers,   \* the clients that send SET_USER and RESET_USER
  MaxCasts,      \* bound on the broadcasts
  MaxControls    \* bound on the control messages

Ports   == {"json", "msgpack"}
Links   == {"new", "open", "closed"}
User    == [Fields -> Values]
\* What a SET_USER patch changes: a missing, blank or unlisted key is None.
Patches == [Fields -> Values \cup {None}]
Senders == Casters \cup {"refresh"}

ASSUME ClientsAssumption ==
  /\ PortOf \in [Clients -> Ports]
  /\ FormatOf \in [Clients -> Ports \cup {None}]
  /\ Startup \in User
  /\ Controllers \subseteq Clients
  /\ Casters \cap (Ports \cup {"refresh"}) = {}
  /\ None \notin Clients
  /\ MaxCasts \in Nat /\ MaxControls \in Nat

VARIABLES
  link,       \* link[c]: "new", "open" or "closed", as the client sees it
  hub,        \* hub[p]: the events of port p not yet polled
  clients,    \* json_clients and msgpack_clients
  user,       \* the shared identity
  replay,     \* last_activities: socket -> card
  place,      \* where each poll loop and each sending thread is
  joining,    \* joining[p]: the client poll loop p is greeting
  control,    \* control[p]: what handle_bridge_control knows in poll loop p
  payload,    \* payload[t]: what sender t is sending
  left,       \* refresh_clients' payloads still to be sent
  page,       \* page[c]: the cards c shows, by socket
  told,       \* told[c]: the identity c was last told, or None
  heard,      \* heard[c]: the encodings of the frames c was sent
  casts, controls  \* how many so far

clientVars == <<link, hub, clients, user, replay, place, joining, control,
                payload, left, page, told, heard, casts, controls>>

\* BridgeProtocol::from_query: the encoding each client was promised.
Protocol ==
  [c \in Clients |-> IF FormatOf[c] = None THEN PortOf[c] ELSE FormatOf[c]]

Always(encoding) == [c \in Clients |-> encoding]

Open == {c \in Clients : link[c] = "open"}

ClientsInit ==
  /\ link = [c \in Clients |-> "new"]
  /\ hub = [p \in Ports |-> <<>>]
  /\ clients = [p \in Ports |-> {}]
  /\ user = Startup
  /\ replay = [s \in ServedSockets |-> None]
  /\ place = [t \in Ports \cup Senders |-> "idle"]
  /\ joining = [p \in Ports |-> None]
  /\ control = [p \in Ports |-> None]
  /\ payload = [t \in Senders |-> None]
  /\ left = {}
  /\ page = [c \in Clients |-> [s \in ServedSockets |-> None]]
  /\ told = [c \in Clients |-> None]
  /\ heard = [c \in Clients |-> {}]
  /\ casts = 0
  /\ controls = 0

At(t, label)  == place[t] = label
Move(t, label) == place' = [place EXCEPT ![t] = label]

-----------------------------------------------------------------------------
(* The clients.  The event hub queues what they do, in order, per port.     *)

Queue(c, event) == hub' = [hub EXCEPT ![PortOf[c]] = Append(@, event)]

Connect(c) ==
  /\ link[c] = "new"
  /\ link' = [link EXCEPT ![c] = "open"]
  /\ Queue(c, [kind |-> "connect", from |-> c])
  /\ UNCHANGED <<clients, user, replay, place, joining, control, payload, left,
                 page, told, heard, casts, controls>>

\* The connection ends: sends to it fail from now on.
Disconnect(c) ==
  /\ link[c] = "open"
  /\ link' = [link EXCEPT ![c] = "closed"]
  /\ Queue(c, [kind |-> "disconnect", from |-> c])
  /\ UNCHANGED <<clients, user, replay, place, joining, control, payload, left,
                 page, told, heard, casts, controls>>

\* SET_USER with a patch, or RESET_USER (a patch of None).
Control(c) ==
  /\ c \in Controllers \cap Open
  /\ controls < MaxControls
  /\ controls' = controls + 1
  /\ \E patch \in Patches \cup {None} :
       Queue(c, [kind |-> "control", from |-> c, patch |-> patch])
  /\ UNCHANGED <<link, clients, user, replay, place, joining, control, payload,
                 left, page, told, heard, casts>>

-----------------------------------------------------------------------------
(* poll_loop, one thread per port.                                          *)

Poll(p, kind) ==
  /\ At(p, "idle")
  /\ hub[p] # <<>>
  /\ Head(hub[p]).kind = kind
  /\ hub' = [hub EXCEPT ![p] = Tail(@)]
  /\ UNCHANGED <<link, replay, payload, left, casts, controls>>

\* Responder::send: what reaches a client, and in which encoding.
Hear(listeners, encoding) ==
  heard' = [c \in Clients |-> IF c \in listeners
                                THEN heard[c] \cup {encoding[c]} ELSE heard[c]]

Tell(listeners, identity) ==
  told' = [c \in Clients |-> IF c \in listeners THEN identity ELSE told[c]]

\* READY, in the client's protocol.
PollConnect(p) ==
  /\ Poll(p, "connect")
  /\ LET c == Head(hub[p]).from
     IN  /\ joining' = [joining EXCEPT ![p] = c]
         /\ Tell({c} \cap Open, user)
         /\ Hear({c} \cap Open, Protocol)
  /\ Move(p, "replay")
  /\ UNCHANGED <<clients, user, control, page>>

\* The cached activities, sent under the cache's lock.
Replay(p) ==
  LET c == joining[p]
  IN  /\ At(p, "replay")
      /\ page' = [page EXCEPT ![c] =
                    IF c \in Open
                      THEN [s \in ServedSockets |->
                              IF replay[s] = None THEN @[s] ELSE replay[s]]
                      ELSE @]
      /\ Move(p, "insert")
      /\ UNCHANGED <<link, hub, clients, user, replay, joining, control, payload,
                     left, told, heard, casts, controls>>

\* Only now can a broadcast reach it.
Insert(p) ==
  /\ At(p, "insert")
  /\ clients' = [clients EXCEPT ![p] = @ \cup {joining[p]}]
  /\ joining' = [joining EXCEPT ![p] = None]
  /\ Move(p, "idle")
  /\ UNCHANGED <<link, hub, user, replay, control, payload, left, page, told,
                 heard, casts, controls>>

\* Faulty: a client that is gone is left to the next broadcast.
KeepClosed(p, c) == clients[p]

Remaining(p, c) == clients[p] \ {c}

PollDisconnect(p) ==
  /\ Poll(p, "disconnect")
  /\ clients' = [clients EXCEPT ![p] = Remaining(p, Head(hub[p]).from)]
  /\ UNCHANGED <<user, place, joining, control, page, told, heard>>

\* handle_bridge_control: three separate looks at the identity.
ControlBefore(p) ==
  /\ Poll(p, "control")
  /\ control' = [control EXCEPT ![p] = [from   |-> Head(hub[p]).from,
                                        patch  |-> Head(hub[p]).patch,
                                        before |-> user]]
  /\ Move(p, "patch")
  /\ UNCHANGED <<clients, user, joining, page, told, heard>>

\* Faulty: a blank in the patch wipes what it names.
PatchedBlank(identity, patch) == IF patch = None THEN Startup ELSE patch

\* RpcUser::patch, or RpcUser::from_env.
Patched(identity, patch) ==
  IF patch = None THEN Startup
  ELSE [f \in Fields |-> IF patch[f] = None THEN identity[f] ELSE patch[f]]

ControlPatch(p) ==
  /\ At(p, "patch")
  /\ user' = Patched(user, control[p].patch)
  /\ Move(p, "after")
  /\ UNCHANGED <<link, hub, clients, replay, joining, control, payload, left,
                 page, told, heard, casts, controls>>

ControlAfter(p) ==
  /\ At(p, "after")
  /\ control' = [control EXCEPT ![p] =
                   [from  |-> control[p].from,
                    after |-> user,
                    news  |-> control[p].before # user]]
  /\ Move(p, "ack")
  /\ UNCHANGED <<link, hub, clients, user, replay, joining, payload, left, page,
                 told, heard, casts, controls>>

\* Faulty: the identity goes to the client that set it and to nobody else.
SenderOnly(p) == {control[p].from} \cap clients[p]

\* The clients the poll loop answers: the sender, and all when it is news.
Answered(p) ==
  IF control[p].news THEN clients[p] ELSE {control[p].from} \cap clients[p]

\* The ack, then CURRENT_USER_UPDATE: text frames, whoever listens.  A failed
\* dispatch prunes the client.
ControlAck(p) ==
  LET listeners == Answered(p) \cap Open
  IN  /\ At(p, "ack")
      /\ Tell(listeners, control[p].after)
      /\ Hear(listeners, Always("json"))
      /\ clients' = [clients EXCEPT ![p] =
                       IF control[p].news THEN @ \cap Open ELSE @]
      /\ control' = [control EXCEPT ![p] = None]
      /\ Move(p, "idle")
      /\ UNCHANGED <<link, hub, user, replay, joining, payload, left, page, casts,
                     controls>>

-----------------------------------------------------------------------------
(* broadcast_activity: the replay cache, then the clients of each port.     *)

UpdateReplay(t) ==
  /\ At(t, "idle")
  /\ casts < MaxCasts
  /\ casts' = casts + 1
  /\ \E s \in ServedSockets, card \in ServedCards \cup {None} :
       /\ replay' = [replay EXCEPT ![s] = card]
       /\ payload' = [payload EXCEPT ![t] = [socket |-> s, card |-> card]]
  /\ Move(t, "check")
  /\ UNCHANGED <<link, hub, clients, user, joining, control, left, page, told,
                 heard, controls>>

\* Faulty: the refresh thread never starts another round.
SentForGood(t) ==
  /\ payload' = [payload EXCEPT ![t] = None]
  /\ Move(t, IF t = "refresh" THEN "next" ELSE "idle")

\* Back to the caller: done, or on to refresh_clients' next payload.
Sent(t) ==
  /\ payload' = [payload EXCEPT ![t] = None]
  /\ Move(t, IF t = "refresh" /\ left # {} THEN "next" ELSE "idle")

\* "No clients connected, skipping".
CheckClients(t) ==
  /\ At(t, "check")
  /\ IF \A p \in Ports : clients[p] = {}
       THEN Sent(t)
       ELSE Move(t, "json") /\ UNCHANGED payload
  /\ UNCHANGED <<link, hub, clients, user, replay, joining, control, left, page,
                 told, heard, casts, controls>>

Reached(p) == clients[p] \cap Open

\* One port's clients, in the port's encoding; those gone are pruned.
SendTo(t, p) ==
  /\ At(t, p)
  /\ page' = [c \in Clients |->
                IF c \in Reached(p)
                  THEN [page[c] EXCEPT ![payload[t].socket] = payload[t].card]
                  ELSE page[c]]
  /\ Hear(Reached(p), Always(p))
  /\ clients' = [clients EXCEPT ![p] = @ \cap Open]
  /\ IF p = "json"
       THEN Move(t, "msgpack") /\ UNCHANGED payload
       ELSE Sent(t)
  /\ UNCHANGED <<link, hub, user, replay, joining, control, left, told, casts,
                 controls>>

-----------------------------------------------------------------------------
(* refresh_clients.                                                         *)

Refresh ==
  /\ At("refresh", "idle")
  /\ Keys(replay) # {}
  /\ left' = {[socket |-> s, card |-> replay[s]] : s \in Keys(replay)}
  /\ Move("refresh", "next")
  /\ UNCHANGED <<link, hub, clients, user, replay, joining, control, payload,
                 page, told, heard, casts, controls>>

RefreshNext ==
  /\ At("refresh", "next")
  /\ \E entry \in left :
       /\ left' = left \ {entry}
       /\ payload' = [payload EXCEPT !["refresh"] = entry]
  /\ Move("refresh", "check")
  /\ UNCHANGED <<link, hub, clients, user, replay, joining, control, page, told,
                 heard, casts, controls>>

-----------------------------------------------------------------------------
PollLoop(p) ==
  \/ PollConnect(p) \/ Replay(p) \/ Insert(p)
  \/ PollDisconnect(p)
  \/ ControlBefore(p) \/ ControlPatch(p) \/ ControlAfter(p) \/ ControlAck(p)

SendToAll(t) == CheckClients(t) \/ \E p \in Ports : SendTo(t, p)

RefreshClients == Refresh \/ RefreshNext \/ SendToAll("refresh")

ClientsNext ==
  \/ \E c \in Clients : Connect(c) \/ Disconnect(c) \/ Control(c)
  \/ \E p \in Ports : PollLoop(p)
  \/ \E t \in Casters : UpdateReplay(t) \/ SendToAll(t)
  \/ RefreshClients

ClientsSpec == ClientsInit /\ [][ClientsNext]_clientVars

\* The daemon's threads run on; nothing obliges a client or a game to act.
ClientsFairness ==
  /\ \A p \in Ports : WF_clientVars(PollLoop(p))
  /\ \A t \in Casters : WF_clientVars(SendToAll(t))
  /\ WF_clientVars(RefreshClients)

ClientsFairSpec == ClientsSpec /\ ClientsFairness

-----------------------------------------------------------------------------
(* Properties.                                                              *)

Payloads == [socket : ServedSockets, card : ServedCards \cup {None}]

\* In the port's table, or about to be put there.
Tabled(p) == clients[p] \cup ({joining[p]} \ {None})

Events ==
  [kind : {"connect", "disconnect"}, from : Clients]
    \cup [kind : {"control"}, from : Controllers, patch : Patches \cup {None}]

PollSteps == {"idle", "replay", "insert", "patch", "after", "ack"}
SendSteps == {"idle", "check", "json", "msgpack", "next"}

\* What handle_bridge_control knows at each of its looks.
Looks == [from : Clients, patch : Patches \cup {None}, before : User]
Acks  == [from : Clients, after : User, news : BOOLEAN]

Knows(p) ==
  CASE place[p] \in {"patch", "after"} -> control[p] \in Looks
    [] place[p] = "ack"               -> control[p] \in Acks
    [] OTHER                          -> control[p] = None

\* Every variable has its type, and a poll loop and a sender know what they are
\* about.
ClientsTypeOK ==
  /\ link \in [Clients -> Links]
  /\ hub \in [Ports -> Seq(Events)]
  /\ clients \in [Ports -> SUBSET Clients]
  /\ user \in User
  /\ replay \in [ServedSockets -> ServedCards \cup {None}]
  /\ place \in [Ports \cup Senders -> PollSteps \cup SendSteps]
  /\ \A p \in Ports : place[p] \in PollSteps
  /\ \A t \in Senders : place[t] \in SendSteps
  /\ joining \in [Ports -> Clients \cup {None}]
  /\ control \in [Ports -> Looks \cup Acks \cup {None}]
  /\ \A p \in Ports : Knows(p)
  /\ payload \in [Senders -> Payloads \cup {None}]
  /\ \A t \in Senders :
       place[t] \in {"check", "json", "msgpack"} => payload[t] \in Payloads
  /\ left \subseteq Payloads
  /\ page \in [Clients -> [ServedSockets -> ServedCards \cup {None}]]
  /\ told \in [Clients -> User \cup {None}]
  /\ heard \in [Clients -> SUBSET Ports]
  /\ \A p \in Ports :
       /\ place[p] \in {"replay", "insert"} <=> joining[p] # None
       /\ \A c \in Tabled(p) : PortOf[c] = p
       /\ \A i \in DOMAIN hub[p] : PortOf[hub[p][i].from] = p

ControlsPort(p) == \A c \in Controllers : PortOf[c] = p

\* A connection that is gone leaves nothing behind: whoever is in a table, or
\* about to be put there, is connected or has its Disconnect still to be polled
\* (poll_loop, send_to_all; a client pruned before its Disconnect included).
NobodyForgotten ==
  \A p \in Ports :
    \A c \in Tabled(p) :
      \/ c \in Open
      \/ \E i \in DOMAIN hub[p] : hub[p][i] = [kind |-> "disconnect", from |-> c]

\* While control messages come through one port, every client of that port
\* knows the identity in force whenever the port's poll loop is idle, those
\* that connected between two changes included (ready_payload,
\* CURRENT_USER_UPDATE).
PortKnowsUser ==
  \A p \in Ports :
    ControlsPort(p) /\ At(p, "idle")
      => \A c \in clients[p] \cap Open : told[c] = user

\* The table of clients keeps up with who comes and goes: none that is gone for
\* good is in it, and none in it was left out of a change of identity.
TableKeepsUp == NobodyForgotten /\ PortKnowsUser

\* The same of the clients of both ports.
EveryClientKnowsUser ==
  \A p, q \in Ports :
    At(p, "idle") /\ At(q, "idle")
      => \A c \in (clients[p] \cup clients[q]) \cap Open : told[c] = user

\* Every frame a client is sent is in the encoding it was promised
\* (BridgeProtocol::from_query).
SpeaksAsPromised == \A c \in Clients : heard[c] \subseteq {Protocol[c]}

\* A card that stays in the replay cache is, from some time on, what every
\* client that stays connected shows, whatever it missed while it joined and
\* in whichever order the broadcasts reached it (refresh_clients).
CardsReachClients ==
  \A c \in Clients, s \in ServedSockets, card \in ServedCards :
    <>[](c \in clients[PortOf[c]] \cap Open /\ replay[s] = card)
      => <>[](page[c][s] = card)

\* The same of a slot that stays empty: no client shows a card for ever that
\* the cache no longer holds.
ClearsReachClients ==
  \A c \in Clients, s \in ServedSockets :
    <>[](c \in clients[PortOf[c]] \cap Open /\ replay[s] = None)
      => <>[](page[c][s] = None)

-----------------------------------------------------------------------------
(* The inductive invariant behind TableKeepsUp.                             *)

\* Whoever the bridge knows of, or will, has connected.
KnownConnected ==
  \A p \in Ports :
    /\ \A c \in Tabled(p) : link[c] # "new"
    /\ \A i \in DOMAIN hub[p] : link[hub[p][i].from] # "new"

\* A connection that is still to be greeted is open, or its end is queued
\* behind its beginning.
EndsLater ==
  \A p \in Ports : \A i \in DOMAIN hub[p] :
    hub[p][i].kind = "connect"
      => \/ hub[p][i].from \in Open
         \/ \E j \in DOMAIN hub[p] :
              j > i /\ hub[p][j] = [kind |-> "disconnect", from |-> hub[p][i].from]

\* Between a change of identity and its ack, what the port's clients were told
\* is the identity the loop saw before it; otherwise it is the one in force.
ToldSoFar(p) ==
  LET open == Tabled(p) \cap Open
  IN  CASE At(p, "patch") -> /\ control[p].before = user
                             /\ \A c \in open : told[c] = user
        [] At(p, "after") -> \A c \in open : told[c] = control[p].before
        [] At(p, "ack")   -> /\ control[p].after = user
                             /\ ~ control[p].news => \A c \in open : told[c] = user
        [] OTHER          -> \A c \in open : told[c] = user

\* A poll loop changes the identity only for a client of its own port.
AskedHere ==
  \A p \in Ports :
    At(p, "patch") => control[p].from \in Controllers /\ PortOf[control[p].from] = p

ClientsInv ==
  /\ ClientsTypeOK
  /\ KnownConnected /\ EndsLater /\ NobodyForgotten /\ AskedHere
  /\ \A p \in Ports : ControlsPort(p) => ToldSoFar(p)
=============================================================================

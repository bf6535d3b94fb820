---------------------------- MODULE SlotOwnership ---------------------------
(***************************************************************************)
(* What the IPC-wins handoff promises about who owns an application's      *)
(* slot, without the queues, the flood guard and the thread steps that     *)
(* implement it: each event loop has at most one request in hand, and a    *)
(* request takes effect in one step.  The last publisher owns the slot; a  *)
(* clear gives it back only when it comes from the owner; nothing else     *)
(* touches an owner unless the table is full.                              *)
(***************************************************************************)
EXTENDS Tables

CONSTANTS Channels,   \* the event loops
          Apps,       \* application ids
          Pids,       \* process ids a frame can carry
          Capacity    \* slots that can be owned at one time

VARIABLES owner,      \* owner[app]: the pid that owns the slot, or None
          request     \* request[c]: what loop c is about to apply

vars == <<owner, request>>

\* A clear without an application gives back everything its process holds.
Request == [kind : {"publish"}, app : Apps, pid : Pids]
             \cup [kind : {"clear"}, app : Apps \cup {None}, pid : Pids]

Nothing == [kind |-> "nothing"]

Init ==
  /\ owner = [app \in Apps |-> None]
  /\ request = [c \in Channels |-> Nothing]

Ask(c) ==
  /\ request[c] = Nothing
  /\ \E r \in Request : request' = [request EXCEPT ![c] = r]
  /\ UNCHANGED owner

\* A full table may lose any of its slots, the newcomer's included; a table
\* with room gains the newcomer and keeps the rest.
TakeOver(c) ==
  LET r     == request[c]
      taken == [owner EXCEPT ![r.app] = r.pid]
  IN  /\ r.kind = "publish"
      /\ owner' \in [Apps -> Pids \cup {None}]
      /\ \A app \in Apps : owner'[app] \in {taken[app], None}
      /\ Size(owner) < Capacity => owner' = taken
      /\ Size(owner') <= Capacity
      /\ request' = [request EXCEPT ![c] = Nothing]

GiveBack(c) ==
  LET r == request[c]
  IN  /\ r.kind = "clear"
      /\ owner' = [app \in Apps |->
                     IF owner[app] = r.pid /\ r.app \in {app, None}
                       THEN None ELSE owner[app]]
      /\ request' = [request EXCEPT ![c] = Nothing]

Next == \E c \in Channels : Ask(c) \/ TakeOver(c) \/ GiveBack(c)

Spec == Init /\ [][Next]_vars
=============================================================================

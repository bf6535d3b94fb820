----------------------------- MODULE AppIdMemo -----------------------------
(***************************************************************************)
(* The SteamAppId memo of the process scanner (cached_app_id, drop_appid   *)
(* and sweep_dead_appids in src/lib/src/server/process.rs): one read of a  *)
(* process's environ is kept until the watcher sees the pid EXEC or a tick *)
(* finds the pid gone.  The scan and the watcher read at the same time; a  *)
(* sequence number per entry tells a read that an EXEC has overtaken.      *)
(***************************************************************************)
EXTENDS Naturals, Sequences, Tables

CONSTANTS
  ProcessIds,
  Ids,       \* Steam application ids
  NoId,      \* an environ without SteamAppId, or one that cannot be read
  Gone,      \* no process has the pid
  Stale,     \* AppIdMemo::Stale
  Lossy,     \* whether an EXEC may go unseen (netlink loss, watcher off)
  Forking,   \* whether a remembered pid may be taken over without an exec
  MaxSeq,    \* bound on the EXECs of one pid between two sweeps
  MaxQueue   \* bound on the EXEC events not yet dispatched

Answers == Ids \cup {NoId}
Readers == {"scan", "watcher"}

ASSUME ConstantsAssumption ==
  /\ Gone \notin Answers
  /\ {Stale, None} \cap Answers = {}
  /\ Stale # None
  /\ Lossy \in BOOLEAN /\ Forking \in BOOLEAN
  /\ MaxSeq \in Nat /\ MaxQueue \in Nat

VARIABLES
  environ,   \* environ[p]: the id in p's environ, or Gone
  events,    \* EXEC events on their way to the watcher: a sequence of pids
  memo,      \* memo[p]: what the memo says, Stale, or None
  seq,       \* seq[p]: the entry's sequence number, 0 without one
  pc,        \* where each reader is
  pid,       \* pid[t]: the pid reader t is at
  seq0,      \* the sequence number cached_app_id found
  id,        \* what it read
  listed     \* the pids the scan has still to classify

world    == <<environ, events>>
cache    == <<memo, seq>>
read     == <<seq0, id>>
memoVars == <<world, cache, pc, pid, read, listed>>

MemoInit ==
  /\ environ \in [ProcessIds -> Answers \cup {Gone}]
  /\ events = <<>>
  /\ memo = [p \in ProcessIds |-> None]
  /\ seq = [p \in ProcessIds |-> 0]
  /\ pc = [t \in Readers |-> "idle"]
  /\ pid \in [Readers -> ProcessIds]
  /\ seq0 = [t \in Readers |-> 0]
  /\ id = [t \in Readers |-> NoId]
  /\ listed = {}

-----------------------------------------------------------------------------
(* Processes.                                                               *)

\* A new image, in a process that runs or in a new one.
Exec(p, a) ==
  /\ seq[p] < MaxSeq
  /\ environ' = [environ EXCEPT ![p] = a]
  /\ \/ Len(events) < MaxQueue /\ events' = Append(events, p)
     \/ Lossy /\ UNCHANGED events
  /\ UNCHANGED <<cache, pc, pid, read, listed>>

\* Nothing in the server remembers the process that had this pid before.
Unremembered(p) ==
  memo[p] = None /\ \A t \in Readers : pc[t] = "store" => pid[t] # p

\* A child that keeps its parent's image: no EXEC.
Fork(p, a) ==
  /\ environ[p] = Gone
  /\ Forking \/ Unremembered(p)
  /\ environ' = [environ EXCEPT ![p] = a]
  /\ UNCHANGED <<events, cache, pc, pid, read, listed>>

Exit(p) ==
  /\ environ[p] # Gone
  /\ environ' = [environ EXCEPT ![p] = Gone]
  /\ UNCHANGED <<events, cache, pc, pid, read, listed>>

-----------------------------------------------------------------------------
(* cached_app_id: the lock is not held over the read of environ.            *)

Return(t) == pc' = [pc EXCEPT ![t] = IF t = "scan" THEN "next" ELSE "idle"]

Lookup(t) ==
  LET p == pid[t]
  IN  /\ pc[t] = "lookup"
      /\ IF memo[p] \in Answers
           THEN Return(t) /\ UNCHANGED seq0
           ELSE /\ seq0' = [seq0 EXCEPT ![t] = IF memo[p] = Stale THEN seq[p]
                                               ELSE 0]
                /\ pc' = [pc EXCEPT ![t] = "read"]
      /\ UNCHANGED <<world, cache, pid, id, listed>>

\* read_steam_app_id: an environ that cannot be read has no id.
\* Faulty: the failure is passed on.
EnvironIdRaw(p) == environ[p]

EnvironId(p) == IF environ[p] = Gone THEN NoId ELSE environ[p]

Read(t) ==
  /\ pc[t] = "read"
  /\ id' = [id EXCEPT ![t] = EnvironId(pid[t])]
  /\ pc' = [pc EXCEPT ![t] = "store"]
  /\ UNCHANGED <<world, cache, pid, seq0, listed>>

\* Nothing has invalidated the entry since the lookup.
\* Faulty: any entry without an answer is taken for the one looked up.
FreshUnlessAnswered(p, s) == memo[p] \in {Stale, None}

Fresh(p, s) ==
  \/ memo[p] = Stale /\ seq[p] = s
  \/ memo[p] = None /\ s = 0

Store(t) ==
  LET p == pid[t]
  IN  /\ pc[t] = "store"
      /\ IF Fresh(p, seq0[t])
           THEN /\ memo' = [memo EXCEPT ![p] = id[t]]
                /\ seq' = [seq EXCEPT ![p] = seq0[t]]
           ELSE UNCHANGED cache
      /\ Return(t)
      /\ UNCHANGED <<world, pid, read, listed>>

-----------------------------------------------------------------------------
(* The scan: process_list, sweep_dead_appids, then one process at a time    *)
(* (a process the path patterns match needs no AppId).                      *)

S == "scan"

List ==
  /\ pc[S] = "idle"
  /\ listed' = {p \in ProcessIds : environ[p] # Gone}
  /\ pc' = [pc EXCEPT ![S] = "sweep"]
  /\ UNCHANGED <<world, cache, pid, read>>

Sweep ==
  /\ pc[S] = "sweep"
  /\ memo' = [p \in ProcessIds |-> IF p \in listed THEN memo[p] ELSE None]
  /\ seq' = [p \in ProcessIds |-> IF p \in listed THEN seq[p] ELSE 0]
  /\ pc' = [pc EXCEPT ![S] = "next"]
  /\ UNCHANGED <<world, pid, read, listed>>

Classify ==
  /\ pc[S] = "next"
  /\ \E p \in listed :
       /\ listed' = listed \ {p}
       /\ \/ /\ pid' = [pid EXCEPT ![S] = p]
             /\ pc' = [pc EXCEPT ![S] = "lookup"]
          \/ UNCHANGED <<pc, pid>>
  /\ UNCHANGED <<world, cache, read>>

FinishScan ==
  /\ pc[S] = "next"
  /\ listed = {}
  /\ pc' = [pc EXCEPT ![S] = "idle"]
  /\ UNCHANGED <<world, cache, pid, read, listed>>

-----------------------------------------------------------------------------
(* The watcher.                                                             *)

W == "watcher"

\* A pid that can no longer be read is skipped.
TakeExec ==
  /\ pc[W] = "idle"
  /\ events # <<>>
  /\ events' = Tail(events)
  /\ IF environ[Head(events)] = Gone
       THEN UNCHANGED <<pc, pid>>
       ELSE /\ pid' = [pid EXCEPT ![W] = Head(events)]
            /\ pc' = [pc EXCEPT ![W] = "drop"]
  /\ UNCHANGED <<environ, cache, read, listed>>

\* Faulty: the entry is invalidated under its old number.
BumpedNot(p) == IF memo[p] = None THEN 1 ELSE seq[p]

Bumped(p) == IF memo[p] = None THEN 1 ELSE seq[p] + 1

DropAppId ==
  LET p == pid[W]
  IN  /\ pc[W] = "drop"
      /\ memo' = [memo EXCEPT ![p] = Stale]
      /\ seq' = [seq EXCEPT ![p] = Bumped(p)]
      /\ \/ pc' = [pc EXCEPT ![W] = "lookup"]
         \/ pc' = [pc EXCEPT ![W] = "idle"]
      /\ UNCHANGED <<world, pid, read, listed>>

-----------------------------------------------------------------------------
Reader(t) == Lookup(t) \/ Read(t) \/ Store(t)

Scan == List \/ Sweep \/ Classify \/ FinishScan \/ Reader(S)

Watcher == TakeExec \/ DropAppId \/ Reader(W)

Environment ==
  \E p \in ProcessIds : Exit(p) \/ \E a \in Answers : Exec(p, a) \/ Fork(p, a)

MemoNext == Scan \/ Watcher \/ Environment

MemoSpec == MemoInit /\ [][MemoNext]_memoVars

-----------------------------------------------------------------------------
(* Properties.                                                              *)

\* Every variable has its type.
MemoTypeOK ==
  /\ environ \in [ProcessIds -> Answers \cup {Gone}]
  /\ events \in Seq(ProcessIds)
  /\ memo \in [ProcessIds -> Answers \cup {Stale, None}]
  /\ seq \in [ProcessIds -> Nat]
  /\ pc \in [Readers -> {"idle", "sweep", "next", "drop", "lookup", "read",
                         "store"}]
  /\ pid \in [Readers -> ProcessIds]
  /\ seq0 \in [Readers -> Nat]
  /\ id \in [Readers -> Answers]
  /\ listed \subseteq ProcessIds

\* An EXEC of p has not reached the memo yet.
Pending(p) ==
  \/ \E i \in 1 .. Len(events) : events[i] = p
  \/ pc[W] = "drop" /\ pid[W] = p

\* A memo never outlives the image it was read from: once the EXECs of a pid
\* have been handled, its answer is what its environ says, whatever reads were
\* under way ("a racing EXEC ... is discarded, never stored", "pid reuse must
\* never serve a stale id").
NoStaleId ==
  \A p \in ProcessIds :
    memo[p] \in Answers /\ environ[p] # Gone /\ ~Pending(p)
      => memo[p] = environ[p]

\* The sweep of a tick leaves no answer of a process that died since the last
\* one ("pid reuse must never serve a stale id").
SweepForgetsTheDead ==
  [][Sweep =>
       \A p \in listed :
         memo'[p] \in Answers /\ environ[p] # Gone /\ ~Pending(p)
           => memo'[p] = environ[p]]_memoVars

\* What NoStaleId rests on: an answer about to be stored is current, or its
\* EXEC is still to come, or (for the scan: the watcher handles one EXEC at a
\* time) the entry has moved on and the store will discard it; and under a read
\* of the scan, the only one that sweeps, an entry's number only grows.
ReadIsCurrent(t) ==
  LET p == pid[t]
  IN  pc[t] = "store" =>
        \/ environ[p] \in {Gone, id[t]}
        \/ Pending(p)
        \/ t = S /\ ~Fresh(p, seq0[t])

NumberOnlyGrows ==
  pc[S] \in {"read", "store"} =>
    seq0[S] <= IF memo[pid[S]] = None THEN 0 ELSE seq[pid[S]]

MemoInv == NoStaleId /\ NumberOnlyGrows /\ \A t \in Readers : ReadIsCurrent(t)
=============================================================================

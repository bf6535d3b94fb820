------------------------------ MODULE StateSlot -----------------------------
(***************************************************************************)
(* The presence snapshot for external tools (src/lib/src/state.rs, and     *)
(* persist_state in src/lib/src/server/client_connector.rs).  A daemon     *)
(* takes one of a few files when it is built, and rewrites it after every  *)
(* broadcast and on every refresh.  Several daemons share the directory,   *)
(* each has several writing threads, and each may be killed at any step.   *)
(*                                                                         *)
(* What a thread writes goes to the file it created, wherever a rename has *)
(* taken that since: at its slot's .tmp path, at the slot's own, or gone.  *)
(***************************************************************************)
EXTENDS Tables

CONSTANTS
  Daemons,            \* processes; each is started, and ends, once
  Writers,            \* a daemon's threads that persist; "refresh" among them
  Presences,          \* what a daemon's replay cache may hold, when not empty
  MAX_STATE_SLOTS,
  STATE_STALE,        \* STATE_STALE_SECS, in ticks
  REFRESH_INTERVAL,   \* BRIDGE_REFRESH_INTERVAL_SECS, in ticks
  Apart,              \* TRUE: daemons are built and started one at a time
  Busy,               \* TRUE: every daemon broadcasts before it looks stale
  Alone,              \* TRUE: a daemon's threads touch its slot one at a time
  MaxTime             \* bound on the clock

Slots   == 1 .. MAX_STATE_SLOTS
Steps   == {"idle", "persist", "create", "write", "rename"}
Targets == {"file", "tmp", "gone"}

ASSUME SlotsAssumption ==
  /\ None \notin Slots \cup Presences \cup Daemons /\ None \notin Targets
  /\ "refresh" \in Writers
  /\ MAX_STATE_SLOTS \in Nat \ {0}
  /\ STATE_STALE \in Nat /\ REFRESH_INTERVAL \in Nat \ {0}
  /\ Apart \in BOOLEAN /\ Busy \in BOOLEAN /\ Alone \in BOOLEAN
  /\ MaxTime \in Nat

VARIABLES
  now,        \* the clock
  running,    \* running[d]: "new", "built", "up", "closing" or
              \* "ended"
  slot,       \* slot[d]: state_path, or None
  presence,   \* presence[d]: what d's replay cache holds
  due,        \* due[d]: when d's refresh thread wakes
  file,       \* file[k]: what is at slot k's path
  tmp,        \* tmp[k]: what is at its .tmp path
  step,       \* step[d][w]: where writer w of daemon d is
  body,       \* body[d][w]: the snapshot it has serialised
  target      \* target[d][w]: "file", "tmp" or "gone", while it has it open

slotVars == <<now, running, slot, presence, due, file, tmp, step, body, target>>

\* What a path may hold: no file, an empty one, one that is no JSON, or the
\* snapshot some daemon wrote.
Missing == [state |-> "missing", by |-> None, at |-> 0, shows |-> None]
Empty   == [Missing EXCEPT !.state = "empty"]
Torn    == [Missing EXCEPT !.state = "torn"]

Snapshot(d) == [state |-> "whole", by |-> d, at |-> now, shows |-> presence[d]]

Whole(content) == content.state = "whole"

SlotsInit ==
  /\ now = 0
  /\ running = [d \in Daemons |-> "new"]
  /\ slot = [d \in Daemons |-> None]
  /\ presence = [d \in Daemons |-> None]
  /\ due = [d \in Daemons |-> 0]
  /\ file = [k \in Slots |-> Missing]
  /\ tmp = [k \in Slots |-> Missing]
  /\ step = [d \in Daemons |-> [w \in Writers |-> "idle"]]
  /\ body = [d \in Daemons |-> [w \in Writers |-> None]]
  /\ target = [d \in Daemons |-> [w \in Writers |-> None]]

\* The thread writes a snapshot it has serialised.
InFlight(d, w) == step[d][w] \in {"create", "write", "rename"}

Up(d) == running[d] = "up"

Quiet(d) == \A w \in Writers : step[d][w] = "idle"

-----------------------------------------------------------------------------
(* ClientConnector::new, start and Drop.                                    *)

\* Faulty: a snapshot as old as the limit is taken for stale.
ReusableAtLimit(k) ==
  Whole(file[k]) => now - file[k].at >= STATE_STALE

\* slot_reusable: missing, corrupt or stale.
Reusable(k) == Whole(file[k]) => now - file[k].at > STATE_STALE

\* select_slot: the first reusable one, or none.
SelectSlot ==
  LET free == {k \in Slots : Reusable(k)}
  IN  IF free = {} THEN None
      ELSE CHOOSE k \in free : \A other \in free : k <= other

\* Not between its choice of a slot and its first snapshot there.
Settled(d) ==
  /\ running[d] # "built"
  /\ Up(d) /\ slot[d] # None => file[slot[d]].by = d

Build(d) ==
  /\ running[d] = "new"
  /\ Apart => \A other \in Daemons : Settled(other)
  /\ running' = [running EXCEPT ![d] = "built"]
  /\ slot' = [slot EXCEPT ![d] = SelectSlot]
  /\ UNCHANGED <<now, presence, due, file, tmp, step, body, target>>

\* The calling thread counts as one of those that broadcast.
StartUp(d) ==
  /\ running[d] = "built"
  /\ running' = [running EXCEPT ![d] = "up"]
  /\ due' = [due EXCEPT ![d] = now + REFRESH_INTERVAL]
  /\ \E w \in Writers \ {"refresh"} : step' = [step EXCEPT ![d][w] = "persist"]
  /\ UNCHANGED <<now, slot, presence, file, tmp, body, target>>

\* The open files of slot k that were at `from` are now at `to`.
Moved(k, from, to) ==
  [d \in Daemons |->
     [w \in Writers |->
        IF slot[d] = k /\ target[d][w] = from THEN to ELSE target[d][w]]]

\* A graceful end removes the file; the threads run on until the process ends.
ShutDown(d) ==
  /\ Up(d)
  /\ Alone => Quiet(d)
  /\ running' = [running EXCEPT ![d] = "closing"]
  /\ IF slot[d] = None
       THEN UNCHANGED <<file, target>>
       ELSE /\ file' = [file EXCEPT ![slot[d]] = Missing]
            /\ target' = Moved(slot[d], "file", "gone")
  /\ UNCHANGED <<now, slot, presence, due, tmp, step, body>>

\* The end of the process, after a shutdown or by a kill at any step.
End(d) ==
  /\ running[d] \in {"built", "up", "closing"}
  /\ running' = [running EXCEPT ![d] = "ended"]
  /\ slot' = [slot EXCEPT ![d] = None]
  /\ presence' = [presence EXCEPT ![d] = None]
  /\ due' = [due EXCEPT ![d] = 0]
  /\ step' = [step EXCEPT ![d] = [w \in Writers |-> "idle"]]
  /\ body' = [body EXCEPT ![d] = [w \in Writers |-> None]]
  /\ target' = [target EXCEPT ![d] = [w \in Writers |-> None]]
  /\ UNCHANGED <<now, file, tmp>>

-----------------------------------------------------------------------------
(* persist_state, called by every thread that broadcasts and by refresh.    *)

Called(d, w) ==
  /\ running[d] \in {"up", "closing"}
  /\ step[d][w] = "idle"
  /\ Alone => Quiet(d) /\ Up(d)
  /\ step' = [step EXCEPT ![d][w] = "persist"]
  /\ UNCHANGED <<now, running, slot, file, tmp, body, target>>

\* broadcast_activity has changed the replay cache.
Broadcasts(d, w) ==
  /\ w # "refresh"
  /\ \E p \in Presences \cup {None} : presence' = [presence EXCEPT ![d] = p]
  /\ UNCHANGED due
  /\ Called(d, w)

RefreshTick(d) ==
  /\ due[d] <= now
  /\ due' = [due EXCEPT ![d] = now + REFRESH_INTERVAL]
  /\ UNCHANGED presence
  /\ Called(d, "refresh")

Writing(d, w, from, to) ==
  /\ step[d][w] = from
  /\ step' = [step EXCEPT ![d][w] = to]
  /\ UNCHANGED <<now, running, slot, presence, due>>

\* The activities under the cache's lock, and the timestamp.
Serialise(d, w) ==
  /\ Writing(d, w, "persist", IF slot[d] = None THEN "idle" ELSE "create")
  /\ body' = IF slot[d] = None THEN body
             ELSE [body EXCEPT ![d][w] = Snapshot(d)]
  /\ UNCHANGED <<file, tmp, target>>

\* Faulty: the body is written in place, not to a temporary file.
CreateInPlace(d, w) ==
  /\ Writing(d, w, "create", "write")
  /\ file' = [file EXCEPT ![slot[d]] = Empty]
  /\ target' = [target EXCEPT ![d][w] = "file"]
  /\ UNCHANGED <<tmp, body>>

\* Faulty: the file is opened, and made by nobody.
OpenTmp(d, w) ==
  /\ Writing(d, w, "create", "write")
  /\ target' = [target EXCEPT ![d][w] = "tmp"]
  /\ UNCHANGED <<file, tmp, body>>

\* File::create truncates what another thread may have open.
CreateTmp(d, w) ==
  /\ Writing(d, w, "create", "write")
  /\ tmp' = [tmp EXCEPT ![slot[d]] = Empty]
  /\ target' = [target EXCEPT ![d][w] = "tmp"]
  /\ UNCHANGED <<file, body>>

\* Each thread writes from the start of the file: over another's bytes the
\* outcome depends on which body is the longer.
Written(content, new) ==
  CASE content \in {Empty, new} -> {new}
    [] OTHER                      -> {new, Torn}

WriteBody(d, w) ==
  /\ Writing(d, w, "write", "rename")
  /\ CASE target[d][w] = "tmp" ->
            /\ \E c \in Written(tmp[slot[d]], body[d][w]) :
                 tmp' = [tmp EXCEPT ![slot[d]] = c]
            /\ UNCHANGED file
       [] target[d][w] = "file" ->
            /\ \E c \in Written(file[slot[d]], body[d][w]) :
                 file' = [file EXCEPT ![slot[d]] = c]
            /\ UNCHANGED tmp
       [] OTHER -> UNCHANGED <<file, tmp>>
  /\ target' = [target EXCEPT ![d][w] = None]
  /\ UNCHANGED body

\* Faulty: the rename is forgotten.
NeverRenamed(d, w) ==
  /\ Writing(d, w, "rename", "idle")
  /\ body' = [body EXCEPT ![d][w] = None]
  /\ UNCHANGED <<file, tmp, target>>

\* Whatever is at the .tmp path by now; nothing, and the error is logged.
Rename(d, w) ==
  LET k == slot[d]
  IN  /\ Writing(d, w, "rename", "idle")
      /\ body' = [body EXCEPT ![d][w] = None]
      /\ IF tmp[k] = Missing
           THEN UNCHANGED <<file, tmp, target>>
           ELSE /\ file' = [file EXCEPT ![k] = tmp[k]]
                /\ tmp' = [tmp EXCEPT ![k] = Missing]
                /\ target' = [e \in Daemons |->
                     [v \in Writers |->
                        CASE slot[e] = k /\ target[e][v] = "file" -> "gone"
                          [] slot[e] = k /\ target[e][v] = "tmp"  -> "file"
                          [] OTHER -> target[e][v]]]

Persist(d, w) ==
  \/ Serialise(d, w) \/ CreateTmp(d, w) \/ WriteBody(d, w) \/ Rename(d, w)

-----------------------------------------------------------------------------
\* A refresh is never late.  Busy daemons finish what they write between two
\* ticks, and write again before their snapshot is as old as the limit.
Tick ==
  /\ now < MaxTime
  /\ \A d \in Daemons : Up(d) => due[d] > now
  /\ Apart => \A d \in Daemons : Settled(d)
  /\ Busy => \A d \in Daemons :
               /\ Up(d) => Quiet(d)
               /\ Up(d) /\ slot[d] # None
                    => Whole(file[slot[d]]) /\ now - file[slot[d]].at < STATE_STALE
  /\ now' = now + 1
  /\ UNCHANGED <<running, slot, presence, due, file, tmp, step, body, target>>

SlotsNext ==
  \/ Tick
  \/ \E d \in Daemons :
       \/ Build(d) \/ StartUp(d) \/ ShutDown(d) \/ End(d)
       \/ RefreshTick(d)
       \/ \E w \in Writers : Broadcasts(d, w) \/ Persist(d, w)

SlotsSpec == SlotsInit /\ [][SlotsNext]_slotVars

-----------------------------------------------------------------------------
(* Properties.                                                              *)

Snapshots == [state : {"whole"}, by : Daemons, at : 0 .. MaxTime,
              shows : Presences \cup {None}]
Contents  == Snapshots \cup {Missing, Empty, Torn}

\* Every variable has its type, and a thread writes only where a slot is.
SlotsTypeOK ==
  /\ now \in 0 .. MaxTime
  /\ running \in [Daemons -> {"new", "built", "up", "closing", "ended"}]
  /\ slot \in [Daemons -> Slots \cup {None}]
  /\ presence \in [Daemons -> Presences \cup {None}]
  /\ due \in [Daemons -> Nat]
  /\ file \in [Slots -> Contents]
  /\ tmp \in [Slots -> Contents]
  /\ step \in [Daemons -> [Writers -> Steps]]
  /\ body \in [Daemons -> [Writers -> Snapshots \cup {None}]]
  /\ target \in [Daemons -> [Writers -> Targets \cup {None}]]
  /\ \A d \in Daemons, w \in Writers :
       /\ InFlight(d, w) => slot[d] # None /\ body[d][w] \in Snapshots
       /\ target[d][w] # None <=> step[d][w] = "write"
       /\ target[d][w] = "tmp" => tmp[slot[d]] # Missing

\* A reader that opens a slot finds a whole snapshot, whenever it does and
\* wherever a daemon was killed (write_snapshot).
WholeForReaders == \A k \in Slots : file[k] # Missing => Whole(file[k])

\* Two daemons never write to the same slot, however long one of them has run
\* with nothing new to show (slot_reusable, refresh_clients).
SlotsExclusive ==
  \A d, e \in Daemons :
    d # e /\ slot[d] # None /\ {running[d], running[e]} \subseteq {"built", "up"}
      => slot[d] # slot[e]

\* A daemon at rest is shown as it is: once its threads are done, its slot has
\* what its replay cache holds, and the snapshot is its own (persist_state).
SlotShowsDaemon ==
  \A d \in Daemons :
    Up(d) /\ Quiet(d) /\ slot[d] # None
      => /\ Whole(file[slot[d]])
         /\ file[slot[d]].by = d
         /\ file[slot[d]].shows = presence[d]

\* A reader of the slots sees whole snapshots, of every daemon that is up its own.
SlotsTell == WholeForReaders /\ SlotShowsDaemon /\ SlotsExclusive

-----------------------------------------------------------------------------
(* The inductive invariant behind SlotsTypeOK, for all constants, and       *)
(* behind SlotsTell, while Apart, Busy and Alone hold.                      *)

\* The threads of a process that has not started, or has ended, do nothing.
AtRest == \A d \in Daemons : running[d] \in {"new", "built", "ended"} => Quiet(d)

\* One thread at a time writes for a daemon, none once it has shut down.
OneWriter ==
  \A d \in Daemons :
    /\ running[d] = "closing" => Quiet(d)
    /\ \A v, w \in Writers : step[d][v] # "idle" /\ step[d][w] # "idle" => v = w

\* Who has no process has no slot, and has written nothing before it is up.
NothingBefore ==
  \A d \in Daemons :
    /\ running[d] \in {"new", "ended"} => slot[d] = None
    /\ running[d] \in {"new", "built"} => \A k \in Slots : file[k].by # d

\* The snapshot of a daemon that is up never looks stale at its slot, which is
\* why nobody else takes the slot.
NeverStale ==
  \A d \in Daemons :
    Up(d) /\ slot[d] # None /\ file[slot[d]].by = d
      => file[slot[d]].at <= now /\ now - file[slot[d]].at <= STATE_STALE

\* What a thread is writing is what the replay cache holds, and nobody else's
\* bytes are where it writes.
WritesWhole ==
  \A d \in Daemons, w \in Writers :
    /\ InFlight(d, w) => body[d][w] = Snapshot(d)
    /\ step[d][w] = "write"  => target[d][w] = "tmp" /\ tmp[slot[d]] = Empty
    /\ step[d][w] = "rename" => tmp[slot[d]] = body[d][w]

SlotsInv ==
  /\ SlotsTypeOK /\ AtRest
  /\ OneWriter /\ NothingBefore /\ NeverStale /\ WritesWhole /\ SlotsTell

\* Nothing is shown of a daemon that has shut down.
ClosedIsRemoved ==
  \A k \in Slots :
    Whole(file[k]) => LET d == file[k].by
                      IN  running[d] = "closing" /\ Quiet(d) => slot[d] # k
=============================================================================

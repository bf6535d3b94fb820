------------------------------ MODULE Scanner ------------------------------
(***************************************************************************)
(* The process scanner (src/lib/src/server/process.rs): a thread that      *)
(* lists /proc at a cadence and forwards changes of what it detects, and a *)
(* watcher that classifies one process per netlink EXEC event and wakes    *)
(* the scan when a detected game exits.  They share detected_pids,         *)
(* scan_dirty, last_scan and the park permit of the scan thread; one       *)
(* action is one access to one of these with the local work around it.     *)
(*                                                                         *)
(* Only processes some application matches are in the model; the scan      *)
(* reads the process table in one step.  Time is left out: a park may time *)
(* out at any moment, and `due` says whether a second has passed since the *)
(* last scan began.  Events sent to the bridge are applied to the two      *)
(* tables of its process loop at once (they are handled in order by one    *)
(* thread), with no IPC presence and no cap: Bridge has those.             *)
(***************************************************************************)
EXTENDS Naturals, Sequences, FiniteSets

CONSTANTS
  Pids,      \* processes that can run
  Apps,      \* application ids
  AppOf,     \* AppOf[p]: the application the detection matches p to
  None,
  Ignored,   \* RPCConfig.ignored_ids
  Watching,  \* whether proc events are enabled
  Racing,    \* FALSE: no scan decides between an EXEC hit's mark and its send
  Freezable, \* pids that may be suspended in this instance
  Manual,    \* whether RPCServer::scan_for_processes is called by the embedder
  MaxEvents  \* bound on the netlink events not yet dispatched

ASSUME ConstantsAssumption ==
  /\ IsFiniteSet(Pids)
  /\ None \notin Pids
  /\ AppOf \in [Pids -> Apps]
  /\ Ignored \subseteq Apps
  /\ Freezable \subseteq Pids
  /\ Watching \in BOOLEAN /\ Racing \in BOOLEAN /\ Manual \in BOOLEAN

Event == [kind : {"exec", "exit"}, pid : Pids]

VARIABLES
  life,          \* life[p]: "gone", "running" or "frozen" (SIGSTOP'd)
  events,        \* netlink events on their way to the watcher
  detected_pids,
  scan_dirty,
  due,           \* last_scan is at least a second ago
  permit,        \* an unpark the scan thread has not consumed
  scanning,      \* the re-entrancy guard: who holds it, or "free"
  spc,           \* where the scan thread is
  found,         \* the processes listed, then the hits kept, by this scan
  last_emitted,  \* the snapshot forwarded last
  todo,          \* hits still to send
  manual,        \* whether a manual scan is under way
  wpc,           \* where the watcher is
  handled,       \* the pid of the event it handles
  known,         \* the bridge's last_scans: app -> pid
  shown          \* the bridge's last_process: app -> pid of the card

world   == <<life, events>>
shared  == <<detected_pids, scan_dirty, due, permit, scanning>>
scan    == <<spc, found, last_emitted, todo>>
watcher == <<wpc, handled>>
bridge  == <<known, shown>>
vars    == <<world, shared, scan, manual, watcher, bridge>>

Init ==
  /\ life \in [Pids -> {"gone", "running"}]
  /\ events = <<>>
  /\ detected_pids = {}
  /\ scan_dirty = FALSE
  /\ due = FALSE
  /\ permit = FALSE
  /\ scanning = "free"
  /\ spc = "begin"
  /\ found = {}
  /\ last_emitted = {}
  /\ todo = {}
  /\ manual = FALSE
  /\ wpc = "idle"
  /\ handled = None
  /\ known = [a \in Apps |-> None]
  /\ shown = [a \in Apps |-> None]

-----------------------------------------------------------------------------
(* Processes, the kernel's lossy event stream, and time.                    *)

\* A full socket buffer, or no subscription, loses the event.
Deliver(kind, p) ==
  \/ UNCHANGED events
  \/ /\ Watching
     /\ Len(events) < MaxEvents
     /\ events' = Append(events, [kind |-> kind, pid |-> p])

Launch(p) ==
  /\ life[p] = "gone"
  /\ life' = [life EXCEPT ![p] = "running"]
  /\ Deliver("exec", p)
  /\ UNCHANGED <<shared, scan, manual, watcher, bridge>>

Exit(p) ==
  /\ life[p] # "gone"
  /\ life' = [life EXCEPT ![p] = "gone"]
  /\ Deliver("exit", p)
  /\ UNCHANGED <<shared, scan, manual, watcher, bridge>>

\* SIGSTOP and SIGCONT.
Signal(p) ==
  /\ p \in Freezable
  /\ life[p] # "gone"
  /\ life' = [life EXCEPT ![p] = IF @ = "frozen" THEN "running" ELSE "frozen"]
  /\ UNCHANGED <<events, shared, scan, manual, watcher, bridge>>

Tick ==
  /\ ~due
  /\ due' = TRUE
  /\ UNCHANGED <<world, detected_pids, scan_dirty, permit, scanning, scan,
                 manual, watcher, bridge>>

-----------------------------------------------------------------------------
(* What the process loop makes of an event.                                 *)

SendHit(p) ==
  /\ known' = [known EXCEPT ![AppOf[p]] = p]
  /\ shown' = [shown EXCEPT ![AppOf[p]] = IF @ = None THEN p ELSE @]

SendNone ==
  /\ known' = [a \in Apps |-> None]
  /\ shown' = [a \in Apps |-> None]

-----------------------------------------------------------------------------
(* The scan thread.                                                         *)

Begin ==
  /\ spc = "begin"
  /\ due' = FALSE
  /\ spc' = "list"
  /\ UNCHANGED <<world, detected_pids, scan_dirty, permit, scanning, found,
                 last_emitted, todo, manual, watcher, bridge>>

\* process_list; the guard is only tried afterwards.
List ==
  /\ spc = "list"
  /\ found' = {p \in Pids : life[p] # "gone"}
  /\ spc' = "acquire"
  /\ UNCHANGED <<world, shared, last_emitted, todo, manual, watcher, bridge>>

\* ScanGuard::try_acquire compares and exchanges.
\* Faulty: the guard is set whoever holds it.
GuardFreeAlways == TRUE

GuardFree == scanning = "free"

\* "Scanning already in progress": wait, and begin again.
Acquire ==
  /\ spc = "acquire"
  /\ IF GuardFree
       THEN scanning' = "scan" /\ spc' = "match" /\ UNCHANGED found
       ELSE spc' = "wait" /\ found' = {} /\ UNCHANGED scanning
  /\ UNCHANGED <<world, detected_pids, scan_dirty, due, permit, last_emitted,
                 todo, manual, watcher, bridge>>

\* live_or_none discards suspended processes; one that is gone by now is not
\* suspended.
\* Faulty: what the watcher has published already is not looked at again.
HitsUntracked(processes) ==
  {p \in processes : life[p] # "frozen" /\ p \notin detected_pids}

Hits(processes) == {p \in processes : life[p] # "frozen"}

Kept(hits) == {p \in hits : AppOf[p] \notin Ignored}

Match ==
  /\ spc = "match"
  /\ found' = Kept(Hits(found))
  /\ scanning' = "free"
  /\ spc' = "track"
  /\ UNCHANGED <<world, detected_pids, scan_dirty, due, permit, last_emitted,
                 todo, manual, watcher, bridge>>

\* detected_pids is replaced wholesale.
Track ==
  /\ spc = "track"
  /\ detected_pids' = found
  /\ spc' = "decide"
  /\ UNCHANGED <<world, scan_dirty, due, permit, scanning, found,
                 last_emitted, todo, manual, watcher, bridge>>

\* Faulty: an EXEC publication forces no emission.
MustEmitOnChange(snapshot) == snapshot # last_emitted

MustEmit(snapshot) == snapshot # last_emitted \/ scan_dirty

\* The scan_dirty swap and the comparison with the last snapshot.
Decide ==
  /\ spc = "decide"
  /\ Racing \/ wpc # "send"
  /\ scan_dirty' = FALSE
  /\ found' = {}
  /\ IF MustEmit(found)
       THEN last_emitted' = found /\ todo' = found /\ spc' = "send"
       ELSE spc' = "wait" /\ UNCHANGED <<last_emitted, todo>>
  /\ UNCHANGED <<world, detected_pids, due, permit, scanning, manual, watcher,
                 bridge>>

\* One event per hit, or a null for an empty table.
Send ==
  /\ spc = "send"
  /\ IF todo = {}
       THEN SendNone /\ UNCHANGED todo
       ELSE \E p \in todo : SendHit(p) /\ todo' = todo \ {p}
  /\ spc' = IF todo' = {} THEN "wait" ELSE "send"
  /\ UNCHANGED <<world, shared, found, last_emitted, manual, watcher>>

\* park_timeout returns at once on a permit.
Wait ==
  /\ spc = "wait"
  /\ permit' = FALSE
  /\ spc' = "begin"
  /\ UNCHANGED <<world, detected_pids, scan_dirty, due, scanning, found,
                 last_emitted, todo, manual, watcher, bridge>>

\* A scan asked for by the embedder: it holds the guard and publishes nothing.
ManualScan ==
  /\ Manual
  /\ IF manual
       THEN manual' = FALSE /\ scanning' = "free"
       ELSE GuardFree /\ manual' = TRUE /\ scanning' = "manual"
  /\ UNCHANGED <<world, detected_pids, scan_dirty, due, permit, scan, watcher,
                 bridge>>

-----------------------------------------------------------------------------
(* The watcher.                                                             *)

Dispatch(kind) ==
  /\ wpc = "idle"
  /\ events # <<>>
  /\ Head(events).kind = kind
  /\ events' = Tail(events)
  /\ UNCHANGED <<life, shared, scan, manual, bridge>>

\* A pid that can no longer be read is skipped, a suspended one is no hit.
DispatchExec ==
  LET p == Head(events).pid
  IN  /\ Dispatch("exec")
      /\ IF life[p] = "running"
           THEN wpc' = "insert" /\ handled' = p
           ELSE UNCHANGED watcher

InsertPid ==
  /\ wpc = "insert"
  /\ detected_pids' = detected_pids \cup {handled}
  /\ wpc' = "mark"
  /\ UNCHANGED <<world, scan_dirty, due, permit, scanning, scan, manual,
                 handled, bridge>>

MarkDirty ==
  /\ wpc = "mark"
  /\ scan_dirty' = TRUE
  /\ wpc' = "send"
  /\ UNCHANGED <<world, detected_pids, due, permit, scanning, scan, manual,
                 handled, bridge>>

SendExec ==
  /\ wpc = "send"
  /\ SendHit(handled)
  /\ wpc' = "idle"
  /\ handled' = None
  /\ UNCHANGED <<world, shared, scan, manual>>

\* should_wake_on_exit: untracked exits never wake.
DispatchExit ==
  LET p == Head(events).pid
  IN  /\ Dispatch("exit")
      /\ IF p \in detected_pids
           THEN wpc' = "debounce" /\ handled' = p
           ELSE UNCHANGED watcher

\* A recent exit stays tracked, so a later one can still wake.
Debounce ==
  /\ wpc = "debounce"
  /\ IF due THEN wpc' = "consume" /\ UNCHANGED handled
            ELSE wpc' = "idle" /\ handled' = None
  /\ UNCHANGED <<world, shared, scan, manual, bridge>>

\* Only an actual wake consumes the pid.
Consume ==
  /\ wpc = "consume"
  /\ detected_pids' = detected_pids \ {handled}
  /\ wpc' = "unpark"
  /\ UNCHANGED <<world, scan_dirty, due, permit, scanning, scan, manual,
                 handled, bridge>>

\* unpark leaves a permit whether or not the thread is parked.
\* Faulty: a thread at work is not woken.
PermitIfParked == permit \/ spc = "wait"

Permit == TRUE

Unpark ==
  /\ wpc = "unpark"
  /\ permit' = Permit
  /\ wpc' = "idle"
  /\ handled' = None
  /\ UNCHANGED <<world, detected_pids, scan_dirty, due, scanning, scan,
                 manual, bridge>>

-----------------------------------------------------------------------------
ScanThread == Begin \/ List \/ Acquire \/ Match \/ Track \/ Decide \/ Send \/ Wait

Watcher ==
  \/ DispatchExec \/ InsertPid \/ MarkDirty \/ SendExec
  \/ DispatchExit \/ Debounce \/ Consume \/ Unpark

Environment == Tick \/ \E p \in Pids : Launch(p) \/ Exit(p) \/ Signal(p)

Next == ScanThread \/ Watcher \/ ManualScan \/ Environment

Spec == Init /\ [][Next]_vars

\* The threads keep running; processes, signals and manual scans need not come.
FairSpec == Spec /\ WF_vars(ScanThread) /\ WF_vars(Watcher)

-----------------------------------------------------------------------------
(* Properties.                                                              *)

\* Every variable has its type; the guard is held by who is inside.
TypeOK ==
  /\ life \in [Pids -> {"gone", "running", "frozen"}]
  /\ events \in Seq(Event)
  /\ detected_pids \subseteq Pids
  /\ {scan_dirty, due, permit, manual} \subseteq BOOLEAN
  /\ scanning = IF manual THEN "manual"
                ELSE IF spc = "match" THEN "scan" ELSE "free"
  /\ spc \in {"begin", "list", "acquire", "match", "track", "decide", "send",
             "wait"}
  /\ found \subseteq Pids
  /\ last_emitted \subseteq Pids
  /\ todo \subseteq last_emitted
  /\ wpc \in {"idle", "insert", "mark", "send", "debounce", "consume", "unpark"}
  /\ handled \in IF wpc = "idle" THEN {None} ELSE Pids
  /\ known \in [Apps -> Pids \cup {None}]
  /\ shown \in [Apps -> Pids \cup {None}]

\* The scan thread has forwarded what it had to, no EXEC hit is on its way, and
\* none has been published since the last scan decided.
Settled == spc = "wait" /\ wpc = "idle" /\ ~scan_dirty

\* Forwarding changes only is enough: "identical tables are already fully
\* represented downstream".  Every game of the last snapshot has its card, and
\* what the bridge would resume for its slot is a process of that snapshot.
SnapshotRepresented ==
  Settled =>
    \A p \in last_emitted : /\ known[AppOf[p]] \in last_emitted
                            /\ shown[AppOf[p]] # None

\* An empty snapshot leaves nothing behind, hits of the fast path that no scan
\* ever saw included ("forces one full emission after any EXEC publication, so
\* its clear still flows").
EmptyMeansCleared ==
  Settled /\ last_emitted = {} =>
    \A a \in Apps : known[a] = None /\ shown[a] = None

\* What was sent to the bridge stands for the last snapshot, full or empty.
SentIsScanned == SnapshotRepresented /\ EmptyMeansCleared

\* "An entry lives exactly from its generic publication to its process clear,
\* and every later bridge client replays only live games."
ShownIsLive ==
  Settled => \A a \in Apps : shown[a] \in last_emitted \cup {None}

\* "Application IDs the process scanner must never publish."
IgnoredNeverPublished == \A a \in Ignored : shown[a] = None

\* A wake is not lost: once the exit of a game of the last snapshot has been
\* taken off detected_pids, the scan thread does not wait its cadence out.
WakeIsNotLost ==
  spc = "wait" /\ wpc # "unpark" /\ ~(last_emitted \subseteq detected_pids)
    => permit

\* A game that keeps running ends up on the bridge for good, whatever the
\* event stream loses.
RunningIsReported ==
  \A p \in Pids :
    AppOf[p] \notin Ignored /\ <>[](life[p] = "running")
      => <>[](known[AppOf[p]] # None)
=============================================================================

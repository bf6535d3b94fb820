--------------------------- MODULE Scanner_proofs ---------------------------
(***************************************************************************)
(* Proofs about the process scanner: what it has sent the bridge stands    *)
(* for its last snapshot, and a wake is not lost, for any number of        *)
(* processes and applications and any loss of proc events.                 *)
(***************************************************************************)
EXTENDS Scanner, TLAPS

USE ConstantsAssumption

\* A manual scan and the scan thread exclude each other.
ScanTyped == TypeOK /\ (manual => spc # "match")

\* The processes are as in the beginning, and everything else is idle.
LEMMA InitTyped == Init => ScanTyped
<1> SUFFICES ASSUME Init PROVE ScanTyped
  OBVIOUS
<1>1. life \in [Pids -> {"gone", "running", "frozen"}]
  <2>1. life \in [Pids -> {"gone", "running"}]
    BY DEF Init
  <2> QED
    BY <2>1
<1>2. <<>> \in Seq(Event)
  OBVIOUS
<1> QED
  BY <1>1, <1>2 DEF Init, ScanTyped, TypeOK

\* What is appended to or taken off the event stream is an event.
LEMMA EventsTyped ==
  ASSUME events \in Seq(Event)
  PROVE  /\ \A p \in Pids, kind \in {"exec", "exit"} :
              Deliver(kind, p) => events' \in Seq(Event)
         /\ events # <<>> => Head(events).pid \in Pids /\ Tail(events) \in Seq(Event)
<1>1. ASSUME NEW p \in Pids, NEW kind \in {"exec", "exit"}, Deliver(kind, p)
      PROVE  events' \in Seq(Event)
  <2>1. [kind |-> kind, pid |-> p] \in Event
    BY DEF Event
  <2> QED
    BY <1>1, <2>1 DEF Deliver
<1>2. ASSUME events # <<>>
      PROVE  Head(events).pid \in Pids /\ Tail(events) \in Seq(Event)
  <2>1. Head(events) \in Event /\ Tail(events) \in Seq(Event)
    BY <1>2
  <2> QED
    BY <2>1 DEF Event
<1> QED
  BY <1>1, <1>2

\* The bridge's tables stay tables under the two events it is sent.
LEMMA SentTyped ==
  ASSUME known \in [Apps -> Pids \cup {None}], shown \in [Apps -> Pids \cup {None}],
         SendNone \/ \E p \in Pids : SendHit(p)
  PROVE  known' \in [Apps -> Pids \cup {None}] /\ shown' \in [Apps -> Pids \cup {None}]
<1>1. CASE SendNone
  BY <1>1 DEF SendNone
<1>2. ASSUME NEW p \in Pids, SendHit(p)
      PROVE  known' \in [Apps -> Pids \cup {None}] /\ shown' \in [Apps -> Pids \cup {None}]
  BY <1>2 DEF SendHit
<1> QED
  BY <1>1, <1>2

\* Every step keeps the types and the guard.
LEMMA NextTyped == ScanTyped /\ [Next]_vars => ScanTyped'
<1> SUFFICES ASSUME ScanTyped, [Next]_vars PROVE ScanTyped'
  OBVIOUS
<1> USE DEF ScanTyped, TypeOK
<1>1. CASE UNCHANGED vars
  BY <1>1 DEF vars, world, shared, scan, watcher, bridge
<1>2. CASE Environment
  <2>1. CASE Tick
    BY <2>1 DEF Tick, world, scan, watcher, bridge
  <2>2. ASSUME NEW p \in Pids, Launch(p) PROVE ScanTyped'
    <3>1. events' \in Seq(Event)
      BY <2>2, EventsTyped DEF Launch
    <3> QED
      BY <2>2, <3>1 DEF Launch, shared, scan, watcher, bridge
  <2>3. ASSUME NEW p \in Pids, Exit(p) PROVE ScanTyped'
    <3>1. events' \in Seq(Event)
      BY <2>3, EventsTyped DEF Exit
    <3> QED
      BY <2>3, <3>1 DEF Exit, shared, scan, watcher, bridge
  <2>4. ASSUME NEW p \in Pids, Signal(p) PROVE ScanTyped'
    BY <2>4 DEF Signal, shared, scan, watcher, bridge
  <2> QED
    BY <1>2, <2>1, <2>2, <2>3, <2>4 DEF Environment
<1>3. CASE ManualScan
  BY <1>3 DEF ManualScan, GuardFree, world, scan, watcher, bridge
<1>4. CASE ScanThread
  <2>1. CASE Begin
    BY <2>1 DEF Begin, world, watcher, bridge
  <2>2. CASE List
    BY <2>2 DEF List, world, shared, watcher, bridge
  <2>3. CASE Acquire
    BY <2>3 DEF Acquire, GuardFree, world, watcher, bridge
  <2>4. CASE Match
    BY <2>4 DEF Match, Kept, Hits, world, watcher, bridge
  <2>5. CASE Track
    BY <2>5 DEF Track, world, watcher, bridge
  <2>6. CASE Decide
    BY <2>6 DEF Decide, world, watcher, bridge
  <2>7. CASE Send
    <3>1. SendNone \/ \E p \in Pids : SendHit(p)
      BY <2>7 DEF Send
    <3>2. known' \in [Apps -> Pids \cup {None}] /\ shown' \in [Apps -> Pids \cup {None}]
      BY <3>1, SentTyped
    <3> QED
      BY <2>7, <3>2 DEF Send, world, shared, watcher
  <2>8. CASE Wait
    BY <2>8 DEF Wait, world, watcher, bridge
  <2> QED
    BY <1>4, <2>1, <2>2, <2>3, <2>4, <2>5, <2>6, <2>7, <2>8 DEF ScanThread
<1>5. CASE Watcher
  <2>1. CASE DispatchExec \/ DispatchExit
    <3>1. events # <<>> /\ events' = Tail(events)
          /\ UNCHANGED <<life, shared, scan, manual, bridge>>
      BY <2>1 DEF DispatchExec, DispatchExit, Dispatch
    <3>2. Head(events).pid \in Pids /\ events' \in Seq(Event)
      BY <3>1, EventsTyped
    <3> QED
      BY <2>1, <3>1, <3>2 DEF DispatchExec, DispatchExit, Dispatch, shared, scan, watcher, bridge
  <2>2. CASE InsertPid
    BY <2>2 DEF InsertPid, world, scan, bridge
  <2>3. CASE MarkDirty
    BY <2>3 DEF MarkDirty, world, scan, bridge
  <2>4. CASE SendExec
    <3>1. handled \in Pids
      BY <2>4 DEF SendExec
    <3>2. known' \in [Apps -> Pids \cup {None}] /\ shown' \in [Apps -> Pids \cup {None}]
      BY <2>4, <3>1, SentTyped DEF SendExec
    <3> QED
      BY <2>4, <3>2 DEF SendExec, world, shared, scan
  <2>5. CASE Debounce
    BY <2>5 DEF Debounce, world, shared, scan, bridge
  <2>6. CASE Consume
    BY <2>6 DEF Consume, world, scan, bridge
  <2>7. CASE Unpark
    BY <2>7 DEF Unpark, Permit, world, scan, bridge
  <2> QED
    BY <1>5, <2>1, <2>2, <2>3, <2>4, <2>5, <2>6, <2>7 DEF Watcher
<1> QED
  BY <1>1, <1>2, <1>3, <1>4, <1>5 DEF Next

\* Every variable keeps its type, and the re-entrancy guard is held by the scan
\* that is inside, the thread's or the embedder's (ScanGuard).
THEOREM ScanTypeCorrect == Spec => []TypeOK
<1>1. ScanTyped => TypeOK
  BY DEF ScanTyped
<1> QED
  BY <1>1, InitTyped, NextTyped, PTL DEF Spec

-----------------------------------------------------------------------------
(* What has been sent stands for the last snapshot.                          *)

\* Every hit sent so far has its card, and its slot a process of the snapshot.
HitsStand ==
  \A p \in last_emitted \ todo : /\ known[AppOf[p]] \in last_emitted
                                 /\ shown[AppOf[p]] # None

\* An empty snapshot that has been sent has cleared everything.
NothingStands == \A a \in Apps : known[a] = None /\ shown[a] = None

\* No EXEC hit reaches the bridge but while scan_dirty tells the next scan to
\* send its whole table again; without one the bridge has the last snapshot.
SentInv ==
  /\ spc # "send" => todo = {}
  /\ spc = "send" /\ todo = {} => last_emitted = {}
  /\ wpc = "send" => scan_dirty
  /\ ~scan_dirty => /\ HitsStand
                    /\ spc # "send" /\ last_emitted = {} => NothingStands

\* Nothing has been sent of the empty snapshot at first.
LEMMA InitSent == Init => SentInv
BY DEF Init, SentInv, HitsStand, NothingStands

\* Steps that send nothing and decide nothing.
LEMMA QuietSent ==
  ASSUME SentInv, UNCHANGED <<last_emitted, todo, known, shown>>,
         spc # "send", spc' # "send",
         scan_dirty' \/ ~scan_dirty, wpc' = "send" => scan_dirty'
  PROVE  SentInv'
BY DEF SentInv, HitsStand, NothingStands

\* Steps of others than the scan thread.
LEMMA AsideSent ==
  ASSUME SentInv, UNCHANGED <<last_emitted, todo, spc>>,
         scan_dirty' \/ (~scan_dirty /\ UNCHANGED <<known, shown>>),
         wpc' = "send" => scan_dirty'
  PROVE  SentInv'
BY DEF SentInv, HitsStand, NothingStands

\* A hit, a scan or a clear that reaches the bridge keeps what is sent in step.
LEMMA NextSent ==
  ASSUME Racing = FALSE, ScanTyped, SentInv, [Next]_vars
  PROVE  SentInv'
<1>t. /\ AppOf \in [Pids -> Apps] /\ None \notin Pids
      /\ known \in [Apps -> Pids \cup {None}] /\ shown \in [Apps -> Pids \cup {None}]
      /\ last_emitted \subseteq Pids /\ todo \subseteq last_emitted
      /\ scan_dirty \in BOOLEAN
  BY DEF ScanTyped, TypeOK
<1>1. CASE UNCHANGED vars \/ Environment \/ ManualScan
  <2>1. UNCHANGED <<last_emitted, todo, spc, scan_dirty, known, shown, wpc>>
    BY <1>1 DEF Environment, Tick, Launch, Exit, Signal, ManualScan, vars, world, shared, scan,
       watcher, bridge
  <2> QED
    BY <2>1, AsideSent DEF SentInv
<1>2. CASE Watcher
  <2>1. CASE SendExec
    <3>1. scan_dirty /\ UNCHANGED <<scan_dirty, last_emitted, todo, spc>> /\ wpc' # "send"
      BY <2>1 DEF SendExec, SentInv, shared, scan
    <3> QED
      BY <3>1, AsideSent
  <2>2. CASE MarkDirty
    <3>1. scan_dirty' /\ UNCHANGED <<last_emitted, todo, spc>>
      BY <2>2 DEF MarkDirty, scan
    <3> QED
      BY <3>1, AsideSent
  <2>3. CASE DispatchExec \/ DispatchExit \/ InsertPid \/ Debounce \/ Consume \/ Unpark
    <3>1. UNCHANGED <<last_emitted, todo, spc, scan_dirty, known, shown>>
          /\ (wpc' # "send" \/ wpc' = wpc)
      BY <2>3 DEF DispatchExec, DispatchExit, Dispatch, InsertPid, Debounce, Consume, Unpark,
         shared, scan, bridge, watcher
    <3> QED
      BY <3>1, AsideSent DEF SentInv
  <2> QED
    BY <1>2, <2>1, <2>2, <2>3 DEF Watcher
<1>3. CASE ScanThread
  <2>1. CASE Begin \/ List \/ Acquire \/ Match \/ Track \/ Wait
    <3>1. /\ UNCHANGED <<last_emitted, todo, known, shown, scan_dirty, wpc>>
          /\ spc # "send" /\ spc' # "send"
      BY <2>1 DEF Begin, List, Acquire, Match, Track, Wait, world, shared, watcher, bridge
    <3> QED
      BY <3>1, QuietSent DEF SentInv
  <2>2. CASE Decide
    <3>1. /\ spc = "decide" /\ wpc # "send" /\ scan_dirty' = FALSE
          /\ UNCHANGED <<wpc, known, shown>>
      BY <2>2 DEF Decide, watcher, bridge
    <3>2. CASE MustEmit(found)
      <4>1. last_emitted' = found /\ todo' = found /\ spc' = "send"
        BY <2>2, <3>2 DEF Decide
      <4> QED
        BY <3>1, <4>1 DEF SentInv, HitsStand
    <3>3. CASE ~MustEmit(found)
      <4>1. UNCHANGED <<last_emitted, todo>> /\ spc' = "wait" /\ ~scan_dirty
        BY <2>2, <3>3 DEF Decide, MustEmit
      <4> QED
        BY <3>1, <4>1, QuietSent
    <3> QED
      BY <3>2, <3>3
  <2>3. CASE Send
    <3>1. /\ spc = "send" /\ UNCHANGED <<scan_dirty, wpc, last_emitted>>
          /\ spc' = IF todo' = {} THEN "wait" ELSE "send"
      BY <2>3 DEF Send, shared, watcher
    <3>2. CASE todo = {}
      <4>1. last_emitted = {} /\ SendNone /\ todo' = {}
        BY <2>3, <3>1, <3>2 DEF Send, SentInv
      <4> QED
        BY <3>1, <4>1 DEF SentInv, SendNone, HitsStand, NothingStands
    <3>3. CASE todo # {}
      <4>1. PICK p \in todo : SendHit(p) /\ todo' = todo \ {p}
        BY <2>3, <3>3 DEF Send
      <4>2. p \in last_emitted /\ p \in Pids /\ AppOf[p] \in Apps /\ p # None
        BY <1>t, <4>1
      <4>3. ASSUME ~scan_dirty, NEW q \in last_emitted \ todo'
            PROVE  known'[AppOf[q]] \in last_emitted /\ shown'[AppOf[q]] # None
        <5>0. q \in Pids /\ AppOf[q] \in Apps
          BY <1>t, <4>3
        <5>1. CASE AppOf[q] = AppOf[p]
          BY <1>t, <4>1, <4>2, <5>1 DEF SendHit
        <5>2. CASE AppOf[q] # AppOf[p]
          <6>1. q \in last_emitted \ todo
            BY <4>1, <4>3, <5>2
          <6>2. known[AppOf[q]] \in last_emitted /\ shown[AppOf[q]] # None
            BY <4>3, <6>1 DEF SentInv, HitsStand
          <6>3. known'[AppOf[q]] = known[AppOf[q]] /\ shown'[AppOf[q]] = shown[AppOf[q]]
            BY <1>t, <4>1, <5>0, <5>2 DEF SendHit
          <6> QED
            BY <6>2, <6>3
        <5> QED
          BY <5>1, <5>2
      <4> QED
        BY <3>1, <4>2, <4>3 DEF SentInv, HitsStand
    <3> QED
      BY <3>2, <3>3
  <2> QED
    BY <1>3, <2>1, <2>2, <2>3 DEF ScanThread
<1> QED
  BY <1>1, <1>2, <1>3 DEF Next

\* Forwarding changes only is enough: once the scan thread waits and no EXEC hit
\* is on its way, the bridge holds the last snapshot, full or empty, as long as
\* no scan decides between an EXEC hit's mark and its send.
THEOREM SentStands ==
  ASSUME Racing = FALSE
  PROVE  Spec => []SentIsScanned
<1>1. Init => ScanTyped /\ SentInv
  BY InitTyped, InitSent
<1>2. ScanTyped /\ SentInv /\ [Next]_vars => (ScanTyped /\ SentInv)'
  BY NextTyped, NextSent
<1>3. SentInv => SentIsScanned
  BY DEF SentInv, HitsStand, NothingStands, SentIsScanned, SnapshotRepresented, EmptyMeansCleared,
     Settled
<1> QED
  BY <1>1, <1>2, <1>3, PTL DEF Spec

-----------------------------------------------------------------------------
(* A wake is not lost.                                                       *)

\* A tracked process that was taken off since the scan replaced detected_pids
\* leaves a permit behind, or is about to.
Woken(snapshot) == snapshot \subseteq detected_pids \/ wpc = "unpark" \/ permit

WakeInv ==
  /\ spc = "decide" => Woken(found)
  /\ spc \in {"send", "wait"} => Woken(last_emitted)

\* The scan begins elsewhere.
LEMMA InitWake == Init => WakeInv
BY DEF Init, WakeInv

\* Without scans by hand there never is one.
LEMMA NextUnshared == Manual = FALSE /\ ~manual /\ [Next]_vars => ~manual'
<1> SUFFICES ASSUME Manual = FALSE, ~manual, [Next]_vars PROVE ~manual'
  OBVIOUS
<1>1. CASE UNCHANGED vars \/ Environment
  BY <1>1 DEF Environment, Tick, Launch, Exit, Signal, vars
<1>2. CASE Watcher
  BY <1>2 DEF Watcher, DispatchExec, DispatchExit, Dispatch, InsertPid, MarkDirty, SendExec,
     Debounce, Consume, Unpark
<1>3. CASE ScanThread
  BY <1>3 DEF ScanThread, Begin, List, Acquire, Match, Track, Decide, Send, Wait
<1>4. ~ManualScan
  BY DEF ManualScan
<1> QED
  BY <1>1, <1>2, <1>3, <1>4 DEF Next

\* A step that leaves the scan thread where it is and takes no wake away.
LEMMA AsideWake ==
  ASSUME WakeInv, UNCHANGED <<spc, found, last_emitted>>,
         \/ wpc' = "unpark" \/ permit'
         \/ detected_pids \subseteq detected_pids' /\ wpc # "unpark" /\ ~permit
  PROVE  WakeInv'
BY DEF WakeInv, Woken

\* The wake that starts a scan is spent on a new snapshot: nobody else holds the
\* guard that would make the scan give up.
LEMMA NextWake ==
  ASSUME ScanTyped, ~manual, WakeInv, [Next]_vars
  PROVE  WakeInv'
<1>t. permit \in BOOLEAN
  BY DEF ScanTyped, TypeOK
<1>1. CASE UNCHANGED vars \/ Environment \/ ManualScan
  <2>1. UNCHANGED <<spc, found, last_emitted, detected_pids, permit, wpc>>
    BY <1>1 DEF Environment, Tick, Launch, Exit, Signal, ManualScan, vars, world, shared, scan,
       watcher, bridge
  <2> QED
    BY <2>1 DEF WakeInv, Woken
<1>2. CASE Watcher
  <2>1. UNCHANGED <<spc, found, last_emitted>>
    BY <1>2 DEF Watcher, DispatchExec, DispatchExit, Dispatch, InsertPid, MarkDirty, SendExec,
       Debounce, Consume, Unpark, scan
  <2>2. CASE Unpark
    BY <2>1, <2>2, AsideWake DEF Unpark, Permit
  <2>3. CASE Consume
    BY <2>1, <2>3, AsideWake DEF Consume
  <2>4. CASE DispatchExec \/ DispatchExit \/ InsertPid \/ MarkDirty \/ SendExec \/ Debounce
    <3>1. /\ detected_pids \subseteq detected_pids' /\ permit' = permit /\ wpc # "unpark"
      BY <2>4 DEF DispatchExec, DispatchExit, Dispatch, InsertPid, MarkDirty, SendExec, Debounce,
         shared
    <3> QED
      BY <2>1, <3>1, AsideWake
  <2> QED
    BY <1>2, <2>2, <2>3, <2>4 DEF Watcher
<1>3. CASE ScanThread
  <2>1. CASE Begin \/ List \/ Acquire \/ Match
    <3>1. spc' \in {"list", "acquire", "match", "track"}
      BY <2>1 DEF Begin, List, Acquire, GuardFree, Match, ScanTyped, TypeOK
    <3> QED
      BY <3>1 DEF WakeInv
  <2>2. CASE Track
    BY <2>2 DEF Track, WakeInv, Woken
  <2>3. CASE Decide
    <3>1. /\ spc = "decide" /\ UNCHANGED <<detected_pids, permit, wpc>>
          /\ last_emitted' = found
      BY <2>3 DEF Decide, MustEmit, watcher
    <3>2. spc' \in {"send", "wait"}
      BY <2>3 DEF Decide
    <3> QED
      BY <3>1, <3>2 DEF WakeInv, Woken
  <2>4. CASE Send
    <3>1. /\ spc = "send" /\ spc' \in {"send", "wait"}
          /\ UNCHANGED <<detected_pids, permit, wpc, last_emitted>>
      BY <2>4 DEF Send, shared, watcher
    <3> QED
      BY <3>1 DEF WakeInv, Woken
  <2>5. CASE Wait
    BY <2>5 DEF Wait, WakeInv
  <2> QED
    BY <1>3, <2>1, <2>2, <2>3, <2>4, <2>5 DEF ScanThread
<1> QED
  BY <1>1, <1>2, <1>3 DEF Next

\* Once the exit of a game of the last snapshot has been taken off
\* detected_pids, the scan thread does not wait its cadence out: the watcher's
\* unpark leaves a permit whether or not the thread is parked.  An embedder that
\* scans by hand may hold the guard when the woken scan wants it, and the wake
\* is spent on nothing.
THEOREM WakesKept ==
  ASSUME Manual = FALSE
  PROVE  Spec => []WakeIsNotLost
<1>1. WakeInv => WakeIsNotLost
  BY DEF WakeInv, Woken, WakeIsNotLost
<1>2. Init => ScanTyped /\ ~manual /\ WakeInv
  BY InitTyped, InitWake DEF Init
<1>3. ScanTyped /\ ~manual /\ WakeInv /\ [Next]_vars => (ScanTyped /\ ~manual /\ WakeInv)'
  BY NextTyped, NextUnshared, NextWake
<1> QED
  BY <1>1, <1>2, <1>3, PTL DEF Spec
=============================================================================

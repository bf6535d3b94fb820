----------------------------- MODULE ProcEvents -----------------------------
(***************************************************************************)
(* The reader of kernel process events (src/lib/src/server/proc_events.rs):*)
(* it subscribes to cn_proc, proves that events arrive before it claims to *)
(* be live, forwards EXEC and EXIT to the scanner, and counts from the     *)
(* kernel's sequence numbers what was lost on the way.                     *)
(*                                                                         *)
(* The kernel numbers the messages of each cpu modulo 2^32; a datagram     *)
(* carries one or more; any may be lost, with or without an ENOBUFS.       *)
(***************************************************************************)
EXTENDS Integers, Sequences, Tables

CONSTANTS
  Cpus,
  Modulus,     \* 2^32
  FirstSeqs,   \* the numbers a cpu may be at when the reader subscribes
  ROUNDS,      \* recvs of the self-test: 10
  MaxBatch,    \* messages of a datagram
  MaxInFlight, \* datagrams not read
  MaxMessages, \* messages sent or lost
  Restarting   \* TRUE: a cpu may start its numbers anew

Numbers == 0 .. (Modulus - 1)

ASSUME ProcAssumption ==
  /\ Modulus \in Nat /\ Modulus > 1
  /\ FirstSeqs \subseteq Numbers
  /\ ROUNDS \in Nat \ {0}
  /\ MaxBatch \in Nat \ {0} /\ MaxInFlight \in Nat /\ MaxMessages \in Nat
  /\ Restarting \in BOOLEAN

VARIABLES
  counter,     \* counter[c]: the number of c's next message
  gone,        \* gone[c]: messages of c lost since its last that was sent
  spent,       \* messages sent or lost
  wire,        \* datagrams to be read
  kernel,      \* whether it delivers at all, and whether the buffer overran
  watcher,     \* where watch is, the recvs its self-test has left
  tracker,     \* SeqTracker, and the losses between the messages it was shown
  unforwarded  \* events read and not forwarded

procVars == <<counter, gone, spent, wire, kernel, watcher, tracker, unforwarded>>

-----------------------------------------------------------------------------
(* SeqTracker.                                                              *)

Expected(last) == (last + 1) % Modulus

\* The wrapping distance from the number expected.
Gap(last, seq) == (seq - Expected(last)) % Modulus

\* A jump backwards is a restart of the counter.
Missed(last, seq) ==
  IF Gap(last, seq) <= (Modulus - 1) \div 2 THEN Gap(last, seq) ELSE 0

\* Faulty: the anchor stays where it was first set.
NoteAnchored(t, m) ==
  IF t.last[m.cpu] = None
    THEN [t EXCEPT !.last[m.cpu] = m.seq]
    ELSE [t EXCEPT !.missed = @ + Missed(t.last[m.cpu], m.seq),
                   !.lost = @ + m.after]

\* note: the first number of a cpu anchors.
Note(t, m) ==
  IF t.last[m.cpu] = None
    THEN [t EXCEPT !.last[m.cpu] = m.seq]
    ELSE [t EXCEPT !.last[m.cpu] = m.seq,
                   !.missed = @ + Missed(t.last[m.cpu], m.seq),
                   !.lost = @ + m.after]

\* walk_proc_messages, with the closure of watch.
Walked(t, datagram) ==
  LET after[i \in 0 .. Len(datagram)] ==
        IF i = 0 THEN t ELSE Note(after[i - 1], datagram[i])
  IN  after[Len(datagram)]

EventsOf(datagram) == SelectSeq(datagram, LAMBDA m : m.forwarded)

\* parse_event: the first EXEC or EXIT, if there is one.
Parses(datagram) == EventsOf(datagram) # <<>>

-----------------------------------------------------------------------------
(* The kernel.                                                              *)

Subscribed == watcher.at \in {"ack", "test", "live"}

\* A batch of one cpu: what is EXEC or EXIT, and what is FORK, COMM and so on.
Emit(c, kinds) ==
  /\ Subscribed
  /\ ~kernel.deaf
  /\ Len(wire) < MaxInFlight
  /\ spent + Len(kinds) <= MaxMessages
  /\ spent' = spent + Len(kinds)
  /\ wire' = Append(wire, [i \in 1 .. Len(kinds) |->
                             [cpu |-> c, seq |-> (counter[c] + i - 1) % Modulus,
                              after |-> IF i = 1 THEN gone[c] ELSE 0,
                              forwarded |-> kinds[i]]])
  /\ counter' = [counter EXCEPT ![c] = (@ + Len(kinds)) % Modulus]
  /\ gone' = [gone EXCEPT ![c] = 0]
  /\ UNCHANGED <<kernel, watcher, tracker, unforwarded>>

\* No memory for the message, or no room in the receive buffer.
Lose(c) ==
  /\ Subscribed
  /\ spent < MaxMessages
  /\ spent' = spent + 1
  /\ counter' = [counter EXCEPT ![c] = (@ + 1) % Modulus]
  /\ gone' = [gone EXCEPT ![c] = @ + 1]
  /\ kernel' \in {kernel, [kernel EXCEPT !.overrun = ~kernel.deaf]}
  /\ UNCHANGED <<wire, watcher, tracker, unforwarded>>

\* A cpu goes and comes back.
Restart(c) ==
  /\ Restarting
  /\ spent < MaxMessages
  /\ spent' = spent + 1
  /\ counter' = [counter EXCEPT ![c] = 0]
  /\ gone' = [gone EXCEPT ![c] = 0]
  /\ UNCHANGED <<wire, kernel, watcher, tracker, unforwarded>>

-----------------------------------------------------------------------------
(* watch.                                                                   *)

Moves(to) == watcher' = [watcher EXCEPT !.at = to]

Quiet == UNCHANGED <<counter, gone, spent, tracker, unforwarded>>

\* socket, bind, LISTEN.
Subscribe ==
  /\ watcher.at = "off"
  /\ Moves("ack") \/ Moves("failed")
  /\ UNCHANGED <<wire, kernel>>
  /\ Quiet

Overrun == kernel.overrun /\ kernel' = [kernel EXCEPT !.overrun = FALSE]

\* recv: a datagram, or the overrun that comes first.
Received == ~kernel.overrun /\ wire # <<>> /\ wire' = Tail(wire) /\ UNCHANGED kernel

\* Two seconds for an acknowledgement: any datagram passes for one, and is gone.
Acknowledge ==
  /\ watcher.at = "ack"
  /\ \/ Received
     \/ Overrun /\ UNCHANGED wire
     \/ UNCHANGED <<wire, kernel>>
  /\ Moves("test") \/ Moves("failed")
  /\ Quiet

\* Faulty: nothing heard is nothing wrong.
AnyRound(live) == IF live \/ watcher.rounds = 1 THEN "live" ELSE "test"

\* Faulty: one round too many.
OneRoundMore(live) ==
  IF live THEN "live" ELSE IF watcher.rounds = 0 THEN "failed" ELSE "test"

\* Whether the watcher goes live, goes on, or gives up.
AfterRound(live) ==
  IF live THEN "live" ELSE IF watcher.rounds = 1 THEN "failed" ELSE "test"

\* Faulty: a recv that times out is not counted.
RoundHeard(live) ==
  watcher' = [watcher EXCEPT !.at = AfterRound(live),
                             !.rounds = IF wire = wire' THEN @ ELSE @ - 1]

Round(live) ==
  watcher' = [watcher EXCEPT !.at = AfterRound(live), !.rounds = @ - 1]

\* self_test: an event or an overrun proves delivery; a timeout, a signal and
\* anything else that arrives do not.
SelfTest ==
  /\ watcher.at = "test"
  /\ \/ Received /\ Round(Parses(Head(wire)))
     \/ Overrun /\ UNCHANGED wire /\ Round(TRUE)
     \/ UNCHANGED <<wire, kernel>> /\ Round(FALSE)
  /\ Quiet

\* No program to test with, or recv fails for good.
TestBroken ==
  /\ watcher.at = "test"
  /\ Moves("failed")
  /\ UNCHANGED <<wire, kernel>>
  /\ Quiet

\* The scanner may be gone when an event is forwarded.
Forward ==
  /\ watcher.at = "live"
  /\ Received
  /\ tracker' = Walked(tracker, Head(wire))
  /\ unforwarded' = unforwarded
       + IF Parses(Head(wire)) THEN Len(EventsOf(Head(wire))) - 1 ELSE 0
  /\ \/ UNCHANGED watcher
     \/ Parses(Head(wire)) /\ Moves("closed")
  /\ UNCHANGED <<counter, gone, spent>>

\* ENOBUFS: the socket stays valid.
Drained ==
  /\ watcher.at = "live"
  /\ Overrun
  /\ UNCHANGED <<wire, watcher>>
  /\ Quiet

\* Any other error: the scanner goes on polling alone.
Broken ==
  /\ watcher.at = "live"
  /\ Moves("failed")
  /\ UNCHANGED <<wire, kernel>>
  /\ Quiet

-----------------------------------------------------------------------------
ProcInit ==
  /\ counter \in [Cpus -> FirstSeqs]
  /\ gone = [c \in Cpus |-> 0]
  /\ spent = 0
  /\ wire = <<>>
  /\ kernel \in [deaf : BOOLEAN, overrun : {FALSE}]
  /\ watcher = [at |-> "off", rounds |-> ROUNDS]
  /\ tracker = [last |-> [c \in Cpus |-> None], missed |-> 0, lost |-> 0]
  /\ unforwarded = 0

Batches == UNION {[1 .. n -> BOOLEAN] : n \in 1 .. MaxBatch}

Kernel ==
  \E c \in Cpus :
    \/ \E kinds \in Batches : Emit(c, kinds)
    \/ Lose(c)
    \/ Restart(c)

Watch ==
  \/ Subscribe
  \/ Acknowledge
  \/ SelfTest
  \/ TestBroken
  \/ Forward
  \/ Drained
  \/ Broken

ProcNext == Kernel \/ Watch

\* recv returns, and its timeout expires.
ProcFairness == WF_procVars(Subscribe \/ Acknowledge \/ SelfTest)

ProcSpec     == ProcInit /\ [][ProcNext]_procVars
ProcFairSpec == ProcSpec /\ ProcFairness

-----------------------------------------------------------------------------
(* Properties.                                                              *)

\* Every variable has its type.
ProcTypeOK ==
  /\ counter \in [Cpus -> Numbers]
  /\ gone \in [Cpus -> 0 .. MaxMessages]
  /\ Len(wire) <= MaxInFlight
  /\ watcher.at \in {"off", "ack", "test", "live", "failed", "closed"}
  /\ watcher.rounds \in 0 .. ROUNDS
  /\ watcher.at \in {"off", "ack", "test"} => watcher.rounds > 0
  /\ tracker.last \in [Cpus -> Numbers \cup {None}]

\* The losses reported are the losses there were between the messages read on each
\* cpu, over the wrap of its counter, whatever arrives of whom in between
\* (SeqTracker::note).
MissedIsLost == tracker.missed = tracker.lost

\* A self-test that began ends with what is the case: on a kernel that accepts the
\* subscription and delivers nothing the watcher never claims to be live, and does
\* not wait for ever either (self_test).
WatchDecides ==
  (watcher.at # "off")
    ~> \/ watcher.at \in {"failed", "closed"}
       \/ watcher.at = "live" /\ ~kernel.deaf

\* Bursts arrive intact.
BurstsIntact == unforwarded = 0
=============================================================================

---------------------------- MODULE Outlets_proofs --------------------------
(***************************************************************************)
(* What leaves the bridge, for any number of daemons, writing threads,     *)
(* slots and clients: the state snapshots (StateSlot) and the tables of    *)
(* the bridge's clients (BridgeClients).                                   *)
(***************************************************************************)
EXTENDS MCOutlets, Tables_proofs, SequenceTheorems

-----------------------------------------------------------------------------
(* Types of the snapshots' variables, for every value of the constants.     *)

\* The labels of the slot's steps are distinct from None.
LEMMA SlotNames ==
  /\ {"idle", "persist", "create", "write", "rename"} = Steps
  /\ {"file", "tmp", "gone"} = Targets
  /\ None \notin Slots /\ None \notin Presences /\ None \notin Daemons
  /\ None \notin {"file", "tmp", "gone"}
BY SlotsAssumption DEF Steps, Targets

\* What a file can hold: nothing, parts, or a whole snapshot, which are
\* distinct.
LEMMA ContentTypes ==
  /\ Missing \in Contents /\ Empty \in Contents /\ Torn \in Contents
  /\ Snapshots \subseteq Contents
  /\ Empty # Missing /\ Torn # Missing /\ Missing \notin Snapshots
  /\ Empty \notin Snapshots /\ Torn \notin Snapshots
BY SlotsAssumption DEF Contents, Missing, Empty, Torn, Snapshots

\* The first slot that may be reused, if there is one.
LEMMA Selected ==
  /\ SelectSlot \in Slots \cup {None}
  /\ SelectSlot # None => Reusable(SelectSlot)
<1> DEFINE free == {k \in Slots : Reusable(k)}
<1>1. CASE free = {}
  BY <1>1 DEF SelectSlot
<1>2. CASE free # {}
  <2>1. Slots \subseteq Nat
    BY DEF Slots
  <2>2. \E k \in free : \A other \in free : k <= other
    BY <1>2, <2>1, Least
  <2>3. SelectSlot = CHOOSE k \in free : \A other \in free : k <= other
    BY <1>2 DEF SelectSlot
  <2> HIDE DEF free
  <2>4. SelectSlot \in free
    BY <2>2, <2>3
  <2> QED
    BY <2>4 DEF free
<1> QED
  BY <1>1, <1>2

\* Types hold at first, and nobody writes.
LEMMA SlotsInitTyped == SlotsInit => SlotsTypeOK /\ AtRest
<1> SUFFICES ASSUME SlotsInit PROVE SlotsTypeOK /\ AtRest
  OBVIOUS
<1> USE SlotsAssumption DEF SlotsInit
<1>1. \A d \in Daemons, w \in Writers :
        /\ step[d][w] = "idle" /\ body[d][w] = None /\ target[d][w] = None
  OBVIOUS
<1>2. AtRest
  BY <1>1 DEF AtRest, Quiet
<1>3. /\ step \in [Daemons -> [Writers -> Steps]]
      /\ body \in [Daemons -> [Writers -> Snapshots \cup {None}]]
      /\ target \in [Daemons -> [Writers -> Targets \cup {None}]]
  BY DEF Steps
<1>4. file \in [Slots -> Contents] /\ tmp \in [Slots -> Contents]
  BY ContentTypes
<1>5. /\ now \in 0 .. MaxTime
      /\ running \in [Daemons -> {"new", "built", "up", "closing", "ended"}]
      /\ slot \in [Daemons -> Slots \cup {None}]
      /\ presence \in [Daemons -> Presences \cup {None}]
      /\ due \in [Daemons -> Nat]
  OBVIOUS
<1>6. \A d \in Daemons, w \in Writers :
        /\ InFlight(d, w) => slot[d] # None /\ body[d][w] \in Snapshots
        /\ target[d][w] # None <=> step[d][w] = "write"
        /\ target[d][w] = "tmp" => tmp[slot[d]] # Missing
  BY <1>1, SlotNames DEF InFlight
<1> QED
  BY <1>2, <1>3, <1>4, <1>5, <1>6 DEF SlotsTypeOK

\* What a thread serialises is a snapshot of its daemon, as of now.
LEMMA SnapshotType ==
  ASSUME SlotsTypeOK, NEW d \in Daemons
  PROVE  /\ Snapshot(d) \in Snapshots
         /\ Snapshot(d).state = "whole" /\ Snapshot(d).by = d
         /\ Snapshot(d).at = now /\ Snapshot(d).shows = presence[d]
BY DEF SlotsTypeOK, Snapshot, Snapshots, Missing

Put(f, d, w, v) == [f EXCEPT ![d][w] = v]

\* One thread of one daemon is changed; the others stay.
LEMMA StepPut ==
  ASSUME step \in [Daemons -> [Writers -> Steps]], NEW d \in Daemons,
         NEW w \in Writers, NEW label \in Steps, step' = Put(step, d, w, label)
  PROVE  /\ step' \in [Daemons -> [Writers -> Steps]]
         /\ step'[d][w] = label
         /\ \A e \in Daemons, v \in Writers :
              e # d \/ v # w => step'[e][v] = step[e][v]
BY DEF Put

\* Writing one thread's body leaves the others.
LEMMA BodyPut ==
  ASSUME body \in [Daemons -> [Writers -> Snapshots \cup {None}]],
         NEW d \in Daemons, NEW w \in Writers,
         NEW snapshot \in Snapshots \cup {None}, body' = Put(body, d, w, snapshot)
  PROVE  /\ body' \in [Daemons -> [Writers -> Snapshots \cup {None}]]
         /\ body'[d][w] = snapshot
         /\ \A e \in Daemons, v \in Writers :
              e # d \/ v # w => body'[e][v] = body[e][v]
BY DEF Put

\* Opening one thread's file leaves the others.
LEMMA TargetPut ==
  ASSUME target \in [Daemons -> [Writers -> Targets \cup {None}]],
         NEW d \in Daemons, NEW w \in Writers,
         NEW where \in Targets \cup {None}, target' = Put(target, d, w, where)
  PROVE  /\ target' \in [Daemons -> [Writers -> Targets \cup {None}]]
         /\ target'[d][w] = where
         /\ \A e \in Daemons, v \in Writers :
              e # d \/ v # w => target'[e][v] = target[e][v]
BY DEF Put

\* A write leaves something in the file.
LEMMA WrittenType ==
  ASSUME NEW content \in Contents, NEW new \in Snapshots, NEW c \in Written(content, new)
  PROVE  c \in Contents /\ c # Missing
BY ContentTypes DEF Written

\* What each action leaves of the types.  `SlotsTypeOK` and `AtRest` together
\* are preserved whatever the daemons' rhythm.
LEMMA SlotsNextTyped ==
  SlotsTypeOK /\ AtRest /\ [SlotsNext]_slotVars => SlotsTypeOK' /\ AtRest'
<1> SUFFICES ASSUME SlotsTypeOK, AtRest, [SlotsNext]_slotVars
             PROVE  SlotsTypeOK' /\ AtRest'
  OBVIOUS
<1> USE SlotsAssumption
<1>1. CASE Tick
  BY <1>1 DEF Tick, SlotsTypeOK, AtRest, Quiet, InFlight
<1>2. ASSUME NEW d \in Daemons, Build(d) PROVE SlotsTypeOK' /\ AtRest'
  <2>1. Quiet(d)
    BY <1>2 DEF Build, AtRest
  <2>2. slot' \in [Daemons -> Slots \cup {None}]
    BY <1>2, Selected DEF Build, SlotsTypeOK
  <2>3. running' \in [Daemons -> {"new", "built", "up", "closing", "ended"}]
    BY <1>2 DEF Build, SlotsTypeOK
  <2>4. \A e \in Daemons : e # d => slot'[e] = slot[e] /\ running'[e] = running[e]
    BY <1>2 DEF Build, SlotsTypeOK
  <2>5. AtRest'
    BY <1>2, <2>1, <2>4 DEF Build, AtRest, Quiet
  <2>6. \A e \in Daemons, w \in Writers :
          /\ InFlight(e, w)' => slot'[e] # None /\ body'[e][w] \in Snapshots
          /\ target'[e][w] # None <=> step'[e][w] = "write"
          /\ target'[e][w] = "tmp" => tmp'[slot'[e]] # Missing
    BY <1>2, <2>1, <2>4, SlotNames DEF Build, Quiet, InFlight, SlotsTypeOK
  <2> QED
    BY <1>2, <2>2, <2>3, <2>5, <2>6 DEF Build, SlotsTypeOK
<1>3. ASSUME NEW d \in Daemons, StartUp(d) PROVE SlotsTypeOK' /\ AtRest'
  <2>1. PICK w \in Writers : step' = [step EXCEPT ![d][w] = "persist"]
    BY <1>3 DEF StartUp
  <2>2. Quiet(d)
    BY <1>3 DEF StartUp, AtRest
  <2>3. running' \in [Daemons -> {"new", "built", "up", "closing", "ended"}]
    BY <1>3 DEF StartUp, SlotsTypeOK
  <2>4. due' \in [Daemons -> Nat]
    BY <1>3 DEF StartUp, SlotsTypeOK
  <2>5. /\ step' \in [Daemons -> [Writers -> Steps]]
        /\ step'[d][w] = "persist"
        /\ \A e \in Daemons, v \in Writers :
             e # d \/ v # w => step'[e][v] = step[e][v]
    <3>1. step \in [Daemons -> [Writers -> Steps]] /\ "persist" \in Steps
      BY SlotNames DEF SlotsTypeOK
    <3>2. step' = Put(step, d, w, "persist")
      BY <2>1 DEF Put
    <3> QED
      BY <3>1, <3>2, StepPut
  <2>6. /\ running'[d] = "up"
        /\ \A e \in Daemons : e # d => running'[e] = running[e]
    BY <1>3 DEF StartUp, SlotsTypeOK
  <2>7. AtRest'
    BY <2>5, <2>6 DEF AtRest, Quiet
  <2>8. \A e \in Daemons, v \in Writers :
          /\ InFlight(e, v)' => InFlight(e, v)
          /\ step'[e][v] = "write" <=> step[e][v] = "write"
    BY <2>2, <2>5 DEF InFlight, Quiet
  <2> QED
    BY <1>3, <2>3, <2>4, <2>5, <2>7, <2>8 DEF StartUp, SlotsTypeOK
<1>4. ASSUME NEW d \in Daemons, ShutDown(d) PROVE SlotsTypeOK' /\ AtRest'
  <2>1. running' \in [Daemons -> {"new", "built", "up", "closing", "ended"}]
    BY <1>4 DEF ShutDown, SlotsTypeOK
  <2>2. AtRest'
    BY <1>4 DEF ShutDown, AtRest, Quiet, SlotsTypeOK
  <2>3. file' \in [Slots -> Contents]
    <3>1. CASE slot[d] = None
      BY <1>4, <3>1 DEF ShutDown, SlotsTypeOK
    <3>2. CASE slot[d] # None
      <4>1. slot[d] \in Slots
        BY <3>2 DEF SlotsTypeOK
      <4>2. file' = [file EXCEPT ![slot[d]] = Missing]
        BY <1>4, <3>2 DEF ShutDown
      <4> QED
        BY <4>1, <4>2, ContentTypes DEF SlotsTypeOK
    <3> QED
      BY <3>1, <3>2
  <2>4. target' \in [Daemons -> [Writers -> Targets \cup {None}]]
    BY <1>4, SlotNames DEF ShutDown, SlotsTypeOK, Moved
  <2>5. \A e \in Daemons, w \in Writers :
          /\ target'[e][w] # None <=> target[e][w] # None
          /\ target'[e][w] = "tmp" <=> target[e][w] = "tmp"
    BY <1>4, SlotNames DEF ShutDown, SlotsTypeOK, Moved
  <2> QED
    BY <1>4, <2>1, <2>2, <2>3, <2>4, <2>5 DEF ShutDown, SlotsTypeOK, InFlight
<1>5. ASSUME NEW d \in Daemons, End(d) PROVE SlotsTypeOK' /\ AtRest'
  <2>1. /\ running' \in [Daemons -> {"new", "built", "up", "closing", "ended"}]
        /\ slot' \in [Daemons -> Slots \cup {None}]
        /\ presence' \in [Daemons -> Presences \cup {None}]
        /\ due' \in [Daemons -> Nat]
    BY <1>5 DEF End, SlotsTypeOK
  <2>2. /\ step' \in [Daemons -> [Writers -> Steps]]
        /\ body' \in [Daemons -> [Writers -> Snapshots \cup {None}]]
        /\ target' \in [Daemons -> [Writers -> Targets \cup {None}]]
    BY <1>5, SlotNames DEF End, SlotsTypeOK
  <2>3. \A w \in Writers : step'[d][w] = "idle" /\ target'[d][w] = None
    BY <1>5 DEF End, SlotsTypeOK
  <2>4. \A e \in Daemons : e # d =>
          /\ slot'[e] = slot[e] /\ running'[e] = running[e]
          /\ step'[e] = step[e] /\ body'[e] = body[e] /\ target'[e] = target[e]
    BY <1>5 DEF End, SlotsTypeOK
  <2>5. AtRest'
    BY <2>3, <2>4 DEF AtRest, Quiet
  <2>6. file' = file /\ tmp' = tmp /\ now' = now
    BY <1>5 DEF End
  <2>7. \A e \in Daemons, w \in Writers :
          /\ InFlight(e, w)' => slot'[e] # None /\ body'[e][w] \in Snapshots
          /\ target'[e][w] # None <=> step'[e][w] = "write"
          /\ target'[e][w] = "tmp" => tmp'[slot'[e]] # Missing
    <3> SUFFICES ASSUME NEW e \in Daemons, NEW w \in Writers
                 PROVE  /\ InFlight(e, w)' => slot'[e] # None /\ body'[e][w] \in Snapshots
                        /\ target'[e][w] # None <=> step'[e][w] = "write"
                        /\ target'[e][w] = "tmp" => tmp'[slot'[e]] # Missing
      OBVIOUS
    <3>1. CASE e = d
      BY <2>3, <3>1, SlotNames DEF InFlight
    <3>2. CASE e # d
      BY <2>4, <2>6, <3>2 DEF InFlight, SlotsTypeOK
    <3> QED
      BY <3>1, <3>2
  <2> QED
    BY <2>1, <2>2, <2>5, <2>6, <2>7 DEF SlotsTypeOK
<1>6. ASSUME NEW d \in Daemons, NEW w \in Writers, Called(d, w),
             presence' \in [Daemons -> Presences \cup {None}],
             due' \in [Daemons -> Nat]
      PROVE  SlotsTypeOK' /\ AtRest'
  <2>1. /\ step' \in [Daemons -> [Writers -> Steps]]
        /\ step'[d][w] = "persist"
        /\ \A e \in Daemons, v \in Writers :
             e # d \/ v # w => step'[e][v] = step[e][v]
    <3>1. step \in [Daemons -> [Writers -> Steps]] /\ "persist" \in Steps
      BY SlotNames DEF SlotsTypeOK
    <3>2. step' = Put(step, d, w, "persist")
      BY <1>6 DEF Called, Put
    <3> QED
      BY <3>1, <3>2, StepPut
  <2>2. \A e \in Daemons, v \in Writers :
          /\ InFlight(e, v)' => InFlight(e, v)
          /\ step'[e][v] = "write" <=> step[e][v] = "write"
    BY <1>6, <2>1 DEF InFlight, Called
  <2>3. AtRest'
    BY <1>6, <2>1 DEF AtRest, Quiet, Called
  <2> QED
    BY <1>6, <2>1, <2>2, <2>3 DEF Called, SlotsTypeOK
<1>7. ASSUME NEW d \in Daemons, RefreshTick(d) PROVE SlotsTypeOK' /\ AtRest'
  <2>1. due' \in [Daemons -> Nat] /\ presence' \in [Daemons -> Presences \cup {None}]
    BY <1>7 DEF RefreshTick, SlotsTypeOK
  <2> QED
    BY <1>6, <1>7, <2>1 DEF RefreshTick
<1>8. ASSUME NEW d \in Daemons, NEW w \in Writers, Broadcasts(d, w)
      PROVE  SlotsTypeOK' /\ AtRest'
  <2>1. due' \in [Daemons -> Nat] /\ presence' \in [Daemons -> Presences \cup {None}]
    BY <1>8 DEF Broadcasts, SlotsTypeOK
  <2> QED
    BY <1>6, <1>8, <2>1 DEF Broadcasts
<1>9. ASSUME NEW d \in Daemons, NEW w \in Writers, NEW from \in Steps \ {"idle"},
             NEW to \in Steps, Writing(d, w, from, to)
      PROVE  /\ AtRest'
             /\ running[d] \in {"up", "closing"}
             /\ step' \in [Daemons -> [Writers -> Steps]]
             /\ step'[d][w] = to
             /\ \A e \in Daemons, v \in Writers :
                  e # d \/ v # w => step'[e][v] = step[e][v]
  <2>1. running[d] \in {"up", "closing"}
    BY <1>9 DEF Writing, AtRest, Quiet, SlotsTypeOK
  <2>2. /\ step' \in [Daemons -> [Writers -> Steps]]
        /\ step'[d][w] = to
        /\ \A e \in Daemons, v \in Writers :
             e # d \/ v # w => step'[e][v] = step[e][v]
    <3>1. step \in [Daemons -> [Writers -> Steps]]
      BY DEF SlotsTypeOK
    <3>2. step' = Put(step, d, w, to)
      BY <1>9 DEF Writing, Put
    <3> QED
      BY <3>1, <3>2, StepPut
  <2>3. AtRest'
    BY <1>9, <2>1, <2>2 DEF Writing, AtRest, Quiet
  <2> QED
    BY <2>1, <2>2, <2>3
<1>10. ASSUME NEW d \in Daemons, NEW w \in Writers, Serialise(d, w)
       PROVE  SlotsTypeOK' /\ AtRest'
  <2> DEFINE to == IF slot[d] = None THEN "idle" ELSE "create"
  <2>1. Writing(d, w, "persist", to) /\ to \in Steps
    BY <1>10, SlotNames DEF Serialise
  <2>2. /\ AtRest'
        /\ step' \in [Daemons -> [Writers -> Steps]]
        /\ step'[d][w] = to
        /\ \A e \in Daemons, v \in Writers :
             e # d \/ v # w => step'[e][v] = step[e][v]
    BY <1>9, <2>1, SlotNames
  <2>3. CASE slot[d] = None
    BY <1>10, <2>1, <2>2, <2>3 DEF Serialise, Writing, SlotsTypeOK, InFlight
  <2>4. CASE slot[d] # None
    <3>1. /\ body' \in [Daemons -> [Writers -> Snapshots \cup {None}]]
          /\ body'[d][w] = Snapshot(d)
          /\ \A e \in Daemons, v \in Writers :
               e # d \/ v # w => body'[e][v] = body[e][v]
      <4>1. /\ body \in [Daemons -> [Writers -> Snapshots \cup {None}]]
            /\ Snapshot(d) \in Snapshots \cup {None}
        BY SnapshotType DEF SlotsTypeOK
      <4>2. body' = Put(body, d, w, Snapshot(d))
        BY <1>10, <2>4 DEF Serialise, Put
      <4> QED
        BY <4>1, <4>2, BodyPut
    <3>2. Snapshot(d) \in Snapshots
      BY SnapshotType
    <3> QED
      BY <1>10, <2>1, <2>2, <2>4, <3>1, <3>2 DEF Serialise, Writing, SlotsTypeOK, InFlight
  <2> QED
    BY <2>3, <2>4
<1>11. ASSUME NEW d \in Daemons, NEW w \in Writers, CreateTmp(d, w)
       PROVE  SlotsTypeOK' /\ AtRest'
  <2>1. Writing(d, w, "create", "write")
    BY <1>11 DEF CreateTmp
  <2>2. /\ AtRest'
        /\ step' \in [Daemons -> [Writers -> Steps]]
        /\ step'[d][w] = "write"
        /\ \A e \in Daemons, v \in Writers :
             e # d \/ v # w => step'[e][v] = step[e][v]
    BY <1>9, <2>1, SlotNames
  <2>3. /\ target' \in [Daemons -> [Writers -> Targets \cup {None}]]
        /\ target'[d][w] = "tmp"
        /\ \A e \in Daemons, v \in Writers :
             e # d \/ v # w => target'[e][v] = target[e][v]
    <3>1. /\ target \in [Daemons -> [Writers -> Targets \cup {None}]]
          /\ "tmp" \in Targets \cup {None}
      BY SlotNames DEF SlotsTypeOK
    <3>2. target' = Put(target, d, w, "tmp")
      BY <1>11 DEF CreateTmp, Put
    <3> QED
      BY <3>1, <3>2, TargetPut
  <2>4. slot[d] \in Slots /\ body[d][w] \in Snapshots
    BY <2>1 DEF Writing, SlotsTypeOK, InFlight
  <2>5. /\ tmp' \in [Slots -> Contents] /\ tmp'[slot[d]] = Empty
        /\ \A k \in Slots : tmp[k] # Missing => tmp'[k] # Missing
    BY <1>11, <2>4, ContentTypes DEF CreateTmp, SlotsTypeOK
  <2>6. \A e \in Daemons, v \in Writers :
          /\ InFlight(e, v)' => InFlight(e, v)
          /\ target'[e][v] # None <=> step'[e][v] = "write"
    BY <2>1, <2>2, <2>3, SlotNames DEF InFlight, Writing, SlotsTypeOK
  <2>7. \A e \in Daemons, v \in Writers :
          target'[e][v] = "tmp" => tmp'[slot[e]] # Missing
    <3> SUFFICES ASSUME NEW e \in Daemons, NEW v \in Writers, target'[e][v] = "tmp"
                 PROVE  tmp'[slot[e]] # Missing
      OBVIOUS
    <3>1. CASE e = d /\ v = w
      BY <2>5, <3>1, ContentTypes
    <3>2. CASE e # d \/ v # w
      <4>1. target[e][v] = "tmp"
        BY <2>3, <3>2
      <4>2. InFlight(e, v) /\ tmp[slot[e]] # Missing
        BY <4>1, SlotNames DEF SlotsTypeOK, InFlight
      <4> QED
        BY <2>5, <4>2 DEF SlotsTypeOK
    <3> QED
      BY <3>1, <3>2
  <2> QED
    BY <1>11, <2>1, <2>2, <2>3, <2>5, <2>6, <2>7 DEF CreateTmp, Writing, SlotsTypeOK
<1>12. ASSUME NEW d \in Daemons, NEW w \in Writers, WriteBody(d, w)
       PROVE  SlotsTypeOK' /\ AtRest'
  <2>1. Writing(d, w, "write", "rename")
    BY <1>12 DEF WriteBody
  <2>2. /\ AtRest'
        /\ step' \in [Daemons -> [Writers -> Steps]]
        /\ step'[d][w] = "rename"
        /\ \A e \in Daemons, v \in Writers :
             e # d \/ v # w => step'[e][v] = step[e][v]
    BY <1>9, <2>1, SlotNames
  <2>3. /\ target' \in [Daemons -> [Writers -> Targets \cup {None}]]
        /\ target'[d][w] = None
        /\ \A e \in Daemons, v \in Writers :
             e # d \/ v # w => target'[e][v] = target[e][v]
    <3>1. /\ target \in [Daemons -> [Writers -> Targets \cup {None}]]
          /\ None \in Targets \cup {None}
      BY DEF SlotsTypeOK
    <3>2. target' = Put(target, d, w, None)
      BY <1>12 DEF WriteBody, Put
    <3> QED
      BY <3>1, <3>2, TargetPut
  <2>4. slot[d] \in Slots /\ body[d][w] \in Snapshots
    BY <2>1 DEF Writing, SlotsTypeOK, InFlight
  <2>5. /\ file' \in [Slots -> Contents] /\ tmp' \in [Slots -> Contents]
        /\ \A k \in Slots : tmp[k] # Missing => tmp'[k] # Missing
    <3>1. CASE target[d][w] = "tmp"
      <4>1. PICK c \in Written(tmp[slot[d]], body[d][w]) :
              tmp' = [tmp EXCEPT ![slot[d]] = c]
        BY <1>12, <3>1 DEF WriteBody
      <4>2. c \in Contents /\ c # Missing
        BY <2>4, <4>1, WrittenType DEF SlotsTypeOK
      <4>3. file' = file
        BY <1>12, <3>1 DEF WriteBody
      <4> QED
        BY <2>4, <4>1, <4>2, <4>3 DEF SlotsTypeOK
    <3>2. CASE target[d][w] = "file"
      <4>1. PICK c \in Written(file[slot[d]], body[d][w]) :
              file' = [file EXCEPT ![slot[d]] = c]
        BY <1>12, <3>2 DEF WriteBody
      <4>2. c \in Contents
        BY <2>4, <4>1, WrittenType DEF SlotsTypeOK
      <4>3. tmp' = tmp
        BY <1>12, <3>2 DEF WriteBody
      <4> QED
        BY <2>4, <4>1, <4>2, <4>3 DEF SlotsTypeOK
    <3>3. CASE target[d][w] \notin {"tmp", "file"}
      BY <1>12, <3>3 DEF WriteBody, SlotsTypeOK
    <3> QED
      BY <3>1, <3>2, <3>3
  <2>6. \A e \in Daemons, v \in Writers :
          /\ InFlight(e, v)' => InFlight(e, v)
          /\ target'[e][v] # None <=> step'[e][v] = "write"
          /\ target'[e][v] = "tmp" => target[e][v] = "tmp"
    BY <2>1, <2>2, <2>3, SlotNames DEF InFlight, Writing, SlotsTypeOK
  <2>7. \A e \in Daemons, v \in Writers :
          target'[e][v] = "tmp" => tmp'[slot[e]] # Missing
    BY <2>5, <2>6, SlotNames DEF SlotsTypeOK, InFlight
  <2> QED
    BY <1>12, <2>1, <2>2, <2>3, <2>5, <2>6, <2>7 DEF WriteBody, Writing, SlotsTypeOK
<1>13. ASSUME NEW d \in Daemons, NEW w \in Writers, Rename(d, w)
       PROVE  SlotsTypeOK' /\ AtRest'
  <2>1. Writing(d, w, "rename", "idle")
    BY <1>13 DEF Rename
  <2>2. /\ AtRest'
        /\ step' \in [Daemons -> [Writers -> Steps]]
        /\ step'[d][w] = "idle"
        /\ \A e \in Daemons, v \in Writers :
             e # d \/ v # w => step'[e][v] = step[e][v]
    BY <1>9, <2>1, SlotNames
  <2>3. /\ body' \in [Daemons -> [Writers -> Snapshots \cup {None}]]
        /\ \A e \in Daemons, v \in Writers :
             e # d \/ v # w => body'[e][v] = body[e][v]
    <3>1. /\ body \in [Daemons -> [Writers -> Snapshots \cup {None}]]
          /\ None \in Snapshots \cup {None}
      BY DEF SlotsTypeOK
    <3>2. body' = Put(body, d, w, None)
      BY <1>13 DEF Rename, Put
    <3> QED
      BY <3>1, <3>2, BodyPut
  <2>4. slot[d] \in Slots
    BY <2>1 DEF Writing, SlotsTypeOK, InFlight
  <2>5. \A e \in Daemons, v \in Writers :
          InFlight(e, v)' => InFlight(e, v) /\ body'[e][v] = body[e][v]
    BY <2>1, <2>2, <2>3 DEF InFlight, Writing
  <2>6. \A e \in Daemons, v \in Writers :
          step'[e][v] = "write" <=> step[e][v] = "write"
    BY <2>1, <2>2 DEF Writing
  <2>7. CASE tmp[slot[d]] = Missing
    BY <1>13, <2>1, <2>2, <2>3, <2>5, <2>6, <2>7 DEF Rename, Writing, SlotsTypeOK
  <2>8. CASE tmp[slot[d]] # Missing
    <3>1. /\ file' \in [Slots -> Contents] /\ tmp' \in [Slots -> Contents]
          /\ \A k \in Slots : k # slot[d] => tmp'[k] = tmp[k]
      <4>1. /\ file' = [file EXCEPT ![slot[d]] = tmp[slot[d]]]
            /\ tmp' = [tmp EXCEPT ![slot[d]] = Missing]
        BY <1>13, <2>8 DEF Rename
      <4>2. /\ file \in [Slots -> Contents] /\ tmp \in [Slots -> Contents]
            /\ tmp[slot[d]] \in Contents
        BY <2>4 DEF SlotsTypeOK
      <4> QED
        BY <2>4, <4>1, <4>2, ContentTypes
    <3>2. target' \in [Daemons -> [Writers -> Targets \cup {None}]]
      BY <1>13, <2>8, SlotNames DEF Rename, SlotsTypeOK
    <3>3. \A e \in Daemons, v \in Writers :
            /\ target'[e][v] # None <=> target[e][v] # None
            /\ target'[e][v] = "tmp" => target[e][v] = "tmp" /\ slot[e] # slot[d]
      BY <1>13, <2>8, SlotNames DEF Rename, SlotsTypeOK
    <3>4. \A e \in Daemons, v \in Writers :
            target'[e][v] = "tmp" => tmp'[slot[e]] # Missing
      BY <3>1, <3>3, SlotNames DEF SlotsTypeOK, InFlight
    <3> QED
      BY <2>1, <2>2, <2>3, <2>5, <2>6, <3>1, <3>2, <3>3, <3>4 DEF Writing, SlotsTypeOK
  <2> QED
    BY <2>7, <2>8
<1>14. CASE UNCHANGED slotVars
  BY <1>14 DEF slotVars, SlotsTypeOK, AtRest, Quiet, InFlight
<1> QED
  BY <1>1, <1>2, <1>3, <1>4, <1>5, <1>7, <1>8, <1>10, <1>11, <1>12, <1>13, <1>14
     DEF SlotsNext, Persist

\* Every variable of the snapshots keeps its type, whatever the daemons do at
\* one slot at a time: a thread that writes has a slot, and what it has open at
\* the .tmp path is there (write_snapshot).
THEOREM SlotsTypeCorrect == SlotsSpec => []SlotsTypeOK
BY SlotsInitTyped, SlotsNextTyped, PTL DEF SlotsSpec

-----------------------------------------------------------------------------
(* What the slots tell, while daemons start one at a time, none stays silent *)
(* for longer than STATE_STALE, and a daemon's threads take turns.           *)

\* The invariant as it is of one daemon.
Fine(d) ==
  /\ running[d] = "closing" => Quiet(d)
  /\ \A v, w \in Writers : step[d][v] # "idle" /\ step[d][w] # "idle" => v = w
  /\ running[d] \in {"new", "ended"} => slot[d] = None
  /\ running[d] \in {"new", "built"} => \A k \in Slots : file[k].by # d
  /\ Up(d) /\ slot[d] # None /\ file[slot[d]].by = d
       => file[slot[d]].at <= now /\ now - file[slot[d]].at <= STATE_STALE
  /\ \A w \in Writers :
       /\ InFlight(d, w) => body[d][w] = Snapshot(d)
       /\ step[d][w] = "write"  => target[d][w] = "tmp" /\ tmp[slot[d]] = Empty
       /\ step[d][w] = "rename" => tmp[slot[d]] = body[d][w]
  /\ Up(d) /\ Quiet(d) /\ slot[d] # None
       => /\ Whole(file[slot[d]])
          /\ file[slot[d]].by = d
          /\ file[slot[d]].shows = presence[d]

Sound == SlotsTypeOK /\ AtRest

\* The invariant, daemon by daemon.
LEMMA InvIsFine ==
  SlotsInv <=> /\ Sound /\ \A d \in Daemons : Fine(d)
               /\ WholeForReaders /\ SlotsExclusive
BY DEF SlotsInv, Sound, Fine, OneWriter, NothingBefore, NeverStale, WritesWhole,
       SlotsTell, SlotShowsDaemon

\* The same after a step.
LEMMA FineIsInv ==
  ASSUME Sound', \A d \in Daemons : Fine(d)', WholeForReaders', SlotsExclusive'
  PROVE  SlotsInv'
BY DEF SlotsInv, Sound, Fine, OneWriter, NothingBefore, NeverStale, WritesWhole,
       SlotsTell, SlotShowsDaemon

\* Only a daemon that is up writes, and no other writes to its slot.
LEMMA WriterUp ==
  ASSUME SlotsInv, NEW d \in Daemons, NEW w \in Writers, step[d][w] # "idle"
  PROVE  /\ Up(d)
         /\ \A v \in Writers : step[d][v] # "idle" => v = w
         /\ InFlight(d, w) => slot[d] \in Slots
<1>1. running[d] \in {"new", "built", "up", "closing", "ended"}
  BY DEF SlotsInv, SlotsTypeOK
<1>2. Up(d)
  BY <1>1 DEF SlotsInv, AtRest, OneWriter, Quiet, Up
<1>3. \A v \in Writers : step[d][v] # "idle" => v = w
  BY DEF SlotsInv, OneWriter
<1>4. InFlight(d, w) => slot[d] \in Slots
  BY DEF SlotsInv, SlotsTypeOK
<1> QED
  BY <1>2, <1>3, <1>4

\* Two daemons that run have different slots.
LEMMA ApartSlots ==
  ASSUME SlotsInv, NEW d \in Daemons, NEW e \in Daemons, d # e, Up(d), Up(e),
         slot[d] # None
  PROVE  slot[e] # slot[d]
BY DEF SlotsInv, SlotsTell, SlotsExclusive, Up

\* What another daemon does leaves a daemon as it was, when it leaves its
\* variables and what is at its slot.
LEMMA OtherFine ==
  ASSUME SlotsInv, NEW d \in Daemons, NEW e \in Daemons, e # d, now' = now,
         running'[e] = running[e], slot'[e] = slot[e],
         presence'[e] = presence[e], step'[e] = step[e], body'[e] = body[e],
         Up(e) /\ slot[e] # None
           => file'[slot[e]] = file[slot[e]] /\ tmp'[slot[e]] = tmp[slot[e]],
         \A w \in Writers : Up(e) /\ slot[e] # None /\ target[e][w] = "tmp"
           => target'[e][w] = "tmp",
         \A k \in Slots : file'[k] = file[k] \/ file'[k].by \in {None, d}
  PROVE  Fine(e)'
<1> USE DEF Up
<1>1. Fine(e) /\ e # None
  BY InvIsFine, SlotNames
<1>2. Snapshot(e)' = Snapshot(e)
  BY DEF Snapshot
<1>3. \A w \in Writers :
        /\ step'[e][w] = step[e][w] /\ body'[e][w] = body[e][w]
        /\ InFlight(e, w)' <=> InFlight(e, w)
  BY DEF InFlight
<1>4. Quiet(e)' <=> Quiet(e)
  BY <1>3 DEF Quiet
<1>5. running[e] \in {"new", "built"} => \A k \in Slots : file'[k].by # e
  BY <1>1 DEF Fine
<1>6. ASSUME NEW w \in Writers
      PROVE  /\ InFlight(e, w)' => body'[e][w] = Snapshot(e)'
             /\ step'[e][w] = "write" => target'[e][w] = "tmp" /\ tmp'[slot'[e]] = Empty
             /\ step'[e][w] = "rename" => tmp'[slot'[e]] = body'[e][w]
  <2>1. InFlight(e, w) => Up(e) /\ slot[e] # None
    BY WriterUp, SlotNames DEF InFlight
  <2>2. step[e][w] \in {"write", "rename"} => InFlight(e, w)
    BY DEF InFlight
  <2> QED
    BY <1>1, <1>2, <1>3, <2>1, <2>2 DEF Fine
<1>7. /\ Up(e)' /\ slot'[e] # None /\ file'[slot'[e]].by = e
           => file'[slot'[e]].at <= now' /\ now' - file'[slot'[e]].at <= STATE_STALE
      /\ Up(e)' /\ Quiet(e)' /\ slot'[e] # None
           => /\ Whole(file'[slot'[e]])
              /\ file'[slot'[e]].by = e
              /\ file'[slot'[e]].shows = presence'[e]
  BY <1>1, <1>4 DEF Fine
<1> QED
  BY <1>1, <1>3, <1>4, <1>5, <1>6, <1>7 DEF Fine

\* Time passes only while every snapshot stays fresh, if daemons are busy.
LEMMA TickInv == Busy = TRUE /\ SlotsInv /\ Tick => SlotsInv'
<1> SUFFICES ASSUME Busy = TRUE, SlotsInv, Tick PROVE SlotsInv'
  OBVIOUS
<1>1. Sound'
  BY SlotsNextTyped DEF SlotsNext, SlotsInv, Sound
<1>2. /\ UNCHANGED <<running, slot, presence, due, file, tmp, step, body, target>>
      /\ now \in Nat /\ now' = now + 1
  BY SlotsAssumption DEF Tick, SlotsInv, SlotsTypeOK
<1>3. WholeForReaders' /\ SlotsExclusive'
  BY <1>2 DEF SlotsInv, SlotsTell, WholeForReaders, SlotsExclusive, Whole
<1>4. ASSUME NEW d \in Daemons PROVE Fine(d)'
  <2>1. Fine(d)
    BY InvIsFine
  <2>2. \A w \in Writers : ~ InFlight(d, w)
    BY WriterUp DEF Tick, Quiet, InFlight
  <2>3. ASSUME Up(d), slot[d] # None, file[slot[d]].by = d
        PROVE  file[slot[d]].at <= now' /\ now' - file[slot[d]].at <= STATE_STALE
    <3>1. /\ file[slot[d]] \in Contents /\ Whole(file[slot[d]])
          /\ now - file[slot[d]].at < STATE_STALE
      BY <2>3 DEF Tick, SlotsInv, SlotsTypeOK
    <3>2. file[slot[d]].at \in Nat
      BY <3>1, SlotsAssumption DEF Contents, Snapshots, Whole, Missing, Empty, Torn
    <3>3. file[slot[d]].at <= now
      BY <2>1, <2>3 DEF Fine
    <3> QED
      BY <1>2, <3>1, <3>2, <3>3, SlotsAssumption
  <2>4. \A w \in Writers : /\ ~ InFlight(d, w)'
                          /\ step[d][w] \notin {"write", "rename"}
    BY <1>2, <2>2 DEF InFlight
  <2> QED
    <3>1. (Up(d)' <=> Up(d)) /\ (Quiet(d)' <=> Quiet(d))
      BY <1>2 DEF Up, Quiet
    <3>3. file' = file /\ slot' = slot /\ running' = running /\ step' = step
          /\ presence' = presence /\ now' = now + 1
      BY <1>2
    <3>4. \A w \in Writers :
            /\ InFlight(d, w)' => body'[d][w] = Snapshot(d)'
            /\ step'[d][w] = "write"  => target'[d][w] = "tmp" /\ tmp'[slot'[d]] = Empty
            /\ step'[d][w] = "rename" => tmp'[slot'[d]] = body'[d][w]
      BY <2>4, <3>3
    <3>5. /\ running[d] = "closing" => Quiet(d)
          /\ \A v, w \in Writers : step[d][v] # "idle" /\ step[d][w] # "idle" => v = w
          /\ running[d] \in {"new", "ended"} => slot[d] = None
          /\ running[d] \in {"new", "built"} => \A k \in Slots : file[k].by # d
          /\ Up(d) /\ Quiet(d) /\ slot[d] # None
               => /\ Whole(file[slot[d]])
                  /\ file[slot[d]].by = d
                  /\ file[slot[d]].shows = presence[d]
      BY <2>1 DEF Fine
    <3> QED
      <4>1. Up(d)' /\ slot'[d] # None /\ file'[slot'[d]].by = d
              => file'[slot'[d]].at <= now' /\ now' - file'[slot'[d]].at <= STATE_STALE
        <5>1. file'[slot'[d]] = file[slot[d]] /\ slot'[d] = slot[d]
          BY <3>3
        <5> QED
          BY <2>3, <3>1, <5>1
      <4>2. Up(d)' /\ Quiet(d)' /\ slot'[d] # None
              => /\ Whole(file'[slot'[d]])
                 /\ file'[slot'[d]].by = d
                 /\ file'[slot'[d]].shows = presence'[d]
        BY <3>1, <3>3, <3>5
      <4>3. /\ running'[d] = "closing" => Quiet(d)'
            /\ \A v, w \in Writers : step'[d][v] # "idle" /\ step'[d][w] # "idle" => v = w
            /\ running'[d] \in {"new", "ended"} => slot'[d] = None
            /\ running'[d] \in {"new", "built"} => \A k \in Slots : file'[k].by # d
        BY <3>1, <3>3, <3>5
      <4> QED
        BY <3>4, <4>1, <4>2, <4>3 DEF Fine
<1> QED
  BY <1>1, <1>3, <1>4, FineIsInv

\* The slot a daemon chooses is not one a daemon that is up holds: its snapshot
\* there is its own and not stale (select_slot).
LEMMA BuildInv ==
  ASSUME Apart = TRUE, SlotsInv, NEW d \in Daemons, Build(d)
  PROVE  SlotsInv'
<1>1. Sound'
  BY SlotsNextTyped DEF SlotsNext, SlotsInv, Sound
<1>2. /\ UNCHANGED <<now, presence, due, file, tmp, step, body, target>>
      /\ running[d] = "new" /\ running'[d] = "built" /\ slot'[d] = SelectSlot
      /\ \A e \in Daemons : e # d => running'[e] = running[e] /\ slot'[e] = slot[e]
  BY DEF Build, SlotsInv, SlotsTypeOK
<1>3. \A w \in Writers : step[d][w] = "idle"
  BY <1>2 DEF SlotsInv, AtRest, Quiet
<1>4. Fine(d)'
  <2>1. \A k \in Slots : file[k].by # d
    BY <1>2, InvIsFine DEF Fine
  <2> QED
    BY <1>2, <1>3, <2>1 DEF Fine, Quiet, InFlight, Up
<1>5. ASSUME NEW e \in Daemons, e # d PROVE Fine(e)'
  BY <1>2, <1>5, OtherFine
<1>6. WholeForReaders'
  BY <1>2 DEF SlotsInv, SlotsTell, WholeForReaders, Whole
<1>7. ASSUME NEW e \in Daemons, e # d, running[e] \in {"built", "up"}, SelectSlot # None
      PROVE  slot[e] # SelectSlot
  <2>1. Settled(e)
    BY DEF Build
  <2>2. CASE slot[e] = None
    BY <1>7, <2>2
  <2>3. CASE slot[e] # None
    <3>1. Up(e) /\ file[slot[e]].by = e
      BY <1>7, <2>1, <2>3 DEF Settled, Up
    <3>2. /\ file[slot[e]] \in Contents /\ now \in Nat
      BY <2>3, SlotsAssumption DEF SlotsInv, SlotsTypeOK
    <3>3. Whole(file[slot[e]]) /\ file[slot[e]].at \in Nat
      BY <3>1, <3>2, SlotsAssumption
         DEF Contents, Snapshots, Whole, Missing, Empty, Torn
    <3>4. now - file[slot[e]].at <= STATE_STALE
      BY <2>3, <3>1 DEF SlotsInv, NeverStale
    <3>5. ~ Reusable(slot[e])
      BY <3>2, <3>3, <3>4, SlotsAssumption DEF Reusable
    <3> QED
      BY <1>7, <3>5, Selected
  <2> QED
    BY <2>2, <2>3
<1>8. SlotsExclusive'
  <2> SUFFICES ASSUME NEW a \in Daemons, NEW b \in Daemons, a # b, slot'[a] # None,
                      {running'[a], running'[b]} \subseteq {"built", "up"}
               PROVE  slot'[a] # slot'[b]
    BY DEF SlotsExclusive
  <2>1. CASE a = d
    BY <1>2, <1>7, <2>1
  <2>2. CASE b = d
    BY <1>2, <1>7, <2>2
  <2>3. CASE a # d /\ b # d
    BY <1>2, <2>3 DEF SlotsInv, SlotsTell, SlotsExclusive
  <2> QED
    BY <2>1, <2>2, <2>3
<1> QED
  BY <1>1, <1>4, <1>5, <1>6, <1>8, FineIsInv

\* A daemon that starts takes a slot nobody's snapshot is fresh at.
LEMMA StartUpInv ==
  ASSUME SlotsInv, NEW d \in Daemons, StartUp(d)
  PROVE  SlotsInv'
<1>1. Sound'
  BY SlotsNextTyped DEF SlotsNext, SlotsInv, Sound
<1>2. /\ UNCHANGED <<now, slot, presence, file, tmp, body, target>>
      /\ running[d] = "built" /\ running'[d] = "up"
      /\ \A e \in Daemons : e # d => running'[e] = running[e]
  BY DEF StartUp, SlotsInv, SlotsTypeOK
<1>3. PICK w \in Writers :
        /\ step'[d][w] = "persist"
        /\ \A v \in Writers : v # w => step'[d][v] = "idle"
        /\ \A e \in Daemons : e # d => step'[e] = step[e]
  <2>1. PICK w \in Writers : step' = [step EXCEPT ![d][w] = "persist"]
    BY DEF StartUp
  <2>2. \A v \in Writers : step[d][v] = "idle"
    BY <1>2 DEF SlotsInv, AtRest, Quiet
  <2> QED
    BY <2>1, <2>2 DEF SlotsInv, SlotsTypeOK
<1>4. Fine(d)'
  <2>1. slot[d] # None => file[slot[d]].by # d
    BY <1>2, InvIsFine DEF Fine, SlotsInv, SlotsTypeOK
  <2> QED
    BY <1>2, <1>3, <2>1 DEF Fine, Quiet, InFlight, Up
<1>5. ASSUME NEW e \in Daemons, e # d PROVE Fine(e)'
  BY <1>2, <1>3, <1>5, OtherFine
<1>6. WholeForReaders'
  BY <1>2 DEF SlotsInv, SlotsTell, WholeForReaders, Whole
<1>7. SlotsExclusive'
  BY <1>2 DEF SlotsInv, SlotsTell, SlotsExclusive
<1> QED
  BY <1>1, <1>4, <1>5, <1>6, <1>7, FineIsInv

\* A daemon that ends orderly, with no thread of its own writing, removes
\* its file.
LEMMA ShutDownInv ==
  ASSUME Alone = TRUE, SlotsInv, NEW d \in Daemons, ShutDown(d)
  PROVE  SlotsInv'
<1>1. Sound'
  BY SlotsNextTyped DEF SlotsNext, SlotsInv, Sound
<1>2. /\ UNCHANGED <<now, slot, presence, due, tmp, step, body>>
      /\ Up(d) /\ Quiet(d) /\ running'[d] = "closing"
      /\ \A e \in Daemons : e # d => running'[e] = running[e]
  BY DEF ShutDown, SlotsInv, SlotsTypeOK
<1>3. /\ \A k \in Slots : k # slot[d] => file'[k] = file[k]
      /\ \A k \in Slots : file'[k] = file[k] \/ file'[k] = Missing
  <2>1. CASE slot[d] = None
    BY <2>1 DEF ShutDown
  <2>2. CASE slot[d] # None
    <3>1. file' = [file EXCEPT ![slot[d]] = Missing] /\ file \in [Slots -> Contents]
      BY <2>2 DEF ShutDown, SlotsInv, SlotsTypeOK
    <3> QED
      BY <3>1
  <2> QED
    BY <2>1, <2>2
<1>4. \A e \in Daemons, w \in Writers : target[e][w] = "tmp" => target'[e][w] = "tmp"
  <2>1. CASE slot[d] = None
    BY <2>1 DEF ShutDown
  <2>2. CASE slot[d] # None
    BY <2>2 DEF ShutDown, Moved
  <2> QED
    BY <2>1, <2>2
<1>5. Fine(d)'
  <2>1. \A w \in Writers : step[d][w] = "idle"
    BY <1>2 DEF Quiet
  <2> QED
    BY <1>2, <2>1 DEF Fine, Quiet, InFlight, Up
<1>6. ASSUME NEW e \in Daemons, e # d PROVE Fine(e)'
  <2>1. Up(e) /\ slot[e] # None => slot[e] # slot[d] /\ slot[e] \in Slots
    BY <1>2, <1>6, ApartSlots DEF SlotsInv, SlotsTypeOK
  <2>2. Missing.by = None
    BY DEF Missing
  <2>3. Up(e) /\ slot[e] # None
          => file'[slot[e]] = file[slot[e]] /\ tmp'[slot[e]] = tmp[slot[e]]
    BY <1>2, <1>3, <2>1
  <2>4. \A k \in Slots : file'[k] = file[k] \/ file'[k].by \in {None, d}
    BY <1>3, <2>2
  <2> QED
    BY <1>2, <1>4, <1>6, <2>3, <2>4, OtherFine
<1>7. WholeForReaders'
  BY <1>3 DEF SlotsInv, SlotsTell, WholeForReaders, Whole
<1>8. SlotsExclusive'
  BY <1>2 DEF SlotsInv, SlotsTell, SlotsExclusive, Up
<1> QED
  BY <1>1, <1>5, <1>6, <1>7, <1>8, FineIsInv

\* A daemon that ends leaves the files as they are.
LEMMA EndInv ==
  ASSUME SlotsInv, NEW d \in Daemons, End(d)
  PROVE  SlotsInv'
<1>1. Sound'
  BY SlotsNextTyped DEF SlotsNext, SlotsInv, Sound
<1>2. /\ UNCHANGED <<now, file, tmp>>
      /\ running'[d] = "ended" /\ slot'[d] = None
      /\ \A w \in Writers : step'[d][w] = "idle"
      /\ \A e \in Daemons : e # d =>
           /\ running'[e] = running[e] /\ slot'[e] = slot[e]
           /\ presence'[e] = presence[e] /\ step'[e] = step[e]
           /\ body'[e] = body[e] /\ target'[e] = target[e]
  BY DEF End, SlotsInv, SlotsTypeOK
<1>3. Fine(d)'
  BY <1>2 DEF Fine, Quiet, InFlight, Up
<1>4. ASSUME NEW e \in Daemons, e # d PROVE Fine(e)'
  BY <1>2, <1>4, OtherFine
<1>5. WholeForReaders'
  BY <1>2 DEF SlotsInv, SlotsTell, WholeForReaders, Whole
<1>6. SlotsExclusive'
  <2> SUFFICES ASSUME NEW a \in Daemons, NEW b \in Daemons, a # b, slot'[a] # None,
                      {running'[a], running'[b]} \subseteq {"built", "up"}
               PROVE  slot'[a] # slot'[b]
    BY DEF SlotsExclusive
  <2>1. a # d /\ b # d
    BY <1>2
  <2> QED
    BY <1>2, <2>1 DEF SlotsInv, SlotsTell, SlotsExclusive
<1> QED
  BY <1>1, <1>3, <1>4, <1>5, <1>6, FineIsInv

\* A daemon whose threads are done starts another, with the cache as it is now.
LEMMA CalledInv ==
  ASSUME Alone = TRUE, SlotsInv, Sound', NEW d \in Daemons, NEW w \in Writers,
         Called(d, w), \A e \in Daemons : e # d => presence'[e] = presence[e]
  PROVE  SlotsInv'
<1>1. UNCHANGED <<now, running, slot, file, tmp, body, target>> /\ Up(d) /\ Quiet(d)
  BY DEF Called
<1>2. /\ step'[d][w] = "persist"
      /\ \A v \in Writers : v # w => step'[d][v] = "idle"
      /\ \A e \in Daemons : e # d => step'[e] = step[e]
  BY <1>1 DEF Called, Quiet, SlotsInv, SlotsTypeOK
<1>3. Fine(d)'
  <2>1. Fine(d)
    BY InvIsFine
  <2> QED
    BY <1>1, <1>2, <2>1 DEF Fine, Quiet, InFlight, Up
<1>4. ASSUME NEW e \in Daemons, e # d PROVE Fine(e)'
  BY <1>1, <1>2, <1>4, OtherFine
<1>5. WholeForReaders' /\ SlotsExclusive'
  BY <1>1 DEF SlotsInv, SlotsTell, WholeForReaders, SlotsExclusive, Whole
<1> QED
  BY <1>3, <1>4, <1>5, FineIsInv

\* A thread that writes goes on: the others of its daemon are idle.
LEMMA WritingIs ==
  ASSUME SlotsInv, NEW d \in Daemons, NEW w \in Writers, NEW from \in Steps \ {"idle"},
         NEW to \in Steps, Writing(d, w, from, to)
  PROVE  /\ UNCHANGED <<now, running, slot, presence, due>>
         /\ Up(d) /\ step[d][w] = from /\ step'[d][w] = to
         /\ \A v \in Writers : v # w => step[d][v] = "idle" /\ step'[d][v] = "idle"
         /\ \A e \in Daemons : e # d => step'[e] = step[e]
<1>1. Up(d) /\ \A v \in Writers : v # w => step[d][v] = "idle"
  BY WriterUp DEF Writing
<1>2. step \in [Daemons -> [Writers -> Steps]]
  BY DEF SlotsInv, SlotsTypeOK
<1> QED
  BY <1>1, <1>2 DEF Writing

\* A thread serialises what the replay cache shows.
LEMMA SerialiseInv ==
  ASSUME SlotsInv, NEW d \in Daemons, NEW w \in Writers, Serialise(d, w)
  PROVE  SlotsInv'
<1> DEFINE to == IF slot[d] = None THEN "idle" ELSE "create"
<1>1. Sound'
  BY SlotsNextTyped DEF SlotsNext, Persist, SlotsInv, Sound
<1>2. /\ UNCHANGED <<now, running, slot, presence, due>>
      /\ Up(d) /\ step'[d][w] = to
      /\ \A v \in Writers : v # w => step'[d][v] = "idle"
      /\ \A e \in Daemons : e # d => step'[e] = step[e]
  <2>1. Writing(d, w, "persist", to) /\ to \in Steps
    BY SlotNames DEF Serialise
  <2> QED
    BY <2>1, WritingIs, SlotNames
<1>3. UNCHANGED <<file, tmp, target>>
  BY DEF Serialise
<1>4. /\ slot[d] # None => body'[d][w] = Snapshot(d)
      /\ \A e \in Daemons : e # d => body'[e] = body[e]
  BY DEF Serialise, SlotsInv, SlotsTypeOK
<1>5. Snapshot(d)' = Snapshot(d)
  BY <1>2 DEF Snapshot
<1>6. Fine(d)'
  <2>1. Fine(d)
    BY InvIsFine
  <2>2. CASE slot[d] = None
    BY <1>2, <1>3, <2>1, <2>2 DEF Fine, Quiet, InFlight, Up
  <2>3. CASE slot[d] # None
    BY <1>2, <1>3, <1>4, <1>5, <2>1, <2>3 DEF Fine, Quiet, InFlight, Up
  <2> QED
    BY <2>2, <2>3
<1>7. ASSUME NEW e \in Daemons, e # d PROVE Fine(e)'
  BY <1>2, <1>3, <1>4, <1>7, OtherFine
<1>8. WholeForReaders' /\ SlotsExclusive'
  BY <1>2, <1>3 DEF SlotsInv, SlotsTell, WholeForReaders, SlotsExclusive, Whole
<1> QED
  BY <1>1, <1>6, <1>7, <1>8, FineIsInv

\* A thread opens its temporary file, which nobody else has open.
LEMMA CreateInv ==
  ASSUME SlotsInv, NEW d \in Daemons, NEW w \in Writers, CreateTmp(d, w)
  PROVE  SlotsInv'
<1>1. Sound'
  BY SlotsNextTyped DEF SlotsNext, Persist, SlotsInv, Sound
<1>2. /\ UNCHANGED <<now, running, slot, presence, due>>
      /\ Up(d) /\ step[d][w] = "create" /\ step'[d][w] = "write"
      /\ \A v \in Writers : v # w => step'[d][v] = "idle"
      /\ \A e \in Daemons : e # d => step'[e] = step[e]
  <2>1. Writing(d, w, "create", "write")
    BY DEF CreateTmp
  <2> QED
    BY <2>1, WritingIs, SlotNames
<1>3. UNCHANGED <<file, body>>
  BY DEF CreateTmp
<1>4. slot[d] \in Slots /\ slot[d] # None
  BY <1>2, WriterUp, SlotNames DEF InFlight
<1>5. /\ tmp'[slot[d]] = Empty
      /\ \A k \in Slots : k # slot[d] => tmp'[k] = tmp[k]
      /\ target'[d][w] = "tmp"
      /\ \A e \in Daemons : e # d => target'[e] = target[e]
  BY <1>4 DEF CreateTmp, SlotsInv, SlotsTypeOK
<1>6. Snapshot(d)' = Snapshot(d)
  BY <1>2 DEF Snapshot
<1>7. Fine(d)'
  <2>1. Fine(d)
    BY InvIsFine
  <2> QED
    BY <1>2, <1>3, <1>5, <1>6, <2>1 DEF Fine, Quiet, InFlight, Up
<1>8. ASSUME NEW e \in Daemons, e # d PROVE Fine(e)'
  <2>1. Up(e) /\ slot[e] # None => slot[e] # slot[d] /\ slot[e] \in Slots
    BY <1>2, <1>4, <1>8, ApartSlots DEF SlotsInv, SlotsTypeOK
  <2> QED
    BY <1>2, <1>3, <1>5, <1>8, <2>1, OtherFine
<1>9. WholeForReaders' /\ SlotsExclusive'
  BY <1>2, <1>3 DEF SlotsInv, SlotsTell, WholeForReaders, SlotsExclusive, Whole
<1> QED
  BY <1>1, <1>7, <1>8, <1>9, FineIsInv

\* Over the empty file it has just created, a thread leaves its body whole.
LEMMA WriteBodyInv ==
  ASSUME SlotsInv, NEW d \in Daemons, NEW w \in Writers, WriteBody(d, w)
  PROVE  SlotsInv'
<1>1. Sound'
  BY SlotsNextTyped DEF SlotsNext, Persist, SlotsInv, Sound
<1>2. /\ UNCHANGED <<now, running, slot, presence, due>>
      /\ Up(d) /\ step[d][w] = "write" /\ step'[d][w] = "rename"
      /\ \A v \in Writers : v # w => step'[d][v] = "idle"
      /\ \A e \in Daemons : e # d => step'[e] = step[e]
  <2>1. Writing(d, w, "write", "rename")
    BY DEF WriteBody
  <2> QED
    BY <2>1, WritingIs, SlotNames
<1>3. slot[d] \in Slots /\ slot[d] # None
  BY <1>2, WriterUp, SlotNames DEF InFlight
<1>4. Fine(d)
  BY InvIsFine
<1>5. target[d][w] = "tmp" /\ tmp[slot[d]] = Empty
  BY <1>2, <1>4 DEF Fine
<1>6. /\ UNCHANGED <<file, body>>
      /\ tmp' = [tmp EXCEPT ![slot[d]] = body[d][w]]
      /\ target' = [target EXCEPT ![d][w] = None]
  <2>1. Written(tmp[slot[d]], body[d][w]) = {body[d][w]}
    BY <1>5 DEF Written
  <2> QED
    BY <1>5, <2>1 DEF WriteBody
<1>7. /\ tmp'[slot[d]] = body[d][w]
      /\ \A k \in Slots : k # slot[d] => tmp'[k] = tmp[k]
      /\ \A e \in Daemons : e # d => target'[e] = target[e]
  BY <1>3, <1>6 DEF SlotsInv, SlotsTypeOK
<1>8. Snapshot(d)' = Snapshot(d)
  BY <1>2 DEF Snapshot
<1>9. file' = file /\ body' = body
  BY <1>6
<1>10. Fine(d)'
  BY <1>2, <1>4, <1>7, <1>8, <1>9 DEF Fine, Quiet, InFlight, Up
<1>11. ASSUME NEW e \in Daemons, e # d PROVE Fine(e)'
  <2>1. Up(e) /\ slot[e] # None => slot[e] # slot[d] /\ slot[e] \in Slots
    BY <1>2, <1>3, <1>11, ApartSlots DEF SlotsInv, SlotsTypeOK
  <2> QED
    BY <1>2, <1>7, <1>9, <1>11, <2>1, OtherFine
<1>12. WholeForReaders' /\ SlotsExclusive'
  BY <1>2, <1>9 DEF SlotsInv, SlotsTell, WholeForReaders, SlotsExclusive, Whole
<1> QED
  BY <1>1, <1>10, <1>11, <1>12, FineIsInv

\* What is renamed into place is what the cache holds now.
LEMMA RenameInv ==
  ASSUME SlotsInv, NEW d \in Daemons, NEW w \in Writers, Rename(d, w)
  PROVE  SlotsInv'
<1>1. Sound'
  BY SlotsNextTyped DEF SlotsNext, Persist, SlotsInv, Sound
<1>2. /\ UNCHANGED <<now, running, slot, presence, due>>
      /\ Up(d) /\ step[d][w] = "rename"
      /\ \A v \in Writers : step'[d][v] = "idle"
      /\ \A e \in Daemons : e # d => step'[e] = step[e]
  <2>1. Writing(d, w, "rename", "idle")
    BY DEF Rename
  <2> QED
    BY <2>1, WritingIs, SlotNames
<1>3. slot[d] \in Slots /\ slot[d] # None
  BY <1>2, WriterUp, SlotNames DEF InFlight
<1>4. Fine(d) /\ InFlight(d, w)
  BY <1>2, InvIsFine DEF InFlight
<1>5. tmp[slot[d]] = Snapshot(d)
  BY <1>2, <1>4 DEF Fine
<1>6. /\ Snapshot(d).state = "whole" /\ Snapshot(d).by = d
      /\ Snapshot(d).at = now /\ Snapshot(d).shows = presence[d]
      /\ Snapshot(d) # Missing
  BY SnapshotType, ContentTypes DEF SlotsInv
<1>7. /\ file' = [file EXCEPT ![slot[d]] = Snapshot(d)]
      /\ tmp' = [tmp EXCEPT ![slot[d]] = Missing]
      /\ \A e \in Daemons, v \in Writers :
           slot[e] # slot[d] /\ target[e][v] = "tmp" => target'[e][v] = "tmp"
  BY <1>5, <1>6 DEF Rename
<1>8. /\ file'[slot[d]] = Snapshot(d)
      /\ \A k \in Slots : k # slot[d] => file'[k] = file[k] /\ tmp'[k] = tmp[k]
      /\ \A e \in Daemons : e # d => body'[e] = body[e]
  BY <1>3, <1>7 DEF Rename, SlotsInv, SlotsTypeOK
<1>9. Fine(d)'
  <2>1. now \in Nat
    BY SlotsAssumption DEF SlotsInv, SlotsTypeOK
  <2>2. now - now <= STATE_STALE /\ now <= now
    BY <2>1, SlotsAssumption
  <2>3. /\ file'[slot'[d]].state = "whole" /\ file'[slot'[d]].by = d
        /\ file'[slot'[d]].at = now /\ file'[slot'[d]].shows = presence'[d]
        /\ now' = now
    BY <1>2, <1>6, <1>8
  <2> QED
    BY <1>2, <2>2, <2>3 DEF Fine, Quiet, InFlight, Up, Whole
<1>10. ASSUME NEW e \in Daemons, e # d PROVE Fine(e)'
  <2>1. Up(e) /\ slot[e] # None => slot[e] # slot[d] /\ slot[e] \in Slots
    BY <1>2, <1>3, <1>10, ApartSlots DEF SlotsInv, SlotsTypeOK
  <2>2. \A k \in Slots : file'[k] = file[k] \/ file'[k].by \in {None, d}
    BY <1>6, <1>8
  <2>3. \A v \in Writers : Up(e) /\ slot[e] # None /\ target[e][v] = "tmp"
          => target'[e][v] = "tmp"
    BY <1>7, <2>1
  <2> QED
    BY <1>2, <1>8, <1>10, <2>1, <2>2, <2>3, OtherFine
<1>11. WholeForReaders'
  BY <1>6, <1>8 DEF SlotsInv, SlotsTell, WholeForReaders, Whole
<1>12. SlotsExclusive'
  BY <1>2 DEF SlotsInv, SlotsTell, SlotsExclusive
<1> QED
  BY <1>1, <1>9, <1>10, <1>11, <1>12, FineIsInv

\* SlotsInv holds at first.
LEMMA SlotsInitInv == SlotsInit => SlotsInv
<1> SUFFICES ASSUME SlotsInit PROVE SlotsInv
  OBVIOUS
<1>1. Sound
  BY SlotsInitTyped DEF Sound
<1>2. /\ \A d \in Daemons : running[d] = "new" /\ slot[d] = None
      /\ \A d \in Daemons, w \in Writers : step[d][w] = "idle"
      /\ \A k \in Slots : file[k] = Missing /\ file[k].by = None
  BY DEF SlotsInit, Missing
<1>3. \A d \in Daemons : Fine(d)
  BY <1>2, SlotNames DEF Fine, Up, Quiet, InFlight
<1>4. WholeForReaders /\ SlotsExclusive
  BY <1>2 DEF WholeForReaders, SlotsExclusive
<1> QED
  BY <1>1, <1>3, <1>4, InvIsFine

\* SlotsInv is inductive.
LEMMA SlotsNextInv ==
  ASSUME Apart = TRUE, Busy = TRUE, Alone = TRUE
  PROVE  SlotsInv /\ [SlotsNext]_slotVars => SlotsInv'
<1> SUFFICES ASSUME SlotsInv, [SlotsNext]_slotVars PROVE SlotsInv'
  OBVIOUS
<1>1. Sound'
  BY SlotsNextTyped DEF SlotsInv, Sound
<1>2. CASE Tick
  BY <1>2, TickInv
<1>3. ASSUME NEW d \in Daemons, Build(d) \/ StartUp(d) \/ ShutDown(d) \/ End(d)
      PROVE  SlotsInv'
  BY <1>3, BuildInv, StartUpInv, ShutDownInv, EndInv
<1>4. ASSUME NEW d \in Daemons, RefreshTick(d) PROVE SlotsInv'
  BY <1>1, <1>4, CalledInv, SlotsAssumption DEF RefreshTick
<1>5. ASSUME NEW d \in Daemons, NEW w \in Writers, Broadcasts(d, w) PROVE SlotsInv'
  <2>1. \A e \in Daemons : e # d => presence'[e] = presence[e]
    BY <1>5 DEF Broadcasts, SlotsInv, SlotsTypeOK
  <2> QED
    BY <1>1, <1>5, <2>1, CalledInv DEF Broadcasts
<1>6. ASSUME NEW d \in Daemons, NEW w \in Writers, Persist(d, w) PROVE SlotsInv'
  BY <1>6, SerialiseInv, CreateInv, WriteBodyInv, RenameInv DEF Persist
<1>7. CASE UNCHANGED slotVars
  <2>1. \A d \in Daemons : Fine(d)
    BY InvIsFine
  <2>2. \A d \in Daemons : Fine(d)'
    BY <1>7, <2>1 DEF Fine, slotVars, Up, Quiet, InFlight, Snapshot, Whole
  <2>3. WholeForReaders' /\ SlotsExclusive'
    BY <1>7 DEF slotVars, SlotsInv, SlotsTell, WholeForReaders, SlotsExclusive, Whole
  <2> QED
    BY <1>1, <2>2, <2>3, FineIsInv
<1> QED
  BY <1>2, <1>3, <1>4, <1>5, <1>6, <1>7 DEF SlotsNext

\* A reader of the slots finds whole snapshots, at each slot of one daemon, and
\* of every daemon at rest what its replay cache holds, however many daemons and
\* slots there are and wherever a daemon is killed (select_slot, persist_state,
\* write_snapshot).  The rhythm asked of the daemons is what the code does not
\* enforce: without it TLC finds the torn and the shared slot.
THEOREM SlotsHold ==
  ASSUME Apart = TRUE, Busy = TRUE, Alone = TRUE
  PROVE  SlotsSpec => []SlotsTell
<1>1. SlotsInv => SlotsTell
  BY DEF SlotsInv
<1>2. SlotsInit => SlotsInv
  BY SlotsInitInv
<1>3. SlotsInv /\ [SlotsNext]_slotVars => SlotsInv'
  BY SlotsNextInv
<1> QED
  BY <1>1, <1>2, <1>3, PTL DEF SlotsSpec

-----------------------------------------------------------------------------
(* The clients' variables.                                                  *)

\* The labels of the two kinds of threads.
LEMMA ClientNames ==
  /\ Ports = {"json", "msgpack"}
  /\ Links = {"new", "open", "closed"}
  /\ PollSteps = {"idle", "replay", "insert", "patch", "after", "ack"}
  /\ SendSteps = {"idle", "check", "json", "msgpack", "next"}
  /\ "refresh" \in Senders /\ Casters \subseteq Senders
  /\ Ports \cap Senders = {}
  /\ None \notin Clients
  /\ PortOf \in [Clients -> Ports] /\ Protocol \in [Clients -> Ports]
  /\ Startup \in User /\ Controllers \subseteq Clients
BY ClientsAssumption
   DEF Ports, Links, PollSteps, SendSteps, Senders, Protocol

\* What a client can queue is an event.
LEMMA EventIs ==
  /\ \A c \in Clients :
       /\ [kind |-> "connect", from |-> c] \in Events
       /\ [kind |-> "disconnect", from |-> c] \in Events
  /\ \A c \in Controllers, patch \in Patches \cup {None} :
       [kind |-> "control", from |-> c, patch |-> patch] \in Events
  /\ \A event \in Events :
       /\ event.from \in Clients
       /\ event.kind = "control"
            => event.from \in Controllers /\ event.patch \in Patches \cup {None}
       /\ event.kind = "disconnect"
            => event = [kind |-> "disconnect", from |-> event.from]
BY ClientsAssumption DEF Events

\* An event is queued at the client's own port, behind the others.
LEMMA QueueIs ==
  ASSUME hub \in [Ports -> Seq(Events)], NEW c \in Clients, NEW event \in Events,
         Queue(c, event)
  PROVE  /\ hub' \in [Ports -> Seq(Events)]
         /\ \A p \in Ports : p # PortOf[c] => hub'[p] = hub[p]
         /\ \A p \in Ports : \A i \in DOMAIN hub[p] : i \in DOMAIN hub'[p] /\ hub'[p][i] = hub[p][i]
         /\ \E last \in DOMAIN hub'[PortOf[c]] :
              /\ hub'[PortOf[c]][last] = event
              /\ \A i \in DOMAIN hub'[PortOf[c]] : i = last \/ i \in DOMAIN hub[PortOf[c]]
              /\ \A i \in DOMAIN hub[PortOf[c]] : i < last
<1> DEFINE q == PortOf[c]
<1>1. q \in Ports
  BY ClientNames
<1>2. hub' = [hub EXCEPT ![q] = Append(hub[q], event)]
  BY DEF Queue
<1> HIDE DEF q
<1>3. hub[q] \in Seq(Events)
  BY <1>1
<1>4. /\ Append(hub[q], event) \in Seq(Events)
      /\ DOMAIN hub[q] = 1 .. Len(hub[q]) /\ Len(hub[q]) \in Nat
      /\ DOMAIN Append(hub[q], event) = 1 .. Len(hub[q]) + 1
      /\ Append(hub[q], event)[Len(hub[q]) + 1] = event
      /\ \A i \in 1 .. Len(hub[q]) : Append(hub[q], event)[i] = hub[q][i]
  BY <1>3
<1>5. /\ hub'[q] = Append(hub[q], event)
      /\ \A p \in Ports : p # q => hub'[p] = hub[p]
      /\ hub' \in [Ports -> Seq(Events)]
  BY <1>1, <1>2, <1>4
<1>6. \A p \in Ports : \A i \in DOMAIN hub[p] :
        i \in DOMAIN hub'[p] /\ hub'[p][i] = hub[p][i]
  <2> SUFFICES ASSUME NEW p \in Ports, NEW i \in DOMAIN hub[p]
               PROVE  i \in DOMAIN hub'[p] /\ hub'[p][i] = hub[p][i]
    OBVIOUS
  <2>1. CASE p = q
    BY <1>4, <1>5, <2>1
  <2>2. CASE p # q
    BY <1>5, <2>2
  <2> QED
    BY <2>1, <2>2
<1>7. \E last \in DOMAIN hub'[q] :
        /\ hub'[q][last] = event
        /\ \A i \in DOMAIN hub'[q] : i = last \/ i \in DOMAIN hub[q]
        /\ \A i \in DOMAIN hub[q] : i < last
  <2>1. Len(hub[q]) + 1 \in DOMAIN hub'[q]
    BY <1>4, <1>5
  <2>2. hub'[q][Len(hub[q]) + 1] = event
    BY <1>4, <1>5
  <2>3. \A i \in DOMAIN hub'[q] : i = Len(hub[q]) + 1 \/ i \in DOMAIN hub[q]
    BY <1>4, <1>5
  <2>4. \A i \in DOMAIN hub[q] : i < Len(hub[q]) + 1
    BY <1>4
  <2> QED
    BY <2>1, <2>2, <2>3, <2>4
<1> QED
  BY <1>5, <1>6, <1>7 DEF q

\* A poll loop at rest takes the first event of its port.
LEMMA PollIs ==
  ASSUME hub \in [Ports -> Seq(Events)], NEW p \in Ports, NEW kind, Poll(p, kind)
  PROVE  /\ At(p, "idle") /\ UNCHANGED <<link, replay, payload, left, casts, controls>>
         /\ Head(hub[p]) \in Events /\ Head(hub[p]).kind = kind
         /\ 1 \in DOMAIN hub[p] /\ hub[p][1] = Head(hub[p])
         /\ hub' \in [Ports -> Seq(Events)]
         /\ \A q \in Ports : q # p => hub'[q] = hub[q]
         /\ \A i \in DOMAIN hub'[p] : i \in Nat /\ i + 1 \in DOMAIN hub[p]
                                      /\ hub'[p][i] = hub[p][i + 1]
         /\ \A j \in DOMAIN hub[p] :
              j > 1 => j - 1 \in DOMAIN hub'[p] /\ hub'[p][j - 1] = hub[p][j]
<1>1. hub[p] \in Seq(Events) /\ hub[p] # <<>>
  BY DEF Poll
<1>2. /\ Len(hub[p]) \in Nat \ {0} /\ DOMAIN hub[p] = 1 .. Len(hub[p])
      /\ Head(hub[p]) = hub[p][1] /\ Tail(hub[p]) \in Seq(Events)
      /\ DOMAIN Tail(hub[p]) = 1 .. Len(hub[p]) - 1
      /\ \A i \in 1 .. Len(hub[p]) - 1 : Tail(hub[p])[i] = hub[p][i + 1]
  BY <1>1
<1>3. hub[p][1] \in Events
  BY <1>1, <1>2
<1>4. hub' = [hub EXCEPT ![p] = Tail(hub[p])]
  BY DEF Poll
<1>5. /\ hub'[p] = Tail(hub[p]) /\ hub' \in [Ports -> Seq(Events)]
      /\ \A q \in Ports : q # p => hub'[q] = hub[q]
  BY <1>2, <1>4
<1>6. \A i \in DOMAIN hub'[p] : i \in Nat /\ i + 1 \in DOMAIN hub[p]
                               /\ hub'[p][i] = hub[p][i + 1]
  BY <1>2, <1>5
<1>7. \A j \in DOMAIN hub[p] :
        j > 1 => j - 1 \in DOMAIN hub'[p] /\ hub'[p][j - 1] = hub[p][j]
  BY <1>2, <1>5
<1>8. 1 \in DOMAIN hub[p]
  BY <1>2
<1> QED
  BY <1>2, <1>3, <1>5, <1>6, <1>7, <1>8 DEF Poll

\* A thread that moves leaves the others.
LEMMA MoveIs ==
  ASSUME ClientsTypeOK, NEW t \in Ports \cup Senders, NEW label, Move(t, label),
         t \in Ports => label \in PollSteps, t \in Senders => label \in SendSteps
  PROVE  /\ place' \in [Ports \cup Senders -> PollSteps \cup SendSteps]
         /\ place'[t] = label
         /\ \A u \in Ports \cup Senders : u # t => place'[u] = place[u]
         /\ \A p \in Ports : place'[p] \in PollSteps
         /\ \A u \in Senders : place'[u] \in SendSteps
<1>1. place' = [place EXCEPT ![t] = label]
  BY DEF Move
<1>2. /\ place \in [Ports \cup Senders -> PollSteps \cup SendSteps]
      /\ \A p \in Ports : place[p] \in PollSteps
      /\ \A u \in Senders : place[u] \in SendSteps
  BY DEF ClientsTypeOK
<1>3. label \in PollSteps \cup SendSteps
  OBVIOUS
<1> QED
  BY <1>1, <1>2, <1>3

\* The variables that are not about one port.
Plain ==
  /\ link \in [Clients -> Links]
  /\ user \in User
  /\ replay \in [ServedSockets -> ServedCards \cup {None}]
  /\ left \subseteq Payloads
  /\ page \in [Clients -> [ServedSockets -> ServedCards \cup {None}]]
  /\ told \in [Clients -> User \cup {None}]
  /\ heard \in [Clients -> SUBSET Ports]

Placed ==
  /\ place \in [Ports \cup Senders -> PollSteps \cup SendSteps]
  /\ \A p \in Ports : place[p] \in PollSteps
  /\ \A t \in Senders : place[t] \in SendSteps

Sending ==
  /\ payload \in [Senders -> Payloads \cup {None}]
  /\ \A t \in Senders :
       place[t] \in {"check", "json", "msgpack"} => payload[t] \in Payloads

Tables ==
  /\ clients \in [Ports -> SUBSET Clients]
  /\ joining \in [Ports -> Clients \cup {None}]
  /\ \A p \in Ports :
       /\ place[p] \in {"replay", "insert"} <=> joining[p] # None
       /\ \A c \in clients[p] : PortOf[c] = p
       /\ joining[p] # None => PortOf[joining[p]] = p

Queues ==
  /\ hub \in [Ports -> Seq(Events)]
  /\ \A p \in Ports : \A i \in DOMAIN hub[p] : PortOf[hub[p][i].from] = p

Controlling ==
  /\ control \in [Ports -> Looks \cup Acks \cup {None}]
  /\ \A p \in Ports : Knows(p)

\* The type invariant is the conjunction of its parts.
LEMMA TypeParts ==
  ClientsTypeOK <=> Plain /\ Placed /\ Sending /\ Tables /\ Queues /\ Controlling
BY DEF ClientsTypeOK, Plain, Placed, Sending, Tables, Queues, Controlling, Tabled

\* The same after a step.
LEMMA TypePartsNext ==
  ASSUME Plain', Placed', Sending', Tables', Queues', Controlling'
  PROVE  ClientsTypeOK'
BY DEF ClientsTypeOK, Plain, Placed, Sending, Tables, Queues, Controlling, Tabled

\* Types hold at first.
LEMMA ClientsInitTyped == ClientsInit => ClientsTypeOK
<1> SUFFICES ASSUME ClientsInit PROVE ClientsTypeOK
  OBVIOUS
<1> USE DEF ClientsInit
<1>1. Plain
  BY ClientNames DEF Plain
<1>2. Placed
  BY ClientNames DEF Placed
<1>3. Sending
  BY ClientNames DEF Sending
<1>4. Tables
  BY ClientNames DEF Tables
<1>5. Queues
  BY DEF Queues
<1>6. Controlling
  BY ClientNames DEF Controlling, Knows
<1> QED
  BY <1>1, <1>2, <1>3, <1>4, <1>5, <1>6, TypeParts

\* What a poll loop says reaches clients, and leaves the types.
LEMMA TellType ==
  ASSUME Plain, NEW listeners, NEW identity \in User, Tell(listeners, identity)
  PROVE  told' \in [Clients -> User \cup {None}]
BY DEF Plain, Tell

\* What clients have heard keeps its type.
LEMMA HearType ==
  ASSUME Plain, NEW listeners, NEW encoding \in [Clients -> Ports],
         Hear(listeners, encoding)
  PROVE  heard' \in [Clients -> SUBSET Ports]
BY DEF Plain, Hear

\* A patched identity is an identity.
LEMMA PatchedType ==
  ASSUME NEW identity \in User, NEW patch \in Patches \cup {None}
  PROVE  Patched(identity, patch) \in User
BY ClientNames DEF Patched, Patches, User

\* A client's own step.
LEMMA ConnectTyped ==
  ASSUME ClientsTypeOK, NEW c \in Clients, Connect(c) \/ Disconnect(c) \/ Control(c)
  PROVE  ClientsTypeOK'
<1>1. Plain /\ Placed /\ Sending /\ Tables /\ Queues /\ Controlling
  BY TypeParts
<1>2. UNCHANGED <<clients, user, replay, place, joining, control, payload, left,
                  page, told, heard>>
  BY DEF Connect, Disconnect, Control
<1>3. link' \in [Clients -> Links]
  BY <1>1, ClientNames DEF Plain, Connect, Disconnect, Control
<1>4. PICK event \in Events : event.from = c /\ Queue(c, event)
  <2>1. CASE Connect(c)
    BY <2>1, EventIs DEF Connect
  <2>2. CASE Disconnect(c)
    BY <2>2, EventIs DEF Disconnect
  <2>3. CASE Control(c)
    BY <2>3, EventIs DEF Control
  <2> QED
    BY <2>1, <2>2, <2>3
<1>5. Queues'
  <2>1. hub' \in [Ports -> Seq(Events)]
    BY <1>1, <1>4, QueueIs DEF Queues
  <2>2. ASSUME NEW p \in Ports, NEW i \in DOMAIN hub'[p]
        PROVE  PortOf[hub'[p][i].from] = p
    <3>1. CASE p # PortOf[c]
      BY <1>1, <1>4, <3>1, QueueIs DEF Queues
    <3>2. CASE p = PortOf[c]
      <4>1. hub'[p][i] = event \/ (i \in DOMAIN hub[p] /\ hub'[p][i] = hub[p][i])
        BY <1>1, <1>4, <3>2, QueueIs DEF Queues
      <4> QED
        BY <1>1, <1>4, <3>2, <4>1 DEF Queues
    <3> QED
      BY <3>1, <3>2
  <2> QED
    BY <2>1, <2>2 DEF Queues
<1>6. Plain' /\ Placed' /\ Sending' /\ Tables'
  BY <1>1, <1>2, <1>3 DEF Plain, Placed, Sending, Tables
<1>7. Controlling'
  BY <1>1, <1>2 DEF Controlling, Knows
<1> QED
  BY <1>5, <1>6, <1>7, TypePartsNext

\* Taking an event keeps the queues' types; the event is of a client of that
\* port.
LEMMA PollTyped ==
  ASSUME ClientsTypeOK, NEW p \in Ports, NEW kind, Poll(p, kind)
  PROVE  /\ Queues' /\ Head(hub[p]).from \in Clients /\ PortOf[Head(hub[p]).from] = p
         /\ place[p] = "idle" /\ joining[p] = None /\ control[p] = None
<1>1. Placed /\ Tables /\ Queues /\ Controlling
  BY TypeParts
<1>2. /\ place[p] = "idle" /\ 1 \in DOMAIN hub[p] /\ hub[p][1] = Head(hub[p])
      /\ Head(hub[p]) \in Events
      /\ hub' \in [Ports -> Seq(Events)]
      /\ \A q \in Ports : q # p => hub'[q] = hub[q]
      /\ \A i \in DOMAIN hub'[p] : i + 1 \in DOMAIN hub[p] /\ hub'[p][i] = hub[p][i + 1]
  BY <1>1, PollIs DEF Queues, At
<1>3. Head(hub[p]).from \in Clients
  BY <1>2, EventIs
<1>4. PortOf[Head(hub[p]).from] = p
  BY <1>1, <1>2 DEF Queues
<1>5. ASSUME NEW q \in Ports, NEW i \in DOMAIN hub'[q] PROVE PortOf[hub'[q][i].from] = q
  <2>1. CASE q = p
    BY <1>1, <1>2, <2>1 DEF Queues
  <2>2. CASE q # p
    BY <1>1, <1>2, <2>2 DEF Queues
  <2> QED
    BY <2>1, <2>2
<1>6. Queues'
  BY <1>2, <1>5 DEF Queues
<1>7. joining[p] = None
  BY <1>1, <1>2 DEF Tables
<1>8. control[p] = None
  BY <1>1, <1>2 DEF Controlling, Knows
<1> QED
  BY <1>2, <1>3, <1>4, <1>6, <1>7, <1>8

\* What another port's poll loop knows stays known.
LEMMA KnowsKept ==
  ASSUME NEW p \in Ports, Knows(p), place'[p] = place[p], control'[p] = control[p]
  PROVE  Knows(p)'
BY DEF Knows

\* The steps that greet a client keep the types.
LEMMA GreetTyped ==
  ASSUME ClientsTypeOK, NEW p \in Ports, PollConnect(p) \/ Replay(p) \/ Insert(p)
  PROVE  ClientsTypeOK'
<1>1. Plain /\ Placed /\ Sending /\ Tables /\ Queues /\ Controlling
  BY TypeParts
<1>2. p \in Ports \cup Senders /\ p \notin Senders
  BY ClientNames
<1>3. CASE PollConnect(p)
  <2> DEFINE c == Head(hub[p]).from
  <2>1. Poll(p, "connect")
    BY <1>3 DEF PollConnect
  <2>2. /\ Queues' /\ c \in Clients /\ PortOf[c] = p /\ control[p] = None
    BY <2>1, PollTyped
  <2>3. /\ UNCHANGED <<link, replay, payload, left, clients, user, control, page>>
        /\ joining' = [joining EXCEPT ![p] = c]
        /\ Tell({c} \cap Open, user) /\ Hear({c} \cap Open, Protocol)
        /\ Move(p, "replay")
    BY <1>3 DEF PollConnect, Poll
  <2> HIDE DEF c
  <2>4. /\ Placed' /\ place'[p] = "replay"
        /\ \A u \in Ports \cup Senders : u # p => place'[u] = place[u]
    BY <1>2, <2>3, MoveIs, ClientNames DEF Placed
  <2>5. Plain'
    BY <1>1, <2>3, TellType, HearType, ClientNames DEF Plain
  <2>6. Sending'
    BY <1>1, <1>2, <2>3, <2>4 DEF Sending
  <2>7. Tables'
    BY <1>1, <2>2, <2>3, <2>4, ClientNames DEF Tables
  <2>8. Controlling'
    <3>1. Knows(p)'
      BY <2>2, <2>3, <2>4 DEF Knows
    <3> QED
      BY <1>1, <2>3, <2>4, <3>1, KnowsKept DEF Controlling
  <2> QED
    BY <2>2, <2>4, <2>5, <2>6, <2>7, <2>8, TypePartsNext
<1>4. CASE Replay(p)
  <2>1. /\ UNCHANGED <<link, hub, clients, user, replay, joining, control, payload, left,
                       told, heard>>
        /\ place[p] = "replay" /\ Move(p, "insert")
    BY <1>4 DEF Replay, At
  <2>2. page' \in [Clients -> [ServedSockets -> ServedCards \cup {None}]]
    <3>1. page' = [page EXCEPT ![joining[p]] =
                    IF joining[p] \in Open
                      THEN [s \in ServedSockets |->
                              IF replay[s] = None THEN page[joining[p]][s] ELSE replay[s]]
                      ELSE page[joining[p]]]
      BY <1>4 DEF Replay
    <3>2. joining[p] \in Clients
      BY <1>1, <2>1 DEF Tables
    <3>3. [s \in ServedSockets |->
             IF replay[s] = None THEN page[joining[p]][s] ELSE replay[s]]
            \in [ServedSockets -> ServedCards \cup {None}]
      BY <1>1, <3>2 DEF Plain
    <3> QED
      BY <1>1, <3>1, <3>2, <3>3 DEF Plain
  <2>3. /\ Placed' /\ place'[p] = "insert"
        /\ \A u \in Ports \cup Senders : u # p => place'[u] = place[u]
    BY <1>2, <2>1, MoveIs, ClientNames DEF Placed
  <2>4. Plain'
    BY <1>1, <2>1, <2>2 DEF Plain
  <2>5. Sending'
    BY <1>1, <1>2, <2>1, <2>3 DEF Sending
  <2>6. Tables'
    BY <1>1, <2>1, <2>3, ClientNames DEF Tables
  <2>7. Queues'
    BY <1>1, <2>1 DEF Queues
  <2>8. Controlling'
    <3>1. Knows(p)'
      BY <1>1, <2>1, <2>3 DEF Controlling, Knows
    <3> QED
      BY <1>1, <2>1, <2>3, <3>1, KnowsKept DEF Controlling
  <2> QED
    BY <2>3, <2>4, <2>5, <2>6, <2>7, <2>8, TypePartsNext
<1>5. CASE Insert(p)
  <2>1. /\ UNCHANGED <<link, hub, user, replay, control, payload, left, page, told, heard>>
        /\ place[p] = "insert" /\ Move(p, "idle")
        /\ clients' = [clients EXCEPT ![p] = clients[p] \cup {joining[p]}]
        /\ joining' = [joining EXCEPT ![p] = None]
    BY <1>5 DEF Insert, At
  <2>2. joining[p] \in Clients /\ PortOf[joining[p]] = p
    BY <1>1, <2>1 DEF Tables
  <2>3. /\ Placed' /\ place'[p] = "idle"
        /\ \A u \in Ports \cup Senders : u # p => place'[u] = place[u]
    BY <1>2, <2>1, MoveIs, ClientNames DEF Placed
  <2>4. Plain'
    BY <1>1, <2>1 DEF Plain
  <2>5. Sending'
    BY <1>1, <1>2, <2>1, <2>3 DEF Sending
  <2>6. Tables'
    BY <1>1, <2>1, <2>2, <2>3 DEF Tables
  <2>7. Queues'
    BY <1>1, <2>1 DEF Queues
  <2>8. Controlling'
    <3>1. Knows(p)'
      BY <1>1, <2>1, <2>3 DEF Controlling, Knows
    <3> QED
      BY <1>1, <2>1, <2>3, <3>1, KnowsKept DEF Controlling
  <2> QED
    BY <2>3, <2>4, <2>5, <2>6, <2>7, <2>8, TypePartsNext
<1> QED
  BY <1>3, <1>4, <1>5

\* Taking a disconnect keeps the types.
LEMMA DisconnectTyped ==
  ASSUME ClientsTypeOK, NEW p \in Ports, PollDisconnect(p)
  PROVE  ClientsTypeOK'
<1>1. Plain /\ Placed /\ Sending /\ Tables /\ Queues /\ Controlling
  BY TypeParts
<1>2. /\ UNCHANGED <<link, user, replay, place, joining, control, payload, left, page,
                     told, heard>>
      /\ clients' = [clients EXCEPT ![p] = clients[p] \ {Head(hub[p]).from}]
      /\ Poll(p, "disconnect")
  BY DEF PollDisconnect, Poll, Remaining
<1>3. Queues'
  BY <1>2, PollTyped
<1>4. Tables'
  BY <1>1, <1>2 DEF Tables
<1>5. Plain' /\ Placed' /\ Sending'
  BY <1>1, <1>2 DEF Plain, Placed, Sending
<1>6. Controlling'
  BY <1>1, <1>2 DEF Controlling, Knows
<1> QED
  BY <1>3, <1>4, <1>5, <1>6, TypePartsNext

\* The poll loop's looks at the identity: what control[p] becomes.
LEMMA ControlTyped ==
  ASSUME ClientsTypeOK, NEW p \in Ports,
         ControlBefore(p) \/ ControlPatch(p) \/ ControlAfter(p) \/ ControlAck(p)
  PROVE  ClientsTypeOK'
<1>1. Plain /\ Placed /\ Sending /\ Tables /\ Queues /\ Controlling
  BY TypeParts
<1>2. p \in Ports \cup Senders /\ p \notin Senders
  BY ClientNames
<1>3. ASSUME NEW label \in {"idle", "patch", "after", "ack"}, Move(p, label),
             place[p] \notin {"replay", "insert"},
             UNCHANGED <<payload, joining>>, Plain', Queues',
             clients' \in [Ports -> SUBSET Clients],
             \A q \in Ports : clients'[q] \subseteq clients[q],
             control' \in [Ports -> Looks \cup Acks \cup {None}],
             \A q \in Ports : q # p => control'[q] = control[q],
             label \in {"patch", "after"} => control'[p] \in Looks,
             label = "ack" => control'[p] \in Acks,
             label = "idle" => control'[p] = None
      PROVE  ClientsTypeOK'
  <2>1. /\ Placed' /\ place'[p] = label
        /\ \A u \in Ports \cup Senders : u # p => place'[u] = place[u]
    BY <1>2, <1>3, MoveIs, ClientNames DEF Placed
  <2>2. Sending'
    BY <1>1, <1>2, <1>3, <2>1 DEF Sending
  <2>3. Tables'
    BY <1>1, <1>3, <2>1 DEF Tables
  <2>4. Controlling'
    <3>1. Knows(p)'
      BY <1>3, <2>1 DEF Knows
    <3> QED
      BY <1>1, <1>3, <2>1, <3>1, KnowsKept DEF Controlling
  <2> QED
    BY <1>3, <2>1, <2>2, <2>3, <2>4, TypePartsNext
<1>4. CASE ControlBefore(p)
  <2> DEFINE look == [from |-> Head(hub[p]).from, patch |-> Head(hub[p]).patch, before |-> user]
  <2>1. /\ UNCHANGED <<link, replay, payload, left, clients, user, joining, page, told, heard>>
        /\ control' = [control EXCEPT ![p] = look] /\ Move(p, "patch")
        /\ Poll(p, "control")
    BY <1>4 DEF ControlBefore, Poll
  <2>2. Queues' /\ place[p] = "idle"
    BY <2>1, PollTyped
  <2>3. look \in Looks
    <3>1. Head(hub[p]) \in Events /\ Head(hub[p]).kind = "control"
      BY <1>1, <2>1, PollIs DEF Queues
    <3>2. Head(hub[p]).from \in Clients /\ Head(hub[p]).patch \in Patches \cup {None}
      BY <3>1, EventIs
    <3> QED
      BY <1>1, <3>2 DEF Looks, Plain
  <2> HIDE DEF look
  <2>4. Plain'
    BY <1>1, <2>1 DEF Plain
  <2>5. /\ control' \in [Ports -> Looks \cup Acks \cup {None}]
        /\ \A q \in Ports : q # p => control'[q] = control[q]
        /\ control'[p] \in Looks
    BY <1>1, <2>1, <2>3 DEF Controlling
  <2>6. /\ clients' \in [Ports -> SUBSET Clients]
        /\ \A q \in Ports : clients'[q] \subseteq clients[q]
    BY <1>1, <2>1 DEF Tables
  <2> QED
    BY <1>3, <2>1, <2>2, <2>4, <2>5, <2>6
<1>5. CASE ControlPatch(p)
  <2>1. /\ UNCHANGED <<link, hub, clients, replay, joining, control, payload, left, page,
                       told, heard>>
        /\ place[p] = "patch" /\ user' = Patched(user, control[p].patch) /\ Move(p, "after")
    BY <1>5 DEF ControlPatch, At
  <2>2. control[p] \in Looks
    BY <1>1, <2>1 DEF Controlling, Knows
  <2>3. Plain'
    BY <1>1, <2>1, <2>2, PatchedType DEF Plain, Looks
  <2>4. Queues'
    BY <1>1, <2>1 DEF Queues
  <2>5. /\ control' \in [Ports -> Looks \cup Acks \cup {None}]
        /\ \A q \in Ports : control'[q] = control[q]
        /\ control'[p] \in Looks
        /\ clients' \in [Ports -> SUBSET Clients]
        /\ \A q \in Ports : clients'[q] \subseteq clients[q]
    BY <1>1, <2>1, <2>2 DEF Controlling, Tables
  <2> QED
    BY <1>3, <2>1, <2>3, <2>4, <2>5
<1>6. CASE ControlAfter(p)
  <2> DEFINE ack == [from |-> control[p].from, after |-> user, news |-> control[p].before # user]
  <2>1. /\ UNCHANGED <<link, hub, clients, user, replay, joining, payload, left, page,
                       told, heard>>
        /\ place[p] = "after" /\ control' = [control EXCEPT ![p] = ack] /\ Move(p, "ack")
    BY <1>6 DEF ControlAfter, At
  <2>2. control[p] \in Looks
    BY <1>1, <2>1 DEF Controlling, Knows
  <2>3. ack \in Acks
    BY <1>1, <2>2 DEF Acks, Looks, Plain
  <2> HIDE DEF ack
  <2>4. Plain'
    BY <1>1, <2>1 DEF Plain
  <2>5. Queues'
    BY <1>1, <2>1 DEF Queues
  <2>6. /\ control' \in [Ports -> Looks \cup Acks \cup {None}]
        /\ \A q \in Ports : q # p => control'[q] = control[q]
        /\ control'[p] \in Acks
    BY <1>1, <2>1, <2>3 DEF Controlling
  <2>7. /\ clients' \in [Ports -> SUBSET Clients]
        /\ \A q \in Ports : clients'[q] \subseteq clients[q]
    BY <1>1, <2>1 DEF Tables
  <2> QED
    BY <1>3, <2>1, <2>4, <2>5, <2>6, <2>7
<1>7. CASE ControlAck(p)
  <2>1. /\ UNCHANGED <<link, hub, user, replay, joining, payload, left, page>>
        /\ place[p] = "ack" /\ Move(p, "idle")
        /\ Tell(Answered(p) \cap Open, control[p].after)
        /\ Hear(Answered(p) \cap Open, Always("json"))
        /\ clients' = [clients EXCEPT ![p] = IF control[p].news THEN clients[p] \cap Open
                                            ELSE clients[p]]
        /\ control' = [control EXCEPT ![p] = None]
    BY <1>7 DEF ControlAck, At
  <2>2. control[p] \in Acks
    BY <1>1, <2>1 DEF Controlling, Knows
  <2>3. control[p].after \in User /\ Always("json") \in [Clients -> Ports]
    BY <2>2, ClientNames DEF Acks, Always
  <2>4. /\ told' \in [Clients -> User \cup {None}]
        /\ heard' \in [Clients -> SUBSET Ports]
    BY <1>1, <2>1, <2>3, TellType, HearType
  <2>5. Plain'
    BY <1>1, <2>1, <2>4 DEF Plain
  <2>6. Queues'
    BY <1>1, <2>1 DEF Queues
  <2>7. /\ control' \in [Ports -> Looks \cup Acks \cup {None}]
        /\ \A q \in Ports : q # p => control'[q] = control[q]
        /\ control'[p] = None
    BY <1>1, <2>1 DEF Controlling
  <2>8. /\ clients' \in [Ports -> SUBSET Clients]
        /\ \A q \in Ports : clients'[q] \subseteq clients[q]
    BY <1>1, <2>1 DEF Tables
  <2> QED
    BY <1>3, <2>1, <2>5, <2>6, <2>7, <2>8
<1> QED
  BY <1>4, <1>5, <1>6, <1>7

\* A sender's own step: the poll loops and their tables are as they were, but
\* for those it has found gone.
LEMMA SenderFrame ==
  ASSUME ClientsTypeOK, NEW t \in Senders, NEW label \in SendSteps, Move(t, label),
         UNCHANGED <<hub, joining, control>>, Plain',
         clients' \in [Ports -> SUBSET Clients],
         \A p \in Ports : clients'[p] \subseteq clients[p],
         payload' \in [Senders -> Payloads \cup {None}],
         \A u \in Senders : u # t => payload'[u] = payload[u],
         label \in {"check", "json", "msgpack"} => payload'[t] \in Payloads
  PROVE  /\ ClientsTypeOK'
         /\ \A p \in Ports : place'[p] = place[p]
<1>1. Sending /\ Tables /\ Queues /\ Controlling
  BY TypeParts
<1>2. t \in Ports \cup Senders /\ t \notin Ports
  BY ClientNames
<1>3. /\ Placed' /\ place'[t] = label
      /\ \A u \in Ports \cup Senders : u # t => place'[u] = place[u]
  BY <1>2, MoveIs DEF Placed
<1>4. Sending'
  BY <1>1, <1>3 DEF Sending
<1>5. Tables'
  BY <1>1, <1>2, <1>3 DEF Tables
<1>6. Queues'
  BY <1>1 DEF Queues
<1>7. Controlling'
  BY <1>1, <1>2, <1>3, KnowsKept DEF Controlling
<1> QED
  BY <1>2, <1>3, <1>4, <1>5, <1>6, <1>7, TypePartsNext

\* What a sender leaves to the poll loops, and of the types.
SenderKeeps ==
  /\ ClientsTypeOK'
  /\ UNCHANGED <<link, hub, user, joining, control, told>>
  /\ \A p \in Ports : place'[p] = place[p] /\ clients'[p] \subseteq clients[p]

\* A thread that has sent goes on to the next payload, or is done.
LEMMA SentIs ==
  ASSUME ClientsTypeOK, NEW t \in Senders, Sent(t)
  PROVE  \E label \in SendSteps :
           /\ Move(t, label) /\ label \notin {"check", "json", "msgpack"}
           /\ payload' \in [Senders -> Payloads \cup {None}]
           /\ \A u \in Senders : u # t => payload'[u] = payload[u]
<1>1. Move(t, IF t = "refresh" /\ left # {} THEN "next" ELSE "idle")
  BY DEF Sent
<1>2. (IF t = "refresh" /\ left # {} THEN "next" ELSE "idle") \in {"next", "idle"}
  OBVIOUS
<1>3. payload' = [payload EXCEPT ![t] = None]
  BY DEF Sent
<1>4. /\ payload' \in [Senders -> Payloads \cup {None}]
      /\ \A u \in Senders : u # t => payload'[u] = payload[u]
  BY <1>3 DEF ClientsTypeOK
<1> QED
  BY <1>1, <1>2, <1>4, ClientNames

\* Updating the replay cache touches no client.
LEMMA UpdateTyped ==
  ASSUME ClientsTypeOK, NEW t \in Casters, UpdateReplay(t)
  PROVE  SenderKeeps
<1>1. Plain /\ Sending /\ Tables
  BY TypeParts
<1>2. t \in Senders /\ "check" \in SendSteps
  BY ClientNames
<1>3. PICK s \in ServedSockets, card \in ServedCards \cup {None} :
        /\ replay' = [replay EXCEPT ![s] = card]
        /\ payload' = [payload EXCEPT ![t] = [socket |-> s, card |-> card]]
  BY DEF UpdateReplay
<1>4. /\ UNCHANGED <<link, hub, clients, user, joining, control, left, page, told, heard>>
      /\ Move(t, "check")
  BY DEF UpdateReplay
<1>5. [socket |-> s, card |-> card] \in Payloads
  BY DEF Payloads
<1>6. Plain'
  BY <1>1, <1>3, <1>4 DEF Plain
<1>7. /\ payload' \in [Senders -> Payloads \cup {None}] /\ payload'[t] \in Payloads
      /\ \A u \in Senders : u # t => payload'[u] = payload[u]
  BY <1>1, <1>2, <1>3, <1>5 DEF Sending
<1>8. /\ clients' \in [Ports -> SUBSET Clients]
      /\ \A p \in Ports : clients'[p] \subseteq clients[p]
  BY <1>1, <1>4 DEF Tables
<1> QED
  BY <1>2, <1>4, <1>6, <1>7, <1>8, SenderFrame DEF SenderKeeps

\* Looking who is connected touches no client.
LEMMA CheckTyped ==
  ASSUME ClientsTypeOK, NEW t \in Senders, CheckClients(t)
  PROVE  SenderKeeps
<1>1. Plain /\ Sending /\ Tables
  BY TypeParts
<1>2. UNCHANGED <<link, hub, clients, user, replay, joining, control, left, page, told,
                  heard>>
  BY DEF CheckClients
<1>3. Plain'
  BY <1>1, <1>2 DEF Plain
<1>4. /\ clients' \in [Ports -> SUBSET Clients]
      /\ \A p \in Ports : clients'[p] \subseteq clients[p]
  BY <1>1, <1>2 DEF Tables
<1>5. CASE Sent(t)
  <2>1. PICK label \in SendSteps :
          /\ Move(t, label) /\ label \notin {"check", "json", "msgpack"}
          /\ payload' \in [Senders -> Payloads \cup {None}]
          /\ \A u \in Senders : u # t => payload'[u] = payload[u]
    BY <1>5, SentIs
  <2> QED
    BY <1>2, <1>3, <1>4, <2>1, SenderFrame DEF SenderKeeps
<1>6. CASE Move(t, "json") /\ UNCHANGED payload
  <2>1. payload[t] \in Payloads
    BY <1>1 DEF Sending, CheckClients, At
  <2> QED
    BY <1>1, <1>2, <1>3, <1>4, <1>6, <2>1, SenderFrame, ClientNames DEF SenderKeeps, Sending
<1> QED
  BY <1>5, <1>6 DEF CheckClients

\* Sending to a port touches no table.
LEMMA SendTyped ==
  ASSUME ClientsTypeOK, NEW t \in Senders, NEW p \in Ports, SendTo(t, p)
  PROVE  SenderKeeps
<1>1. Plain /\ Sending /\ Tables
  BY TypeParts
<1>2. /\ UNCHANGED <<link, hub, user, replay, joining, control, left, told>>
      /\ place[t] = p /\ Hear(Reached(p), Always(p))
      /\ clients' = [clients EXCEPT ![p] = clients[p] \cap Open]
  BY DEF SendTo, At
<1>3. payload[t] \in Payloads
  BY <1>1, <1>2, ClientNames DEF Sending
<1>4. page' \in [Clients -> [ServedSockets -> ServedCards \cup {None}]]
  <2>1. page' = [c \in Clients |->
                  IF c \in Reached(p)
                    THEN [page[c] EXCEPT ![payload[t].socket] = payload[t].card]
                    ELSE page[c]]
    BY DEF SendTo
  <2>2. payload[t].card \in ServedCards \cup {None}
    BY <1>3 DEF Payloads
  <2>3. \A c \in Clients : [page[c] EXCEPT ![payload[t].socket] = payload[t].card]
                            \in [ServedSockets -> ServedCards \cup {None}]
    BY <1>1, <2>2 DEF Plain
  <2> QED
    BY <1>1, <2>1, <2>3 DEF Plain
<1>5. heard' \in [Clients -> SUBSET Ports]
  BY <1>1, <1>2, HearType DEF Always
<1>6. Plain'
  BY <1>1, <1>2, <1>4, <1>5 DEF Plain
<1>7. /\ clients' \in [Ports -> SUBSET Clients]
      /\ \A q \in Ports : clients'[q] \subseteq clients[q]
  BY <1>1, <1>2 DEF Tables
<1>8. CASE Sent(t)
  <2>1. PICK label \in SendSteps :
          /\ Move(t, label) /\ label \notin {"check", "json", "msgpack"}
          /\ payload' \in [Senders -> Payloads \cup {None}]
          /\ \A u \in Senders : u # t => payload'[u] = payload[u]
    BY <1>8, SentIs
  <2> QED
    BY <1>2, <1>6, <1>7, <2>1, SenderFrame DEF SenderKeeps
<1>9. CASE Move(t, "msgpack") /\ UNCHANGED payload
  BY <1>1, <1>2, <1>3, <1>6, <1>7, <1>9, SenderFrame, ClientNames DEF SenderKeeps, Sending
<1> QED
  BY <1>8, <1>9 DEF SendTo

\* The refresh thread touches no table.
LEMMA RefreshTyped ==
  ASSUME ClientsTypeOK, Refresh \/ RefreshNext
  PROVE  SenderKeeps
<1>1. Plain /\ Sending /\ Tables
  BY TypeParts
<1>2. "refresh" \in Senders /\ "next" \in SendSteps /\ "check" \in SendSteps
  BY ClientNames
<1>3. UNCHANGED <<link, hub, clients, user, replay, joining, control, page, told, heard>>
  BY DEF Refresh, RefreshNext
<1>4. /\ clients' \in [Ports -> SUBSET Clients]
      /\ \A p \in Ports : clients'[p] \subseteq clients[p]
  BY <1>1, <1>3 DEF Tables
<1>5. CASE Refresh
  <2>1. /\ left' = {[socket |-> s, card |-> replay[s]] : s \in Keys(replay)}
        /\ UNCHANGED payload /\ Move("refresh", "next")
    BY <1>5 DEF Refresh
  <2>2. left' \subseteq Payloads
    BY <1>1, <2>1 DEF Payloads, Keys, Plain
  <2>3. Plain'
    BY <1>1, <1>3, <2>2 DEF Plain
  <2> QED
    BY <1>1, <1>2, <1>3, <1>4, <2>1, <2>3, SenderFrame DEF SenderKeeps, Sending
<1>6. CASE RefreshNext
  <2>1. PICK entry \in left : /\ left' = left \ {entry}
                             /\ payload' = [payload EXCEPT !["refresh"] = entry]
    BY <1>6 DEF RefreshNext
  <2>2. Move("refresh", "check")
    BY <1>6 DEF RefreshNext
  <2>3. entry \in Payloads /\ Plain'
    BY <1>1, <1>3, <2>1 DEF Plain
  <2>4. /\ payload' \in [Senders -> Payloads \cup {None}] /\ payload'["refresh"] \in Payloads
        /\ \A u \in Senders : u # "refresh" => payload'[u] = payload[u]
    BY <1>1, <1>2, <2>1, <2>3 DEF Sending
  <2> QED
    BY <1>2, <1>3, <1>4, <2>2, <2>3, <2>4, SenderFrame DEF SenderKeeps
<1> QED
  BY <1>5, <1>6

\* Every step is a client's, a poll loop's or a sender's.
LEMMA ClientsCases ==
  ASSUME ClientsTypeOK, [ClientsNext]_clientVars
  PROVE  \/ \E c \in Clients : Connect(c) \/ Disconnect(c) \/ Control(c)
         \/ \E p \in Ports : PollLoop(p)
         \/ SenderKeeps
<1>1. ASSUME NEW t \in Senders, SendToAll(t) PROVE SenderKeeps
  BY <1>1, CheckTyped, SendTyped DEF SendToAll
<1>2. CASE RefreshClients
  BY <1>1, <1>2, RefreshTyped, ClientNames DEF RefreshClients
<1>3. ASSUME NEW t \in Casters, UpdateReplay(t) \/ SendToAll(t) PROVE SenderKeeps
  BY <1>1, <1>3, UpdateTyped, ClientNames
<1>4. CASE UNCHANGED clientVars
  <2>1. UNCHANGED <<link, hub, clients, user, replay, place, joining, control, payload, left,
                    page, told, heard>>
    BY <1>4 DEF clientVars
  <2>2. Plain /\ Placed /\ Sending /\ Tables /\ Queues /\ Controlling
    BY TypeParts
  <2>3. Plain' /\ Placed' /\ Sending' /\ Tables' /\ Queues'
    BY <2>1, <2>2 DEF Plain, Placed, Sending, Tables, Queues
  <2>4. Controlling'
    BY <2>1, <2>2, KnowsKept DEF Controlling
  <2> QED
    BY <2>1, <2>3, <2>4, TypePartsNext DEF SenderKeeps
<1> QED
  BY <1>2, <1>3, <1>4 DEF ClientsNext

\* The types are inductive.
LEMMA ClientsNextTyped ==
  ClientsTypeOK /\ [ClientsNext]_clientVars => ClientsTypeOK'
<1> SUFFICES ASSUME ClientsTypeOK, [ClientsNext]_clientVars PROVE ClientsTypeOK'
  OBVIOUS
<1>1. ASSUME NEW p \in Ports, PollLoop(p) PROVE ClientsTypeOK'
  BY <1>1, GreetTyped, DisconnectTyped, ControlTyped DEF PollLoop
<1> QED
  BY <1>1, ConnectTyped, ClientsCases DEF SenderKeeps

\* Every variable of the bridge's clients keeps its type, and a poll loop or a
\* sender that is on its way knows what it is about (poll_loop,
\* handle_bridge_control, send_to_all).
THEOREM ClientsTypeCorrect == ClientsSpec => []ClientsTypeOK
BY ClientsInitTyped, ClientsNextTyped, PTL DEF ClientsSpec

-----------------------------------------------------------------------------
(* Nobody is forgotten, and nobody is left out of a change of identity.      *)

\* What a SET_USER has said so far stands while no client joins its port's
\* table.
LEMMA ToldKept ==
  ASSUME NEW p \in Ports, ToldSoFar(p), user' = user,
         place'[p] = place[p], control'[p] = control[p],
         (Tabled(p) \cap Open)' \subseteq Tabled(p) \cap Open,
         \A c \in (Tabled(p) \cap Open)' : told'[c] = told[c]
  PROVE  ToldSoFar(p)'
BY DEF ToldSoFar, At

\* Who is in a port's table is a client of that port.
LEMMA TabledIs ==
  ASSUME ClientsTypeOK, NEW p \in Ports, NEW c \in Tabled(p)
  PROVE  c \in Clients /\ PortOf[c] = p
<1>1. PortOf[c] = p
  BY DEF ClientsTypeOK
<1>2. c \in Clients
  BY DEF ClientsTypeOK, Tabled
<1> QED
  BY <1>1, <1>2

Faithful == \A p \in Ports : ControlsPort(p) => ToldSoFar(p)

\* ClientsInv holds at first.
LEMMA ClientsInitInv == ClientsInit => ClientsInv
<1> SUFFICES ASSUME ClientsInit PROVE ClientsInv
  OBVIOUS
<1>1. ClientsTypeOK
  BY ClientsInitTyped
<1>2. \A p \in Ports : Tabled(p) = {} /\ DOMAIN hub[p] = {} /\ At(p, "idle")
  BY DEF ClientsInit, Tabled, At
<1>3. KnownConnected /\ EndsLater /\ NobodyForgotten /\ AskedHere
  BY <1>2 DEF KnownConnected, EndsLater, NobodyForgotten, AskedHere, At
<1>4. Faithful
  BY <1>2 DEF Faithful, ToldSoFar, At
<1> QED
  BY <1>1, <1>3, <1>4 DEF ClientsInv, Faithful

\* What a client does is queued behind what it did before.
LEMMA ClientStepInv ==
  ASSUME ClientsInv, NEW c \in Clients, Connect(c) \/ Disconnect(c) \/ Control(c)
  PROVE  ClientsInv'
<1>1. ClientsTypeOK /\ ClientsTypeOK'
  BY ConnectTyped DEF ClientsInv
<1>2. UNCHANGED <<clients, user, place, joining, control, told>>
  BY DEF Connect, Disconnect, Control
<1>3. \A p \in Ports : Tabled(p)' = Tabled(p)
  BY <1>2 DEF Tabled
<1>4. /\ link'[c] # "new"
      /\ \A x \in Clients : x # c => link'[x] = link[x]
      /\ \A x \in Clients : link[x] # "new" => link'[x] # "new"
      /\ Connect(c) => link[c] = "new" /\ link'[c] = "open"
      /\ ~ Connect(c) => link[c] = "open"
  BY <1>1 DEF Connect, Disconnect, Control, Open, ClientsTypeOK
<1>5. PICK event \in Events :
        /\ event.from = c /\ Queue(c, event)
        /\ event.kind = "connect" => Connect(c)
        /\ Disconnect(c) => event = [kind |-> "disconnect", from |-> c]
        /\ link'[c] # "open" => Disconnect(c)
  <2>1. CASE Connect(c)
    BY <1>4, <2>1, EventIs DEF Connect, Disconnect
  <2>2. CASE Disconnect(c)
    BY <2>2, EventIs DEF Disconnect
  <2>3. CASE Control(c) /\ ~ Disconnect(c) /\ ~ Connect(c)
    <3>1. link'[c] = "open"
      BY <1>4, <2>3 DEF Control
    <3>2. PICK patch \in Patches \cup {None} :
            Queue(c, [kind |-> "control", from |-> c, patch |-> patch])
      BY <2>3 DEF Control
    <3>3. c \in Controllers
      BY <2>3 DEF Control
    <3> QED
      BY <2>3, <3>1, <3>2, <3>3, EventIs
  <2> QED
    BY <2>1, <2>2, <2>3
<1> DEFINE q == PortOf[c]
<1>6. q \in Ports /\ hub \in [Ports -> Seq(Events)]
  BY <1>1, ClientNames DEF ClientsTypeOK
<1>7. /\ \A p \in Ports : p # q => hub'[p] = hub[p]
      /\ \A p \in Ports : \A i \in DOMAIN hub[p] :
           i \in DOMAIN hub'[p] /\ hub'[p][i] = hub[p][i]
  BY <1>5, <1>6, QueueIs
<1>8. PICK last \in DOMAIN hub'[q] :
        /\ hub'[q][last] = event
        /\ \A i \in DOMAIN hub'[q] : i = last \/ i \in DOMAIN hub[q]
        /\ \A i \in DOMAIN hub[q] : i < last
  BY <1>5, <1>6, QueueIs
<1>9. \A p \in Ports : \A i \in DOMAIN hub[p] :
        hub[p][i].from \in Clients /\ PortOf[hub[p][i].from] = p
  <2> SUFFICES ASSUME NEW p \in Ports, NEW i \in DOMAIN hub[p]
               PROVE  hub[p][i].from \in Clients /\ PortOf[hub[p][i].from] = p
    OBVIOUS
  <2>1. hub[p] \in Seq(Events)
    BY <1>6
  <2>2. hub[p][i] \in Events
    BY <2>1
  <2> QED
    BY <1>1, <2>2, EventIs DEF ClientsTypeOK
<1> HIDE DEF q
\* Whoever was open and is not has its disconnect queued last.
<1>10. ASSUME NEW x \in Clients, x \in Open, x \notin Open'
       PROVE  x = c /\ hub'[q][last] = [kind |-> "disconnect", from |-> x]
  <2>1. x = c
    BY <1>4, <1>10 DEF Open
  <2> QED
    BY <1>5, <1>8, <1>10, <2>1 DEF Open
<1>11. KnownConnected'
  <2>1. ASSUME NEW p \in Ports, NEW x \in Tabled(p)' PROVE link'[x] # "new"
    BY <1>1, <1>3, <1>4, <2>1, TabledIs DEF ClientsInv, KnownConnected
  <2>2. ASSUME NEW p \in Ports, NEW i \in DOMAIN hub'[p] PROVE link'[hub'[p][i].from] # "new"
    <3>1. CASE i \in DOMAIN hub[p]
      BY <1>4, <1>7, <1>9, <3>1 DEF ClientsInv, KnownConnected
    <3>2. CASE i \notin DOMAIN hub[p]
      <4>1. p = q
        BY <1>7, <3>2
      <4> QED
        BY <1>4, <1>5, <1>8, <3>2, <4>1
    <3> QED
      BY <3>1, <3>2
  <2> QED
    BY <2>1, <2>2 DEF KnownConnected
<1>12. EndsLater'
  <2> SUFFICES ASSUME NEW p \in Ports, NEW i \in DOMAIN hub'[p],
                      hub'[p][i].kind = "connect", hub'[p][i].from \notin Open'
               PROVE  \E j \in DOMAIN hub'[p] :
                        /\ j > i
                        /\ hub'[p][j] = [kind |-> "disconnect", from |-> hub'[p][i].from]
    BY DEF EndsLater
  <2> DEFINE x == hub'[p][i].from
  <2>1. CASE i \in DOMAIN hub[p]
    <3>1. /\ hub'[p][i] = hub[p][i] /\ x \in Clients /\ PortOf[x] = p
      BY <1>7, <1>9, <2>1
    <3> HIDE DEF x
    <3>2. CASE x \in Open
      <4>1. x = c /\ hub'[q][last] = [kind |-> "disconnect", from |-> x]
        BY <1>10, <3>1, <3>2 DEF x
      <4>2. p = q
        BY <3>1, <4>1 DEF q
      <4>3. last > i
        BY <1>6, <1>8, <2>1, <4>2
      <4> QED
        BY <4>1, <4>2, <4>3 DEF x
    <3>3. CASE x \notin Open
      <4>1. PICK j \in DOMAIN hub[p] :
              j > i /\ hub[p][j] = [kind |-> "disconnect", from |-> x]
        BY <2>1, <3>1, <3>3 DEF x, ClientsInv, EndsLater
      <4> QED
        BY <1>7, <4>1 DEF x
    <3> QED
      BY <3>2, <3>3
  <2>2. CASE i \notin DOMAIN hub[p]
    <3>1. p = q
      BY <1>7, <2>2
    <3>2. hub'[p][i] = event
      BY <1>8, <2>2, <3>1
    <3>3. link'[c] = "open" /\ x = c
      BY <1>4, <1>5, <3>2
    <3> QED
      BY <3>3 DEF Open
  <2> QED
    BY <2>1, <2>2
<1>13. NobodyForgotten'
  <2> SUFFICES ASSUME NEW p \in Ports, NEW x \in Tabled(p)', x \notin Open'
               PROVE  \E i \in DOMAIN hub'[p] :
                        hub'[p][i] = [kind |-> "disconnect", from |-> x]
    BY DEF NobodyForgotten
  <2>1. x \in Tabled(p) /\ x \in Clients /\ PortOf[x] = p
    BY <1>1, <1>3, TabledIs
  <2>2. CASE x \in Open
    <3>1. x = c /\ hub'[q][last] = [kind |-> "disconnect", from |-> x]
      BY <1>10, <2>1, <2>2
    <3>2. p = q
      BY <2>1, <3>1 DEF q
    <3> QED
      BY <3>1, <3>2
  <2>3. CASE x \notin Open
    <3>1. PICK i \in DOMAIN hub[p] : hub[p][i] = [kind |-> "disconnect", from |-> x]
      BY <2>1, <2>3 DEF ClientsInv, NobodyForgotten
    <3> QED
      BY <1>7, <3>1
  <2> QED
    BY <2>2, <2>3
<1>14. Faithful'
  <2> SUFFICES ASSUME NEW p \in Ports, ControlsPort(p) PROVE ToldSoFar(p)'
    BY DEF Faithful, ControlsPort
  <2>1. ToldSoFar(p)
    BY DEF ClientsInv
  <2>2. (Tabled(p) \cap Open)' \subseteq Tabled(p) \cap Open
    <3> SUFFICES ASSUME NEW x \in Tabled(p)', x \in Open' PROVE x \in Tabled(p) /\ x \in Open
      OBVIOUS
    <3>1. x \in Tabled(p) /\ x \in Clients /\ link[x] # "new"
      BY <1>1, <1>3, TabledIs DEF ClientsInv, KnownConnected
    <3> QED
      BY <1>4, <3>1 DEF Open
  <2> QED
    BY <1>2, <2>1, <2>2, ToldKept
<1>15. AskedHere'
  BY <1>2 DEF ClientsInv, AskedHere, At
<1> QED
  BY <1>1, <1>11, <1>12, <1>13, <1>14, <1>15 DEF ClientsInv, Faithful

\* Senders keep ClientsInv, for they touch no table.
LEMMA SenderStepInv == ClientsInv /\ SenderKeeps => ClientsInv'
<1> SUFFICES ASSUME ClientsInv, SenderKeeps PROVE ClientsInv'
  OBVIOUS
<1>1. /\ ClientsTypeOK' /\ UNCHANGED <<link, hub, user, joining, control, told>>
      /\ \A p \in Ports : place'[p] = place[p] /\ clients'[p] \subseteq clients[p]
  BY DEF SenderKeeps
<1>2. Open' = Open /\ \A p \in Ports : Tabled(p)' \subseteq Tabled(p)
  BY <1>1 DEF Open, Tabled
<1>3. KnownConnected'
  BY <1>1, <1>2 DEF ClientsInv, KnownConnected
<1>4. EndsLater'
  BY <1>1, <1>2 DEF ClientsInv, EndsLater
<1>5. NobodyForgotten'
  BY <1>1, <1>2 DEF ClientsInv, NobodyForgotten
<1>6. Faithful'
  <2> SUFFICES ASSUME NEW p \in Ports, ControlsPort(p) PROVE ToldSoFar(p)'
    BY DEF Faithful, ControlsPort
  <2>1. ToldSoFar(p)
    BY DEF ClientsInv
  <2> QED
    BY <1>1, <1>2, <2>1, ToldKept
<1>7. AskedHere'
  BY <1>1 DEF ClientsInv, AskedHere, At
<1> QED
  BY <1>1, <1>3, <1>4, <1>5, <1>6, <1>7 DEF ClientsInv, Faithful

\* An event is taken from the front of a port's queue: what was behind it is
\* still there, in the same order.
LEMMA PollLeaves ==
  ASSUME ClientsInv, NEW p \in Ports, NEW kind, Poll(p, kind)
  PROVE  /\ link' = link /\ Open' = Open
         /\ \A q \in Ports : \A i \in DOMAIN hub'[q] : link[hub'[q][i].from] # "new"
         /\ EndsLater'
         /\ \A q \in Ports : \A i \in DOMAIN hub[q] :
              q # p \/ i > 1 => \E j \in DOMAIN hub'[q] : hub'[q][j] = hub[q][i]
<1>1. hub \in [Ports -> Seq(Events)]
  BY DEF ClientsInv, ClientsTypeOK
<1>2. /\ link' = link
      /\ \A q \in Ports : q # p => hub'[q] = hub[q]
      /\ \A i \in DOMAIN hub'[p] :
           i \in Nat /\ i + 1 \in DOMAIN hub[p] /\ hub'[p][i] = hub[p][i + 1]
      /\ \A j \in DOMAIN hub[p] :
           j > 1 => j - 1 \in DOMAIN hub'[p] /\ hub'[p][j - 1] = hub[p][j]
  BY <1>1, PollIs
<1>3. Open' = Open
  BY <1>2 DEF Open
<1>4. ASSUME NEW q \in Ports, NEW i \in DOMAIN hub'[q] PROVE link[hub'[q][i].from] # "new"
  BY <1>2 DEF ClientsInv, KnownConnected
<1>5. ASSUME NEW q \in Ports, NEW i \in DOMAIN hub[q], q # p \/ i > 1
      PROVE  \E j \in DOMAIN hub'[q] : hub'[q][j] = hub[q][i]
  BY <1>2, <1>5
<1>6. EndsLater'
  <2> SUFFICES ASSUME NEW q \in Ports, NEW i \in DOMAIN hub'[q],
                      hub'[q][i].kind = "connect", hub'[q][i].from \notin Open
               PROVE  \E j \in DOMAIN hub'[q] :
                        /\ j > i
                        /\ hub'[q][j] = [kind |-> "disconnect", from |-> hub'[q][i].from]
    BY <1>3 DEF EndsLater
  <2>1. CASE q # p
    BY <1>2, <2>1 DEF ClientsInv, EndsLater
  <2>2. CASE q = p
    <3>1. i \in Nat /\ i + 1 \in DOMAIN hub[p] /\ hub'[p][i] = hub[p][i + 1]
      BY <1>2, <2>2
    <3>2. PICK j \in DOMAIN hub[p] :
            j > i + 1 /\ hub[p][j] = [kind |-> "disconnect", from |-> hub'[p][i].from]
      BY <2>2, <3>1 DEF ClientsInv, EndsLater
    <3>3. j \in Nat
      <4>1. hub[p] \in Seq(Events)
        BY <1>1
      <4> QED
        BY <4>1
    <3>4. j > 1 /\ j - 1 > i
      BY <3>1, <3>2, <3>3
    <3>5. j - 1 \in DOMAIN hub'[p] /\ hub'[p][j - 1] = hub[p][j]
      BY <1>2, <3>4
    <3> QED
      BY <2>2, <3>2, <3>4, <3>5
  <2> QED
    BY <2>1, <2>2
<1> QED
  BY <1>2, <1>3, <1>4, <1>5, <1>6

\* What a poll loop must leave for the invariant to hold.
LEMMA LoopInv ==
  ASSUME ClientsInv, ClientsTypeOK', NEW p \in Ports, link' = link,
         \A q \in Ports : \A i \in DOMAIN hub'[q] : link[hub'[q][i].from] # "new",
         EndsLater',
         \A q \in Ports : \A x \in Tabled(q)' :
           link[x] # "new" /\ (x \in Tabled(q)
             \/ x \in Open \/ \E i \in DOMAIN hub'[q] :
                               hub'[q][i] = [kind |-> "disconnect", from |-> x]),
         \A q \in Ports : \A x \in Tabled(q)' : \A i \in DOMAIN hub[q] :
           hub[q][i] = [kind |-> "disconnect", from |-> x]
             => \E j \in DOMAIN hub'[q] : hub'[q][j] = hub[q][i],
         AskedHere', Faithful'
  PROVE  ClientsInv'
<1>1. Open' = Open
  BY DEF Open
<1>2. KnownConnected'
  BY DEF KnownConnected
<1>3. NobodyForgotten'
  <2> SUFFICES ASSUME NEW q \in Ports, NEW x \in Tabled(q)', x \notin Open
               PROVE  \E i \in DOMAIN hub'[q] :
                        hub'[q][i] = [kind |-> "disconnect", from |-> x]
    BY <1>1 DEF NobodyForgotten
  <2>1. CASE x \notin Tabled(q)
    BY <2>1
  <2>2. CASE x \in Tabled(q)
    <3>1. PICK i \in DOMAIN hub[q] : hub[q][i] = [kind |-> "disconnect", from |-> x]
      BY <2>2 DEF ClientsInv, NobodyForgotten
    <3> QED
      BY <3>1
  <2> QED
    BY <2>1, <2>2
<1> QED
  BY <1>2, <1>3 DEF ClientsInv, Faithful

\* A client whose connect is taken has its end still ahead of it.
LEMMA PollConnectInv ==
  ASSUME ClientsInv, NEW p \in Ports, PollConnect(p)
  PROVE  ClientsInv'
<1> DEFINE c == Head(hub[p]).from
<1>1. ClientsTypeOK /\ ClientsTypeOK'
  BY GreetTyped DEF ClientsInv
<1>2. Poll(p, "connect") /\ hub \in [Ports -> Seq(Events)]
  BY <1>1 DEF PollConnect, ClientsTypeOK
<1>3. /\ UNCHANGED <<clients, user, control>>
      /\ joining' = [joining EXCEPT ![p] = c] /\ Tell({c} \cap Open, user)
      /\ Move(p, "replay")
  BY DEF PollConnect
<1>4. /\ Head(hub[p]).kind = "connect" /\ 1 \in DOMAIN hub[p] /\ hub[p][1] = Head(hub[p])
      /\ place[p] = "idle"
  BY <1>2, PollIs DEF At
<1>5. c \in Clients /\ PortOf[c] = p /\ joining[p] = None
  BY <1>1, <1>2, PollTyped
<1>6. /\ link' = link /\ Open' = Open /\ EndsLater'
      /\ \A q \in Ports : \A i \in DOMAIN hub'[q] : link[hub'[q][i].from] # "new"
      /\ \A q \in Ports : \A i \in DOMAIN hub[q] :
              q # p \/ i > 1 => \E j \in DOMAIN hub'[q] : hub'[q][j] = hub[q][i]
  BY <1>2, PollLeaves
<1>7. hub[p][1].from = c /\ hub[p][1].kind = "connect"
  BY <1>4
<1> HIDE DEF c
<1>8. /\ Tabled(p)' = Tabled(p) \cup {c}
      /\ \A q \in Ports : q # p => Tabled(q)' = Tabled(q)
  BY <1>1, <1>3, <1>5, ClientNames DEF Tabled, ClientsTypeOK
<1>9. link[c] # "new"
  BY <1>4, <1>7 DEF ClientsInv, KnownConnected
<1>10. c \in Open \/ \E j \in DOMAIN hub'[p] : hub'[p][j] = [kind |-> "disconnect", from |-> c]
  <2> SUFFICES ASSUME c \notin Open
               PROVE  \E j \in DOMAIN hub'[p] :
                        hub'[p][j] = [kind |-> "disconnect", from |-> c]
    OBVIOUS
  <2>1. PICK j \in DOMAIN hub[p] : j > 1 /\ hub[p][j] = [kind |-> "disconnect", from |-> c]
    BY <1>4, <1>7 DEF ClientsInv, EndsLater
  <2> QED
    BY <1>6, <2>1
<1>11. ASSUME NEW q \in Ports, NEW x \in Tabled(q)', NEW i \in DOMAIN hub[q],
              hub[q][i] = [kind |-> "disconnect", from |-> x]
       PROVE  \E j \in DOMAIN hub'[q] : hub'[q][j] = hub[q][i]
  <2>1. hub[q][i].kind = "disconnect"
    BY <1>11
  <2>2. q # p \/ i # 1
    BY <1>7, <2>1
  <2>3. hub[q] \in Seq(Events)
    BY <1>2
  <2>4. i >= 1 /\ i \in Nat
    BY <2>3
  <2>5. q # p \/ i > 1
    BY <2>2, <2>4
  <2> QED
    BY <1>6, <2>5
<1>12. /\ place'[p] = "replay"
       /\ \A q \in Ports : q # p => place'[q] = place[q]
  BY <1>1, <1>3, MoveIs, ClientNames
<1>13. AskedHere'
  BY <1>3, <1>12 DEF ClientsInv, AskedHere, At
<1>14. told' = [x \in Clients |-> IF x \in {c} \cap Open THEN user ELSE told[x]]
  BY <1>3 DEF Tell
<1>15. Faithful'
  <2> SUFFICES ASSUME NEW q \in Ports, ControlsPort(q) PROVE ToldSoFar(q)'
    BY DEF Faithful, ControlsPort
  <2>1. ToldSoFar(q)
    BY DEF ClientsInv
  <2>2. \A x \in Tabled(q) : x \in Clients /\ PortOf[x] = q
    BY <1>1, TabledIs
  <2>3. CASE q = p
    <3>1. \A x \in Tabled(p) \cap Open : told[x] = user
      BY <1>4, <2>1, <2>3 DEF ToldSoFar, At
    <3>2. \A x \in (Tabled(p) \cap Open)' : told'[x] = user
      BY <1>5, <1>6, <1>8, <1>14, <2>2, <2>3, <3>1
    <3>3. user' = user
      BY <1>3
    <3> QED
      BY <1>12, <2>3, <3>2, <3>3 DEF ToldSoFar, At
  <2>4. CASE q # p
    <3>1. \A x \in (Tabled(q) \cap Open)' : x \in Tabled(q) \cap Open /\ told'[x] = told[x]
      BY <1>5, <1>6, <1>8, <1>14, <2>2, <2>4
    <3> QED
      BY <1>3, <1>12, <2>1, <2>4, <3>1, ToldKept
  <2> QED
    BY <2>3, <2>4
<1>16. \A q \in Ports : \A x \in Tabled(q)' :
         link[x] # "new" /\ (x \in Tabled(q)
           \/ x \in Open \/ \E i \in DOMAIN hub'[q] :
                             hub'[q][i] = [kind |-> "disconnect", from |-> x])
  BY <1>8, <1>9, <1>10 DEF ClientsInv, KnownConnected
<1> QED
  BY <1>1, <1>6, <1>11, <1>13, <1>15, <1>16, LoopInv

\* A client being inserted does too.
LEMMA JoinInv ==
  ASSUME ClientsInv, NEW p \in Ports, Replay(p) \/ Insert(p)
  PROVE  ClientsInv'
<1>1. ClientsTypeOK /\ ClientsTypeOK'
  BY GreetTyped DEF ClientsInv
<1>2. /\ UNCHANGED <<link, hub, user, control, told>>
      /\ place[p] \in {"replay", "insert"}
      /\ Move(p, "insert") \/ Move(p, "idle")
  BY DEF Replay, Insert, At
<1>3. Open' = Open
  BY <1>2 DEF Open
<1>4. \A q \in Ports : Tabled(q)' = Tabled(q)
  <2>1. CASE Replay(p)
    BY <2>1 DEF Replay, Tabled
  <2>2. CASE Insert(p)
    <3>1. joining[p] # None /\ joining \in [Ports -> Clients \cup {None}]
      BY <1>1, <2>2 DEF ClientsTypeOK, Insert, At
    <3>2. /\ clients' = [clients EXCEPT ![p] = clients[p] \cup {joining[p]}]
          /\ joining' = [joining EXCEPT ![p] = None]
      BY <2>2 DEF Insert
    <3> QED
      BY <1>1, <3>1, <3>2 DEF Tabled, ClientsTypeOK
  <2> QED
    BY <2>1, <2>2
<1>5. /\ place'[p] \in {"insert", "idle"}
      /\ \A q \in Ports : q # p => place'[q] = place[q]
  BY <1>1, <1>2, MoveIs, ClientNames
<1>6. AskedHere'
  BY <1>2, <1>5 DEF ClientsInv, AskedHere, At
<1>7. Faithful'
  <2> SUFFICES ASSUME NEW q \in Ports, ControlsPort(q) PROVE ToldSoFar(q)'
    BY DEF Faithful, ControlsPort
  <2>1. ToldSoFar(q)
    BY DEF ClientsInv
  <2>2. CASE q = p
    BY <1>2, <1>3, <1>4, <1>5, <2>1, <2>2 DEF ToldSoFar, At
  <2>3. CASE q # p
    BY <1>2, <1>3, <1>4, <1>5, <2>1, <2>3, ToldKept
  <2> QED
    BY <2>2, <2>3
<1>8. EndsLater'
  BY <1>2, <1>3 DEF ClientsInv, EndsLater
<1>9. \A q \in Ports : \A i \in DOMAIN hub'[q] : link[hub'[q][i].from] # "new"
  BY <1>2 DEF ClientsInv, KnownConnected
<1>10. \A q \in Ports : \A x \in Tabled(q)' : link[x] # "new" /\ x \in Tabled(q)
  BY <1>4 DEF ClientsInv, KnownConnected
<1> QED
  BY <1>1, <1>2, <1>6, <1>7, <1>8, <1>9, <1>10, LoopInv

\* A disconnect takes its client out of the table.
LEMMA PollDisconnectInv ==
  ASSUME ClientsInv, NEW p \in Ports, PollDisconnect(p)
  PROVE  ClientsInv'
<1> DEFINE c == Head(hub[p]).from
<1>1. ClientsTypeOK /\ ClientsTypeOK'
  BY DisconnectTyped DEF ClientsInv
<1>2. Poll(p, "disconnect") /\ hub \in [Ports -> Seq(Events)]
  BY <1>1 DEF PollDisconnect, ClientsTypeOK
<1>3. /\ UNCHANGED <<user, place, joining, control, told>>
      /\ clients' = [clients EXCEPT ![p] = clients[p] \ {c}]
  BY DEF PollDisconnect, Remaining
<1>4. 1 \in DOMAIN hub[p] /\ hub[p][1].from = c /\ joining[p] = None
  BY <1>1, <1>2, PollIs, PollTyped
<1>5. /\ link' = link /\ Open' = Open /\ EndsLater'
      /\ \A q \in Ports : \A i \in DOMAIN hub'[q] : link[hub'[q][i].from] # "new"
      /\ \A q \in Ports : \A i \in DOMAIN hub[q] :
              q # p \/ i > 1 => \E j \in DOMAIN hub'[q] : hub'[q][j] = hub[q][i]
  BY <1>2, PollLeaves
<1> HIDE DEF c
<1>6. /\ Tabled(p)' = Tabled(p) \ {c}
      /\ \A q \in Ports : q # p => Tabled(q)' = Tabled(q)
  BY <1>1, <1>3, <1>4 DEF Tabled, ClientsTypeOK
<1>7. ASSUME NEW q \in Ports, NEW x \in Tabled(q)', NEW i \in DOMAIN hub[q],
             hub[q][i] = [kind |-> "disconnect", from |-> x]
      PROVE  \E j \in DOMAIN hub'[q] : hub'[q][j] = hub[q][i]
  <2>1. hub[q][i].from = x
    BY <1>7
  <2>2. q # p \/ i # 1
    BY <1>4, <1>6, <1>7, <2>1
  <2>3. hub[q] \in Seq(Events)
    BY <1>2
  <2>4. i >= 1 /\ i \in Nat
    BY <2>3
  <2>5. q # p \/ i > 1
    BY <2>2, <2>4
  <2> QED
    BY <1>5, <2>5
<1>8. \A q \in Ports : \A x \in Tabled(q)' : link[x] # "new" /\ x \in Tabled(q)
  BY <1>6 DEF ClientsInv, KnownConnected
<1>9. AskedHere'
  BY <1>3 DEF ClientsInv, AskedHere, At
<1>10. Faithful'
  <2> SUFFICES ASSUME NEW q \in Ports, ControlsPort(q) PROVE ToldSoFar(q)'
    BY DEF Faithful, ControlsPort
  <2>1. ToldSoFar(q)
    BY DEF ClientsInv
  <2>2. (Tabled(q) \cap Open)' \subseteq Tabled(q) \cap Open
    BY <1>5, <1>8
  <2> QED
    BY <1>3, <2>1, <2>2, ToldKept
<1> QED
  BY <1>1, <1>5, <1>7, <1>8, <1>9, <1>10, LoopInv

\* The steps of handle_bridge_control that take nothing from the queue.
LEMMA LookInv ==
  ASSUME ClientsInv, ClientsTypeOK', NEW p \in Ports, UNCHANGED <<link, hub, joining>>,
         \A q \in Ports : clients'[q] \subseteq clients[q], AskedHere', Faithful'
  PROVE  ClientsInv'
<1>1. Open' = Open
  BY DEF Open
<1>2. \A q \in Ports : Tabled(q)' \subseteq Tabled(q)
  BY DEF Tabled
<1>3. EndsLater'
  BY <1>1 DEF ClientsInv, EndsLater
<1>4. KnownConnected' /\ NobodyForgotten'
  BY <1>1, <1>2 DEF ClientsInv, KnownConnected, NobodyForgotten
<1> QED
  BY <1>3, <1>4 DEF ClientsInv, Faithful

\* Taking a SET_USER remembers the identity before it.
LEMMA ControlBeforeInv ==
  ASSUME ClientsInv, NEW p \in Ports, ControlBefore(p)
  PROVE  ClientsInv'
<1>1. ClientsTypeOK /\ ClientsTypeOK'
  BY ControlTyped DEF ClientsInv
<1>2. Poll(p, "control") /\ hub \in [Ports -> Seq(Events)]
  BY <1>1 DEF ControlBefore, ClientsTypeOK
<1>3. /\ UNCHANGED <<clients, user, joining, told>> /\ Move(p, "patch")
      /\ control' = [control EXCEPT ![p] = [from   |-> Head(hub[p]).from,
                                           patch  |-> Head(hub[p]).patch,
                                           before |-> user]]
  BY DEF ControlBefore
<1>4. /\ Head(hub[p]) \in Events /\ Head(hub[p]).kind = "control"
      /\ 1 \in DOMAIN hub[p] /\ hub[p][1] = Head(hub[p]) /\ place[p] = "idle"
  BY <1>2, PollIs DEF At
<1>5. Head(hub[p]).from \in Controllers /\ PortOf[Head(hub[p]).from] = p
  BY <1>1, <1>2, <1>4, EventIs, PollTyped
<1>6. /\ link' = link /\ Open' = Open /\ EndsLater'
      /\ \A q \in Ports : \A i \in DOMAIN hub'[q] : link[hub'[q][i].from] # "new"
      /\ \A q \in Ports : \A i \in DOMAIN hub[q] :
              q # p \/ i > 1 => \E j \in DOMAIN hub'[q] : hub'[q][j] = hub[q][i]
  BY <1>2, PollLeaves
<1>7. \A q \in Ports : Tabled(q)' = Tabled(q)
  BY <1>3 DEF Tabled
<1>8. /\ place'[p] = "patch"
      /\ \A q \in Ports : q # p => place'[q] = place[q]
  BY <1>1, <1>3, MoveIs, ClientNames
<1>9. /\ control'[p].from = Head(hub[p]).from /\ control'[p].before = user
      /\ \A q \in Ports : q # p => control'[q] = control[q]
  BY <1>1, <1>3 DEF ClientsTypeOK
<1>10. ASSUME NEW q \in Ports, NEW x \in Tabled(q)', NEW i \in DOMAIN hub[q],
              hub[q][i] = [kind |-> "disconnect", from |-> x]
       PROVE  \E j \in DOMAIN hub'[q] : hub'[q][j] = hub[q][i]
  <2>1. hub[q][i].kind = "disconnect"
    BY <1>10
  <2>2. q # p \/ i # 1
    BY <1>4, <2>1
  <2>3. hub[q] \in Seq(Events)
    BY <1>2
  <2>4. i >= 1 /\ i \in Nat
    BY <2>3
  <2>5. q # p \/ i > 1
    BY <2>2, <2>4
  <2> QED
    BY <1>6, <2>5
<1>11. \A q \in Ports : \A x \in Tabled(q)' : link[x] # "new" /\ x \in Tabled(q)
  BY <1>7 DEF ClientsInv, KnownConnected
<1>12. AskedHere'
  BY <1>5, <1>8, <1>9 DEF ClientsInv, AskedHere, At
<1>13. Faithful'
  <2> SUFFICES ASSUME NEW q \in Ports, ControlsPort(q) PROVE ToldSoFar(q)'
    BY DEF Faithful, ControlsPort
  <2>1. ToldSoFar(q)
    BY DEF ClientsInv
  <2>2. CASE q = p
    <3>1. \A x \in Tabled(p) \cap Open : told[x] = user
      BY <1>4, <2>1, <2>2 DEF ToldSoFar, At
    <3>2. \A x \in (Tabled(p) \cap Open)' : told'[x] = user'
      BY <1>3, <1>6, <1>7, <3>1
    <3> QED
      BY <1>3, <1>8, <1>9, <2>2, <3>2 DEF ToldSoFar, At
  <2>3. CASE q # p
    BY <1>3, <1>6, <1>7, <1>8, <1>9, <2>1, <2>3, ToldKept
  <2> QED
    BY <2>2, <2>3
<1> QED
  BY <1>1, <1>6, <1>10, <1>11, <1>12, <1>13, LoopInv

\* The identity changes for a client of this port: no other port has all the
\* controllers.
LEMMA ControlPatchInv ==
  ASSUME ClientsInv, NEW p \in Ports, ControlPatch(p)
  PROVE  ClientsInv'
<1>1. ClientsTypeOK /\ ClientsTypeOK'
  BY ControlTyped DEF ClientsInv
<1>2. /\ UNCHANGED <<link, hub, clients, joining, control, told>>
      /\ place[p] = "patch" /\ Move(p, "after")
  BY DEF ControlPatch, At
<1>3. /\ place'[p] = "after"
      /\ \A q \in Ports : q # p => place'[q] = place[q]
  BY <1>1, <1>2, MoveIs, ClientNames
<1>4. Open' = Open /\ \A q \in Ports : Tabled(q)' = Tabled(q)
  BY <1>2 DEF Open, Tabled
<1>5. AskedHere'
  BY <1>2, <1>3 DEF ClientsInv, AskedHere, At
<1>6. Faithful'
  <2> SUFFICES ASSUME NEW q \in Ports, ControlsPort(q) PROVE ToldSoFar(q)'
    BY DEF Faithful, ControlsPort
  <2>1. control[p].from \in Controllers /\ PortOf[control[p].from] = p
    BY <1>2 DEF ClientsInv, AskedHere, At
  <2>2. q = p
    BY <2>1 DEF ControlsPort
  <2>3. ToldSoFar(p)
    BY <2>2 DEF ClientsInv
  <2>4. \A x \in Tabled(p) \cap Open : told[x] = control[p].before
    BY <1>2, <2>3 DEF ToldSoFar, At
  <2>5. \A x \in (Tabled(p) \cap Open)' : told'[x] = control'[p].before
    BY <1>2, <1>4, <2>4
  <2> QED
    BY <1>3, <2>2, <2>5 DEF ToldSoFar, At
<1> QED
  BY <1>1, <1>2, <1>5, <1>6, LookInv

\* Once the identity is patched it is compared with the one before.
LEMMA ControlAfterInv ==
  ASSUME ClientsInv, NEW p \in Ports, ControlAfter(p)
  PROVE  ClientsInv'
<1>1. ClientsTypeOK /\ ClientsTypeOK'
  BY ControlTyped DEF ClientsInv
<1>2. /\ UNCHANGED <<link, hub, clients, user, joining, told>>
      /\ place[p] = "after" /\ Move(p, "ack")
      /\ control' = [control EXCEPT ![p] =
                      [from  |-> control[p].from, after |-> user,
                       news  |-> control[p].before # user]]
  BY DEF ControlAfter, At
<1>3. /\ place'[p] = "ack"
      /\ \A q \in Ports : q # p => place'[q] = place[q]
  BY <1>1, <1>2, MoveIs, ClientNames
<1>4. Open' = Open /\ \A q \in Ports : Tabled(q)' = Tabled(q)
  BY <1>2 DEF Open, Tabled
<1>5. /\ control'[p].after = user /\ (~ control'[p].news => control[p].before = user)
      /\ \A q \in Ports : q # p => control'[q] = control[q]
  <2> DEFINE ack == [from |-> control[p].from, after |-> user, news |-> control[p].before # user]
  <2>1. ack.after = user /\ (~ ack.news => control[p].before = user)
    OBVIOUS
  <2>2. control' = [control EXCEPT ![p] = ack]
    BY <1>2
  <2> HIDE DEF ack
  <2>3. control \in [Ports -> Looks \cup Acks \cup {None}]
    BY <1>1 DEF ClientsTypeOK
  <2>4. control'[p] = ack /\ \A q \in Ports : q # p => control'[q] = control[q]
    BY <2>2, <2>3
  <2> QED
    BY <2>1, <2>4
<1>6. AskedHere'
  BY <1>3, <1>5 DEF ClientsInv, AskedHere, At
<1>7. Faithful'
  <2> SUFFICES ASSUME NEW q \in Ports, ControlsPort(q) PROVE ToldSoFar(q)'
    BY DEF Faithful, ControlsPort
  <2>1. ToldSoFar(q)
    BY DEF ClientsInv
  <2>2. CASE q = p
    <3>1. \A x \in Tabled(p) \cap Open : told[x] = control[p].before
      BY <1>2, <2>1, <2>2 DEF ToldSoFar, At
    <3>2. ~ control'[p].news => \A x \in (Tabled(p) \cap Open)' : told'[x] = user'
      BY <1>2, <1>4, <1>5, <3>1
    <3> QED
      BY <1>2, <1>3, <1>5, <2>2, <3>2 DEF ToldSoFar, At
  <2>3. CASE q # p
    BY <1>2, <1>3, <1>4, <1>5, <2>1, <2>3, ToldKept
  <2> QED
    BY <2>2, <2>3
<1> QED
  BY <1>1, <1>2, <1>6, <1>7, LookInv

\* Telling the clients of the port ends it.
LEMMA ControlAckInv ==
  ASSUME ClientsInv, NEW p \in Ports, ControlAck(p)
  PROVE  ClientsInv'
<1>1. ClientsTypeOK /\ ClientsTypeOK'
  BY ControlTyped DEF ClientsInv
<1>2. /\ UNCHANGED <<link, hub, user, joining>>
      /\ place[p] = "ack" /\ Move(p, "idle")
      /\ told' = [x \in Clients |-> IF x \in Answered(p) \cap Open
                                     THEN control[p].after ELSE told[x]]
      /\ clients' = [clients EXCEPT ![p] = IF control[p].news THEN clients[p] \cap Open
                                          ELSE clients[p]]
      /\ control' = [control EXCEPT ![p] = None]
  BY DEF ControlAck, At, Tell
<1>3. /\ place'[p] = "idle"
      /\ \A q \in Ports : q # p => place'[q] = place[q]
  BY <1>1, <1>2, MoveIs, ClientNames
<1>4. /\ Open' = Open
      /\ \A q \in Ports : clients'[q] \subseteq clients[q]
      /\ \A q \in Ports : q # p => control'[q] = control[q]
  BY <1>1, <1>2 DEF Open, ClientsTypeOK
<1>5. \A q \in Ports : Tabled(q)' \subseteq Tabled(q)
  BY <1>2, <1>4 DEF Tabled
<1>6. joining[p] = None /\ Tabled(p) = clients[p]
  <2>1. place[p] = "ack"
    BY <1>2
  <2>2. joining[p] = None
    BY <1>1, <2>1 DEF ClientsTypeOK
  <2> QED
    BY <2>2 DEF Tabled
<1>7. Answered(p) \subseteq clients[p] /\ (control[p].news => Answered(p) = clients[p])
  BY DEF Answered
<1>8. AskedHere'
  BY <1>3, <1>4 DEF ClientsInv, AskedHere, At
<1>9. Faithful'
  <2> SUFFICES ASSUME NEW q \in Ports, ControlsPort(q) PROVE ToldSoFar(q)'
    BY DEF Faithful, ControlsPort
  <2>1. ToldSoFar(q)
    BY DEF ClientsInv
  <2>2. \A x \in Tabled(q)' : x \in Tabled(q) /\ x \in Clients /\ PortOf[x] = q
    BY <1>1, <1>5, TabledIs
  <2>3. CASE q = p
    <3>1. /\ control[p].after = user
          /\ ~ control[p].news => \A x \in Tabled(p) \cap Open : told[x] = user
      BY <1>2, <2>1, <2>3 DEF ToldSoFar, At
    <3>2. \A x \in (Tabled(p) \cap Open)' : told'[x] = user
      <4> SUFFICES ASSUME NEW x \in Tabled(p)', x \in Open PROVE told'[x] = user
        BY <1>4
      <4>1. x \in Tabled(p) /\ x \in Clients /\ x \in clients[p]
        BY <1>6, <2>2, <2>3
      <4>2. CASE x \in Answered(p)
        BY <1>2, <3>1, <4>1, <4>2
      <4>3. CASE x \notin Answered(p)
        BY <1>2, <1>7, <3>1, <4>1, <4>3
      <4> QED
        BY <4>2, <4>3
    <3> QED
      BY <1>2, <1>3, <2>3, <3>2 DEF ToldSoFar, At
  <2>4. CASE q # p
    <3>1. \A x \in Answered(p) : PortOf[x] = p
      BY <1>1, <1>6, <1>7, TabledIs
    <3>2. \A x \in (Tabled(q) \cap Open)' : x \in Tabled(q) \cap Open /\ told'[x] = told[x]
      BY <1>2, <1>4, <2>2, <2>4, <3>1
    <3> QED
      BY <1>2, <1>3, <1>4, <2>1, <2>4, <3>2, ToldKept
  <2> QED
    BY <2>3, <2>4
<1> QED
  BY <1>1, <1>2, <1>4, <1>8, <1>9, LookInv

\* ClientsInv is inductive.
LEMMA ClientsNextInv == ClientsInv /\ [ClientsNext]_clientVars => ClientsInv'
<1> SUFFICES ASSUME ClientsInv, [ClientsNext]_clientVars PROVE ClientsInv'
  OBVIOUS
<1>1. ASSUME NEW p \in Ports, PollLoop(p) PROVE ClientsInv'
  BY <1>1, PollConnectInv, JoinInv, PollDisconnectInv, ControlBeforeInv, ControlPatchInv,
     ControlAfterInv, ControlAckInv DEF PollLoop
<1>2. ClientsTypeOK
  BY DEF ClientsInv
<1> QED
  BY <1>1, <1>2, ClientStepInv, SenderStepInv, ClientsCases

\* Whoever is in a port's table, or about to be put there, is connected or has
\* its end still queued; and while one port has the controllers, everybody in
\* its table knows the identity in force whenever its loop is idle, whatever the
\* senders prune meanwhile (poll_loop, handle_bridge_control, send_to_all).
THEOREM TableKept == ClientsSpec => []TableKeepsUp
<1>1. ClientsInv => TableKeepsUp
  <2> SUFFICES ASSUME ClientsInv PROVE PortKnowsUser
    BY DEF ClientsInv, TableKeepsUp
  <2> SUFFICES ASSUME NEW p \in Ports, ControlsPort(p), At(p, "idle"),
                      NEW c \in clients[p] \cap Open
               PROVE  told[c] = user
    BY DEF PortKnowsUser
  <2>1. ToldSoFar(p)
    BY DEF ClientsInv
  <2>2. \A x \in Tabled(p) \cap Open : told[x] = user
    BY <2>1 DEF ToldSoFar, At
  <2>3. c \in Tabled(p)
    BY ClientNames DEF ClientsInv, ClientsTypeOK, Tabled
  <2> QED
    BY <2>2, <2>3
<1>2. ClientsInit => ClientsInv
  BY ClientsInitInv
<1>3. ClientsInv /\ [ClientsNext]_clientVars => ClientsInv'
  BY ClientsNextInv
<1> QED
  BY <1>1, <1>2, <1>3, PTL DEF ClientsSpec

-----------------------------------------------------------------------------
(* The clients and the snapshots side by side, as they are checked together. *)

\* A step of the composition is a step of one, and leaves the other alone.
LEMMA EachOutletSteps ==
  ASSUME [Next]_outletVars
  PROVE  [ClientsNext]_clientVars /\ [SlotsNext]_slotVars
<1>1. CASE Joins
  BY <1>1 DEF Joins
<1>2. CASE Persists
  BY <1>2 DEF Persists
<1>3. CASE UNCHANGED outletVars
  BY <1>3 DEF outletVars
<1> QED
  BY <1>1, <1>2, <1>3 DEF Next

\* Every behaviour of the composition is one of the clients' and one of the
\* snapshots' own specification, so that what is proved of them holds side by
\* side.
THEOREM OutletsImplement == Spec => ClientsSpec /\ SlotsSpec
<1>1. Init => ClientsInit /\ SlotsInit
  BY DEF Init
<1> QED
  BY <1>1, EachOutletSteps, PTL DEF Spec, ClientsSpec, SlotsSpec

\* Every variable of both components keeps its type, side by side.
THEOREM OutletsTypeCorrect == Spec => []OutletsTypeOK
<1>1. ClientsTypeOK /\ SlotsTypeOK => OutletsTypeOK
  BY DEF OutletsTypeOK
<1> QED
  BY OutletsImplement, ClientsTypeCorrect, SlotsTypeCorrect, <1>1, PTL
=============================================================================

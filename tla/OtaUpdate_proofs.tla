-------------------------- MODULE OtaUpdate_proofs -------------------------
(***************************************************************************)
(* What a self-update may cost an installation, for every number of        *)
(* processes, releases, kills and failing calls, on one filesystem and     *)
(* across two.                                                             *)
(***************************************************************************)
EXTENDS OtaUpdate, TLAPS

USE OtaAssumption

-----------------------------------------------------------------------------
(* What one step of a process does to proc.                                 *)

\* A process that is off has a state.
LEMMA OffState == Off \in ProcState /\ Off.at = "off"
BY DEF Off, ProcState, Calls

\* The files and the calls have these names.
LEMMA Names ==
  /\ "exe" \in Paths /\ "prev" \in Paths /\ "swap" \in Paths
  /\ "tmp" \in Paths /\ "part" \in Paths /\ "staged" \in Paths
  /\ "off" \in Calls /\ "reexec" \in Calls /\ "apply" \in Calls
  /\ "verify" \in Calls /\ "discard" \in Calls /\ "forget" \in Calls
  /\ "unlink" \in Calls /\ "aside" \in Calls /\ "place" \in Calls
  /\ "restore" \in Calls /\ "copy" \in Calls /\ "move" \in Calls
  /\ "drop" \in Calls /\ "clear" \in Calls /\ "started" \in Calls
  /\ "daemon" \in Calls /\ "check" \in Calls /\ "download" \in Calls
  /\ "fetch" \in Calls /\ "install" \in Calls /\ "record" \in Calls
  /\ "recording" \in Calls /\ "giveup" \in Calls /\ "rollback" \in Calls
  /\ "unstage" \in Calls /\ "unrecord" \in Calls /\ "swapout" \in Calls
  /\ "swapin" \in Calls /\ "unswap" \in Calls /\ "swapped" \in Calls
BY DEF Paths, Calls

\* A step of one process leaves the others.
LEMMA ProcEffect ==
  ASSUME proc \in [Procs -> ProcState], NEW p \in Procs, NEW s \in ProcState,
         proc' = [proc EXCEPT ![p] = s]
  PROVE  /\ proc' \in [Procs -> ProcState]
         /\ proc'[p] = s
         /\ \A q \in Procs \ {p} : proc'[q] = proc[q]
OBVIOUS

\* Goto changes the step a process is at; an exit forgets the rest.
LEMMA GotoEffect ==
  ASSUME proc \in [Procs -> ProcState], NEW p \in Procs, NEW there \in Calls,
         Goto(p, there)
  PROVE  /\ proc' \in [Procs -> ProcState]
         /\ \A q \in Procs \ {p} : proc'[q] = proc[q]
         /\ proc'[p].at = there
         /\ there # "off" =>
              /\ proc'[p].goal = proc[p].goal /\ proc'[p].image = proc[p].image
              /\ proc'[p].applied = proc[p].applied /\ proc'[p].got = proc[p].got
              /\ proc'[p].notified = proc[p].notified
<1>1. CASE there = "off"
  BY <1>1, ProcEffect, OffState DEF Goto
<1>2. CASE there # "off"
  <2> DEFINE s == [proc[p] EXCEPT !.at = there]
  <2>1. proc[p] \in ProcState
    OBVIOUS
  <2>2. /\ s \in ProcState /\ s.at = there
        /\ s.goal = proc[p].goal /\ s.image = proc[p].image
        /\ s.applied = proc[p].applied /\ s.got = proc[p].got
        /\ s.notified = proc[p].notified
    BY <2>1 DEF ProcState
  <2>3. proc' = [proc EXCEPT ![p] = s]
    BY <1>2 DEF Goto
  <2> HIDE DEF s
  <2> QED
    BY <2>2, <2>3, ProcEffect
<1> QED
  BY <1>1, <1>2

\* Two fields are changed at once when something is read or fetched.
Take(p, there, got) == proc' = [proc EXCEPT ![p].at = there, ![p].got = got]

\* A call that returns moves its process, with what it got.
LEMMA TakeEffect ==
  ASSUME proc \in [Procs -> ProcState], NEW p \in Procs, NEW there \in Calls,
         NEW got \in Contents \cup {None}, Take(p, there, got)
  PROVE  /\ proc' \in [Procs -> ProcState]
         /\ \A q \in Procs \ {p} : proc'[q] = proc[q]
         /\ proc'[p].at = there /\ proc'[p].got = got
         /\ proc'[p].goal = proc[p].goal /\ proc'[p].image = proc[p].image
         /\ proc'[p].applied = proc[p].applied
         /\ proc'[p].notified = proc[p].notified
<1> DEFINE s == [proc[p] EXCEPT !.at = there, !.got = got]
<1>1. proc[p] \in ProcState
  OBVIOUS
<1>2. /\ s \in ProcState /\ s.at = there /\ s.got = got
      /\ s.goal = proc[p].goal /\ s.image = proc[p].image
      /\ s.applied = proc[p].applied /\ s.notified = proc[p].notified
  BY <1>1 DEF ProcState
<1>3. proc' = [proc EXCEPT ![p] = s]
  BY DEF Take
<1> HIDE DEF s
<1> QED
  BY <1>2, <1>3, ProcEffect

\* What the stager remembers having staged.
LEMMA StagedEffect ==
  ASSUME proc \in [Procs -> ProcState], NEW p \in Procs,
         proc[p].got \in Versions, Staged(p)
  PROVE  /\ proc' \in [Procs -> ProcState]
         /\ \A q \in Procs \ {p} : proc'[q] = proc[q]
         /\ proc'[p].at \in {"off", "daemon"}
         /\ proc'[p].at = "daemon" => proc'[p].image = proc[p].image
<1>1. CASE Back(p) = "off"
  <2>1. Goto(p, "off")
    BY <1>1 DEF Staged, Exit
  <2> QED
    BY <2>1, GotoEffect DEF Calls
<1>2. CASE Back(p) # "off"
  <2> DEFINE s == [proc[p] EXCEPT !.at = "daemon", !.notified = proc[p].got]
  <2>1. proc[p] \in ProcState /\ Back(p) = "daemon"
    BY <1>2 DEF Back
  <2>2. s \in ProcState /\ s.at = "daemon" /\ s.image = proc[p].image
    BY <2>1 DEF ProcState, Calls
  <2>3. proc' = [proc EXCEPT ![p] = s]
    BY <1>2, <2>1 DEF Staged
  <2> HIDE DEF s
  <2> QED
    BY <2>2, <2>3, ProcEffect
<1> QED
  BY <1>1, <1>2

\* A process begins a boot.
LEMMA StartEffect ==
  ASSUME TypeOK, NEW p \in Procs, Start(p)
  PROVE  /\ proc' \in [Procs -> ProcState]
         /\ \A q \in Procs \ {p} : proc'[q] = proc[q]
         /\ disk["exe"] \in Versions
         /\ proc'[p].image = disk["exe"] /\ proc'[p].applied = FALSE
         /\ proc'[p].at = Entry(proc'[p].goal)
<1> PICK goal \in Goals[p] :
      proc' = [proc EXCEPT ![p] = [Off EXCEPT !.at = Entry(goal), !.goal = goal,
                                              !.image = disk["exe"]]]
  BY DEF Start
<1> DEFINE s == [Off EXCEPT !.at = Entry(goal), !.goal = goal, !.image = disk["exe"]]
<1>1. goal \in {"run", "update", "rollback"} /\ disk["exe"] \in Versions
  BY DEF Start
<1>2. Entry(goal) \in Calls
  BY DEF Entry, Calls
<1>3. /\ s \in ProcState /\ s.at = Entry(goal) /\ s.goal = goal
      /\ s.image = disk["exe"] /\ s.applied = FALSE
  BY <1>1, <1>2 DEF ProcState, Off
<1> HIDE DEF s
<1>4. proc' = [proc EXCEPT ![p] = s]
  BY DEF s
<1> QED
  BY <1>1, <1>3, <1>4, ProcEffect DEF TypeOK

\* A process is replaced by the executable.
LEMMA ReexecEffect ==
  ASSUME TypeOK, NEW p \in Procs, Reexec(p)
  PROVE  /\ proc' \in [Procs -> ProcState]
         /\ \A q \in Procs \ {p} : proc'[q] = proc[q]
         /\ \/ proc'[p] = Off
            \/ /\ disk["exe"] \in Versions
               /\ proc'[p].image = disk["exe"] /\ proc'[p].applied = TRUE
               /\ proc'[p].goal = proc[p].goal
               /\ proc'[p].at = Entry(proc[p].goal)
<1>1. CASE disk["exe"] \in Versions
  <2> DEFINE s == [proc[p] EXCEPT !.at = Entry(proc[p].goal), !.image = disk["exe"],
                                  !.applied = TRUE]
  <2>1. proc[p] \in ProcState /\ Entry(proc[p].goal) \in Calls
    BY DEF TypeOK, Entry, Calls
  <2>2. /\ s \in ProcState /\ s.at = Entry(proc[p].goal) /\ s.goal = proc[p].goal
        /\ s.image = disk["exe"] /\ s.applied = TRUE
    BY <1>1, <2>1 DEF ProcState
  <2>3. proc' = [proc EXCEPT ![p] = s]
    BY <1>1 DEF Reexec
  <2> HIDE DEF s
  <2> QED
    BY <1>1, <2>2, <2>3, ProcEffect DEF TypeOK
<1>2. CASE disk["exe"] \notin Versions
  BY <1>2, ProcEffect, OffState DEF Reexec, Exit, Goto, TypeOK
<1> QED
  BY <1>1, <1>2
-----------------------------------------------------------------------------
(* What one call of the file system does.                                   *)

\* A step of p is a step of nobody else.
Apart(p) == \A q \in Procs \ {p} : proc'[q] = proc[q]

\* A step that only moves p on.
Same(p) ==
  /\ proc'[p].goal = proc[p].goal /\ proc'[p].image = proc[p].image
  /\ proc'[p].applied = proc[p].applied /\ proc'[p].got = proc[p].got

DiskType == disk \in [Paths -> Contents \cup {None}]
Limits   == crashes \in 0 .. MaxCrashes /\ faults \in 0 .. MaxFaults

\* A rename moves a file, or fails, or is done half across filesystems.
LEMMA RenameEffect ==
  ASSUME TypeOK, NEW p \in Procs, NEW from \in Paths, NEW to \in Paths, from # to,
         NEW then \in Calls, NEW otherwise \in Calls,
         Rename(p, from, to, then, otherwise)
  PROVE  /\ proc' \in [Procs -> ProcState] /\ Apart(p)
         /\ proc'[p].at # "off" => Same(p)
         /\ record' = record /\ released' = released /\ crashes' = crashes
         /\ DiskType' /\ Limits'
         /\ \A f \in Paths \ {from, to} : disk'[f] = disk[f]
         /\ \/ /\ proc'[p].at = then /\ disk[from] # None /\ faults' = faults
               /\ disk'[to] = disk[from] /\ disk'[from] = None
            \/ /\ proc'[p].at = otherwise /\ disk' = disk
               /\ disk[from] # None => faults' = faults + 1
               /\ faults' >= faults
<1>1. CASE Works /\ disk[from] # None /\ disk' = Moved(from, to) /\ Goto(p, then)
  <2>1. /\ proc' \in [Procs -> ProcState] /\ Apart(p) /\ proc'[p].at = then
        /\ proc'[p].at # "off" => Same(p)
    BY <1>1, GotoEffect DEF TypeOK, Apart, Same
  <2>2. /\ DiskType' /\ disk'[to] = disk[from] /\ disk'[from] = None
        /\ \A f \in Paths \ {from, to} : disk'[f] = disk[f]
    BY <1>1 DEF TypeOK, DiskType, Moved
  <2> QED
    BY <1>1, <2>1, <2>2 DEF TypeOK, Limits, Works, Rename
<1>2. CASE /\ Fault \/ (Works /\ disk[from] = None)
           /\ UNCHANGED disk /\ Goto(p, otherwise)
  <2>1. /\ proc' \in [Procs -> ProcState] /\ Apart(p) /\ proc'[p].at = otherwise
        /\ proc'[p].at # "off" => Same(p)
    BY <1>2, GotoEffect DEF TypeOK, Apart, Same
  <2> QED
    BY <1>2, <2>1 DEF TypeOK, DiskType, Limits, Works, Fault, Rename
<1> QED
  BY <1>1, <1>2 DEF Rename

\* A removal leaves its file or takes it.
LEMMA RemoveEffect ==
  ASSUME TypeOK, NEW p \in Procs, NEW f \in Paths, NEW then \in Calls,
         Remove(p, f, then)
  PROVE  /\ proc' \in [Procs -> ProcState] /\ Apart(p) /\ proc'[p].at = then
         /\ then # "off" => Same(p)
         /\ record' = record /\ released' = released /\ crashes' = crashes
         /\ DiskType' /\ Limits'
         /\ \A g \in Paths \ {f} : disk'[g] = disk[g]
         /\ \/ disk'[f] = None /\ faults' = faults
            \/ disk'[f] = disk[f] /\ faults' = faults + 1
<1>1. /\ proc' \in [Procs -> ProcState] /\ Apart(p) /\ proc'[p].at = then
      /\ then # "off" => Same(p)
  BY GotoEffect DEF TypeOK, Apart, Same, Remove
<1> QED
  BY <1>1 DEF TypeOK, DiskType, Limits, Works, Fault, Remove

\* Saving the record writes it, or fails.
LEMMA SaveEffect ==
  ASSUME TypeOK, NEW p \in Procs, NEW version, NEW then \in Calls,
         Save(p, version, then)
  PROVE  /\ proc' \in [Procs -> ProcState] /\ Apart(p) /\ proc'[p].at = then
         /\ then # "off" => Same(p)
         /\ disk' = disk /\ released' = released /\ crashes' = crashes
         /\ Limits' /\ record' \in {record, version} /\ faults' >= faults
<1>1. /\ proc' \in [Procs -> ProcState] /\ Apart(p) /\ proc'[p].at = then
      /\ then # "off" => Same(p)
  BY GotoEffect DEF TypeOK, Apart, Same, Save
<1> QED
  BY <1>1 DEF TypeOK, Limits, Works, Fault, Save

\* A step that changes no more than p's own state.
LEMMA GoEffect ==
  ASSUME TypeOK, NEW p \in Procs, NEW there \in Calls, Goto(p, there)
  PROVE  /\ proc' \in [Procs -> ProcState] /\ Apart(p) /\ proc'[p].at = there
         /\ there # "off" => Same(p)
BY GotoEffect DEF TypeOK, Apart, Same

-----------------------------------------------------------------------------
(* Type correctness.                                                        *)

\* Typed holds at first.
LEMMA InitTyped == Init => Typed
<1> SUFFICES ASSUME Init PROVE Typed
  OBVIOUS
<1>1. proc \in [Procs -> ProcState] /\ \A p \in Procs : proc[p].at = "off"
  BY OffState DEF Init
<1> QED
  BY <1>1 DEF Init, Typed, TypeOK, At, Paths, Contents, Versions

\* The calls at which what has been read must be a version.
Reading == {"verify", "download", "fetch", "install", "record", "recording"}

\* Typed is kept by a step of one process that leaves it well typed.
LEMMA TypedFrame ==
  ASSUME Typed, NEW p \in Procs, proc' \in [Procs -> ProcState], Apart(p),
         DiskType', record' \in Versions \cup {None}, Limits', exdev' \in BOOLEAN,
         released' \in Versions,
         proc'[p].at \in Reading => proc'[p].got \in Versions
  PROVE  Typed'
BY DEF Typed, TypeOK, DiskType, Limits, Reading, Apart, At

\* Every call keeps the types, handler by handler.
LEMMA StepTyped ==
  ASSUME Typed, NEW p \in Procs, Steps(p), exdev' = exdev
  PROVE  Typed'
<1>1. /\ TypeOK /\ DiskType /\ Limits /\ record \in Versions \cup {None}
      /\ exdev \in BOOLEAN /\ released \in Versions
      /\ proc \in [Procs -> ProcState]
  BY DEF Typed, TypeOK, DiskType, Limits
<1>2. /\ proc[p].got \in Contents \cup {None}
      /\ proc[p].at \in Reading => proc[p].got \in Versions
  BY <1>1 DEF Typed, TypeOK, ProcState, Reading, At
<1>r. ASSUME NEW from \in Paths, NEW to \in Paths, from # to,
             NEW then \in Calls, NEW otherwise \in Calls \ Reading,
             then \in Reading => proc[p].at \in Reading,
             Rename(p, from, to, then, otherwise)
      PROVE  Typed'
  <2>1. proc'[p].at \in Reading => proc'[p].at # "off" /\ proc[p].at \in Reading
    <3>1. otherwise \in Calls
      BY <1>r
    <3>2. proc'[p].at = then \/ proc'[p].at = otherwise
      BY <1>r, <1>1, <3>1, RenameEffect
    <3> QED
      BY <1>r, <3>2 DEF Reading
  <2>0. otherwise \in Calls
    BY <1>r
  <2>2. proc'[p].at \in Reading => proc'[p].got \in Versions
    BY <2>0, <2>1, <1>r, <1>1, <1>2, RenameEffect DEF Same
  <2>3. record' = record /\ released' = released /\ DiskType' /\ Limits'
        /\ proc' \in [Procs -> ProcState] /\ Apart(p)
    BY <2>0, <1>r, <1>1, RenameEffect
  <2> QED
    BY <1>1, <2>2, <2>3, TypedFrame
<1>v. ASSUME NEW f \in Paths, NEW then \in Calls \ Reading, Remove(p, f, then)
      PROVE  Typed'
  BY <1>v, <1>1, RemoveEffect, TypedFrame
<1>s. ASSUME NEW then \in Calls \ Reading, Save(p, None, then)
      PROVE  Typed'
  BY <1>s, <1>1, SaveEffect, TypedFrame DEF TypeOK, DiskType
<1>g. ASSUME NEW there \in Calls, Goto(p, there),
             there \in Reading => proc[p].at \in Reading,
             DiskType', record' \in Versions \cup {None}, Limits', released' = released
      PROVE  Typed'
  <2>1. /\ proc' \in [Procs -> ProcState] /\ Apart(p) /\ proc'[p].at = there
        /\ there # "off" => Same(p)
    BY <1>g, <1>1, GoEffect
  <2>2. there \in Reading => proc'[p].got \in Versions
    BY <2>1, <1>g, <1>2 DEF Same, Reading
  <2> QED
    BY <1>g, <1>1, <2>1, <2>2, TypedFrame
<1>n. /\ "exe" \in Paths /\ "prev" \in Paths /\ "swap" \in Paths /\ "tmp" \in Paths
      /\ "staged" \in Paths
      /\ "off" \in Calls \ Reading /\ "reexec" \in Calls \ Reading
      /\ "discard" \in Calls \ Reading /\ "aside" \in Calls \ Reading
      /\ "place" \in Calls \ Reading /\ "restore" \in Calls \ Reading
      /\ "drop" \in Calls \ Reading /\ "clear" \in Calls \ Reading
      /\ "unrecord" \in Calls \ Reading /\ "swapout" \in Calls \ Reading
      /\ "swapin" \in Calls \ Reading /\ "unswap" \in Calls \ Reading
      /\ "swapped" \in Calls \ Reading
  BY DEF Paths, Calls, Reading
<1> USE DEF At, Calls, Paths, Reading
<1>3. CASE Reexec(p)
  <2>1. proc'[p].at \notin Reading
    BY <1>3, <1>1, ReexecEffect, OffState DEF Entry
  <2> QED
    BY <1>3, <1>1, <2>1, ReexecEffect, TypedFrame DEF Reexec, Apart, DiskType, Limits
<1>4. CASE Check(p)
  <2>1. CASE At(p, "apply") /\ Load(p)
    <3> DEFINE next == IF proc[p].applied \/ record = None THEN "started"
                       ELSE IF record <= proc[p].image THEN "discard" ELSE "verify"
    <3>1. next \in Calls /\ (next = "verify" => record \in Versions)
          /\ next \in {"started", "discard", "verify"}
      BY <1>1
    <3>2. Take(p, next, record)
      BY <2>1 DEF Load, Take
    <3> HIDE DEF next
    <3>3. /\ proc' \in [Procs -> ProcState] /\ Apart(p)
          /\ proc'[p].at = next /\ proc'[p].got = record
      <4>1. record \in Contents \cup {None}
        BY <1>1 DEF Contents
      <4> QED
        BY <3>1, <3>2, <4>1, <1>1, TakeEffect DEF Apart
    <3> QED
      BY <1>4, <3>1, <3>3, <1>1, TypedFrame DEF Check, DiskType, Limits
  <2>2. CASE At(p, "verify") /\ Goto(p, IF Verified(p) THEN "unlink" ELSE "discard")
    BY <1>4, <2>2, <1>1, <1>g DEF Check, DiskType, Limits
  <2> QED
    BY <1>4, <2>1, <2>2 DEF Check
<1>5. CASE Discard(p)
  BY <1>5, <1>v, <1>s DEF Discard
<1>6. CASE Swap(p)
  <2> HIDE DEF Calls, Paths, Reading
  <2>1. CASE Remove(p, "prev", "aside")
    BY <2>1, <1>v, <1>n
  <2>2. CASE Rename(p, "exe", "prev", "place", "discard")
    BY <2>2, <1>r, <1>n
  <2>3. CASE Rename(p, "staged", "exe", "clear", "restore")
    BY <2>3, <1>r, <1>n
  <2>4. CASE Rename(p, "prev", "exe", "discard", "discard")
    BY <2>4, <1>r, <1>n
  <2> QED
    BY <1>6, <2>1, <2>2, <2>3, <2>4 DEF Swap
<1>7. CASE SwapAcross(p)
  <2>1. CASE Copy(p, "tmp")
    <3>1. CASE At(p, "place") /\ disk["staged"] = None /\ Goto(p, "discard") /\ UNCHANGED disk
               /\ UNCHANGED <<record, released, crashes, faults>>
      BY <3>1, <1>1, <1>g DEF DiskType, Limits
    <3>2. CASE /\ disk' = [disk EXCEPT !["tmp"] = Torn]
               /\ proc' = [proc EXCEPT ![p].at = "copy", ![p].got = disk["staged"]]
               /\ UNCHANGED <<record, released, crashes, faults>>
      <4>1. disk["staged"] \in Contents \cup {None}
        BY <1>1 DEF DiskType
      <4>2. proc' \in [Procs -> ProcState] /\ Apart(p) /\ proc'[p].at = "copy"
        <5>1. Take(p, "copy", disk["staged"])
          BY <3>2 DEF Take
        <5> QED
          BY <5>1, <4>1, <1>1, TakeEffect DEF Apart
      <4> QED
        BY <3>2, <4>2, <1>1, TypedFrame DEF DiskType, Limits, Contents
    <3>3. CASE /\ Works
               /\ disk' = [disk EXCEPT !["tmp"] = IF @ = None THEN None ELSE proc[p].got]
               /\ Goto(p, "move") /\ UNCHANGED <<record, released, crashes>>
      BY <3>3, <1>1, <1>2, <1>g DEF DiskType, Limits, Works
    <3>4. CASE /\ Fault /\ UNCHANGED disk /\ Goto(p, "discard")
               /\ UNCHANGED <<record, released, crashes>>
      BY <3>4, <1>1, <1>g DEF DiskType, Limits, Fault
    <3> QED
      BY <2>1, <3>1, <3>2, <3>3, <3>4 DEF Copy
  <2> HIDE DEF Calls, Paths, Reading
  <2>2. CASE Rename(p, "tmp", "exe", "drop", "discard")
    BY <2>2, <1>r, <1>n
  <2>3. CASE Remove(p, "staged", "clear")
    BY <2>3, <1>v, <1>n
  <2> QED
    BY <1>7, <2>1, <2>2, <2>3 DEF SwapAcross
<1>8. CASE Clear(p)
  BY <1>8, <1>s DEF Clear
<1>9. CASE Boot(p)
  <2>1. Goto(p, "check") \/ Goto(p, "daemon") \/ Goto(p, "off")
    BY <1>9 DEF Boot, Back
  <2> QED
    BY <1>9, <2>1, <1>1, <1>g DEF Boot, DiskType, Limits
<1>10. CASE FetchRelease(p)
  <2>1. CASE Exit(p)
    BY <1>10, <2>1, <1>1, <1>g DEF FetchRelease, Exit, DiskType, Limits
  <2>2. CASE proc' = [proc EXCEPT ![p].at = "download", ![p].got = released]
    <3>1. /\ proc' \in [Procs -> ProcState] /\ Apart(p)
          /\ proc'[p].at = "download" /\ proc'[p].got = released
      <4>1. Take(p, "download", released) /\ released \in Contents \cup {None}
        BY <2>2, <1>1 DEF Take, Contents
      <4> QED
        BY <4>1, <1>1, TakeEffect DEF Apart
    <3> QED
      BY <1>10, <3>1, <1>1, TypedFrame DEF FetchRelease, DiskType, Limits
  <2> QED
    BY <1>10, <2>1, <2>2 DEF FetchRelease
<1>11. CASE Download(p)
  <2>1. CASE /\ At(p, "download") /\ disk' = [disk EXCEPT !["part"] = Torn]
             /\ Goto(p, "fetch") /\ UNCHANGED <<record, released, crashes, faults>>
    BY <2>1, <1>1, <1>g DEF DiskType, Limits, Contents
  <2>2. CASE /\ At(p, "fetch") /\ Works /\ disk' = [disk EXCEPT !["part"] = proc[p].got]
             /\ Goto(p, "install") /\ UNCHANGED <<record, released, crashes>>
    BY <2>2, <1>1, <1>2, <1>g DEF DiskType, Limits, Works
  <2>3. CASE /\ Fault /\ UNCHANGED disk /\ Goto(p, "giveup")
             /\ UNCHANGED <<record, released, crashes>>
    BY <2>3, <1>1, <1>g DEF DiskType, Limits, Fault
  <2>4. CASE Remove(p, "part", Back(p))
    BY <2>4, <1>v DEF Back
  <2> QED
    BY <1>11, <2>1, <2>2, <2>3, <2>4 DEF Download
<1>12. CASE Install(p)
  BY <1>12, <1>r DEF Install
<1>13. CASE Record(p)
  <2>1. CASE /\ At(p, "record") /\ Works /\ record' = None /\ Goto(p, "recording")
             /\ UNCHANGED <<disk, released, crashes>>
    BY <2>1, <1>1, <1>g DEF DiskType, Limits, Works
  <2>2. CASE /\ At(p, "record") \/ At(p, "recording")
             /\ (record' = proc[p].got /\ Works) \/ (UNCHANGED record /\ Fault)
             /\ Staged(p) /\ UNCHANGED <<disk, released, crashes>>
    <3>1. proc[p].got \in Versions
      BY <2>2, <1>2
    <3>2. /\ proc' \in [Procs -> ProcState] /\ Apart(p)
          /\ proc'[p].at \in {"off", "daemon"}
      BY <2>2, <3>1, <1>1, StagedEffect DEF Apart
    <3> QED
      BY <2>2, <3>1, <3>2, <1>1, TypedFrame DEF DiskType, Limits, Works, Fault
  <2> QED
    BY <1>13, <2>1, <2>2 DEF Record
<1>14. CASE Rollback(p)
  <2>1. CASE /\ At(p, "rollback")
             /\ IF disk["prev"] = None THEN Exit(p) ELSE Goto(p, "unstage")
             /\ UNCHANGED <<disk, record, released, crashes, faults>>
    BY <2>1, <1>1, <1>g DEF Exit, DiskType, Limits
  <2> HIDE DEF Calls, Paths, Reading
  <2>2. CASE Remove(p, "staged", "unrecord")
    BY <2>2, <1>v, <1>n
  <2>3. CASE Save(p, None, "swapout")
    BY <2>3, <1>s, <1>n
  <2>4. CASE Rename(p, "exe", "swap", "swapin", "off")
    BY <2>4, <1>r, <1>n
  <2>5. CASE Rename(p, "prev", "exe", "swapped", "unswap")
    BY <2>5, <1>r, <1>n
  <2>6. CASE Rename(p, "swap", "exe", "off", "off")
    BY <2>6, <1>r, <1>n
  <2>7. CASE Rename(p, "swap", "prev", "reexec", "off")
    BY <2>7, <1>r, <1>n
  <2> QED
    BY <1>14, <2>1, <2>2, <2>3, <2>4, <2>5, <2>6, <2>7 DEF Rollback
<1> QED
  BY <1>3, <1>4, <1>5, <1>6, <1>7, <1>8, <1>9, <1>10, <1>11, <1>12, <1>13, <1>14 DEF Steps

\* Typed is inductive.
LEMMA NextTyped == Typed /\ [Next]_vars => Typed'
<1> SUFFICES ASSUME Typed, [Next]_vars PROVE Typed'
  OBVIOUS
<1>0. TypeOK /\ Limits /\ DiskType
  BY DEF Typed, TypeOK, Limits, DiskType
<1>1. ASSUME NEW p \in Procs, Steps(p), exdev' = exdev PROVE Typed'
  BY <1>1, StepTyped
<1>2. ASSUME NEW p \in Procs, Start(p), exdev' = exdev PROVE Typed'
  <2>1. proc'[p].at \notin Reading
    BY <1>2, <1>0, StartEffect DEF Entry, Reading
  <2> QED
    BY <1>2, <1>0, <2>1, StartEffect, TypedFrame
       DEF Start, Apart, Limits, DiskType, TypeOK
<1>3. ASSUME NEW p \in Procs, Stop(p) \/ Crash(p), exdev' = exdev PROVE Typed'
  <2>1. Goto(p, "off") /\ "off" \in Calls /\ "off" \notin Reading
    BY <1>3 DEF Stop, Crash, Exit, Calls, Reading
  <2> QED
    BY <1>3, <1>0, <2>1, GoEffect, TypedFrame
       DEF Stop, Crash, Limits, DiskType, TypeOK
<1>4. ASSUME Release, exdev' = exdev PROVE Typed'
  BY <1>4 DEF Release, Typed, TypeOK, At, Versions
<1>5. CASE UNCHANGED vars
  BY <1>5 DEF vars, Typed, TypeOK, At
<1> QED
  BY <1>1, <1>2, <1>3, <1>4, <1>5 DEF Next

\* Every variable keeps its type, and what a boot is about to apply is a
\* version that ota.json recorded (cli/src/update.rs).
THEOREM TypeCorrect == Spec => []TypeOK
<1>1. Typed => TypeOK
  BY DEF Typed
<1> QED
  BY <1>1, InitTyped, NextTyped, PTL DEF Spec
-----------------------------------------------------------------------------
(* The invariant.  What a process relies on at its next call is disturbed   *)
(* by no other process: two do not boot at a time, and one that stages      *)
(* touches no file of the install directory.                                *)

\* OtaInv holds at first.
LEMMA InitOta == Init => OtaInv
<1> SUFFICES ASSUME Init PROVE OtaInv
  OBVIOUS
<1>1. TypeOK
  BY InitTyped DEF Typed
<1>2. \A p \in Procs : proc[p].at = "off"
  BY OffState DEF Init
<1>3. /\ disk["exe"] \in Versions /\ disk["staged"] = None /\ disk["prev"] = None
      /\ disk["swap"] = None
  BY DEF Init, Paths, Versions
<1> QED
  BY <1>1, <1>2, <1>3 DEF OtaInv, Exclusive, Booting, FilesWhole, ImageKept,
     ImagesInPlace, Forward, Fetched, Recorded, At, Staging

\* Nobody else's part of the invariant is disturbed by a step of a boot.
LEMMA BootStep ==
  ASSUME OtaInv, TypeOK', NEW p \in Procs, Booting(p), Apart(p),
         proc'[p].at \notin Staging \ {"daemon"},
         disk'["part"] = disk["part"], disk'["staged"] \in {disk["staged"], None},
         record' \in {record, None}, released' = released, exdev' = exdev,
         crashes' >= crashes, faults' >= faults,
         FilesWhole', ImageKept', ImagesInPlace(p)', Forward(p)'
  PROVE  OtaInv'
<1>1. Exclusive'
  BY DEF OtaInv, Exclusive, Booting, Apart
<1>2. disk'["staged"] # None => disk'["staged"] <= released'
  BY DEF OtaInv
<1>3. Recorded'
  <2>1. crashes' = 0 /\ faults' = 0 => crashes = 0 /\ faults = 0
    BY DEF OtaInv, TypeOK
  <2>2. proc[p].at # "record"
    BY DEF Booting, Staging
  <2> QED
    BY <2>1, <2>2 DEF OtaInv, Recorded, At, Apart
<1>4. Fetched(p)'
  BY DEF Fetched, Staging, At
<1>5. ASSUME NEW q \in Procs \ {p}
      PROVE  ImagesInPlace(q)' /\ Forward(q)' /\ Fetched(q)'
  <2>1. proc'[q] = proc[q]
    BY DEF Apart
  <2>2. proc[q].at \in {"off"} \cup Staging
    BY DEF OtaInv, Exclusive, Booting
  <2>3. ImagesInPlace(q)'
    BY <2>1, <2>2 DEF ImagesInPlace, Staging, At
  <2>4. Forward(q)'
    BY <2>1, <2>2 DEF OtaInv, Forward, Staging, At
  <2>5. Fetched(q)'
    BY <2>1, <2>2 DEF OtaInv, Fetched, Staging, At
  <2> QED
    BY <2>3, <2>4, <2>5
<1> QED
  BY <1>1, <1>2, <1>3, <1>4, <1>5 DEF OtaInv

\* Nor by a step of a process that stages, or ends.
LEMMA StageStep ==
  ASSUME OtaInv, TypeOK', NEW p \in Procs, Apart(p),
         Booting(p) => proc[p].at = "check", ~Booting(p)',
         proc'[p].at \in Staging \ {"daemon"} => p \in Stagers,
         \A f \in {"exe", "prev", "swap", "tmp"} : disk'[f] = disk[f],
         disk'["staged"] \in Versions \cup {None},
         disk["staged"] # None => disk'["staged"] # None /\ disk'["staged"] >= disk["staged"],
         disk'["staged"] # None => disk'["staged"] <= released,
         disk'["part"] # disk["part"] \/ disk'["staged"] # disk["staged"]
           => proc[p].at \in Staging \ {"daemon"},
         released' = released, exdev' = exdev, faults' >= faults,
         Forward(p)', Fetched(p)', Recorded'
  PROVE  OtaInv'
<1>1. Exclusive'
  BY DEF OtaInv, Exclusive, Booting, Apart
<1>2. FilesWhole' /\ ImageKept'
  BY DEF OtaInv, FilesWhole, ImageKept
<1>3. ImagesInPlace(p)'
  BY DEF ImagesInPlace, Booting, Staging, At
<1>4. ASSUME NEW q \in Procs \ {p}
      PROVE  ImagesInPlace(q)' /\ Forward(q)' /\ Fetched(q)'
  <2>1. proc'[q] = proc[q]
    BY DEF Apart
  <2>2. ImagesInPlace(q) /\ Forward(q) /\ Fetched(q)
    BY DEF OtaInv
  <2>3. /\ released' = released /\ faults \in Nat /\ faults' \in Nat
        /\ proc[q] \in ProcState
    BY DEF OtaInv, TypeOK
  <2>4. ImagesInPlace(q)'
    BY <2>1, <2>2, <2>3 DEF ImagesInPlace, At, Has
  <2>5. Forward(q)'
    <3>1. ASSUME Has("staged"), disk["staged"] >= proc[q].got, proc[q].got \in Versions
          PROVE  Has("staged")' /\ disk'["staged"] >= proc'[q].got
      <4>1. disk["staged"] # None
        BY <3>1 DEF Has, Contents
      <4> QED
        BY <2>1, <3>1, <4>1 DEF Has, Versions
    <3>2. disk'["exe"] = disk["exe"]
      OBVIOUS
    <3> QED
      BY <2>1, <2>2, <3>1, <3>2 DEF Forward, At
  <2>6. Fetched(q)'
    <3>1. CASE disk'["part"] = disk["part"] /\ disk'["staged"] = disk["staged"]
      BY <2>1, <2>2, <3>1 DEF Fetched, At
    <3>2. CASE proc[p].at \in Staging \ {"daemon"}
      <4>1. proc[q].at \notin Staging \ {"daemon"}
        BY <3>2 DEF OtaInv, Exclusive
      <4> QED
        BY <2>1, <4>1 DEF Fetched, Staging, At
    <3> QED
      BY <3>1, <3>2
  <2> QED
    BY <2>4, <2>5, <2>6
<1> QED
  BY <1>1, <1>2, <1>3, <1>4 DEF OtaInv

\* What the invariant says of one process.
LEMMA Mine ==
  ASSUME OtaInv, NEW p \in Procs
  PROVE  /\ TypeOK /\ ImagesInPlace(p) /\ Forward(p) /\ Fetched(p)
         /\ FilesWhole /\ ImageKept /\ proc[p] \in ProcState
         /\ crashes \in Nat /\ faults \in Nat /\ released \in Nat
         /\ \A f \in Paths : disk[f] \in Contents \cup {None}
BY DEF OtaInv, TypeOK, Versions

\* Putting the staged image in place of the executable, on one filesystem.
LEMMA SwapKeeps ==
  ASSUME OtaInv, TypeOK', NEW p \in Procs, Swap(p), exdev' = exdev
  PROVE  OtaInv'
<1>1. /\ TypeOK /\ ImagesInPlace(p) /\ Forward(p) /\ FilesWhole /\ ImageKept
      /\ proc[p] \in ProcState /\ crashes \in Nat /\ faults \in Nat
  BY Mine
<1>2. None \notin Versions
  BY DEF Contents
<1>3. Booting(p) /\ proc[p].at \in {"unlink", "aside", "place", "restore"}
  BY DEF Swap, At, Booting, Staging
<1>4. CASE At(p, "unlink") /\ Remove(p, "prev", "aside")
  <2>1. /\ Apart(p) /\ Same(p) /\ proc'[p].at = "aside"
        /\ record' = record /\ released' = released /\ crashes' = crashes
        /\ \A g \in Paths \ {"prev"} : disk'[g] = disk[g]
        /\ disk'["prev"] \in {None, disk["prev"]}
        /\ faults' >= faults
    BY <1>1, <1>4, RemoveEffect, Names
  <2>2. Has("exe") /\ Has("exe")' /\ Has("staged")'
    BY <1>1, <1>4, <2>1 DEF ImagesInPlace, Forward, Has, Paths, At
  <2>3. FilesWhole' /\ ImageKept'
    BY <1>1, <2>1, <2>2 DEF FilesWhole, ImageKept, Has, Paths
  <2>4. ImagesInPlace(p)'
    BY <2>1, <2>2 DEF ImagesInPlace, At
  <2>5. Forward(p)'
    BY <1>1, <1>4, <2>1, <2>2 DEF Forward, Same, At, Paths
  <2> QED
    BY <1>1, <1>3, <2>1, <2>3, <2>4, <2>5, BootStep DEF Paths, Staging
<1>5. CASE At(p, "aside") /\ Rename(p, "exe", "prev", "place", "discard")
  <2>1. /\ Apart(p) /\ Same(p)
        /\ record' = record /\ released' = released /\ crashes' = crashes
        /\ \A f \in Paths \ {"exe", "prev"} : disk'[f] = disk[f]
        /\ \/ /\ proc'[p].at = "place" /\ faults' = faults
              /\ disk'["prev"] = disk["exe"] /\ disk'["exe"] = None
           \/ /\ proc'[p].at = "discard" /\ disk' = disk
              /\ disk["exe"] # None => faults' = faults + 1
              /\ faults' >= faults
    BY <1>1, <1>5, RenameEffect, Names, SMTT(30)
  <2>2. Has("exe") /\ disk["exe"] # None
    BY <1>1, <1>2, <1>5 DEF ImagesInPlace, Has, At
  <2>3. FilesWhole' /\ ImageKept'
    BY <1>1, <2>1, <2>2 DEF FilesWhole, ImageKept, Has, Paths
  <2>4. ImagesInPlace(p)'
    BY <2>1, <2>2 DEF ImagesInPlace, At, Has
  <2>5. Forward(p)'
    BY <1>1, <1>5, <2>1, <2>2 DEF Forward, Same, At, Paths, Has
  <2> QED
    BY <1>1, <1>3, <2>1, <2>3, <2>4, <2>5, BootStep DEF Paths, Staging
<1>6. CASE At(p, "place") /\ ~exdev /\ Rename(p, "staged", "exe", "clear", "restore")
  <2>1. /\ Apart(p) /\ Same(p)
        /\ record' = record /\ released' = released /\ crashes' = crashes
        /\ \A f \in Paths \ {"exe", "staged"} : disk'[f] = disk[f]
        /\ \/ /\ proc'[p].at = "clear" /\ faults' = faults
              /\ disk'["exe"] = disk["staged"] /\ disk'["staged"] = None
           \/ /\ proc'[p].at = "restore" /\ disk' = disk
              /\ disk["staged"] # None => faults' = faults + 1
              /\ faults' >= faults
    BY <1>1, <1>6, RenameEffect, Names, SMTT(30)
  <2>2. Has("staged") /\ disk["staged"] # None /\ Has("prev") /\ Has("prev")'
    BY <1>1, <1>2, <1>6, <2>1 DEF ImagesInPlace, Forward, Has, At, Paths
  <2>3. FilesWhole' /\ ImageKept'
    BY <1>1, <2>1, <2>2 DEF FilesWhole, ImageKept, Has, Paths
  <2>4. ImagesInPlace(p)'
    BY <1>1, <2>1, <2>2 DEF ImagesInPlace, At, Has
  <2>5. Forward(p)'
    BY <1>1, <1>6, <2>1, <2>2 DEF Forward, Same, At, Paths, Has, Versions
  <2> QED
    BY <1>1, <1>3, <2>1, <2>3, <2>4, <2>5, BootStep DEF Paths, Staging
<1>7. CASE At(p, "restore") /\ Rename(p, "prev", "exe", "discard", "discard")
  <2>1. /\ Apart(p) /\ Same(p) /\ proc'[p].at = "discard"
        /\ record' = record /\ released' = released /\ crashes' = crashes
        /\ \A f \in Paths \ {"exe", "prev"} : disk'[f] = disk[f]
        /\ \/ /\ faults' = faults
              /\ disk'["exe"] = disk["prev"] /\ disk'["prev"] = None
           \/ /\ disk' = disk
              /\ disk["prev"] # None => faults' = faults + 1
              /\ faults' >= faults
    BY <1>1, <1>7, RenameEffect, Names, SMTT(30)
  <2>2. Has("prev") /\ disk["prev"] # None /\ (~exdev => faults > 0)
    BY <1>1, <1>2, <1>7 DEF ImagesInPlace, Has, At
  <2>3. FilesWhole' /\ ImageKept'
    BY <1>1, <2>1, <2>2 DEF FilesWhole, ImageKept, Has, Paths
  <2>4. ImagesInPlace(p)'
    BY <1>1, <2>1, <2>2 DEF ImagesInPlace, At, Has
  <2>5. Forward(p)'
    BY <1>1, <1>7, <2>1, <2>2 DEF Forward, Same, At
  <2> QED
    BY <1>1, <1>3, <2>1, <2>3, <2>4, <2>5, BootStep DEF Paths, Staging
<1> QED
  BY <1>4, <1>5, <1>6, <1>7 DEF Swap

\* Looking at what is staged, and giving it up.
LEMMA CheckKeeps ==
  ASSUME OtaInv, TypeOK', NEW p \in Procs, Check(p), exdev' = exdev
  PROVE  OtaInv'
<1>1. /\ TypeOK /\ ImagesInPlace(p) /\ Forward(p) /\ FilesWhole /\ ImageKept
      /\ proc[p] \in ProcState /\ crashes \in Nat /\ faults \in Nat
  BY Mine
<1>2. None \notin Versions
  BY DEF Contents
<1>3. /\ Booting(p) /\ Has("exe") /\ disk' = disk /\ record' = record
      /\ released' = released /\ crashes' = crashes /\ faults' = faults
  BY <1>1 DEF Check, At, Booting, Staging, ImagesInPlace
<1>4. FilesWhole' /\ ImageKept'
  BY <1>1, <1>3 DEF FilesWhole, ImageKept
<1>5. CASE At(p, "apply") /\ Load(p)
  <2> DEFINE next == IF proc[p].applied \/ record = None THEN "started"
                     ELSE IF record <= proc[p].image THEN "discard" ELSE "verify"
  <2>1. next \in {"started", "discard", "verify"}
    OBVIOUS
  <2>2. next = "verify" => /\ record \in Versions /\ ~(record <= proc[p].image)
                           /\ ~proc[p].applied
    BY <1>1 DEF TypeOK
  <2>3. Take(p, next, record)
    BY <1>5 DEF Load, Take
  <2> HIDE DEF next
  <2>4. next \in Calls /\ record \in Contents \cup {None}
    BY <1>1, <2>1 DEF Calls, TypeOK, Contents
  <2>5. /\ Apart(p) /\ proc'[p].at = next /\ proc'[p].got = record
        /\ proc'[p].goal = proc[p].goal /\ proc'[p].image = proc[p].image
        /\ proc'[p].applied = proc[p].applied
    BY <1>1, <2>3, <2>4, TakeEffect DEF Apart, TypeOK
  <2>6. ImagesInPlace(p)'
    BY <1>3, <2>1, <2>5 DEF ImagesInPlace, At, Has
  <2>7. proc[p].image \in Versions /\ proc[p].goal # "rollback"
    BY <1>1, <1>5 DEF Forward, At
  <2>8. Forward(p)'
    BY <2>1, <2>2, <2>5, <2>7 DEF Forward, At, Versions
  <2> QED
    BY <1>1, <1>3, <1>4, <2>1, <2>5, <2>6, <2>8, BootStep DEF Staging
<1>6. CASE At(p, "verify") /\ Goto(p, IF Verified(p) THEN "unlink" ELSE "discard")
  <2> DEFINE next == IF Verified(p) THEN "unlink" ELSE "discard"
  <2>1. next \in {"unlink", "discard"} /\ (next = "unlink" => disk["staged"] = proc[p].got)
    BY DEF Verified
  <2>2. Goto(p, next)
    BY <1>6
  <2> HIDE DEF next
  <2>3. Apart(p) /\ Same(p) /\ proc'[p].at = next
    BY <1>1, <2>1, <2>2, GoEffect, Names
  <2>4. ImagesInPlace(p)'
    BY <1>3, <2>1, <2>3 DEF ImagesInPlace, At, Has
  <2>5. Forward(p)'
    BY <1>1, <1>3, <1>6, <2>1, <2>3 DEF Forward, At, Same, Has, Versions
  <2> QED
    BY <1>1, <1>3, <1>4, <2>1, <2>3, <2>4, <2>5, BootStep DEF Staging
<1> QED
  BY <1>5, <1>6 DEF Check

\* Discarding the staged file touches no image that runs.
LEMMA DiscardKeeps ==
  ASSUME OtaInv, TypeOK', NEW p \in Procs, Discard(p), exdev' = exdev
  PROVE  OtaInv'
<1>1. /\ TypeOK /\ ImagesInPlace(p) /\ Forward(p) /\ FilesWhole /\ ImageKept
      /\ proc[p] \in ProcState /\ crashes \in Nat /\ faults \in Nat
  BY Mine
<1>2. Booting(p) /\ proc[p].at \in {"discard", "forget"}
  BY DEF Discard, At, Booting, Staging
<1>3. /\ Apart(p) /\ Same(p) /\ proc'[p].at \in {"forget", "started"}
      /\ record' \in {record, None} /\ released' = released /\ crashes' = crashes
      /\ \A g \in Paths \ {"staged"} : disk'[g] = disk[g]
      /\ disk'["staged"] \in {None, disk["staged"]} /\ faults' >= faults
  <2>1. CASE Remove(p, "staged", "forget")
    BY <1>1, <2>1, RemoveEffect, Names
  <2>2. CASE Save(p, None, "started")
    BY <1>1, <2>2, SaveEffect, Names
  <2> QED
    BY <2>1, <2>2 DEF Discard
<1>4. FilesWhole' /\ ImageKept'
  BY <1>1, <1>3 DEF FilesWhole, ImageKept, Paths
<1>5. faults' \in Nat
  BY DEF TypeOK
<1>6. ImagesInPlace(p)'
  BY <1>1, <1>2, <1>3, <1>5 DEF ImagesInPlace, At, Has, Paths
<1>7. Forward(p)'
  BY <1>1, <1>2, <1>3 DEF Forward, At, Same
<1> QED
  BY <1>1, <1>2, <1>3, <1>4, <1>6, <1>7, BootStep DEF Paths, Staging

\* Putting the staged image in place across filesystems.
LEMMA SwapAcrossKeeps ==
  ASSUME OtaInv, TypeOK', NEW p \in Procs, SwapAcross(p), exdev' = exdev
  PROVE  OtaInv'
<1>1. /\ TypeOK /\ ImagesInPlace(p) /\ Forward(p) /\ FilesWhole /\ ImageKept
      /\ proc[p] \in ProcState /\ crashes \in Nat /\ faults \in Nat
  BY Mine
<1>2. None \notin Versions /\ Torn # None
  BY DEF Contents
<1>3. /\ Booting(p) /\ proc[p].at \in {"place", "copy", "move", "drop"}
      /\ exdev
  BY <1>1 DEF SwapAcross, Copy, At, Booting, Staging, ImagesInPlace
<1>4. Has("prev")
  BY <1>1, <1>3 DEF ImagesInPlace
<1>f. ASSUME NEW f \in {"tmp", "exe", "staged"}, \A g \in Paths \ {f, "tmp"} : disk'[g] = disk[g],
             f \in {"exe", "staged"} => disk'[f] \in Versions \cup {None}
      PROVE  FilesWhole' /\ ImageKept' /\ Has("prev")'
  BY <1>1, <1>4, <1>f DEF FilesWhole, ImageKept, Has, Paths
<1>5. CASE /\ At(p, "place") /\ disk["staged"] = None /\ Goto(p, "discard")
           /\ UNCHANGED <<disk, record, released, crashes, faults>>
  <2>1. Apart(p) /\ Same(p) /\ proc'[p].at = "discard"
    BY <1>1, <1>5, GoEffect, Names
  <2>2. FilesWhole' /\ ImageKept'
    BY <1>1, <1>5 DEF FilesWhole, ImageKept
  <2>3. ImagesInPlace(p)' /\ Forward(p)'
    BY <1>1, <1>3, <1>5, <2>1 DEF ImagesInPlace, Forward, Same, At
  <2> QED
    BY <1>1, <1>3, <1>5, <2>1, <2>2, <2>3, BootStep DEF Staging
<1>6. CASE /\ At(p, "place") /\ disk' = [disk EXCEPT !["tmp"] = Torn]
           /\ proc' = [proc EXCEPT ![p].at = "copy", ![p].got = disk["staged"]]
           /\ UNCHANGED <<record, released, crashes, faults>>
  <2>1. Take(p, "copy", disk["staged"]) /\ disk["staged"] \in Contents \cup {None}
    BY <1>1, <1>6 DEF Take, TypeOK, Paths
  <2>2. /\ Apart(p) /\ proc'[p].at = "copy" /\ proc'[p].got = disk["staged"]
        /\ proc'[p].goal = proc[p].goal /\ proc'[p].image = proc[p].image
        /\ proc'[p].applied = proc[p].applied
    BY <1>1, <2>1, TakeEffect, Names DEF Apart, TypeOK
  <2>3. disk'["tmp"] = Torn /\ \A g \in Paths \ {"tmp"} : disk'[g] = disk[g]
    BY <1>1, <1>6 DEF TypeOK, Paths
  <2>4. FilesWhole' /\ ImageKept' /\ Has("prev")'
    BY <1>f, <2>3
  <2>5. ImagesInPlace(p)'
    BY <1>2, <1>3, <2>2, <2>3, <2>4 DEF ImagesInPlace, At
  <2>6. Forward(p)'
    <3>1. /\ proc[p].image \in Versions /\ proc[p].got \in Versions
          /\ proc[p].got > proc[p].image /\ ~proc[p].applied /\ proc[p].goal # "rollback"
          /\ disk["staged"] \in Versions /\ disk["staged"] >= proc[p].got
      BY <1>1, <1>6 DEF Forward, At, Has
    <3>2. disk["staged"] > proc[p].image
      BY <3>1 DEF Versions
    <3> QED
      BY <2>2, <3>1, <3>2 DEF Forward, At
  <2>7. /\ record' = record /\ released' = released /\ crashes' = crashes
        /\ faults' = faults
    BY <1>6
  <2> QED
    BY <1>1, <1>3, <2>2, <2>3, <2>4, <2>5, <2>6, <2>7, BootStep DEF Staging, Paths
<1>7. CASE /\ At(p, "copy") /\ Works
           /\ disk' = [disk EXCEPT !["tmp"] = IF @ = None THEN None ELSE proc[p].got]
           /\ Goto(p, "move") /\ UNCHANGED <<record, released, crashes>>
  <2>1. Apart(p) /\ Same(p) /\ proc'[p].at = "move"
    BY <1>1, <1>7, GoEffect, Names
  <2>2. disk'["tmp"] = proc[p].got /\ \A g \in Paths \ {"tmp"} : disk'[g] = disk[g]
    BY <1>1, <1>7 DEF TypeOK, Paths, ImagesInPlace
  <2>3. FilesWhole' /\ ImageKept' /\ Has("prev")'
    BY <1>f, <2>2
  <2>4. ImagesInPlace(p)' /\ Forward(p)'
    BY <1>1, <1>3, <1>7, <2>1, <2>2, <2>3 DEF ImagesInPlace, Forward, Same, At
  <2> QED
    BY <1>1, <1>3, <1>7, <2>1, <2>2, <2>3, <2>4, BootStep DEF Staging, Paths, Works
<1>8. CASE /\ At(p, "copy") /\ Fault /\ UNCHANGED disk /\ Goto(p, "discard")
           /\ UNCHANGED <<record, released, crashes>>
  <2>1. Apart(p) /\ Same(p) /\ proc'[p].at = "discard" /\ faults' >= faults
    BY <1>1, <1>8, GoEffect, Names DEF Fault
  <2>2. FilesWhole' /\ ImageKept'
    BY <1>1, <1>8 DEF FilesWhole, ImageKept
  <2>3. ImagesInPlace(p)' /\ Forward(p)'
    BY <1>1, <1>3, <1>8, <2>1 DEF ImagesInPlace, Forward, Same, At
  <2> QED
    BY <1>1, <1>3, <1>8, <2>1, <2>2, <2>3, BootStep DEF Staging
<1>9. CASE At(p, "move") /\ Rename(p, "tmp", "exe", "drop", "discard")
  <2>1. /\ Apart(p) /\ Same(p) /\ faults' >= faults
        /\ record' = record /\ released' = released /\ crashes' = crashes
        /\ \A f \in Paths \ {"tmp", "exe"} : disk'[f] = disk[f]
        /\ \/ proc'[p].at = "drop" /\ disk'["exe"] = disk["tmp"]
           \/ proc'[p].at = "discard" /\ disk' = disk
    BY <1>1, <1>9, RenameEffect, Names, SMTT(30)
  <2>2. /\ disk["tmp"] = proc[p].got /\ proc[p].got \in Versions
        /\ proc[p].got > proc[p].image /\ ~proc[p].applied
        /\ disk["exe"] \in Versions \cup {None}
    BY <1>1, <1>9 DEF ImagesInPlace, Forward, FilesWhole, At
  <2>3. FilesWhole' /\ ImageKept' /\ Has("prev")'
    BY <1>f, <2>1, <2>2
  <2>4. ImagesInPlace(p)'
    BY <1>3, <2>1, <2>2, <2>3 DEF ImagesInPlace, At, Has
  <2>5. Forward(p)'
    BY <1>1, <1>9, <2>1, <2>2 DEF Forward, Same, At
  <2> QED
    BY <1>1, <1>3, <2>1, <2>3, <2>4, <2>5, BootStep DEF Staging, Paths
<1>10. CASE At(p, "drop") /\ Remove(p, "staged", "clear")
  <2>1. /\ Apart(p) /\ Same(p) /\ proc'[p].at = "clear" /\ faults' >= faults
        /\ record' = record /\ released' = released /\ crashes' = crashes
        /\ \A f \in Paths \ {"staged"} : disk'[f] = disk[f]
        /\ disk'["staged"] \in {None, disk["staged"]}
    BY <1>1, <1>10, RemoveEffect, Names
  <2>2. disk'["staged"] \in Versions \cup {None}
    BY <1>1, <2>1 DEF FilesWhole
  <2>3. FilesWhole' /\ ImageKept' /\ Has("prev")'
    BY <1>f, <2>1, <2>2
  <2>4. ImagesInPlace(p)'
    BY <1>1, <1>3, <1>10, <2>1, <2>3 DEF ImagesInPlace, At, Has, Paths
  <2>5. Forward(p)'
    BY <1>1, <1>10, <2>1 DEF Forward, Same, At, Paths
  <2> QED
    BY <1>1, <1>3, <2>1, <2>3, <2>4, <2>5, BootStep DEF Staging, Paths
<1> QED
  BY <1>3, <1>5, <1>6, <1>7, <1>8, <1>9, <1>10 DEF SwapAcross, Copy

\* Clearing the record at the end of a boot touches no file.
LEMMA ClearKeeps ==
  ASSUME OtaInv, TypeOK', NEW p \in Procs, Clear(p), exdev' = exdev
  PROVE  OtaInv'
<1>1. /\ TypeOK /\ ImagesInPlace(p) /\ Forward(p) /\ FilesWhole /\ ImageKept
      /\ proc[p] \in ProcState /\ crashes \in Nat /\ faults \in Nat
  BY Mine
<1>2. /\ Apart(p) /\ Same(p) /\ proc'[p].at = "reexec"
      /\ record' \in {record, None} /\ released' = released /\ crashes' = crashes
      /\ disk' = disk /\ faults' >= faults
  BY <1>1, SaveEffect, Names DEF Clear
<1>3. Booting(p) /\ At(p, "clear")
  BY DEF Clear, At, Booting, Staging
<1>4. FilesWhole' /\ ImageKept'
  BY <1>1, <1>2 DEF FilesWhole, ImageKept
<1>5. ImagesInPlace(p)' /\ Forward(p)'
  BY <1>1, <1>2, <1>3 DEF ImagesInPlace, Forward, Same, At, Has
<1> QED
  BY <1>1, <1>2, <1>3, <1>4, <1>5, BootStep DEF Staging

\* An executable that was swapped in is newer than the image that swapped it.
LEMMA ReexecKeeps ==
  ASSUME OtaInv, TypeOK', NEW p \in Procs, Reexec(p), exdev' = exdev
  PROVE  OtaInv'
<1>1. /\ TypeOK /\ ImagesInPlace(p) /\ Forward(p) /\ FilesWhole /\ ImageKept
      /\ proc[p] \in ProcState /\ crashes \in Nat /\ faults \in Nat
  BY Mine
<1>2. /\ Apart(p)
      /\ \/ proc'[p].at = "off"
         \/ /\ disk["exe"] \in Versions /\ proc'[p].image = disk["exe"]
            /\ proc'[p].at = Entry(proc'[p].goal)
  BY <1>1, ReexecEffect, OffState DEF Apart
<1>3. /\ Booting(p) /\ Has("exe") /\ disk' = disk /\ record' = record
      /\ released' = released /\ crashes' = crashes /\ faults' = faults
  BY <1>1 DEF Reexec, At, Booting, Staging, ImagesInPlace
<1>4. FilesWhole' /\ ImageKept'
  BY <1>1, <1>3 DEF FilesWhole, ImageKept
<1>5. ImagesInPlace(p)' /\ Forward(p)'
  BY <1>2, <1>3 DEF ImagesInPlace, Forward, Entry, At, Has
<1>6. proc'[p].at \notin Staging \ {"daemon"}
  BY <1>2 DEF Staging, Entry
<1> QED
  BY <1>1, <1>2, <1>3, <1>4, <1>5, <1>6, BootStep

\* A boot looks at the staged file, and changes none.
LEMMA BootKeeps ==
  ASSUME OtaInv, TypeOK', NEW p \in Procs, Boot(p), exdev' = exdev
  PROVE  OtaInv'
<1>1. /\ TypeOK /\ Forward(p) /\ FilesWhole /\ ImageKept
      /\ crashes \in Nat /\ faults \in Nat
  BY Mine
<1>2. Goto(p, "check") \/ Goto(p, "daemon") \/ Goto(p, "off")
  BY DEF Boot, Back
<1>3. /\ Apart(p) /\ proc'[p].at \in {"check", "daemon", "off"}
      /\ proc'[p].at # "off" => Same(p)
  BY <1>1, <1>2, GoEffect, Names
<1>4. /\ Booting(p) /\ At(p, "started") /\ disk' = disk /\ record' = record
      /\ released' = released /\ crashes' = crashes /\ faults' = faults
  BY DEF Boot, At, Booting, Staging
<1>5. FilesWhole' /\ ImageKept'
  BY <1>1, <1>4 DEF FilesWhole, ImageKept
<1>6. ImagesInPlace(p)' /\ Forward(p)'
  BY <1>1, <1>3, <1>4 DEF ImagesInPlace, Forward, Same, At
<1> QED
  BY <1>1, <1>3, <1>4, <1>5, <1>6, BootStep DEF Staging

\* Going back to .prev: swap_back parks the running image in between.
LEMMA RollbackKeeps ==
  ASSUME OtaInv, TypeOK', NEW p \in Procs, Rollback(p), exdev' = exdev
  PROVE  OtaInv'
<1>1. /\ TypeOK /\ ImagesInPlace(p) /\ Forward(p) /\ FilesWhole /\ ImageKept
      /\ proc[p] \in ProcState /\ crashes \in Nat /\ faults \in Nat
  BY Mine
<1>2. None \notin Versions
  BY DEF Contents
<1>3. Booting(p) /\ proc[p].at \in {"rollback", "unstage", "unrecord", "swapout",
                                     "swapin", "unswap", "swapped"}
  BY DEF Rollback, At, Booting, Staging
<1>4. CASE /\ At(p, "rollback")
           /\ IF disk["prev"] = None THEN Exit(p) ELSE Goto(p, "unstage")
           /\ UNCHANGED <<disk, record, released, crashes, faults>>
  <2>1. /\ Apart(p) /\ proc'[p].at \in {"off", "unstage"}
        /\ proc'[p].at = "unstage" => Same(p) /\ disk["prev"] # None
    BY <1>1, <1>4, GoEffect, Names DEF Exit
  <2>2. FilesWhole' /\ ImageKept'
    BY <1>1, <1>4 DEF FilesWhole, ImageKept
  <2>3. ImagesInPlace(p)' /\ Forward(p)'
    BY <1>1, <1>4, <2>1 DEF ImagesInPlace, Forward, FilesWhole, Same, At, Has
  <2>4. /\ disk' = disk /\ record' = record /\ released' = released
        /\ crashes' = crashes /\ faults' = faults
    BY <1>4
  <2> QED
    BY <1>1, <1>3, <2>1, <2>2, <2>3, <2>4, BootStep DEF Staging
<1>5. CASE \/ At(p, "unstage") /\ Remove(p, "staged", "unrecord")
           \/ At(p, "unrecord") /\ Save(p, None, "swapout")
  <2>1. /\ Apart(p) /\ Same(p) /\ proc'[p].at \in {"unrecord", "swapout"}
        /\ record' \in {record, None} /\ released' = released /\ crashes' = crashes
        /\ \A g \in Paths \ {"staged"} : disk'[g] = disk[g]
        /\ disk'["staged"] \in {None, disk["staged"]} /\ faults' >= faults
    <3>1. CASE Remove(p, "staged", "unrecord")
      BY <1>1, <3>1, RemoveEffect, Names
    <3>2. CASE Save(p, None, "swapout")
      BY <1>1, <3>2, SaveEffect, Names
    <3> QED
      BY <1>5, <3>1, <3>2
  <2>2. FilesWhole' /\ ImageKept'
    BY <1>1, <2>1 DEF FilesWhole, ImageKept, Paths
  <2>3. ImagesInPlace(p)' /\ Forward(p)'
    BY <1>1, <1>5, <2>1 DEF ImagesInPlace, Forward, Same, At, Has, Paths
  <2> QED
    BY <1>1, <1>3, <2>1, <2>2, <2>3, BootStep DEF Staging, Paths
<1>6. CASE At(p, "swapout") /\ Rename(p, "exe", "swap", "swapin", "off")
  <2>1. /\ Apart(p) /\ (proc'[p].at # "off" => Same(p)) /\ faults' >= faults
        /\ record' = record /\ released' = released /\ crashes' = crashes
        /\ \A f \in Paths \ {"exe", "swap"} : disk'[f] = disk[f]
        /\ \/ proc'[p].at = "swapin" /\ disk'["swap"] = disk["exe"] /\ disk'["exe"] = None
           \/ proc'[p].at = "off" /\ disk' = disk
    BY <1>1, <1>6, RenameEffect, Names, SMTT(30)
  <2>2. Has("exe") /\ Has("prev")
    BY <1>1, <1>6 DEF ImagesInPlace, At
  <2>3. FilesWhole' /\ ImageKept'
    BY <1>1, <2>1, <2>2 DEF FilesWhole, ImageKept, Has, Paths
  <2>4. ImagesInPlace(p)' /\ Forward(p)'
    BY <1>1, <1>6, <2>1, <2>2 DEF ImagesInPlace, Forward, Same, At, Has, Paths
  <2> QED
    BY <1>1, <1>3, <2>1, <2>3, <2>4, BootStep DEF Staging, Paths
<1>7. CASE At(p, "swapin") /\ Rename(p, "prev", "exe", "swapped", "unswap")
  <2>1. /\ Apart(p) /\ (proc'[p].at # "off" => Same(p)) /\ faults' >= faults
        /\ record' = record /\ released' = released /\ crashes' = crashes
        /\ \A f \in Paths \ {"exe", "prev"} : disk'[f] = disk[f]
        /\ \/ proc'[p].at = "swapped" /\ disk'["exe"] = disk["prev"] /\ disk'["prev"] = None
           \/ proc'[p].at = "unswap" /\ disk' = disk
    BY <1>1, <1>7, RenameEffect, Names, SMTT(30)
  <2>2. /\ Has("swap") /\ Has("prev") /\ proc[p].image \in Versions
        /\ proc[p].goal = "rollback"
    BY <1>1, <1>7 DEF ImagesInPlace, Forward, At
  <2>3. FilesWhole' /\ ImageKept'
    BY <1>1, <2>1, <2>2 DEF FilesWhole, ImageKept, Has, Paths
  <2>4. ImagesInPlace(p)' /\ Forward(p)'
    BY <2>1, <2>2 DEF ImagesInPlace, Forward, Same, At, Has, Paths
  <2> QED
    BY <1>1, <1>3, <2>1, <2>3, <2>4, BootStep DEF Staging, Paths
<1>8. CASE At(p, "unswap") /\ Rename(p, "swap", "exe", "off", "off")
  <2>1. /\ Apart(p) /\ proc'[p].at = "off" /\ faults' >= faults
        /\ record' = record /\ released' = released /\ crashes' = crashes
        /\ \A f \in Paths \ {"exe", "swap"} : disk'[f] = disk[f]
        /\ \/ disk'["exe"] = disk["swap"] /\ disk'["swap"] = None
           \/ disk' = disk
    BY <1>1, <1>8, RenameEffect, Names, SMTT(30)
  <2>2. Has("swap")
    BY <1>1, <1>8 DEF ImagesInPlace, At
  <2>3. FilesWhole' /\ ImageKept'
    BY <1>1, <2>1, <2>2 DEF FilesWhole, ImageKept, Has, Paths
  <2>4. ImagesInPlace(p)' /\ Forward(p)'
    BY <2>1 DEF ImagesInPlace, Forward, At
  <2> QED
    BY <1>1, <1>3, <2>1, <2>3, <2>4, BootStep DEF Staging, Paths
<1>9. CASE At(p, "swapped") /\ Rename(p, "swap", "prev", "reexec", "off")
  <2>1. /\ Apart(p) /\ (proc'[p].at # "off" => Same(p)) /\ faults' >= faults
        /\ record' = record /\ released' = released /\ crashes' = crashes
        /\ \A f \in Paths \ {"swap", "prev"} : disk'[f] = disk[f]
        /\ \/ proc'[p].at = "reexec" /\ disk'["prev"] = disk["swap"] /\ disk'["swap"] = None
           \/ proc'[p].at = "off" /\ disk' = disk
    BY <1>1, <1>9, RenameEffect, Names, SMTT(30)
  <2>2. Has("exe") /\ Has("swap")
    BY <1>1, <1>9 DEF ImagesInPlace, At
  <2>3. FilesWhole' /\ ImageKept'
    BY <1>1, <2>1, <2>2 DEF FilesWhole, ImageKept, Has, Paths
  <2>4. ImagesInPlace(p)' /\ Forward(p)'
    BY <1>1, <1>9, <2>1, <2>2 DEF ImagesInPlace, Forward, Same, At, Has, Paths
  <2> QED
    BY <1>1, <1>3, <2>1, <2>3, <2>4, BootStep DEF Staging, Paths
<1> QED
  BY <1>4, <1>5, <1>6, <1>7, <1>8, <1>9 DEF Rollback

-----------------------------------------------------------------------------
(* What a stager does, and starting and ending.                             *)

\* A step that leaves the staged file and its record alone.
LEMMA RecordedStays ==
  ASSUME OtaInv, TypeOK', NEW p \in Procs, Apart(p),
         At(p, "record") => At(p, "record")' \/ crashes' > 0,
         disk'["staged"] = disk["staged"], record' = record,
         crashes' >= crashes, faults' >= faults
  PROVE  Recorded'
<1>1. crashes' = 0 /\ faults' = 0 => crashes = 0 /\ faults = 0
  BY DEF OtaInv, TypeOK
<1>2. \A q \in Procs : At(q, "record") => At(q, "record")' \/ crashes' > 0
  BY DEF Apart, At
<1> QED
  BY <1>1, <1>2 DEF OtaInv, Recorded

\* Asking for the release changes no file.
LEMMA FetchReleaseKeeps ==
  ASSUME OtaInv, TypeOK', NEW p \in Procs, FetchRelease(p), exdev' = exdev
  PROVE  OtaInv'
<1>1. /\ TypeOK /\ Forward(p) /\ FilesWhole /\ proc[p] \in ProcState
      /\ crashes \in Nat /\ faults \in Nat
  BY Mine
<1>2. /\ p \in Stagers /\ proc[p].at \in {"daemon", "check"} /\ disk' = disk
      /\ record' = record /\ released' = released /\ crashes' = crashes /\ faults' = faults
  BY DEF FetchRelease, At
<1>3. /\ Apart(p) /\ proc'[p].at \in {"off", "download"}
      /\ proc'[p].at = "download" => proc'[p].got = released /\ proc'[p].image = proc[p].image
  <2>1. CASE Exit(p)
    BY <1>1, <2>1, GoEffect, Names DEF Exit
  <2>2. CASE proc' = [proc EXCEPT ![p].at = "download", ![p].got = released]
    <3>1. Take(p, "download", released) /\ released \in Contents \cup {None}
      BY <1>1, <2>2 DEF Take, Contents, TypeOK
    <3> QED
      BY <1>1, <3>1, TakeEffect, Names DEF Apart, TypeOK
  <2> QED
    BY <2>1, <2>2 DEF FetchRelease
<1>4. Recorded'
  BY <1>1, <1>2, <1>3, RecordedStays DEF At
<1>5. Forward(p)' /\ Fetched(p)'
  BY <1>1, <1>2, <1>3 DEF Forward, Fetched, At, OtaInv, TypeOK, Versions
<1>6. disk["staged"] # None => disk["staged"] <= released /\ disk["staged"] \in Nat
  BY <1>1 DEF OtaInv, FilesWhole, Versions
<1> QED
  BY <1>1, <1>2, <1>3, <1>4, <1>5, <1>6, StageStep DEF Booting, Staging, FilesWhole

\* A download writes the part file.
LEMMA DownloadKeeps ==
  ASSUME OtaInv, TypeOK', NEW p \in Procs, Download(p), exdev' = exdev
  PROVE  OtaInv'
<1>1. /\ TypeOK /\ Forward(p) /\ Fetched(p) /\ FilesWhole /\ proc[p] \in ProcState
      /\ crashes \in Nat /\ faults \in Nat
  BY Mine
<1>2. proc[p].at \in {"download", "fetch", "giveup"} /\ ~Booting(p)
  BY DEF Download, At, Booting, Staging
<1>3. p \in Stagers
  BY <1>2 DEF OtaInv, Exclusive, Staging
<1>4. /\ Apart(p) /\ released' = released /\ record' = record /\ crashes' = crashes
      /\ faults' >= faults /\ \A f \in Paths \ {"part"} : disk'[f] = disk[f]
      /\ \/ proc'[p].at = "fetch" /\ At(p, "download") /\ Same(p)
         \/ proc'[p].at = "install" /\ At(p, "fetch") /\ Same(p) /\ disk'["part"] = proc[p].got
         \/ proc'[p].at = "giveup" /\ Same(p)
         \/ proc'[p].at = "daemon" /\ Same(p)
         \/ proc'[p].at = "off"
  <2>1. CASE /\ At(p, "download") /\ disk' = [disk EXCEPT !["part"] = Torn]
             /\ Goto(p, "fetch") /\ UNCHANGED <<record, released, crashes, faults>>
    BY <1>1, <2>1, GoEffect, Names DEF TypeOK
  <2>2. CASE /\ At(p, "fetch") /\ Works /\ disk' = [disk EXCEPT !["part"] = proc[p].got]
             /\ Goto(p, "install") /\ UNCHANGED <<record, released, crashes>>
    BY <1>1, <2>2, GoEffect, Names DEF TypeOK, Works
  <2>3. CASE /\ Fault /\ UNCHANGED disk /\ Goto(p, "giveup")
             /\ UNCHANGED <<record, released, crashes>>
    BY <1>1, <2>3, GoEffect, Names DEF TypeOK, Fault
  <2>4. CASE Remove(p, "part", Back(p))
    <3>1. Back(p) \in {"daemon", "off"}
      BY DEF Back
    <3>2. Back(p) \in Calls
      BY <3>1, Names
    <3> QED
      BY <1>1, <2>4, <3>1, <3>2, RemoveEffect, Names
  <2> QED
    BY <2>1, <2>2, <2>3, <2>4 DEF Download
<1>5. Recorded'
  BY <1>1, <1>2, <1>4, RecordedStays DEF At, Paths
<1>6. Forward(p)'
  BY <1>1, <1>2, <1>4 DEF Forward, Same, At
<1>7. Fetched(p)'
  BY <1>1, <1>2, <1>4 DEF Fetched, Same, At, Paths
<1>8. disk["staged"] # None => disk["staged"] <= released /\ disk["staged"] \in Nat
  BY <1>1 DEF OtaInv, FilesWhole, Versions
<1>9. \A f \in {"exe", "prev", "swap", "tmp", "staged"} : disk'[f] = disk[f]
  BY <1>4 DEF Paths
<1>10. ~Booting(p)' /\ (disk["staged"] \in Versions \cup {None})
  BY <1>1, <1>4 DEF Booting, Staging, FilesWhole
<1> QED
  BY <1>1, <1>2, <1>3, <1>4, <1>5, <1>6, <1>7, <1>8, <1>9, <1>10, StageStep DEF Staging

\* The staged file is replaced by a release that is no older.
LEMMA InstallKeeps ==
  ASSUME OtaInv, TypeOK', NEW p \in Procs, Install(p), exdev' = exdev
  PROVE  OtaInv'
<1>1. /\ TypeOK /\ Forward(p) /\ Fetched(p) /\ FilesWhole /\ proc[p] \in ProcState
      /\ crashes \in Nat /\ faults \in Nat
  BY Mine
<1>2. At(p, "install") /\ ~Booting(p)
  BY DEF Install, At, Booting, Staging
<1>3. p \in Stagers
  BY <1>2 DEF OtaInv, Exclusive, Staging, At
<1>4. /\ proc[p].got \in Versions /\ proc[p].got <= released /\ disk["part"] = proc[p].got
      /\ disk["staged"] # None => disk["staged"] <= proc[p].got
      /\ disk["staged"] \in Versions \cup {None} /\ None \notin Versions
  BY <1>1, <1>2 DEF Fetched, FilesWhole, At, Contents
<1>5. /\ Apart(p) /\ Same(p) /\ faults' >= faults
      /\ record' = record /\ released' = released /\ crashes' = crashes
      /\ \A f \in Paths \ {"part", "staged"} : disk'[f] = disk[f]
      /\ \/ proc'[p].at = "record" /\ disk'["staged"] = disk["part"]
         \/ proc'[p].at = "giveup" /\ disk' = disk
  BY <1>1, RenameEffect, Names DEF Install
<1>6. CASE proc'[p].at = "record"
  <2>1. Recorded' /\ Forward(p)' /\ Fetched(p)'
    BY <1>1, <1>2, <1>4, <1>5, <1>6 DEF Recorded, Forward, Fetched, Same, At
  <2>2. /\ disk'["staged"] \in Versions
        /\ disk["staged"] # None => disk'["staged"] # None /\ disk'["staged"] >= disk["staged"]
        /\ disk'["staged"] <= released
    BY <1>4, <1>5, <1>6 DEF Versions
  <2>3. \A f \in {"exe", "prev", "swap", "tmp"} : disk'[f] = disk[f]
    BY <1>5 DEF Paths
  <2>4. ~Booting(p)' /\ proc[p].at \in Staging \ {"daemon"}
    BY <1>2, <1>6 DEF Booting, Staging, At
  <2> QED
    BY <1>1, <1>2, <1>3, <1>5, <2>1, <2>2, <2>3, <2>4, StageStep
<1>7. CASE proc'[p].at = "giveup"
  <2>1. disk' = disk
    BY <1>5, <1>7
  <2>2. Recorded'
    BY <1>1, <1>2, <1>5, <2>1, RecordedStays DEF At
  <2>3. Forward(p)' /\ Fetched(p)'
    BY <1>1, <1>2, <1>5, <1>7 DEF Forward, Fetched, Same, At
  <2>4. ~Booting(p)'
    BY <1>7 DEF Booting, Staging
  <2>5. disk["staged"] # None => disk["staged"] <= released /\ disk["staged"] \in Nat
    BY <1>4 DEF OtaInv, Versions
  <2> QED
    BY <1>1, <1>2, <1>3, <1>4, <1>5, <2>1, <2>2, <2>3, <2>4, <2>5, StageStep
<1> QED
  BY <1>5, <1>6, <1>7

\* The record is written for what is staged.
LEMMA RecordKeeps ==
  ASSUME OtaInv, TypeOK', NEW p \in Procs, Record(p), exdev' = exdev
  PROVE  OtaInv'
<1>1. /\ TypeOK /\ Forward(p) /\ Fetched(p) /\ FilesWhole /\ proc[p] \in ProcState
      /\ crashes \in Nat /\ faults \in Nat
  BY Mine
<1>2. proc[p].at \in {"record", "recording"} /\ ~Booting(p)
  BY DEF Record, At, Booting, Staging
<1>3. p \in Stagers
  BY <1>2 DEF OtaInv, Exclusive, Staging, At
<1>4. /\ proc[p].got \in Versions /\ proc[p].got <= released
      /\ disk["staged"] # None => disk["staged"] = proc[p].got
      /\ disk["staged"] \in Versions \cup {None}
  BY <1>1, <1>2 DEF Fetched, FilesWhole
<1>5. /\ disk' = disk /\ released' = released /\ crashes' = crashes /\ faults' >= faults
      /\ record' \in {None, proc[p].got} \/ faults' > 0
      /\ Apart(p)
      /\ \/ proc'[p].at = "recording" /\ Same(p)
         \/ proc'[p].at = "off"
         \/ proc'[p].at = "daemon" /\ proc'[p].image = proc[p].image
  <2>1. CASE /\ Works /\ record' = None /\ Goto(p, "recording")
             /\ UNCHANGED <<disk, released, crashes>>
    BY <1>1, <2>1, GoEffect, Names DEF Works
  <2>2. CASE /\ (record' = proc[p].got /\ Works) \/ (UNCHANGED record /\ Fault)
             /\ Staged(p) /\ UNCHANGED <<disk, released, crashes>>
    <3>1. /\ Apart(p) /\ proc'[p].at \in {"off", "daemon"}
          /\ proc'[p].at = "daemon" => proc'[p].image = proc[p].image
      BY <1>1, <1>4, <2>2, StagedEffect DEF Apart, TypeOK
    <3> QED
      BY <1>1, <2>2, <3>1 DEF Works, Fault
  <2> QED
    BY <2>1, <2>2 DEF Record
<1>6. Recorded'
  BY <1>4, <1>5 DEF Recorded
<1>7. Forward(p)' /\ Fetched(p)'
  BY <1>1, <1>2, <1>5 DEF Forward, Fetched, Same, At
<1>8. ~Booting(p)'
  BY <1>5 DEF Booting, Staging
<1>9. disk["staged"] # None => disk["staged"] <= released /\ disk["staged"] \in Nat
  BY <1>4 DEF OtaInv, Versions
<1> QED
  BY <1>1, <1>2, <1>3, <1>4, <1>5, <1>6, <1>7, <1>8, <1>9, StageStep

\* A boot begins while no other process boots.
LEMMA StartKeeps ==
  ASSUME OneBoot, OtaInv, TypeOK', NEW p \in Procs, Start(p), exdev' = exdev
  PROVE  OtaInv'
<1>1. /\ TypeOK /\ FilesWhole /\ ImageKept /\ \A q \in Procs : ~Booting(q)
      /\ proc[p].at = "off"
  BY Mine DEF Start, At
<1>2. /\ Apart(p) /\ disk["exe"] \in Versions /\ proc'[p].image = disk["exe"]
      /\ proc'[p].applied = FALSE /\ proc'[p].at = Entry(proc'[p].goal)
  BY <1>1, StartEffect DEF Apart
<1>3. /\ disk' = disk /\ record' = record /\ released' = released /\ crashes' = crashes
      /\ faults' = faults
  BY DEF Start
<1>4. proc'[p].at \in {"apply", "rollback"} /\ proc'[p].at \notin Staging
  BY <1>2 DEF Entry, Staging
<1>5. Exclusive'
  BY <1>1, <1>2, <1>4 DEF OtaInv, Exclusive, Booting, Apart
<1>6. FilesWhole' /\ ImageKept' /\ (disk'["staged"] # None => disk'["staged"] <= released')
  BY <1>1, <1>3 DEF OtaInv, FilesWhole, ImageKept
<1>7. ImagesInPlace(p)' /\ Forward(p)' /\ Fetched(p)'
  BY <1>2, <1>3, <1>4 DEF ImagesInPlace, Forward, Fetched, At, Has, Entry
<1>8. ASSUME NEW q \in Procs \ {p}
      PROVE  ImagesInPlace(q)' /\ Forward(q)' /\ Fetched(q)'
  <2>1. proc'[q] = proc[q] /\ ImagesInPlace(q) /\ Forward(q) /\ Fetched(q)
    BY <1>2 DEF Apart, OtaInv
  <2> QED
    BY <1>3, <2>1 DEF ImagesInPlace, Forward, Fetched, At, Has
<1>9. Recorded'
  BY <1>1, <1>2, <1>3, RecordedStays DEF At, TypeOK
<1> QED
  BY <1>5, <1>6, <1>7, <1>8, <1>9 DEF OtaInv

\* A process ends or is killed wherever it is.
LEMMA EndKeeps ==
  ASSUME OtaInv, TypeOK', NEW p \in Procs, Stop(p) \/ Crash(p), exdev' = exdev
  PROVE  OtaInv'
<1>1. /\ TypeOK /\ FilesWhole /\ ImageKept /\ crashes \in Nat /\ faults \in Nat
  BY Mine
<1>2. Apart(p) /\ proc'[p].at = "off"
  BY <1>1, GoEffect, Names DEF Stop, Crash, Exit
<1>3. /\ disk' = disk /\ record' = record /\ released' = released /\ faults' = faults
      /\ crashes' >= crashes /\ (crashes' > 0 \/ At(p, "daemon"))
  BY <1>1 DEF Stop, Crash
<1>4. FilesWhole' /\ ImageKept' /\ ImagesInPlace(p)' /\ Forward(p)' /\ Fetched(p)'
  BY <1>1, <1>2, <1>3 DEF FilesWhole, ImageKept, ImagesInPlace, Forward, Fetched, At
<1>5. CASE Booting(p)
  BY <1>1, <1>2, <1>3, <1>4, <1>5, BootStep DEF Staging
<1>6. CASE ~Booting(p)
  <2>1. Recorded'
    BY <1>1, <1>2, <1>3, RecordedStays DEF At
  <2>2. ~Booting(p)' /\ proc'[p].at \notin Staging
    BY <1>2 DEF Booting, Staging
  <2>3. /\ disk["staged"] \in Versions \cup {None}
        /\ disk["staged"] # None => disk["staged"] <= released /\ disk["staged"] \in Nat
    BY <1>1 DEF OtaInv, FilesWhole, Versions
  <2> QED
    BY <1>1, <1>2, <1>3, <1>4, <1>6, <2>1, <2>2, <2>3, StageStep
<1> QED
  BY <1>5, <1>6

\* A new release changes no file.
LEMMA ReleaseKeeps ==
  ASSUME OtaInv, TypeOK', Release, exdev' = exdev
  PROVE  OtaInv'
<1>1. /\ disk' = disk /\ record' = record /\ proc' = proc /\ crashes' = crashes
      /\ faults' = faults /\ released' = released + 1 /\ released \in Nat
  BY DEF Release, OtaInv, TypeOK, Versions
<1>2. Exclusive' /\ FilesWhole' /\ ImageKept' /\ Recorded'
  BY <1>1 DEF OtaInv, Exclusive, Booting, FilesWhole, ImageKept, Recorded, At
<1>3. disk'["staged"] # None => disk'["staged"] <= released'
  <2>1. disk["staged"] # None => disk["staged"] <= released /\ disk["staged"] \in Nat
    BY DEF OtaInv, FilesWhole, Versions
  <2> QED
    BY <1>1, <2>1
<1>4. ASSUME NEW p \in Procs PROVE ImagesInPlace(p)' /\ Forward(p)' /\ Fetched(p)'
  <2>1. ImagesInPlace(p) /\ Forward(p) /\ Fetched(p)
    BY DEF OtaInv
  <2>2. ImagesInPlace(p)' /\ Forward(p)'
    BY <1>1, <2>1 DEF ImagesInPlace, Forward, At, Has
  <2>3. proc[p].got \in Versions /\ proc[p].got <= released => proc[p].got <= released'
    BY <1>1 DEF Versions
  <2>4. Fetched(p)'
    BY <1>1, <2>1, <2>3 DEF Fetched, At
  <2> QED
    BY <2>2, <2>4
<1> QED
  BY <1>2, <1>3, <1>4 DEF OtaInv

\* Every step keeps the invariant when one process boots at a time.
LEMMA NextOta ==
  ASSUME OneBoot
  PROVE  OtaInv /\ [Next]_vars => OtaInv'
<1> SUFFICES ASSUME OtaInv, [Next]_vars PROVE OtaInv'
  OBVIOUS
<1>0. TypeOK'
  <2>1. Typed
    BY DEF OtaInv, Typed, Fetched
  <2> QED
    BY <2>1, NextTyped DEF Typed
<1>1. ASSUME NEW p \in Procs, Steps(p), exdev' = exdev PROVE OtaInv'
  BY <1>0, <1>1, ReexecKeeps, CheckKeeps, DiscardKeeps, SwapKeeps, SwapAcrossKeeps,
     ClearKeeps, BootKeeps, FetchReleaseKeeps, DownloadKeeps, InstallKeeps, RecordKeeps,
     RollbackKeeps DEF Steps
<1>2. ASSUME NEW p \in Procs, Start(p) \/ Stop(p) \/ Crash(p), exdev' = exdev PROVE OtaInv'
  BY <1>0, <1>2, StartKeeps, EndKeeps
<1>3. ASSUME Release, exdev' = exdev PROVE OtaInv'
  BY <1>0, <1>3, ReleaseKeeps
<1>4. CASE UNCHANGED vars
  BY <1>4 DEF vars, OtaInv, TypeOK, Exclusive, Booting, FilesWhole, ImageKept, ImagesInPlace,
     Forward, Fetched, Recorded, At, Has
<1> QED
  BY <1>1, <1>2, <1>3, <1>4 DEF Next

-----------------------------------------------------------------------------
(* What the invariant gives.                                                *)

\* A kill or a failing call at any point of a swap, on one filesystem or
\* across two, leaves whole images where the next start or --rollback looks
\* for them (cli/src/update.rs, swap_binary and swap_back).
THEOREM InstallKept ==
  ASSUME OneBoot
  PROVE  Spec => []InstallSurvives
<1>1. OtaInv => InstallSurvives
  <2> SUFFICES ASSUME OtaInv PROVE InstallSurvives
    OBVIOUS
  <2>1. Torn \notin Versions /\ Torn # None
    BY DEF Contents
  <2>2. NeverTorn
    BY <2>1 DEF OtaInv, FilesWhole, NeverTorn
  <2>3. PreviousKept /\ StillInstalledHere
    BY DEF OtaInv, ImagesInPlace, PreviousKept, StillInstalledHere, StillInstalled, At, Has
  <2> QED
    BY <2>2, <2>3 DEF OtaInv, InstallSurvives
<1> QED
  BY <1>1, InitOta, NextOta, PTL DEF Spec

\* When nothing was killed and no call failed, what ota.json describes is the
\* staged file, whichever process staged, applied or discarded in between
\* (cli/src/update.rs, stage, save and apply_pending_on_boot).
THEOREM RecordKept ==
  ASSUME OneBoot
  PROVE  Spec => []RecordMatchesUnlessHurt
<1>1. OtaInv => RecordMatchesUnlessHurt
  BY DEF OtaInv, Recorded, RecordMatchesUnlessHurt, RecordMatches, Quiet, At
<1> QED
  BY <1>1, InitOta, NextOta, PTL DEF Spec

\* A step of p touches no other process.
LEMMA StepApart ==
  ASSUME TypeOK, NEW p \in Procs, Steps(p) \/ Start(p) \/ Stop(p) \/ Crash(p)
  PROVE  Apart(p)
<1>1. CASE Reexec(p) \/ Check(p) \/ Discard(p) \/ Clear(p)
  BY <1>1 DEF TypeOK, Apart, Reexec, Check, Load, Discard, Clear, Remove, Save, Goto, Exit
<1>2. CASE Swap(p) \/ Install(p) \/ Rollback(p)
  BY <1>2 DEF TypeOK, Apart, Swap, Install, Rollback, Rename, Remove, Save, Goto, Exit
<1>3. CASE SwapAcross(p)
  BY <1>3 DEF TypeOK, Apart, SwapAcross, Copy, Rename, Remove, Goto
<1>4. CASE Boot(p) \/ FetchRelease(p) \/ Download(p) \/ Record(p)
  BY <1>4 DEF TypeOK, Apart, Boot, FetchRelease, Download, Record, Staged, Remove, Goto, Exit
<1>5. CASE Start(p) \/ Stop(p) \/ Crash(p)
  BY <1>5 DEF TypeOK, Apart, Start, Stop, Crash, Goto, Exit
<1> QED
  BY <1>1, <1>2, <1>3, <1>4, <1>5 DEF Steps

\* A process that re-executes after an update runs a newer version than
\* before, whatever was staged or discarded beside it (apply_pending_on_boot,
\* cmd_update and reexec).
THEOREM OnlyForward ==
  ASSUME OneBoot
  PROVE  Spec => NoDowngrade
<1>1. ASSUME OtaInv, [Next]_vars, NEW p \in Procs, At(p, "reexec"),
             proc[p].goal # "rollback", proc'[p].applied
      PROVE  proc'[p].image > proc[p].image
  <2>1. TypeOK /\ disk["exe"] > proc[p].image /\ ~proc[p].applied
    BY <1>1, Mine DEF Forward, At
  <2>2. proc'[p] # proc[p]
    BY <1>1, <2>1
  <2>3. Steps(p) \/ Crash(p)
    <3>1. ASSUME NEW q \in Procs, Steps(q) \/ Start(q) \/ Stop(q) \/ Crash(q)
          PROVE  q = p
      BY <2>1, <2>2, <3>1, StepApart DEF Apart
    <3>2. ~Start(p) /\ ~Stop(p)
      BY <1>1 DEF Start, Stop, At
    <3> QED
      BY <1>1, <2>2, <3>1, <3>2 DEF Next, Release, vars
  <2>4. CASE Crash(p)
    <3>1. proc'[p] = Off
      BY <2>1, <2>4 DEF Crash, Exit, Goto, TypeOK
    <3> QED
      BY <1>1, <3>1 DEF Off
  <2>5. CASE Steps(p)
    <3>1. Reexec(p)
      BY <1>1, <2>5 DEF Steps, Check, Discard, Swap, SwapAcross, Copy, Clear, Boot,
         FetchRelease, Download, Install, Record, Rollback, At
    <3>2. proc'[p] # Off
      BY <1>1 DEF Off
    <3> QED
      BY <2>1, <3>1, <3>2, ReexecEffect
  <2> QED
    BY <2>3, <2>4, <2>5
<1>2. OtaInv /\ [Next]_vars
        => [\A p \in Procs :
              At(p, "reexec") /\ proc[p].goal # "rollback" /\ proc'[p].applied
                => proc'[p].image > proc[p].image]_vars
  BY <1>1
<1> QED
  BY <1>2, InitOta, NextOta, PTL DEF Spec, NoDowngrade
=============================================================================

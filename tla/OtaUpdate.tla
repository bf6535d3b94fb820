----------------------------- MODULE OtaUpdate -----------------------------
(***************************************************************************)
(* Self-update of rsrpc-cli: cli/src/update.rs and the order in which      *)
(* cli/src/main.rs calls it.  Processes started from the installed         *)
(* executable stage a newer release (stage), apply what is staged when     *)
(* they boot (apply_pending_on_boot, swap_binary), or go back to the       *)
(* previous image (cmd_rollback, swap_back); what they share is a          *)
(* directory of files and ota.json.  Every call that touches the disk is a *)
(* step of its own: a process may be killed between any two, the call may  *)
(* fail, and another process may run.                                      *)
(*                                                                         *)
(* A file's content is the version of the image it holds, or Torn while it *)
(* is being written; a SHA-256 identifies the content, so the hash that    *)
(* ota.json records is the version it records.  The install is eligible    *)
(* (check_eligibility) and the release is signed.                          *)
(***************************************************************************)
EXTENDS Naturals

CONSTANTS
  Procs,         \* processes of the binary: the daemon, a command line
  Goals,         \* Goals[p]: what p may be started for
  Stagers,       \* the processes that may stage; two would share one .part
  CrossDevice,   \* may the OTA directory be on another filesystem (EXDEV)?
  OneBoot,       \* no process is started while another one boots
  MaxVersion,    \* bound on the releases
  MaxCrashes,    \* bound on the kills
  MaxFaults,     \* bound on the disk calls and downloads that fail
  None, Torn

Versions == 1 .. MaxVersion
Contents == Versions \cup {Torn}
Paths    == {"exe", "prev", "swap", "tmp", "part", "staged"}

ASSUME OtaAssumption ==
  /\ MaxVersion \in Nat /\ MaxVersion > 0
  /\ MaxCrashes \in Nat /\ MaxFaults \in Nat
  /\ CrossDevice \subseteq BOOLEAN /\ OneBoot \in BOOLEAN
  /\ Goals \in [Procs -> SUBSET {"run", "update", "rollback"}]
  /\ Stagers \subseteq Procs
  /\ \A p, q \in Stagers : p = q
  /\ None \notin Contents /\ Torn \notin Versions

VARIABLES
  disk,      \* disk[f]: the content of file f, None when there is none
  record,    \* ota.json: the version staged; None when empty, torn or missing
  proc,      \* proc[p]: what a process of the binary is doing
  released,  \* the latest release
  crashes, faults,
  exdev      \* whether it is, in this installation

vars == <<disk, record, proc, released, crashes, faults, exdev>>

Off == [at |-> "off", goal |-> "run", image |-> None, applied |-> FALSE,
        got |-> None, notified |-> None]

Init ==
  /\ disk = [f \in Paths |-> IF f = "exe" THEN 1 ELSE None]
  /\ record = None
  /\ proc = [p \in Procs |-> Off]
  /\ released = 1
  /\ crashes = 0 /\ faults = 0
  /\ exdev \in CrossDevice

-----------------------------------------------------------------------------
(* One call of the file system: the step it is made at, and where the code *)
(* goes when it works and when it does not.                                *)

At(p, here) == proc[p].at = here
Goto(p, there) ==
  proc' = [proc EXCEPT ![p] = IF there = "off" THEN Off ELSE [@ EXCEPT !.at = there]]
Exit(p) == Goto(p, "off")

Fault == faults < MaxFaults /\ faults' = faults + 1
Works == UNCHANGED faults

\* rename(2) replaces the target; it fails when there is no source.
Moved(from, to) == [disk EXCEPT ![to] = disk[from], ![from] = None]

Rename(p, from, to, then, otherwise) ==
  /\ \/ Works /\ disk[from] # None /\ disk' = Moved(from, to) /\ Goto(p, then)
     \/ /\ Fault \/ (Works /\ disk[from] = None)
        /\ UNCHANGED disk /\ Goto(p, otherwise)
  /\ UNCHANGED <<record, released, crashes>>

\* A removal or a write whose error is ignored (let _ =).
Remove(p, f, then) ==
  /\ \/ Works /\ disk' = [disk EXCEPT ![f] = None]
     \/ Fault /\ UNCHANGED disk
  /\ Goto(p, then)
  /\ UNCHANGED <<record, released, crashes>>

Save(p, version, then) ==
  /\ \/ Works /\ record' = version
     \/ Fault /\ UNCHANGED record
  /\ Goto(p, then)
  /\ UNCHANGED <<disk, released, crashes>>

-----------------------------------------------------------------------------
(* main: --rollback is looked at before anything else, and re-exec passes  *)
(* the arguments on.                                                       *)

Entry(goal) == IF goal = "rollback" THEN "rollback" ELSE "apply"

Staging == {"daemon", "download", "fetch", "giveup", "install", "record", "recording"}

Booting(p) == proc[p].at \notin {"off"} \cup Staging

Start(p) ==
  /\ At(p, "off") /\ disk["exe"] \in Versions
  /\ OneBoot => \A q \in Procs : ~Booting(q)
  /\ \E goal \in Goals[p] :
       proc' = [proc EXCEPT ![p] = [Off EXCEPT !.at = Entry(goal),
                                               !.goal = goal,
                                               !.image = disk["exe"]]]
  /\ UNCHANGED <<disk, record, released, crashes, faults>>

Reexec(p) ==
  /\ At(p, "reexec")
  /\ IF disk["exe"] \in Versions
     THEN proc' = [proc EXCEPT ![p] = [@ EXCEPT !.at = Entry(proc[p].goal),
                                                !.image = disk["exe"],
                                                !.applied = TRUE]]
     ELSE Exit(p)
  /\ UNCHANGED <<disk, record, released, crashes, faults>>

\* The daemon is told to stop (Ctrl-C, systemd).
Stop(p) ==
  /\ At(p, "daemon") /\ Exit(p)
  /\ UNCHANGED <<disk, record, released, crashes, faults>>

Crash(p) ==
  /\ ~At(p, "off") /\ crashes < MaxCrashes
  /\ crashes' = crashes + 1
  /\ Exit(p)
  /\ UNCHANGED <<disk, record, released, faults>>

Release ==
  /\ released < MaxVersion
  /\ released' = released + 1
  /\ UNCHANGED <<disk, record, proc, crashes, faults>>

-----------------------------------------------------------------------------
(* apply_pending_on_boot                                                   *)

\* Mutant: the staged version is not compared with the running one.
LoadAnyVersion(p) ==
  LET next == IF proc[p].applied \/ record = None THEN "started" ELSE "verify"
  IN proc' = [proc EXCEPT ![p].at = next, ![p].got = record]

\* Mutant: an empty record is not told from a staged one.
LoadUnrecorded(p) ==
  LET next == IF proc[p].applied THEN "started"
              ELSE IF record # None /\ record <= proc[p].image THEN "discard" ELSE "verify"
  IN proc' = [proc EXCEPT ![p].at = next, ![p].got = record]

\* Nothing staged, or applied earlier in this boot chain: on with the boot.
Load(p) ==
  LET next == IF proc[p].applied \/ record = None THEN "started"
              ELSE IF record <= proc[p].image THEN "discard" ELSE "verify"
  IN proc' = [proc EXCEPT ![p].at = next, ![p].got = record]

\* The staged file is read whole and hashed.
Verified(p) == disk["staged"] = proc[p].got

Check(p) ==
  /\ \/ At(p, "apply") /\ Load(p)
     \/ At(p, "verify") /\ Goto(p, IF Verified(p) THEN "unlink" ELSE "discard")
  /\ UNCHANGED <<disk, record, released, crashes, faults>>

Discard(p) ==
  \/ At(p, "discard") /\ Remove(p, "staged", "forget")
  \/ At(p, "forget") /\ Save(p, None, "started")

\* swap_binary on one filesystem.  Mutant: the staged image goes to the
\* executable without the running one having been put aside.
SwapWithoutAside(p) ==
  \/ At(p, "unlink") /\ Remove(p, "prev", "place")
  \/ At(p, "place") /\ ~exdev /\ Rename(p, "staged", "exe", "clear", "restore")
  \/ At(p, "restore") /\ Rename(p, "prev", "exe", "discard", "discard")

\* Mutant: the old .prev is removed after the running image took its name.
SwapUnlinkLate(p) ==
  \/ At(p, "unlink") /\ Rename(p, "exe", "prev", "aside", "discard")
  \/ At(p, "aside") /\ Remove(p, "prev", "place")
  \/ At(p, "place") /\ ~exdev /\ Rename(p, "staged", "exe", "clear", "restore")
  \/ At(p, "restore") /\ Rename(p, "prev", "exe", "discard", "discard")

\* Mutant: a failed rename does not put the previous image back.
SwapWithoutRestore(p) ==
  \/ At(p, "unlink") /\ Remove(p, "prev", "aside")
  \/ At(p, "aside") /\ Rename(p, "exe", "prev", "place", "discard")
  \/ At(p, "place") /\ ~exdev /\ Rename(p, "staged", "exe", "clear", "discard")

Swap(p) ==
  \/ At(p, "unlink") /\ Remove(p, "prev", "aside")
  \/ At(p, "aside") /\ Rename(p, "exe", "prev", "place", "discard")
  \/ At(p, "place") /\ ~exdev /\ Rename(p, "staged", "exe", "clear", "restore")
  \/ At(p, "restore") /\ Rename(p, "prev", "exe", "discard", "discard")

\* fs::copy opens the staged file and creates the copy, then fills it.
Copy(p, to) ==
  \/ /\ At(p, "place") /\ exdev
     /\ IF disk["staged"] = None
        THEN Goto(p, "discard") /\ UNCHANGED disk
        ELSE /\ disk' = [disk EXCEPT ![to] = Torn]
             /\ proc' = [proc EXCEPT ![p].at = "copy", ![p].got = disk["staged"]]
     /\ UNCHANGED <<record, released, crashes, faults>>
  \/ /\ At(p, "copy")
     /\ \/ /\ Works
           /\ disk' = [disk EXCEPT ![to] = IF @ = None THEN None ELSE proc[p].got]
           /\ Goto(p, IF to = "exe" THEN "drop" ELSE "move")
        \/ Fault /\ UNCHANGED disk /\ Goto(p, "discard")
     /\ UNCHANGED <<record, released, crashes>>

\* Mutant: the copy is made straight over the executable.
SwapInPlace(p) ==
  \/ Copy(p, "exe")
  \/ At(p, "drop") /\ Remove(p, "staged", "clear")

\* The EXDEV fallback: copy next to the executable, rename, drop the staged
\* file.  Every error is returned (?): nothing is put back.
SwapAcross(p) ==
  \/ Copy(p, "tmp")
  \/ At(p, "move") /\ Rename(p, "tmp", "exe", "drop", "discard")
  \/ At(p, "drop") /\ Remove(p, "staged", "clear")

Clear(p) == At(p, "clear") /\ Save(p, None, "reexec")

-----------------------------------------------------------------------------
(* check and stage: by --update once, by the daemon's watcher every day.   *)

Back(p) == IF proc[p].goal = "run" THEN "daemon" ELSE "off"

\* A process that is no stager only looks: --check-update, and the daemon
\* without --auto-update.
Boot(p) ==
  /\ At(p, "started")
  /\ Goto(p, IF proc[p].goal = "update" /\ p \in Stagers THEN "check" ELSE Back(p))
  /\ UNCHANGED <<disk, record, released, crashes, faults>>

\* The watcher stages a release once; a failure is tried again next day.
Newer(p) == released > proc[p].image /\ proc[p].notified # released

FetchRelease(p) ==
  /\ p \in Stagers
  /\ \/ At(p, "daemon") /\ Newer(p)
        /\ proc' = [proc EXCEPT ![p].at = "download", ![p].got = released]
     \/ At(p, "check")
        /\ IF Newer(p)
           THEN proc' = [proc EXCEPT ![p].at = "download", ![p].got = released]
           ELSE Exit(p)
  /\ UNCHANGED <<disk, record, released, crashes, faults>>

\* The partial file is removed when the download fails or does not verify.
Download(p) ==
  \/ /\ At(p, "download")
     /\ disk' = [disk EXCEPT !["part"] = Torn]
     /\ Goto(p, "fetch")
     /\ UNCHANGED <<record, released, crashes, faults>>
  \/ /\ At(p, "fetch")
     /\ \/ /\ Works
           /\ disk' = [disk EXCEPT !["part"] = proc[p].got] /\ Goto(p, "install")
        \/ Fault /\ UNCHANGED disk /\ Goto(p, "giveup")
     /\ UNCHANGED <<record, released, crashes>>
  \/ At(p, "giveup") /\ Remove(p, "part", Back(p))

\* Mutant: what was downloaded is put in place before it is complete.
InstallEarly(p) ==
  \/ At(p, "fetch") /\ Rename(p, "part", "staged", "record", "giveup")
  \/ At(p, "install") /\ Rename(p, "part", "staged", "record", "giveup")

Install(p) ==
  At(p, "install") /\ Rename(p, "part", "staged", "record", "giveup")

Staged(p) ==
  IF Back(p) = "off" THEN Exit(p)
  ELSE proc' = [proc EXCEPT ![p].at = Back(p), ![p].notified = proc[p].got]

\* fs::write truncates ota.json before it writes it; its error is ignored.
Record(p) ==
  \/ /\ At(p, "record")
     /\ \/ Works /\ record' = None /\ Goto(p, "recording")
        \/ Fault /\ UNCHANGED record /\ Staged(p)
     /\ UNCHANGED <<disk, released, crashes>>
  \/ /\ At(p, "recording")
     /\ \/ Works /\ record' = proc[p].got
        \/ Fault /\ UNCHANGED record
     /\ Staged(p)
     /\ UNCHANGED <<disk, released, crashes>>

-----------------------------------------------------------------------------
(* cmd_rollback and swap_back                                              *)

Rollback(p) ==
  \/ /\ At(p, "rollback")
     /\ IF disk["prev"] = None THEN Exit(p) ELSE Goto(p, "unstage")
     /\ UNCHANGED <<disk, record, released, crashes, faults>>
  \/ At(p, "unstage") /\ Remove(p, "staged", "unrecord")
  \/ At(p, "unrecord") /\ Save(p, None, "swapout")
  \/ At(p, "swapout") /\ Rename(p, "exe", "swap", "swapin", "off")
  \/ At(p, "swapin") /\ Rename(p, "prev", "exe", "swapped", "unswap")
  \/ At(p, "unswap") /\ Rename(p, "swap", "exe", "off", "off")
  \/ At(p, "swapped") /\ Rename(p, "swap", "prev", "reexec", "off")

-----------------------------------------------------------------------------
Steps(p) ==
  \/ Reexec(p) \/ Check(p) \/ Discard(p) \/ Swap(p) \/ SwapAcross(p) \/ Clear(p)
  \/ Boot(p) \/ FetchRelease(p) \/ Download(p) \/ Install(p) \/ Record(p)
  \/ Rollback(p)

Next ==
  /\ \/ \E p \in Procs : Steps(p) \/ Start(p) \/ Stop(p) \/ Crash(p)
     \/ Release
  /\ UNCHANGED exdev

Spec == Init /\ [][Next]_vars

\* A process that is not killed goes on to its next call.
FairSpec == Spec /\ \A p \in Procs : WF_vars(Steps(p) /\ UNCHANGED exdev)

-----------------------------------------------------------------------------
\* The next call of a process.
Calls == {"off", "reexec",
          "apply", "verify", "discard", "forget",
          "unlink", "aside", "place", "restore", "copy", "move", "drop", "clear",
          "started", "daemon", "check", "download", "fetch", "install", "record",
          "recording", "giveup",
          "rollback", "unstage", "unrecord", "swapout", "swapin", "unswap", "swapped"}

ProcState == [at : Calls, goal : {"run", "update", "rollback"},
              image : Versions \cup {None}, applied : BOOLEAN,
              got : Contents \cup {None}, notified : Versions \cup {None}]

\* Every variable has its type, and what a boot verifies is a recorded
\* version.
TypeOK ==
  /\ disk \in [Paths -> Contents \cup {None}]
  /\ record \in Versions \cup {None}
  /\ proc \in [Procs -> ProcState]
  /\ \A p \in Procs : At(p, "verify") => proc[p].got \in Versions
  /\ released \in Versions
  /\ crashes \in 0 .. MaxCrashes /\ faults \in 0 .. MaxFaults
  /\ exdev \in BOOLEAN

\* What a process can be started from is a whole image, whatever was killed
\* or failed while it was put there, and however it was copied.
NeverTorn == disk["exe"] # Torn /\ disk["prev"] # Torn

\* An image that ran before is always left in the install directory: as the
\* executable, as .prev or under the name swap_back parks it.
ImageKept == \E f \in {"exe", "prev", "swap"} : disk[f] \in Versions

\* Applying a staged file keeps the image it replaces, for --rollback.
PreviousKept == \A p \in Procs : At(p, "clear") => disk["prev"] \in Versions

\* A boot that gives a staged file up leaves the install as it found it: the
\* executable is there when the process goes on with the version it runs.
StillInstalled ==
  \A p \in Procs : At(p, "started") => disk["exe"] \in Versions

\* On one filesystem it does, when no more than one call fails.
StillInstalledHere == ~exdev /\ faults <= 1 => StillInstalled

\* A kill or a failing call costs no installation: every image is whole, one that
\* ran before is left, and it is where the next start or --rollback looks for it.
InstallSurvives == NeverTorn /\ ImageKept /\ PreviousKept /\ StillInstalledHere

\* When nobody is staging or discarding, the record describes the image that
\* is staged: a verified image stays usable until a newer one replaces it.
Quiet(p) == proc[p].at \in {"off", "daemon"}

RecordMatches ==
  (\A p \in Procs : Quiet(p)) /\ disk["staged"] # None /\ record # None
    => disk["staged"] = record

\* It does unless something is killed or fails in between, whatever another
\* process stages, applies or discards at the same time.
RecordMatchesUnlessHurt == crashes = 0 /\ faults = 0 => RecordMatches

\* An update never goes back: what a process re-executes to is newer than
\* what it was running, unless it was asked to roll back.
NoDowngrade ==
  [][\A p \in Procs :
       At(p, "reexec") /\ proc[p].goal # "rollback" /\ proc'[p].applied
         => proc'[p].image > proc[p].image]_vars

\* What is started ends or becomes the daemon.
Settles == \A p \in Procs : ~At(p, "off") ~> (At(p, "off") \/ At(p, "daemon"))

-----------------------------------------------------------------------------
(* The invariant behind InstallSurvives, RecordMatchesUnlessHurt and        *)
(* NoDowngrade: what each step of a process relies on, under OneBoot.       *)

Has(f) == disk[f] \in Versions

\* What a stager has fetched is a release.
Typed ==
  /\ TypeOK
  /\ \A p \in Procs : proc[p].at \in {"download", "fetch", "install", "record", "recording"}
       => proc[p].got \in Versions

\* One process boots at a time, and only a stager goes beyond looking.
Exclusive ==
  /\ \A p, q \in Procs : Booting(p) /\ Booting(q) => p = q
  /\ \A p \in Procs : proc[p].at \in (Staging \ {"daemon"}) => p \in Stagers

\* Only the files that are being written may be torn.
FilesWhole == \A f \in {"exe", "prev", "swap", "staged"} : disk[f] \in Versions \cup {None}

\* Where the running image and the one it replaces are, step by step.
ImagesInPlace(p) ==
  /\ proc[p].at \in {"apply", "verify", "unlink", "aside", "drop", "clear", "reexec",
                     "rollback", "unstage", "unrecord", "swapout", "swapped"} => Has("exe")
  /\ proc[p].at \in {"place", "restore", "copy", "move", "drop", "clear",
                     "unstage", "unrecord", "swapout", "swapin"} => Has("prev")
  /\ proc[p].at \in {"swapin", "unswap", "swapped"} => Has("swap")
  /\ At(p, "copy") => disk["tmp"] # None
  /\ At(p, "move") => disk["tmp"] = proc[p].got
  /\ ~exdev /\ At(p, "restore") => faults > 0
  /\ proc[p].at \in {"copy", "move", "drop"} => exdev
  /\ ~exdev /\ faults <= 1 /\ proc[p].at \in {"discard", "forget", "started"} => Has("exe")

\* What is verified, copied and re-executed is newer than the running image.
Forward(p) ==
  /\ ~At(p, "off") => proc[p].image \in Versions
  /\ proc[p].at \in {"apply", "verify", "unlink", "aside", "place", "copy", "move", "drop",
                     "clear"} => proc[p].goal # "rollback"
  /\ proc[p].at \in {"rollback", "unstage", "unrecord", "swapout", "swapin", "unswap",
                     "swapped"} => proc[p].goal = "rollback"
  /\ proc[p].at \in {"verify", "unlink", "aside", "place", "copy", "move"}
       => /\ proc[p].got \in Versions /\ proc[p].got > proc[p].image
          /\ ~proc[p].applied
  /\ proc[p].at \in {"unlink", "aside", "place"}
       => Has("staged") /\ disk["staged"] >= proc[p].got
  /\ proc[p].at \in {"drop", "clear", "reexec"} /\ proc[p].goal # "rollback"
       => disk["exe"] > proc[p].image /\ ~proc[p].applied

\* What a stager has fetched replaces nothing newer.
Fetched(p) ==
  /\ proc[p].at \in {"download", "fetch", "install", "record", "recording"}
       => proc[p].got \in Versions /\ proc[p].got <= released
  /\ proc[p].at \in {"download", "fetch", "install"} /\ disk["staged"] # None
       => disk["staged"] <= proc[p].got
  /\ At(p, "install") => disk["part"] = proc[p].got
  /\ proc[p].at \in {"record", "recording"} /\ disk["staged"] # None
       => disk["staged"] = proc[p].got

Recorded ==
  crashes = 0 /\ faults = 0 /\ disk["staged"] # None /\ record # None
    => \/ disk["staged"] = record
       \/ \E p \in Procs : At(p, "record")

OtaInv ==
  /\ TypeOK /\ Exclusive /\ FilesWhole /\ ImageKept
  /\ disk["staged"] # None => disk["staged"] <= released
  /\ \A p \in Procs : ImagesInPlace(p) /\ Forward(p) /\ Fetched(p)
  /\ Recorded
=============================================================================

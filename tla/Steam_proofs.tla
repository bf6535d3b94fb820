---------------------------- MODULE Steam_proofs ---------------------------
(***************************************************************************)
(* How the scanner tells which game a process is, for every number of      *)
(* pids, games and libraries: a fingerprint vouches for what the library   *)
(* holds, the memo of SteamAppIds never outlives the image it was read     *)
(* from, as long as the watcher sees every EXEC, and match_process returns *)
(* what its order of tiers, titles and lists calls for.                    *)
(***************************************************************************)
EXTENDS MCIntake, AppIdMemo, Intake_proofs, FiniteSetTheorems

-----------------------------------------------------------------------------
(* The Steam libraries: types, and what an explicit root keeps out.         *)

Disks(n) == [Libraries -> [up : BOOLEAN, holds : Holdings, stamp : 1 .. n]]
Stamps(n) == [Libraries -> 0 .. n]
Dirs == [Libraries -> Holdings]
Walks(n) == [at : {"mark", "compare", "walk"}, kind : {"discover", "refresh"},
             todo : SUBSET Libraries, dirs : Dirs, prints : Stamps(n), changed : BOOLEAN]
Scans(n) == [at : {"scan"}, of : Libraries, live : 0 .. n, rest : Walks(n)]
Stampings(n) == [at : {"stamp"}, of : Libraries, rest : Walks(n)]

DiskTyped ==
  /\ clock \in 1 .. MaxClock /\ disk \in Disks(clock)
  /\ folders \in [listed : SUBSET Listable, stamp : 0 .. clock]
MapTyped ==
  /\ dirs \in Dirs /\ prints \in Stamps(clock)
  /\ cacheFile \in [dirs : Dirs, prints : Stamps(clock)]
MarkerTyped ==
  /\ marker \in [watched : BOOLEAN, seen : 0 .. clock]
  /\ marker.seen # 0 => marker.watched
  /\ exclusive \in BOOLEAN /\ ticks \in 0 .. PROBE - 1
\* Only a refresh compares; what is left of a walk while a library is scanned.
PassTyped ==
  /\ \/ pass = Off \/ pass = Resting
     \/ pass \in Walks(clock) \/ pass \in Scans(clock) \/ pass \in Stampings(clock)
  /\ pass.at = "compare" => pass.kind = "refresh"
  /\ pass.at \in {"scan", "stamp"} => pass.rest.at = "walk"

\* Under an explicit root: what the map may say something of.
Listed == {Home} \cup Listable
Within(f) == \A l \in Libraries : f[l] # 0 => l \in Listed
WalkWithin(w) ==
  /\ w.todo \subseteq Listed /\ Within(w.prints)
  /\ w.kind = "refresh" => Within(prints)
Undiluted ==
  exclusive =>
    /\ pass.at = "idle" => Within(prints)
    /\ pass.at \in {"mark", "compare", "walk"} => WalkWithin(pass)
    /\ pass.at \in {"scan", "stamp"} => pass.of \in Listed /\ WalkWithin(pass.rest)

SteamShape == DiskTyped /\ MapTyped /\ MarkerTyped /\ PassTyped /\ Undiluted

\* What was well typed stays so as the clock goes on.
LEMMA LaterStamps ==
  ASSUME NEW n \in Nat
  PROVE  /\ Disks(n) \subseteq Disks(n + 1) /\ Stamps(n) \subseteq Stamps(n + 1)
         /\ Walks(n) \subseteq Walks(n + 1) /\ Scans(n) \subseteq Scans(n + 1)
         /\ Stampings(n) \subseteq Stampings(n + 1)
<1>1. 0 .. n \subseteq 0 .. n + 1 /\ 1 .. n \subseteq 1 .. n + 1
  OBVIOUS
<1>2. Stamps(n) \subseteq Stamps(n + 1)
  BY <1>1 DEF Stamps
<1>3. Disks(n) \subseteq Disks(n + 1)
  BY <1>1 DEF Disks
<1>4. Walks(n) \subseteq Walks(n + 1)
  BY <1>2 DEF Walks
<1>5. Scans(n) \subseteq Scans(n + 1)
  BY <1>1, <1>4 DEF Scans
<1>6. Stampings(n) \subseteq Stampings(n + 1)
  BY <1>4 DEF Stampings
<1> QED
  BY <1>2, <1>3, <1>4, <1>5, <1>6

\* The empty map and the fingerprints of nothing are well typed.
LEMMA NothingKnown ==
  ASSUME SteamAssumption, NEW n \in Nat
  PROVE  /\ Empty \in Holdings /\ NoDirs \in Dirs /\ NoPrints \in Stamps(n)
         /\ \A l \in Libraries : NoDirs[l] = Empty /\ NoPrints[l] = 0
         /\ Unwatched \in [watched : BOOLEAN, seen : 0 .. n]
         /\ Unwatched.seen = 0
BY DEF Empty, Holdings, NoDirs, NoPrints, Dirs, Stamps, Unwatched

\* A walk that begins.
LEMMA WalkBegins ==
  ASSUME SteamAssumption, NEW n \in Nat, NEW kind \in {"discover", "refresh"},
         NEW at \in {"mark", "compare"}, NEW libs \in SUBSET Libraries
  PROVE  LET w == Walk(kind, at, libs)
         IN /\ w \in Walks(n) /\ w.at = at /\ w.kind = kind /\ w.todo = libs
            /\ w.dirs = NoDirs /\ w.prints = NoPrints /\ ~w.changed
<1>1. NoDirs \in Dirs /\ NoPrints \in Stamps(n)
  BY NothingKnown
<1> HIDE DEF NoDirs, NoPrints
<1> QED
  BY <1>1 DEF Walk, Walks

\* The libraries a pass looks at are libraries, and those of the root if it is named.
LEMMA RootsResolved ==
  ASSUME SteamAssumption, DiskTyped
  PROVE  /\ Resolved(CollectRoots) \subseteq Libraries
         /\ Resolved({Home}) \subseteq Listed
         /\ Listed \subseteq Libraries
         /\ Custom /\ Present(Home) => CollectRoots = {Home}
<1>1. \A r : RootLibraries(r) \subseteq {r} \cup Listable
  BY DEF RootLibraries, DiskTyped
<1>2. CollectRoots \subseteq Libraries
  BY DEF CollectRoots, SteamAssumption
<1>3. Resolved(CollectRoots) \subseteq Libraries
  BY <1>1, <1>2 DEF Resolved, SteamAssumption
<1>4. Resolved({Home}) \subseteq Listed
  BY <1>1 DEF Resolved, Listed
<1> QED
  BY <1>3, <1>4 DEF Listed, CollectRoots, SteamAssumption

\* The time goes on, and the disk is what it may be by then.
LEMMA ShapeLater ==
  ASSUME SteamAssumption, SteamShape,
         clock < MaxClock, clock' = clock + 1, disk' \in Disks(clock + 1),
         folders' \in [listed : SUBSET Listable, stamp : 0 .. clock + 1],
         UNCHANGED <<knownVars, pass, cacheFile>>
  PROVE  SteamShape'
<1>1. clock \in Nat /\ clock' \in 1 .. MaxClock
  BY DEF SteamShape, DiskTyped, SteamAssumption
<1>2. DiskTyped'
  BY <1>1 DEF DiskTyped
<1>3. /\ Stamps(clock) \subseteq Stamps(clock') /\ Walks(clock) \subseteq Walks(clock')
      /\ Scans(clock) \subseteq Scans(clock') /\ Stampings(clock) \subseteq Stampings(clock')
  BY <1>1, LaterStamps
<1>4. MapTyped'
  <2>1. MapTyped /\ dirs' = dirs /\ prints' = prints /\ cacheFile' = cacheFile
    BY DEF SteamShape, knownVars
  <2> QED
    BY <1>3, <2>1 DEF MapTyped
<1>5. MarkerTyped'
  <2>1. MarkerTyped /\ marker' = marker /\ exclusive' = exclusive /\ ticks' = ticks
    BY DEF SteamShape, knownVars
  <2>2. 0 .. clock \subseteq 0 .. clock'
    BY <1>1
  <2> QED
    BY <2>1, <2>2 DEF MarkerTyped
<1>6. PassTyped'
  BY <1>3 DEF PassTyped, SteamShape
<1>7. Undiluted'
  BY DEF SteamShape, Undiluted, WalkWithin, Within, knownVars
<1> QED
  BY <1>2, <1>4, <1>5, <1>6, <1>7 DEF SteamShape

\* Steam's changes on disk keep the shape.
LEMMA ShapeDisk ==
  ASSUME SteamAssumption, SteamShape, DiskChanges
  PROVE  SteamShape'
<1>0. /\ clock \in Nat /\ clock >= 1 /\ disk \in Disks(clock) /\ Disks(clock) \subseteq Disks(clock + 1)
      /\ folders \in [listed : SUBSET Listable, stamp : 0 .. clock]
  BY LaterStamps DEF SteamShape, DiskTyped, SteamAssumption
<1>1. folders \in [listed : SUBSET Listable, stamp : 0 .. clock + 1]
  BY <1>0
<1>2. disk \in Disks(clock + 1)
  BY <1>0
<1>3. CASE \E l \in Libraries, p \in Places, a \in AppIds \cup {None} : InstallGame(l, p, a)
  <2>1. PICK l \in Libraries, p \in Places, a \in AppIds \cup {None} : InstallGame(l, p, a)
    BY <1>3
  <2>2. /\ disk' = [disk EXCEPT ![l].holds[p] = a, ![l].stamp = clock + 1]
        /\ folders' = folders /\ Changes /\ clock + 1 \in 1 .. clock + 1
    BY <1>0, <2>1 DEF InstallGame, Changes
  <2>3. disk' \in Disks(clock + 1)
    BY <1>2, <2>2 DEF Disks, Holdings
  <2> QED
    BY <1>1, <2>2, <2>3, ShapeLater DEF Changes
<1>4. CASE \E l \in Libraries : Mount(l)
  <2>1. PICK l \in Libraries : Mount(l)
    BY <1>4
  <2>2. disk' = [disk EXCEPT ![l].up = ~@] /\ folders' = folders /\ Changes
    BY <2>1 DEF Mount
  <2>3. disk' \in Disks(clock + 1)
    BY <1>2, <2>2 DEF Disks
  <2> QED
    BY <1>1, <2>2, <2>3, ShapeLater DEF Changes
<1>5. CASE \E ls \in SUBSET Listable : Relist(ls)
  <2>1. PICK ls \in SUBSET Listable : Relist(ls)
    BY <1>5
  <2>2. /\ folders' \in {[listed |-> ls, stamp |-> clock + 1], [listed |-> {}, stamp |-> 0]}
        /\ disk' = disk /\ Changes /\ clock + 1 \in 0 .. clock + 1 /\ 0 \in 0 .. clock + 1
    BY <1>0, <2>1 DEF Relist, Changes
  <2>3. folders' \in [listed : SUBSET Listable, stamp : 0 .. clock + 1]
    BY <2>2
  <2> QED
    BY <1>2, <2>2, <2>3, ShapeLater DEF Changes
<1> QED
  BY <1>3, <1>4, <1>5 DEF DiskChanges

\* What a pass is where it is at one of its steps.
LEMMA PassAt ==
  ASSUME PassTyped
  PROVE  /\ pass.at \in {"mark", "compare", "walk"} => pass \in Walks(clock)
         /\ pass.at = "scan" => pass \in Scans(clock)
         /\ pass.at = "stamp" => pass \in Stampings(clock)
         /\ pass.at \in {"off", "idle", "mark", "compare", "walk", "scan", "stamp"}
BY DEF PassTyped, Off, Resting, Walks, Scans, Stampings

\* A discovery that begins keeps it.
LEMMA ShapeDiscover ==
  ASSUME SteamAssumption, SteamShape, Discover
  PROVE  SteamShape'
<1>1. /\ clock' = clock /\ clock \in Nat /\ disk' = disk /\ folders' = folders
      /\ dirs' = cacheFile.dirs /\ prints' = cacheFile.prints /\ cacheFile' = cacheFile
      /\ exclusive' = (Custom /\ Present(Home)) /\ ticks' = 0 /\ marker' = Unwatched
      /\ pass' = Walk("discover", "mark", Resolved(CollectRoots))
  BY DEF SteamShape, DiskTyped, SteamAssumption, Discover, diskVars
<1>2. DiskTyped'
  BY <1>1 DEF SteamShape, DiskTyped
<1>3. MapTyped'
  BY <1>1 DEF SteamShape, MapTyped
<1>4. MarkerTyped'
  BY <1>1, NothingKnown DEF SteamAssumption, MarkerTyped
<1>5. Resolved(CollectRoots) \in SUBSET Libraries /\ DiskTyped
  BY RootsResolved DEF SteamShape
<1>6. /\ pass' \in Walks(clock) /\ pass'.at = "mark" /\ pass'.kind = "discover"
      /\ pass'.todo = Resolved(CollectRoots) /\ pass'.prints = NoPrints
  BY <1>1, <1>5, WalkBegins
<1>7. PassTyped'
  BY <1>1, <1>6 DEF PassTyped
<1>8. Undiluted'
  <2>1. ASSUME exclusive' PROVE pass'.todo \subseteq Listed /\ Within(pass'.prints)
    BY <1>1, <1>5, <1>6, <2>1, RootsResolved, NothingKnown DEF Within
  <2> QED
    BY <1>6, <2>1 DEF Undiluted, WalkWithin, Within
<1> QED
  BY <1>2, <1>3, <1>4, <1>7, <1>8 DEF SteamShape

\* A refresh that begins keeps it.
LEMMA ShapeRefresh ==
  ASSUME SteamAssumption, SteamShape, Refresh
  PROVE  SteamShape'
<1>1. /\ clock' = clock /\ clock \in Nat /\ disk' = disk /\ folders' = folders
      /\ dirs' = dirs /\ prints' = prints /\ cacheFile' = cacheFile
      /\ exclusive' = exclusive /\ marker' = marker
      /\ ticks' = (ticks + 1) % PROBE /\ pass = Resting
  BY DEF SteamShape, DiskTyped, SteamAssumption, Refresh, diskVars
<1>2. DiskTyped'
  BY <1>1 DEF SteamShape, DiskTyped
<1>3. MapTyped'
  BY <1>1 DEF SteamShape, MapTyped
<1>4. MarkerTyped'
  <2>1. ticks + 1 \in Nat /\ PROBE \in Nat /\ PROBE > 0
    BY DEF SteamShape, MarkerTyped, SteamAssumption
  <2>2. ticks' \in 0 .. PROBE - 1
    BY <1>1, <2>1
  <2> QED
    BY <1>1, <2>2 DEF SteamShape, MarkerTyped
<1>5. Resolved(RefreshRoots) \in SUBSET Libraries /\ (exclusive => Resolved(RefreshRoots) \subseteq Listed)
  BY RootsResolved DEF SteamShape, RefreshRoots
<1>6. exclusive => Within(prints)
  BY <1>1 DEF SteamShape, Undiluted, Resting
<1> DEFINE known == {l \in Libraries : prints[l] # 0}
<1>7. known \in SUBSET Libraries /\ (exclusive => known \subseteq Listed)
  BY <1>6 DEF Within
<1>8. \E libs \in SUBSET Libraries : \E at \in {"mark", "compare"} :
        /\ exclusive => libs \subseteq Listed
        /\ pass' = Walk("refresh", at, libs)
  <2>1. pass' \in {Walk("refresh", "mark", Resolved(RefreshRoots)), Walk("refresh", "compare", known)}
    BY DEF Refresh
  <2> QED
    BY <1>5, <1>7, <2>1
<1>9. PICK libs \in SUBSET Libraries, at \in {"mark", "compare"} :
        /\ exclusive => libs \subseteq Listed
        /\ pass' = Walk("refresh", at, libs)
  BY <1>8
<1>10. /\ pass' \in Walks(clock) /\ pass'.at = at /\ pass'.kind = "refresh"
       /\ pass'.todo = libs /\ pass'.prints = NoPrints
  BY <1>1, <1>9, WalkBegins
<1>11. PassTyped'
  BY <1>1, <1>10 DEF PassTyped
<1>12. Undiluted'
  <2>1. Within(NoPrints)
    BY <1>1, NothingKnown DEF Within
  <2> QED
    BY <1>1, <1>6, <1>9, <1>10, <2>1 DEF Undiluted, WalkWithin, Within
<1> QED
  BY <1>2, <1>3, <1>4, <1>11, <1>12 DEF SteamShape

\* A step of a pass, that leaves what is known alone.
PassOnly == UNCHANGED <<diskVars, dirs, prints, exclusive, ticks, cacheFile>>

\* So does every step that only moves the pass.
LEMMA ShapePass ==
  ASSUME SteamAssumption, SteamShape, PassOnly, marker' = marker, PassTyped', Undiluted'
  PROVE  SteamShape'
<1>1. /\ clock' = clock /\ disk' = disk /\ folders' = folders /\ dirs' = dirs /\ prints' = prints
      /\ exclusive' = exclusive /\ ticks' = ticks /\ cacheFile' = cacheFile
  BY DEF PassOnly, diskVars
<1>2. DiskTyped' /\ MapTyped' /\ MarkerTyped'
  BY <1>1 DEF SteamShape, DiskTyped, MapTyped, MarkerTyped
<1> QED
  BY <1>2 DEF SteamShape

\* Marking the folders keeps it.
LEMMA ShapeMark ==
  ASSUME SteamAssumption, SteamShape, Mark
  PROVE  SteamShape'
<1>1. /\ clock' = clock /\ disk' = disk /\ folders' = folders /\ dirs' = dirs /\ prints' = prints
      /\ exclusive' = exclusive /\ ticks' = ticks /\ cacheFile' = cacheFile /\ pass.at = "mark"
      /\ marker' = Marked
      /\ pass' = [pass EXCEPT !.at = IF Discovering THEN "walk" ELSE "compare"]
  BY DEF Mark, diskVars
<1>2. DiskTyped' /\ MapTyped'
  BY <1>1 DEF SteamShape, DiskTyped, MapTyped
<1>3. MarkerTyped'
  <2>1. clock \in Nat /\ FoldersTime \in 0 .. clock /\ marker.seen \in 0 .. clock
    BY DEF SteamShape, DiskTyped, MarkerTyped, FoldersTime, SteamAssumption
  <2>2. Marked \in [watched : BOOLEAN, seen : 0 .. clock] /\ (Marked.seen # 0 => Marked.watched)
    BY <2>1, NothingKnown DEF Marked
  <2> QED
    BY <1>1, <2>2 DEF SteamShape, MarkerTyped
<1>4. pass \in Walks(clock)
  BY <1>1, PassAt DEF SteamShape
<1>5. /\ pass' \in Walks(clock) /\ pass'.kind = pass.kind /\ pass'.todo = pass.todo
      /\ pass'.dirs = pass.dirs /\ pass'.prints = pass.prints /\ pass'.at \in {"walk", "compare"}
      /\ pass'.at = "compare" => pass.kind # "discover"
  BY <1>1, <1>4 DEF Walks, Discovering
<1>6. PassTyped'
  <2>1. pass'.at = "compare" => pass'.kind = "refresh"
    BY <1>4, <1>5 DEF Walks
  <2> QED
    BY <1>1, <1>5, <2>1 DEF PassTyped
<1>7. Undiluted'
  BY <1>1, <1>5 DEF SteamShape, Undiluted, WalkWithin, Within
<1> QED
  BY <1>2, <1>3, <1>6, <1>7 DEF SteamShape

\* Comparing the folders keeps it.
LEMMA ShapeCompare ==
  ASSUME SteamAssumption, SteamShape, Compare
  PROVE  SteamShape'
<1>1. /\ clock' = clock /\ disk' = disk /\ folders' = folders /\ dirs' = dirs /\ prints' = prints
      /\ exclusive' = exclusive /\ ticks' = ticks /\ cacheFile' = cacheFile /\ marker' = marker
      /\ pass.at = "compare" /\ pass' \in {Resting, [pass EXCEPT !.at = "walk"]}
  BY DEF Compare, diskVars, knownVars
<1>2. pass \in Walks(clock) /\ pass.kind = "refresh"
  BY <1>1, PassAt DEF SteamShape, PassTyped
<1>3. CASE pass' = Resting
  <2>1. PassTyped'
    BY <1>3 DEF PassTyped, Resting
  <2>2. Undiluted'
    BY <1>1, <1>2, <1>3 DEF SteamShape, Undiluted, WalkWithin, Within, Resting
  <2> QED
    BY <1>1, <2>1, <2>2, ShapePass DEF PassOnly, diskVars
<1>4. CASE pass' = [pass EXCEPT !.at = "walk"]
  <2>1. /\ pass' \in Walks(clock) /\ pass'.kind = pass.kind /\ pass'.todo = pass.todo
        /\ pass'.dirs = pass.dirs /\ pass'.prints = pass.prints /\ pass'.at = "walk"
    BY <1>2, <1>4 DEF Walks
  <2>2. PassTyped'
    BY <1>1, <2>1 DEF PassTyped
  <2>3. Undiluted'
    BY <1>1, <2>1 DEF SteamShape, Undiluted, WalkWithin, Within
  <2> QED
    BY <1>1, <2>2, <2>3, ShapePass DEF PassOnly, diskVars
<1> QED
  BY <1>1, <1>3, <1>4

\* What Look makes of the pass: a library is gone, as it was, or to be scanned.
Rest(l) == [pass EXCEPT !.todo = pass.todo \ {l}]
GoneOf(l) == [Rest(l) EXCEPT !.changed = TRUE]
SameOf(l) == [Rest(l) EXCEPT !.dirs[l] = dirs[l], !.prints[l] = Fingerprint(l)]
ScanOf(l) == [at |-> "scan", of |-> l, live |-> Fingerprint(l), rest |-> Rest(l)]

\* A look at a library takes it off the rest of the walk, and goes on in one
\* of three ways.
LEMMA LooksRight ==
  ASSUME SteamAssumption, DiskTyped, MapTyped, NEW l \in Libraries, Look(l), PassTyped
  PROVE  /\ pass \in Walks(clock) /\ pass.at = "walk" /\ l \in pass.todo
         /\ \/ /\ pass' = GoneOf(l) /\ pass.kind = "refresh" /\ pass' \in Walks(clock)
               /\ pass'.dirs = pass.dirs /\ pass'.prints = pass.prints /\ pass'.changed
            \/ /\ pass' = SameOf(l) /\ pass' \in Walks(clock)
               /\ pass'.dirs = [pass.dirs EXCEPT ![l] = dirs[l]]
               /\ pass'.prints = [pass.prints EXCEPT ![l] = prints[l]]
               /\ pass'.changed = pass.changed
            \/ /\ pass' = ScanOf(l) /\ pass' \in Scans(clock)
               /\ pass.kind = "refresh" => pass'.live # 0
               /\ pass'.rest.dirs = pass.dirs /\ pass'.rest.prints = pass.prints
               /\ pass'.rest.changed = pass.changed
         /\ pass'.at = "scan" =>
              /\ pass'.of = l /\ pass'.rest.at = "walk" /\ pass'.rest.kind = pass.kind
              /\ pass'.rest.todo \subseteq pass.todo
         /\ pass'.at # "scan" =>
              pass'.at = "walk" /\ pass'.kind = pass.kind /\ pass'.todo \subseteq pass.todo
<1>1. pass \in Walks(clock) /\ pass.at = "walk" /\ l \in pass.todo
  BY PassAt DEF Look
<1>2. clock \in Nat /\ Fingerprint(l) \in 0 .. clock /\ dirs[l] \in Holdings
  BY DEF DiskTyped, MapTyped, Dirs, Disks, Fingerprint, Present, SteamAssumption
<1>3. \/ pass' = GoneOf(l) /\ pass.kind # "discover"
      \/ pass' = SameOf(l) /\ Fingerprint(l) = prints[l]
      \/ pass' = ScanOf(l) /\ (Fingerprint(l) = 0 => pass.kind = "discover")
  BY DEF Look, GoneOf, SameOf, ScanOf, Rest, Discovering
<1>4. /\ Rest(l) \in Walks(clock) /\ Rest(l).todo \subseteq pass.todo /\ Rest(l).at = "walk"
      /\ Rest(l).kind = pass.kind /\ Rest(l).dirs = pass.dirs
      /\ Rest(l).prints = pass.prints /\ Rest(l).changed = pass.changed
  BY <1>1 DEF Rest, Walks
<1>5. CASE pass' = GoneOf(l) /\ pass.kind # "discover"
  <2>1. pass.kind = "refresh"
    BY <1>1, <1>5 DEF Walks
  <2>2. /\ pass' \in Walks(clock) /\ pass'.todo = Rest(l).todo /\ pass'.at = "walk"
        /\ pass'.kind = pass.kind /\ pass'.dirs = pass.dirs /\ pass'.prints = pass.prints
        /\ pass'.changed
    BY <1>4, <1>5 DEF GoneOf, Walks
  <2> QED
    BY <1>1, <1>4, <1>5, <2>1, <2>2
<1>6. CASE pass' = SameOf(l) /\ Fingerprint(l) = prints[l]
  <2>1. /\ pass' \in Walks(clock) /\ pass'.todo = Rest(l).todo /\ pass'.at = "walk"
        /\ pass'.kind = pass.kind
        /\ pass'.dirs = [pass.dirs EXCEPT ![l] = dirs[l]]
        /\ pass'.prints = [pass.prints EXCEPT ![l] = prints[l]]
        /\ pass'.changed = pass.changed
    <3> HIDE DEF Dirs, Holdings
    <3>1. dirs[l] \in Holdings /\ prints[l] \in 0 .. clock
      BY <1>2, <1>6
    <3>2. pass' = [Rest(l) EXCEPT !.dirs[l] = dirs[l], !.prints[l] = prints[l]]
      BY <1>6 DEF SameOf
    <3>3. ASSUME NEW w, w = Rest(l)
          PROVE  LET r == [w EXCEPT !.dirs[l] = dirs[l], !.prints[l] = prints[l]] IN
                 /\ r \in Walks(clock) /\ r.todo = w.todo /\ r.at = w.at /\ r.kind = w.kind
                 /\ r.dirs = [w.dirs EXCEPT ![l] = dirs[l]]
                 /\ r.prints = [w.prints EXCEPT ![l] = prints[l]]
                 /\ r.changed = w.changed
      <4>1. w \in Walks(clock)
        BY <1>4, <3>3
      <4> QED
        BY <1>2, <3>1, <4>1 DEF Walks, Dirs, Stamps
    <3> QED
      BY <1>4, <3>2, <3>3
  <2> QED
    BY <1>1, <1>4, <1>6, <2>1
<1>7. CASE pass' = ScanOf(l) /\ (Fingerprint(l) = 0 => pass.kind = "discover")
  <2>1. /\ pass'.at = "scan" /\ pass'.of = l /\ pass'.live = Fingerprint(l) /\ pass'.rest = Rest(l)
    BY <1>7 DEF ScanOf
  <2>2. pass' \in Scans(clock)
    BY <1>2, <1>4, <1>7 DEF ScanOf, Scans
  <2>3. pass.kind = "refresh" => pass'.live # 0
    BY <1>7, <2>1
  <2> QED
    BY <1>1, <1>4, <1>7, <2>1, <2>2, <2>3
<1> QED
  BY <1>3, <1>5, <1>6, <1>7

\* It keeps the shape.
LEMMA ShapeLook ==
  ASSUME SteamAssumption, SteamShape, NEW l \in Libraries, Look(l)
  PROVE  SteamShape'
<1>1. /\ clock' = clock /\ disk' = disk /\ folders' = folders /\ dirs' = dirs /\ prints' = prints
      /\ exclusive' = exclusive /\ ticks' = ticks /\ cacheFile' = cacheFile /\ marker' = marker
  BY DEF Look, diskVars, knownVars
<1>2. PassTyped'
  <2>1. pass' \in Walks(clock) \/ pass' \in Scans(clock)
    BY LooksRight DEF SteamShape
  <2>2. pass'.at # "compare" /\ (pass'.at \in {"scan", "stamp"} => pass'.rest.at = "walk")
    BY LooksRight DEF SteamShape
  <2> QED
    BY <1>1, <2>1, <2>2 DEF PassTyped
<1>3. Undiluted'
  <2> SUFFICES ASSUME exclusive PROVE Undiluted'
    BY <1>1 DEF Undiluted
  <2>1. pass.at = "walk" /\ WalkWithin(pass) /\ l \in Listed
    <3>1. pass.at = "walk" /\ l \in pass.todo
      BY LooksRight DEF SteamShape
    <3> QED
      BY <3>1 DEF SteamShape, Undiluted, WalkWithin
  <2>2. CASE pass'.at = "scan"
    <3>1. /\ pass'.of = l /\ pass'.rest.kind = pass.kind /\ pass'.rest.todo \subseteq pass.todo
          /\ pass'.rest.prints = pass.prints
      <4>1. pass' \in Walks(clock) => pass'.at # "scan"
        BY DEF Walks
      <4> QED
        BY <2>2, <4>1, LooksRight DEF SteamShape
    <3> QED
      BY <1>1, <2>1, <2>2, <3>1 DEF Undiluted, WalkWithin, Within
  <2>3. CASE pass'.at # "scan"
    <3>1. pass'.at = "walk" /\ pass'.kind = pass.kind /\ pass'.todo \subseteq pass.todo
      BY <2>3, LooksRight DEF SteamShape
    <3>2. pass \in Walks(clock)
      BY LooksRight DEF SteamShape
    <3>3. pass'.prints = pass.prints \/ pass'.prints = [pass.prints EXCEPT ![l] = prints[l]]
      <4>1. pass' \in Scans(clock) => pass'.at = "scan"
        BY DEF Scans
      <4> QED
        BY <2>3, <4>1, LooksRight DEF SteamShape
    <3>4. pass.prints \in Stamps(clock)
      BY <3>2 DEF Walks
    <3>5. Within(pass'.prints)
      BY <2>1, <3>3, <3>4 DEF Within, WalkWithin, Stamps
    <3> QED
      BY <1>1, <2>1, <3>1, <3>5 DEF Undiluted, WalkWithin, Within
  <2> QED
    BY <2>2, <2>3
<1> QED
  BY <1>1, <1>2, <1>3, ShapePass DEF PassOnly, diskVars

\* What a scan and a stamp make of the walk.
LEMMA Scans1 ==
  ASSUME SteamAssumption, DiskTyped, MapTyped, PassTyped, ScanLibrary
  PROVE  /\ pass \in Scans(clock) /\ pass.at = "scan" /\ pass.rest \in Walks(clock)
         /\ pass.of \in Libraries /\ pass.rest.todo \subseteq Libraries
         /\ Scanned(pass.of) \in Holdings
         /\ \/ /\ pass.rest.kind = "refresh" /\ pass' \in Walks(clock)
               /\ pass'.at = pass.rest.at /\ pass'.kind = "refresh"
               /\ pass'.todo = pass.rest.todo /\ pass'.changed
               /\ pass'.dirs = [pass.rest.dirs EXCEPT ![pass.of] = Scanned(pass.of)]
               /\ pass'.prints = [pass.rest.prints EXCEPT ![pass.of] = pass.live]
            \/ /\ pass.rest.kind = "discover" /\ pass' \in Stampings(clock)
               /\ pass'.at = "stamp" /\ pass'.of = pass.of
               /\ pass'.rest.at = pass.rest.at /\ pass'.rest.kind = "discover"
               /\ pass'.rest.todo = pass.rest.todo
               /\ pass'.rest.prints = pass.rest.prints
               /\ pass'.rest.dirs = [pass.rest.dirs EXCEPT ![pass.of] = Scanned(pass.of)]
<1>1. pass \in Scans(clock) /\ pass.at = "scan"
  BY PassAt DEF ScanLibrary
<1>2. pass.rest \in Walks(clock) /\ pass.of \in Libraries /\ pass.live \in 0 .. clock
  BY <1>1 DEF Scans
<1>3. Scanned(pass.of) \in Holdings
  BY <1>2 DEF Scanned, Holdings, DiskTyped, Disks, Places
<1> SUFFICES ASSUME NEW w \in Walks(clock), w = pass.rest,
                    NEW h \in Holdings, h = Scanned(pass.of),
                    NEW l \in Libraries, l = pass.of,
                    NEW n \in 0 .. clock, n = pass.live
             PROVE  \/ /\ w.kind = "refresh" /\ pass' \in Walks(clock)
                       /\ pass'.at = w.at /\ pass'.kind = "refresh"
                       /\ pass'.todo = w.todo /\ pass'.changed
                       /\ pass'.dirs = [w.dirs EXCEPT ![l] = h]
                       /\ pass'.prints = [w.prints EXCEPT ![l] = n]
                    \/ /\ w.kind = "discover" /\ pass' \in Stampings(clock)
                       /\ pass'.at = "stamp" /\ pass'.of = l
                       /\ pass'.rest.at = w.at /\ pass'.rest.kind = "discover"
                       /\ pass'.rest.todo = w.todo
                       /\ pass'.rest.prints = w.prints
                       /\ pass'.rest.dirs = [w.dirs EXCEPT ![l] = h]
  <2>1. pass.rest.todo \subseteq Libraries
    BY <1>2 DEF Walks
  <2> QED
    BY <1>1, <1>2, <1>3, <2>1
<1>4. pass' = AfterScan([w EXCEPT !.dirs[l] = h], l, n)
  BY DEF ScanLibrary
<1>5. CASE w.kind = "refresh"
  <2>1. pass' = [[w EXCEPT !.dirs[l] = h] EXCEPT !.prints[l] = n, !.changed = TRUE]
    BY <1>4, <1>5 DEF AfterScan, Walks
  <2> QED
    BY <1>5, <2>1 DEF Walks, Dirs, Stamps
<1>6. CASE w.kind = "discover"
  <2>1. pass' = [at |-> "stamp", of |-> l, rest |-> [w EXCEPT !.dirs[l] = h]]
    BY <1>4, <1>6 DEF AfterScan, Walks
  <2>2. [w EXCEPT !.dirs[l] = h] \in Walks(clock)
    BY DEF Walks, Dirs
  <2> QED
    BY <1>6, <2>1, <2>2 DEF Walks, Dirs, Stampings
<1> QED
  BY <1>5, <1>6 DEF Walks

\* A library that is stamped goes back to the walk.
LEMMA Stamps1 ==
  ASSUME SteamAssumption, DiskTyped, MapTyped, PassTyped, StampLibrary
  PROVE  /\ pass \in Stampings(clock) /\ pass.at = "stamp" /\ pass.rest \in Walks(clock)
         /\ pass.of \in Libraries /\ Fingerprint(pass.of) \in 0 .. clock
         /\ pass' \in Walks(clock) /\ pass'.at = pass.rest.at /\ pass'.kind = pass.rest.kind
         /\ pass'.todo = pass.rest.todo /\ pass'.dirs = pass.rest.dirs /\ pass'.changed
         /\ pass'.prints = [pass.rest.prints EXCEPT ![pass.of] = Fingerprint(pass.of)]
<1>1. pass \in Stampings(clock) /\ pass.at = "stamp"
  BY PassAt DEF StampLibrary
<1>2. pass.rest \in Walks(clock) /\ pass.of \in Libraries
  BY <1>1 DEF Stampings
<1>3. Fingerprint(pass.of) \in 0 .. clock
  BY <1>2 DEF Fingerprint, DiskTyped, Disks, SteamAssumption
<1> SUFFICES ASSUME NEW w \in Walks(clock), w = pass.rest,
                    NEW l \in Libraries, l = pass.of,
                    NEW n \in 0 .. clock, n = Fingerprint(pass.of)
             PROVE  /\ pass' \in Walks(clock) /\ pass'.at = w.at /\ pass'.kind = w.kind
                    /\ pass'.todo = w.todo /\ pass'.dirs = w.dirs /\ pass'.changed
                    /\ pass'.prints = [w.prints EXCEPT ![l] = n]
  BY <1>1, <1>2, <1>3
<1>4. pass' = [w EXCEPT !.prints[l] = n, !.changed = TRUE]
  BY DEF StampLibrary
<1> QED
  BY <1>4 DEF Walks, Stamps

\* Scanning a library keeps the shape.
LEMMA ShapeScan ==
  ASSUME SteamAssumption, SteamShape, ScanLibrary
  PROVE  SteamShape'
<1>1. /\ clock' = clock /\ disk' = disk /\ folders' = folders /\ dirs' = dirs /\ prints' = prints
      /\ exclusive' = exclusive /\ ticks' = ticks /\ cacheFile' = cacheFile /\ marker' = marker
  BY DEF ScanLibrary, diskVars, knownVars
<1>2. /\ pass.at = "scan" /\ pass.rest.at = "walk" /\ pass.rest \in Walks(clock)
      /\ exclusive => pass.of \in Listed /\ WalkWithin(pass.rest)
  BY Scans1 DEF SteamShape, PassTyped, Undiluted
<1>3. CASE pass.rest.kind = "refresh"
  <2>1. /\ pass' \in Walks(clock) /\ pass'.at = "walk" /\ pass'.kind = "refresh"
        /\ pass'.todo = pass.rest.todo
        /\ pass'.prints = [pass.rest.prints EXCEPT ![pass.of] = pass.live]
    BY <1>2, <1>3, Scans1 DEF SteamShape
  <2>2. PassTyped'
    BY <1>1, <2>1 DEF PassTyped
  <2>3. pass.rest.prints \in Stamps(clock)
    BY <1>2 DEF Walks
  <2>4. ASSUME exclusive PROVE Within(pass'.prints)
    BY <1>2, <2>1, <2>3, <2>4 DEF Within, WalkWithin, Stamps
  <2>5. Undiluted'
    BY <1>1, <1>2, <1>3, <2>1, <2>4 DEF Undiluted, WalkWithin, Within
  <2> QED
    BY <1>1, <2>2, <2>5, ShapePass DEF PassOnly, diskVars
<1>4. CASE pass.rest.kind = "discover"
  <2>1. /\ pass' \in Stampings(clock) /\ pass'.at = "stamp" /\ pass'.of = pass.of
        /\ pass'.rest.kind = "discover" /\ pass'.rest.todo = pass.rest.todo
        /\ pass'.rest.prints = pass.rest.prints /\ pass'.rest.at = "walk"
    BY <1>2, <1>4, Scans1 DEF SteamShape
  <2>2. PassTyped'
    BY <1>1, <2>1 DEF PassTyped
  <2>3. Undiluted'
    BY <1>1, <1>2, <2>1 DEF Undiluted, WalkWithin, Within
  <2> QED
    BY <1>1, <2>2, <2>3, ShapePass DEF PassOnly, diskVars
<1> QED
  BY <1>2, <1>3, <1>4 DEF Walks

\* Stamping one keeps it.
LEMMA ShapeStamp ==
  ASSUME SteamAssumption, SteamShape, StampLibrary
  PROVE  SteamShape'
<1>1. /\ clock' = clock /\ disk' = disk /\ folders' = folders /\ dirs' = dirs /\ prints' = prints
      /\ exclusive' = exclusive /\ ticks' = ticks /\ cacheFile' = cacheFile /\ marker' = marker
  BY DEF StampLibrary, diskVars, knownVars
<1>2. /\ pass.at = "stamp" /\ pass.rest.at = "walk" /\ pass.rest \in Walks(clock)
      /\ exclusive => pass.of \in Listed /\ WalkWithin(pass.rest)
  BY Stamps1 DEF SteamShape, PassTyped, Undiluted
<1>3. /\ pass' \in Walks(clock) /\ pass'.at = "walk" /\ pass'.kind = pass.rest.kind
      /\ pass'.todo = pass.rest.todo
      /\ pass'.prints = [pass.rest.prints EXCEPT ![pass.of] = Fingerprint(pass.of)]
  BY <1>2, Stamps1 DEF SteamShape
<1>4. PassTyped'
  BY <1>1, <1>3 DEF PassTyped
<1>5. pass.rest.prints \in Stamps(clock)
  BY <1>2 DEF Walks
<1>6. ASSUME exclusive PROVE Within(pass'.prints)
  BY <1>2, <1>3, <1>5, <1>6 DEF Within, WalkWithin, Stamps
<1>7. Undiluted'
  BY <1>1, <1>2, <1>3, <1>6 DEF Undiluted, WalkWithin, Within
<1> QED
  BY <1>1, <1>4, <1>7, ShapePass DEF PassOnly, diskVars

\* The end of a pass keeps it: what it publishes is undiluted.
LEMMA ShapeFinish ==
  ASSUME SteamAssumption, SteamShape, Finish
  PROVE  SteamShape'
<1>1. /\ clock' = clock /\ disk' = disk /\ folders' = folders
      /\ exclusive' = exclusive /\ ticks' = ticks /\ marker' = marker
      /\ pass' = Resting /\ prints' = pass.prints /\ pass.at = "walk"
      /\ dirs' \in {dirs, pass.dirs}
      /\ cacheFile' \in {cacheFile, [dirs |-> pass.dirs, prints |-> pass.prints]}
  BY DEF Finish, Save, diskVars
<1>2. pass \in Walks(clock)
  BY <1>1, PassAt DEF SteamShape
<1>3. DiskTyped' /\ MarkerTyped'
  BY <1>1 DEF SteamShape, DiskTyped, MarkerTyped
<1>4. MapTyped'
  <2>1. pass.dirs \in Dirs /\ pass.prints \in Stamps(clock)
    BY <1>2 DEF Walks
  <2>2. MapTyped
    BY DEF SteamShape
  <2> QED
    BY <1>1, <2>1, <2>2 DEF MapTyped
<1>5. PassTyped'
  BY <1>1 DEF PassTyped, Resting
<1>6. Undiluted'
  BY <1>1 DEF SteamShape, Undiluted, WalkWithin, Within, Resting
<1> QED
  BY <1>3, <1>4, <1>5, <1>6 DEF SteamShape

\* A restart begins with the cache file, or none.
LEMMA ShapeKilled ==
  ASSUME SteamAssumption, SteamShape, Killed
  PROVE  SteamShape'
<1>1. /\ clock' = clock + 1 /\ clock \in Nat /\ clock < MaxClock /\ disk' = disk /\ folders' = folders
      /\ exclusive' = FALSE /\ ticks' = 0 /\ marker' = Unwatched /\ pass' = Off
      /\ dirs' = NoDirs /\ prints' = NoPrints /\ cacheFile' \in {cacheFile, NoCache}
  BY DEF SteamShape, DiskTyped, Killed, SteamAssumption
<1>2. clock + 1 \in Nat /\ clock' \in 1 .. MaxClock /\ 0 .. clock \subseteq 0 .. clock + 1
  BY <1>1 DEF SteamAssumption
<1>3. Stamps(clock) \subseteq Stamps(clock') /\ Disks(clock) \subseteq Disks(clock')
  BY <1>1, LaterStamps
<1>4. DiskTyped'
  BY <1>1, <1>2, <1>3 DEF SteamShape, DiskTyped
<1>5. MapTyped'
  BY <1>1, <1>2, <1>3, NothingKnown DEF SteamShape, MapTyped, NoCache
<1>6. MarkerTyped'
  <2>1. /\ Unwatched \in [watched : BOOLEAN, seen : 0 .. clock'] /\ Unwatched.seen = 0
        /\ 0 \in 0 .. PROBE - 1
    BY <1>1, <1>2, NothingKnown DEF SteamAssumption
  <2> QED
    BY <1>1, <2>1 DEF MarkerTyped
<1>7. PassTyped' /\ Undiluted'
  BY <1>1 DEF PassTyped, Undiluted, Off
<1> QED
  BY <1>4, <1>5, <1>6, <1>7 DEF SteamShape

\* SteamShape is inductive.
LEMMA ShapeSteps ==
  ASSUME SteamAssumption, SteamShape, [SteamNext]_steamVars
  PROVE  SteamShape'
<1>1. CASE UNCHANGED steamVars
  BY <1>1 DEF steamVars, diskVars, knownVars, SteamShape, DiskTyped, MapTyped, MarkerTyped,
              PassTyped, Undiluted, WalkWithin, Within
<1>2. CASE SteamNext
  BY <1>2, ShapeDisk, ShapeDiscover, ShapeRefresh, ShapeMark, ShapeCompare, ShapeLook,
     ShapeScan, ShapeStamp, ShapeFinish, ShapeKilled DEF SteamNext, SteamPass
<1> QED
  BY <1>1, <1>2

\* SteamShape holds at first.
LEMMA SteamShapeInit ==
  ASSUME SteamAssumption, SteamInit
  PROVE  SteamShape
<1>1. clock = 1 /\ 1 \in 1 .. MaxClock /\ 1 \in 1 .. 1 /\ 1 \in 0 .. 1 /\ 0 \in 0 .. 1
  BY DEF SteamInit, SteamAssumption
<1>2. DiskTyped
  <2>1. disk \in Disks(1)
    BY <1>1, NothingKnown DEF SteamInit, Disks
  <2>2. folders \in [listed : SUBSET Listable, stamp : 0 .. 1]
    BY <1>1 DEF SteamInit
  <2> QED
    BY <1>1, <2>1, <2>2 DEF DiskTyped
<1>3. MapTyped
  BY <1>1, NothingKnown DEF SteamInit, MapTyped, NoCache
<1>4. MarkerTyped
  <2>1. /\ Unwatched \in [watched : BOOLEAN, seen : 0 .. clock] /\ Unwatched.seen = 0
        /\ 0 \in 0 .. PROBE - 1
    BY <1>1, NothingKnown DEF SteamAssumption
  <2> QED
    BY <2>1 DEF SteamInit, MarkerTyped
<1>5. PassTyped /\ Undiluted
  BY DEF SteamInit, PassTyped, Undiluted, Off
<1> QED
  BY <1>2, <1>3, <1>4, <1>5 DEF SteamShape

\* It is stronger than what the runs check.
LEMMA ShapeShows ==
  ASSUME SteamAssumption, SteamShape
  PROVE  SteamTypeOK /\ NeverDiluted
<1>1. DiskTyped /\ MapTyped /\ MarkerTyped /\ PassTyped /\ Undiluted
  BY DEF SteamShape
<1>2. clock \in 1 .. MaxClock /\ 0 .. clock \subseteq 0 .. MaxClock /\ 1 .. clock \subseteq 1 .. MaxClock
  BY <1>1 DEF DiskTyped, SteamAssumption
<1>3. /\ disk \in [Libraries -> [up : BOOLEAN, holds : Holdings, stamp : 1 .. MaxClock]]
      /\ folders \in [listed : SUBSET Listable, stamp : 0 .. MaxClock]
  BY <1>1, <1>2 DEF DiskTyped, Disks
<1>4. \A known \in {Memory, cacheFile} :
        /\ known.dirs \in [Libraries -> Holdings]
        /\ known.prints \in [Libraries -> 0 .. MaxClock]
  BY <1>1, <1>2 DEF MapTyped, Dirs, Stamps, Memory
<1>5. /\ marker \in [watched : BOOLEAN, seen : 0 .. MaxClock]
      /\ marker.seen # 0 => marker.watched
      /\ ticks \in 0 .. (PROBE - 1)
  BY <1>1, <1>2 DEF MarkerTyped
<1>6. pass.at \in {"off", "idle", "mark", "compare", "walk", "scan", "stamp"}
  BY <1>1, PassAt
<1>7. NeverDiluted
  BY <1>1 DEF Undiluted, NeverDiluted, Within, Listed, Resting
<1> QED
  BY <1>2, <1>3, <1>4, <1>5, <1>6, <1>7 DEF SteamTypeOK

\* Every variable has its type, and under an explicit root nothing is known that the
\* root neither is nor lists, however the disk changes under a pass (steam.rs:
\* collect_roots, refresh_if_stale).
THEOREM SteamTypeCorrect ==
  ASSUME SteamAssumption
  PROVE  SteamSpec => [](SteamTypeOK /\ NeverDiluted)
<1>1. SteamInit => SteamShape
  BY SteamShapeInit
<1>2. SteamShape /\ [SteamNext]_steamVars => SteamShape'
  BY ShapeSteps
<1>3. SteamShape => SteamTypeOK /\ NeverDiluted
  BY ShapeShows
<1> QED
  BY <1>1, <1>2, <1>3, PTL DEF SteamSpec

-----------------------------------------------------------------------------
(* The Steam libraries: what a fingerprint vouches for.                     *)

\* What a scan finds in a library that holds h.
Discovered(h) == [p \in Places |-> IF p \in Installs THEN h[p] ELSE None]

\* On a disk dk, directories d and fingerprints f: a fingerprint that is that of the
\* disk goes with what is there, and none goes with nothing; outside X.
Right(dk, d, f, X) ==
  \A l \in Libraries \ X :
    /\ f[l] = dk[l].stamp => d[l] = Discovered(dk[l].holds)
    /\ f[l] = 0 => d[l] = Empty

\* A refresh that has met no change has passed over a library, or copied it.
Copied(w) ==
  w.kind = "refresh" /\ ~w.changed =>
    \A l \in Libraries :
      \/ w.dirs[l] = Empty /\ w.prints[l] = 0
      \/ w.dirs[l] = dirs[l] /\ w.prints[l] = prints[l]

WalkRight(w, X) == Right(disk, w.dirs, w.prints, X) /\ Copied(w)

MapRight == Right(disk, dirs, prints, {}) /\ Right(disk, cacheFile.dirs, cacheFile.prints, {})
PassRight ==
  /\ pass.at \in {"mark", "compare", "walk"} => WalkRight(pass, {})
  /\ pass.at = "scan" =>
       /\ WalkRight(pass.rest, {})
       /\ pass.rest.kind = "refresh" => pass.live # 0 /\ Present(pass.of)
  /\ pass.at = "stamp" =>
       /\ WalkRight(pass.rest, {pass.of}) /\ pass.rest.kind = "discover"
       /\ pass.rest.dirs[pass.of] = Scanned(pass.of)

IndexRight == SteamShape /\ MapRight /\ PassRight

\* Where a library changed, its fingerprint is n, which nothing has seen.
Moved(dk, then, n) ==
  \A l \in Libraries :
    \/ then[l].stamp = dk[l].stamp /\ then[l].holds = dk[l].holds
    \/ then[l].stamp = n

\* A fingerprint that vouched for a map vouches for it after a change on
\* disk, for it is another one then.
LEMMA RightKept ==
  ASSUME NEW n \in Nat, NEW dk, NEW then, NEW d, NEW f \in Stamps(n), NEW X,
         Moved(dk, then, n + 1), Right(dk, d, f, X)
  PROVE  Right(then, d, f, X)
<1>1. \A l \in Libraries : f[l] # n + 1
  BY DEF Stamps
<1> QED
  BY <1>1 DEF Moved, Right

\* A change on disk gives what it changes a stamp of its own, and comes
\* between no scan and its stamp.
LEMMA DiskMoved ==
  ASSUME SteamAssumption, SteamShape, RacingScan = FALSE, DiskChanges
  PROVE  /\ UNCHANGED <<knownVars, pass, cacheFile>>
         /\ Moved(disk, disk', clock + 1)
         /\ pass.at = "stamp" /\ pass.rest.kind = "discover" => disk' = disk
         /\ pass.at = "scan" => \A l \in Libraries : disk'[l].up = disk[l].up
<1>0. disk \in Disks(clock)
  BY DEF SteamShape, DiskTyped
<1>1. CASE \E l \in Libraries, p \in Places, a \in AppIds \cup {None} : InstallGame(l, p, a)
  <2>1. PICK l \in Libraries, p \in Places, a \in AppIds \cup {None} : InstallGame(l, p, a)
    BY <1>1
  <2>2. /\ disk' = [disk EXCEPT ![l].holds[p] = a, ![l].stamp = clock + 1]
        /\ UNCHANGED <<knownVars, pass, cacheFile>> /\ ~Unstamped
    BY <2>1 DEF InstallGame, Changes
  <2>3. /\ disk'[l].stamp = clock + 1 /\ disk'[l].up = disk[l].up
        /\ \A m \in Libraries \ {l} : disk'[m] = disk[m]
    BY <1>0, <2>2 DEF Disks
  <2> QED
    BY <2>2, <2>3 DEF Moved, Unstamped
<1>2. CASE \E l \in Libraries : Mount(l)
  <2>1. PICK l \in Libraries : Mount(l)
    BY <1>2
  <2>2. disk' = [disk EXCEPT ![l].up = ~@] /\ UNCHANGED <<knownVars, pass, cacheFile>> /\ ~Scanning
    BY <2>1 DEF Mount, Changes
  <2>3. \A m \in Libraries : disk'[m].stamp = disk[m].stamp /\ disk'[m].holds = disk[m].holds
    BY <1>0, <2>2 DEF Disks
  <2> QED
    BY <2>2, <2>3 DEF Moved, Scanning
<1>3. CASE \E ls \in SUBSET Listable : Relist(ls)
  BY <1>3 DEF Relist, Changes, Moved
<1> QED
  BY <1>1, <1>2, <1>3 DEF DiskChanges

\* So it keeps what is held right.
LEMMA RightDisk ==
  ASSUME SteamAssumption, IndexRight, RacingScan = FALSE, DiskChanges
  PROVE  MapRight' /\ PassRight'
<1>1. /\ dirs' = dirs /\ prints' = prints /\ cacheFile' = cacheFile /\ pass' = pass
      /\ Moved(disk, disk', clock + 1) /\ clock \in Nat
      /\ pass.at = "stamp" /\ pass.rest.kind = "discover" => disk' = disk
      /\ pass.at = "scan" => \A l \in Libraries : disk'[l].up = disk[l].up
  <2>1. SteamShape
    BY DEF IndexRight
  <2>2. UNCHANGED <<knownVars, pass, cacheFile>>
    BY <2>1, DiskMoved
  <2>3. dirs' = dirs /\ prints' = prints /\ cacheFile' = cacheFile /\ pass' = pass
    BY <2>2 DEF knownVars
  <2>4. clock \in Nat
    BY <2>1 DEF SteamShape, DiskTyped, SteamAssumption
  <2> QED
    BY <2>1, <2>3, <2>4, DiskMoved
<1>2. /\ prints \in Stamps(clock) /\ cacheFile.prints \in Stamps(clock)
      /\ pass.at \in {"mark", "compare", "walk"} => pass.prints \in Stamps(clock)
      /\ pass.at = "scan" => pass.rest.prints \in Stamps(clock) /\ pass.of \in Libraries
  BY PassAt DEF IndexRight, SteamShape, MapTyped, Walks, Scans
<1>3. ASSUME NEW d, NEW f \in Stamps(clock), Right(disk, d, f, {})
      PROVE  Right(disk', d, f, {})
  BY <1>1, <1>3, RightKept
<1>4. Right(disk', dirs, prints, {}) /\ Right(disk', cacheFile.dirs, cacheFile.prints, {})
  BY <1>2, <1>3 DEF IndexRight, MapRight
<1>5. ASSUME pass.at \in {"mark", "compare", "walk"} PROVE WalkRight(pass, {})'
  <2>1. Right(disk', pass.dirs, pass.prints, {})
    BY <1>2, <1>3, <1>5 DEF IndexRight, PassRight, WalkRight
  <2> QED
    BY <1>1, <1>5, <2>1 DEF IndexRight, PassRight, WalkRight, Copied
<1>6. ASSUME pass.at = "scan"
      PROVE  /\ WalkRight(pass.rest, {})'
             /\ pass.rest.kind = "refresh" => pass.live # 0 /\ Present(pass.of)'
  <2>1. Right(disk', pass.rest.dirs, pass.rest.prints, {})
    BY <1>2, <1>3, <1>6 DEF IndexRight, PassRight, WalkRight
  <2> QED
    BY <1>1, <1>2, <1>6, <2>1 DEF IndexRight, PassRight, WalkRight, Copied, Present
<1>7. ASSUME pass.at = "stamp"
      PROVE  /\ WalkRight(pass.rest, {pass.of})' /\ pass.rest.kind = "discover"
             /\ pass.rest.dirs[pass.of] = Scanned(pass.of)'
  BY <1>1, <1>7 DEF IndexRight, PassRight, WalkRight, Copied, Scanned, Present
<1> QED
  BY <1>1, <1>4, <1>5, <1>6, <1>7 DEF MapRight, PassRight

\* Nothing is known yet.
LEMMA RightNothing ==
  ASSUME SteamAssumption, DiskTyped
  PROVE  /\ Right(disk, NoDirs, NoPrints, {})
         /\ \A l \in Libraries : disk[l].stamp # 0
         /\ \A l \in Libraries : Present(l) => Scanned(l) = Discovered(disk[l].holds)
         /\ \A l \in Libraries : ~Present(l) => Scanned(l) = Empty
<1>1. \A l \in Libraries : disk[l].stamp # 0 /\ NoDirs[l] = Empty /\ NoPrints[l] = 0
  BY NothingKnown DEF DiskTyped, Disks, SteamAssumption
<1>2. \A l \in Libraries : /\ Present(l) => Scanned(l) = Discovered(disk[l].holds)
                           /\ ~Present(l) => Scanned(l) = Empty
  BY DEF Scanned, Discovered, Empty
<1>3. Right(disk, NoDirs, NoPrints, {})
  BY <1>1 DEF Right
<1> QED
  BY <1>1, <1>2, <1>3

\* A walk that begins has passed over everything.
LEMMA RightBegins ==
  ASSUME SteamAssumption, DiskTyped, DiskTyped', NEW kind \in {"discover", "refresh"},
         NEW at \in {"mark", "compare"}, NEW libs \in SUBSET Libraries,
         pass' = Walk(kind, at, libs), clock' \in Nat
  PROVE  PassRight'
<1>1. /\ pass'.at \in {"mark", "compare"} /\ pass'.dirs = NoDirs /\ pass'.prints = NoPrints
  BY DEF Walk
<1>2. Right(disk', NoDirs, NoPrints, {})
  <2>1. \A l \in Libraries : disk'[l].stamp # 0 /\ NoDirs[l] = Empty /\ NoPrints[l] = 0
    BY NothingKnown DEF DiskTyped, Disks, SteamAssumption
  <2> QED
    BY <2>1 DEF Right
<1>3. Copied(pass)'
  BY <1>1, NothingKnown DEF Copied
<1> QED
  BY <1>1, <1>2, <1>3 DEF PassRight, WalkRight

\* A pass begins with nothing, or with what is held.
LEMMA RightStarts ==
  ASSUME SteamAssumption, IndexRight, SteamShape', Discover \/ Refresh
  PROVE  MapRight' /\ PassRight'
<1>1. DiskTyped /\ DiskTyped' /\ clock' \in Nat
  BY DEF IndexRight, SteamShape, DiskTyped, SteamAssumption
<1>2. CASE Discover
  <2>1. /\ disk' = disk /\ dirs' = cacheFile.dirs /\ prints' = cacheFile.prints
        /\ cacheFile' = cacheFile /\ pass' = Walk("discover", "mark", Resolved(CollectRoots))
    BY <1>2 DEF Discover, diskVars
  <2>2. Resolved(CollectRoots) \in SUBSET Libraries
    BY <1>1, RootsResolved
  <2>3. PassRight'
    BY <1>1, <2>1, <2>2, RightBegins
  <2> QED
    BY <2>1, <2>3 DEF IndexRight, MapRight
<1>3. CASE Refresh
  <2> DEFINE known == {l \in Libraries : prints[l] # 0}
  <2>1. /\ disk' = disk /\ dirs' = dirs /\ prints' = prints /\ cacheFile' = cacheFile
        /\ pass' \in {Walk("refresh", "mark", Resolved(RefreshRoots)),
                      Walk("refresh", "compare", known)}
    BY <1>3 DEF Refresh, diskVars
  <2>2. Resolved(RefreshRoots) \in SUBSET Libraries
    BY <1>1, RootsResolved DEF RefreshRoots
  <2>3. known \in SUBSET Libraries
    OBVIOUS
  <2> HIDE DEF known
  <2>4. PassRight'
    BY <1>1, <2>1, <2>2, <2>3, RightBegins
  <2> QED
    BY <2>1, <2>4 DEF IndexRight, MapRight
<1> QED
  BY <1>2, <1>3

\* A step of a pass: what is known stays right.
LEMMA RightGoesOn ==
  ASSUME IndexRight, PassOnly
  PROVE  /\ MapRight' /\ disk' = disk /\ dirs' = dirs /\ prints' = prints
BY DEF IndexRight, MapRight, PassOnly, diskVars

\* Marking and comparing the folders move no map.
LEMMA RightMarks ==
  ASSUME SteamAssumption, IndexRight, Mark \/ Compare
  PROVE  MapRight' /\ PassRight'
<1>1. MapRight' /\ disk' = disk /\ dirs' = dirs /\ prints' = prints
  BY RightGoesOn DEF Mark, Compare, PassOnly, diskVars, knownVars
<1>2. pass.at \in {"mark", "compare"}
  BY DEF Mark, Compare
<1>3. pass \in Walks(clock) /\ WalkRight(pass, {})
  BY <1>2, PassAt DEF IndexRight, SteamShape, PassRight
<1>4. \/ pass' = Resting
      \/ /\ pass'.at \in {"walk", "compare"} /\ pass'.kind = pass.kind /\ pass'.dirs = pass.dirs
         /\ pass'.prints = pass.prints /\ pass'.changed = pass.changed
  BY <1>3 DEF Mark, Compare, Walks
<1>5. CASE pass' = Resting
  BY <1>1, <1>5 DEF PassRight, Resting
<1>6. CASE /\ pass'.at \in {"walk", "compare"} /\ pass'.kind = pass.kind /\ pass'.dirs = pass.dirs
           /\ pass'.prints = pass.prints /\ pass'.changed = pass.changed
  BY <1>1, <1>3, <1>6 DEF PassRight, WalkRight, Copied
<1> QED
  BY <1>1, <1>4, <1>5, <1>6

\* What a look copies is right where it was held.
LEMMA RightLooks ==
  ASSUME SteamAssumption, IndexRight, NEW l \in Libraries, Look(l)
  PROVE  MapRight' /\ PassRight'
<1>1. MapRight' /\ disk' = disk /\ dirs' = dirs /\ prints' = prints
  BY RightGoesOn DEF Look, PassOnly, diskVars, knownVars
<1>2. DiskTyped /\ MapTyped /\ PassTyped
  BY DEF IndexRight, SteamShape
<1>3. pass \in Walks(clock) /\ pass.at = "walk" /\ WalkRight(pass, {})
  BY <1>2, LooksRight DEF IndexRight, PassRight
<1>4. pass.dirs \in Dirs /\ pass.prints \in Stamps(clock)
  BY <1>3 DEF Walks
<1>5. CASE /\ pass' = GoneOf(l) /\ pass.kind = "refresh" /\ pass' \in Walks(clock)
           /\ pass'.dirs = pass.dirs /\ pass'.prints = pass.prints /\ pass'.changed
  <2>1. pass'.at # "scan" /\ pass'.at # "stamp"
    BY <1>5 DEF Walks
  <2> QED
    BY <1>1, <1>3, <1>5, <2>1 DEF PassRight, WalkRight, Copied
<1>6. CASE /\ pass' = SameOf(l) /\ pass' \in Walks(clock)
           /\ pass'.dirs = [pass.dirs EXCEPT ![l] = dirs[l]]
           /\ pass'.prints = [pass.prints EXCEPT ![l] = prints[l]]
           /\ pass'.changed = pass.changed
  <2>1. pass'.at # "scan" /\ pass'.at # "stamp" /\ pass'.kind = pass.kind
    <3>1. pass'.at # "scan" /\ pass'.at # "stamp"
      BY <1>6 DEF Walks
    <3> QED
      BY <1>2, <3>1, LooksRight
  <2>2. /\ pass'.dirs[l] = dirs[l] /\ pass'.prints[l] = prints[l]
        /\ \A m \in Libraries \ {l} :
             pass'.dirs[m] = pass.dirs[m] /\ pass'.prints[m] = pass.prints[m]
    BY <1>4, <1>6 DEF Dirs, Stamps
  <2>3. Right(disk, pass'.dirs, pass'.prints, {})
    BY <1>3, <2>2 DEF IndexRight, MapRight, WalkRight, Right
  <2>4. Copied(pass)'
    BY <1>1, <1>3, <1>6, <2>1, <2>2 DEF WalkRight, Copied
  <2> QED
    BY <1>1, <2>1, <2>3, <2>4 DEF PassRight, WalkRight
<1>7. CASE /\ pass' = ScanOf(l) /\ pass' \in Scans(clock)
           /\ pass.kind = "refresh" => pass'.live # 0
           /\ pass'.rest.dirs = pass.dirs /\ pass'.rest.prints = pass.prints
           /\ pass'.rest.changed = pass.changed
  <2>1. pass'.at = "scan" /\ pass'.of = l /\ pass'.live = Fingerprint(l)
    BY <1>7 DEF ScanOf
  <2>2. pass'.rest.kind = pass.kind
    BY <1>2, <2>1, LooksRight
  <2>3. pass'.live # 0 => Present(l)'
    BY <1>1, <2>1 DEF Fingerprint, Present
  <2> QED
    BY <1>1, <1>3, <1>7, <2>1, <2>2, <2>3 DEF PassRight, WalkRight, Copied, Present
<1> QED
  BY <1>1, <1>2, <1>5, <1>6, <1>7, LooksRight

\* A scan reads what is on disk.
LEMMA RightScans ==
  ASSUME SteamAssumption, IndexRight, ScanLibrary
  PROVE  MapRight' /\ PassRight'
<1>1. MapRight' /\ disk' = disk /\ dirs' = dirs /\ prints' = prints
  BY RightGoesOn DEF ScanLibrary, PassOnly, diskVars, knownVars
<1>2. DiskTyped /\ MapTyped /\ PassTyped
  BY DEF IndexRight, SteamShape
<1>3. /\ pass.at = "scan" /\ pass.rest \in Walks(clock) /\ pass.of \in Libraries
      /\ WalkRight(pass.rest, {}) /\ pass.rest.at = "walk"
      /\ pass.rest.kind = "refresh" => pass.live # 0 /\ Present(pass.of)
  BY <1>2, Scans1 DEF IndexRight, PassRight, PassTyped
<1>4. pass.rest.dirs \in Dirs /\ pass.rest.prints \in Stamps(clock)
  BY <1>3 DEF Walks
<1>5. CASE pass.rest.kind = "refresh"
  <2>1. /\ pass'.at = "walk" /\ pass'.changed
        /\ pass'.dirs = [pass.rest.dirs EXCEPT ![pass.of] = Scanned(pass.of)]
        /\ pass'.prints = [pass.rest.prints EXCEPT ![pass.of] = pass.live]
    BY <1>2, <1>3, <1>5, Scans1
  <2>2. /\ pass'.dirs[pass.of] = Discovered(disk[pass.of].holds) /\ pass'.prints[pass.of] # 0
        /\ \A m \in Libraries \ {pass.of} :
             pass'.dirs[m] = pass.rest.dirs[m] /\ pass'.prints[m] = pass.rest.prints[m]
    BY <1>2, <1>3, <1>4, <1>5, <2>1, RightNothing DEF Dirs, Stamps
  <2>3. Right(disk, pass'.dirs, pass'.prints, {})
    BY <1>3, <2>2 DEF WalkRight, Right
  <2> QED
    BY <1>1, <2>1, <2>3 DEF PassRight, WalkRight, Copied
<1>6. CASE pass.rest.kind = "discover"
  <2>1. /\ pass'.at = "stamp" /\ pass'.of = pass.of /\ pass'.rest.kind = "discover"
        /\ pass'.rest.prints = pass.rest.prints
        /\ pass'.rest.dirs = [pass.rest.dirs EXCEPT ![pass.of] = Scanned(pass.of)]
    BY <1>2, <1>6, Scans1
  <2>2. /\ pass'.rest.dirs[pass.of] = Scanned(pass.of)
        /\ \A m \in Libraries \ {pass.of} : pass'.rest.dirs[m] = pass.rest.dirs[m]
    BY <1>3, <1>4, <2>1 DEF Dirs
  <2>3. Right(disk, pass'.rest.dirs, pass'.rest.prints, {pass.of})
    BY <1>3, <2>1, <2>2 DEF WalkRight, Right
  <2> QED
    BY <1>1, <2>1, <2>2, <2>3 DEF PassRight, WalkRight, Copied, Scanned, Present
<1> QED
  BY <1>3, <1>5, <1>6 DEF Walks

\* A stamp is of what was scanned, for nothing has changed since.
LEMMA RightStamps ==
  ASSUME SteamAssumption, IndexRight, StampLibrary
  PROVE  MapRight' /\ PassRight'
<1>1. MapRight' /\ disk' = disk /\ dirs' = dirs /\ prints' = prints
  BY RightGoesOn DEF StampLibrary, PassOnly, diskVars, knownVars
<1>2. DiskTyped /\ MapTyped /\ PassTyped
  BY DEF IndexRight, SteamShape
<1>3. /\ pass.at = "stamp" /\ pass.rest \in Walks(clock) /\ pass.of \in Libraries
      /\ WalkRight(pass.rest, {pass.of}) /\ pass.rest.at = "walk"
      /\ pass.rest.kind = "discover" /\ pass.rest.dirs[pass.of] = Scanned(pass.of)
      /\ pass'.at = "walk" /\ pass'.dirs = pass.rest.dirs /\ pass'.changed
      /\ pass'.prints = [pass.rest.prints EXCEPT ![pass.of] = Fingerprint(pass.of)]
  BY <1>2, Stamps1 DEF IndexRight, PassRight, PassTyped
<1>4. pass.rest.prints \in Stamps(clock)
  BY <1>3 DEF Walks
<1>5. /\ pass'.prints[pass.of] = Fingerprint(pass.of)
      /\ \A m \in Libraries \ {pass.of} : pass'.prints[m] = pass.rest.prints[m]
  BY <1>3, <1>4 DEF Stamps
<1>6. /\ Fingerprint(pass.of) = disk[pass.of].stamp => Present(pass.of)
      /\ Fingerprint(pass.of) = 0 => ~Present(pass.of)
  BY <1>2, <1>3, RightNothing DEF Fingerprint
<1>7. Right(disk, pass'.dirs, pass'.prints, {})
  BY <1>2, <1>3, <1>5, <1>6, RightNothing DEF WalkRight, Right
<1> QED
  BY <1>1, <1>3, <1>7 DEF PassRight, WalkRight, Copied

\* A refresh that met no change and lost nothing knows what was known: it passed over
\* no library that had a prefix.
LEMMA NothingLost ==
  ASSUME SteamAssumption, MapTyped, pass \in Walks(clock), Copied(pass), ~Differs,
         NEW l \in Libraries, pass.dirs[l] = Empty, pass.prints[l] = 0
  PROVE  dirs[l] = Empty
<1>1. /\ pass.kind = "refresh" /\ ~pass.changed
      /\ Cardinality(Prefixed(pass.dirs)) = Cardinality(Prefixed(dirs))
  BY DEF Differs, Discovering, Walks
<1>2. \A m \in Libraries : pass.dirs[m] = Empty \/ pass.dirs[m] = dirs[m]
  BY <1>1 DEF Copied
<1>3. Prefixed(pass.dirs) \in SUBSET Prefixed(dirs)
  BY <1>2 DEF Prefixed, Empty
<1>4. IsFiniteSet(Libraries \X Places)
  BY FS_Product DEF SteamAssumption
<1>5. IsFiniteSet(Prefixed(dirs))
  <2>1. Prefixed(dirs) \in SUBSET (Libraries \X Places)
    BY DEF Prefixed
  <2> QED
    BY <1>4, <2>1, FS_Subset
<1>6. Prefixed(dirs) = Prefixed(pass.dirs)
  BY <1>1, <1>3, <1>5, FS_Subset
<1>7. ASSUME NEW p \in Places PROVE dirs[l][p] = None
  <2>1. <<l, p>> \notin Prefixed(pass.dirs)
    BY DEF Prefixed, Empty
  <2>2. <<l, p>> \notin Prefixed(dirs)
    BY <1>6, <2>1
  <2> QED
    BY <2>2 DEF Prefixed
<1>8. dirs[l] \in [Places -> AppIds \cup {None}]
  BY DEF MapTyped, Dirs, Holdings
<1> QED
  BY <1>7, <1>8 DEF Empty

\* What a pass publishes is right.
LEMMA RightEnds ==
  ASSUME SteamAssumption, IndexRight, Finish
  PROVE  MapRight' /\ PassRight'
<1>1. /\ disk' = disk /\ pass' = Resting /\ prints' = pass.prints /\ pass.at = "walk"
      /\ Differs => /\ dirs' = pass.dirs
                    /\ cacheFile' \in {cacheFile, [dirs |-> pass.dirs, prints |-> pass.prints]}
      /\ ~Differs => dirs' = dirs /\ cacheFile' = cacheFile
  BY DEF Finish, Save, diskVars
<1>2. pass \in Walks(clock) /\ WalkRight(pass, {}) /\ MapRight /\ MapTyped /\ DiskTyped
  BY <1>1, PassAt DEF IndexRight, SteamShape, PassRight
<1>3. PassRight'
  BY <1>1 DEF PassRight, Resting
<1>4. CASE Differs
  BY <1>1, <1>2, <1>3, <1>4 DEF MapRight, WalkRight
<1>5. CASE ~Differs
  <2>1. dirs' = dirs /\ cacheFile' = cacheFile /\ Copied(pass)
    BY <1>1, <1>2, <1>5 DEF WalkRight
  <2>2. ASSUME NEW l \in Libraries
        PROVE  /\ pass.prints[l] = disk[l].stamp => dirs[l] = Discovered(disk[l].holds)
               /\ pass.prints[l] = 0 => dirs[l] = Empty
    <3>1. \/ pass.dirs[l] = Empty /\ pass.prints[l] = 0
          \/ pass.dirs[l] = dirs[l] /\ pass.prints[l] = prints[l]
      BY <1>2, <1>5, <2>1 DEF Copied, Differs, Discovering, Walks
    <3>2. CASE pass.dirs[l] = Empty /\ pass.prints[l] = 0
      <4>1. dirs[l] = Empty
        BY <1>2, <1>5, <2>1, <3>2, NothingLost
      <4> QED
        BY <1>2, <3>2, <4>1, RightNothing
    <3>3. CASE pass.dirs[l] = dirs[l] /\ pass.prints[l] = prints[l]
      BY <1>2, <3>3 DEF MapRight, Right
    <3> QED
      BY <3>1, <3>2, <3>3
  <2>3. Right(disk, dirs, pass.prints, {})
    BY <2>2 DEF Right
  <2> QED
    BY <1>1, <1>2, <1>3, <2>1, <2>3 DEF MapRight
<1> QED
  BY <1>3, <1>4, <1>5

\* A restart holds nothing but the cache file.
LEMMA RightKilled ==
  ASSUME SteamAssumption, IndexRight, Killed
  PROVE  MapRight' /\ PassRight'
<1>1. /\ disk' = disk /\ pass' = Off /\ dirs' = NoDirs /\ prints' = NoPrints
      /\ cacheFile' \in {cacheFile, NoCache} /\ DiskTyped
  BY DEF Killed, IndexRight, SteamShape
<1> QED
  BY <1>1, RightNothing DEF IndexRight, MapRight, PassRight, Off, NoCache

\* IndexRight is inductive.
LEMMA RightSteps ==
  ASSUME SteamAssumption, RacingScan = FALSE, IndexRight, [SteamNext]_steamVars
  PROVE  IndexRight'
<1>1. SteamShape'
  BY ShapeSteps DEF IndexRight
<1>2. CASE UNCHANGED steamVars
  BY <1>1, <1>2 DEF steamVars, diskVars, knownVars, IndexRight, MapRight, PassRight, WalkRight,
                    Copied, Present, Scanned
<1>3. CASE SteamNext
  BY <1>1, <1>3, RightDisk, RightStarts, RightMarks, RightLooks, RightScans, RightStamps,
     RightEnds, RightKilled DEF SteamNext, SteamPass, IndexRight
<1> QED
  BY <1>2, <1>3

\* It says that the index is current.
LEMMA RightShows ==
  ASSUME SteamAssumption, IndexRight
  PROVE  IndexIsCurrent
<1>1. DiskTyped /\ MapRight /\ SteamShape
  BY DEF IndexRight, SteamShape
<1>2. AsOnDisk(Memory) /\ AsOnDisk(cacheFile)
  BY <1>1, RightNothing DEF AsOnDisk, Memory, MapRight, Right
<1>3. NoOrphans
  BY <1>1 DEF NoOrphans, MapRight, Right
<1>4. NeverDiluted
  BY <1>1, ShapeShows
<1> QED
  BY <1>2, <1>3, <1>4 DEF IndexIsCurrent, StampedIsCurrent, CacheIsCurrent

\* What a fingerprint vouches for is right, in memory and in the cache that outlives a
\* kill, and nothing is known of a library that no fingerprint vouches for: when no
\* change falls between the scan of a discovery and its stamp and no disk comes or goes
\* while a library is scanned (steam.rs: discover, refresh_if_stale, save_cache).
THEOREM IndexCurrent ==
  ASSUME SteamAssumption, RacingScan = FALSE
  PROVE  SteamSpec => []IndexIsCurrent
<1>1. SteamInit => IndexRight
  <2> SUFFICES ASSUME SteamInit PROVE IndexRight
    OBVIOUS
  <2>1. SteamShape /\ DiskTyped
    BY SteamShapeInit DEF SteamShape
  <2>2. MapRight /\ PassRight
    BY <2>1, RightNothing DEF SteamInit, MapRight, PassRight, Off, NoCache
  <2> QED
    BY <2>1, <2>2 DEF IndexRight
<1>2. IndexRight /\ [SteamNext]_steamVars => IndexRight'
  BY RightSteps
<1>3. IndexRight => IndexIsCurrent
  BY RightShows
<1> QED
  BY <1>1, <1>2, <1>3, PTL DEF SteamSpec

-----------------------------------------------------------------------------
(* The memo of SteamAppIds.  What follows rests on its assumption.          *)

USE ConstantsAssumption

\* The two readers of the memo.
LEMMA ReaderNames == S \in Readers /\ W \in Readers /\ S # W /\ Readers = {S, W}
BY DEF S, W, Readers

\* MemoTypeOK holds at first.
LEMMA MemoInitType == MemoInit => MemoTypeOK
BY DEF MemoInit, MemoTypeOK, Answers

\* Type correctness, one step per action.
LEMMA MemoNextType == MemoTypeOK /\ [MemoNext]_memoVars => MemoTypeOK'
<1> SUFFICES ASSUME MemoTypeOK, [MemoNext]_memoVars PROVE MemoTypeOK'
  OBVIOUS
<1> USE ReaderNames DEF MemoTypeOK, world, cache, read
<1>1. ASSUME NEW p \in ProcessIds, Exit(p) PROVE MemoTypeOK'
  BY <1>1 DEF Exit
<1>2. ASSUME NEW p \in ProcessIds, NEW a \in Answers, Exec(p, a) PROVE MemoTypeOK'
  <2>1. events' = Append(events, p) \/ events' = events
    BY <1>2 DEF Exec
  <2>a. Append(events, p) \in Seq(ProcessIds)
    BY AppendProperties
  <2>b. events' \in Seq(ProcessIds)
    BY <2>1, <2>a
  <2>2. environ' \in [ProcessIds -> Answers \cup {Gone}]
    BY <1>2 DEF Exec
  <2> QED
    BY <1>2, <2>b, <2>2 DEF Exec
<1>3. ASSUME NEW p \in ProcessIds, NEW a \in Answers, Fork(p, a) PROVE MemoTypeOK'
  BY <1>3 DEF Fork
<1>4. ASSUME NEW t \in Readers, Lookup(t) PROVE MemoTypeOK'
  BY <1>4 DEF Lookup, Return
<1>5. ASSUME NEW t \in Readers, Read(t) PROVE MemoTypeOK'
  <2>1. EnvironId(pid[t]) \in Answers
    BY DEF EnvironId, Answers
  <2> QED
    BY <1>5, <2>1 DEF Read
<1>6. ASSUME NEW t \in Readers, Store(t) PROVE MemoTypeOK'
  BY <1>6 DEF Store, Return
<1>7. CASE List
  BY <1>7 DEF List
<1>8. CASE Sweep
  BY <1>8 DEF Sweep
<1>9. CASE Classify
  BY <1>9 DEF Classify
<1>10. CASE FinishScan
  BY <1>10 DEF FinishScan
<1>11. CASE TakeExec
  <2>1. Head(events) \in ProcessIds /\ events' \in Seq(ProcessIds)
    BY <1>11, HeadTailProperties DEF TakeExec
  <2> QED
    BY <1>11, <2>1 DEF TakeExec
<1>12. CASE DropAppId
  BY <1>12 DEF DropAppId, Bumped
<1>13. CASE UNCHANGED memoVars
  BY <1>13 DEF memoVars
<1> QED
  BY <1>1, <1>2, <1>3, <1>4, <1>5, <1>6, <1>7, <1>8, <1>9, <1>10, <1>11,
     <1>12, <1>13 DEF MemoNext, Scan, Watcher, Reader, Environment

\* Every variable keeps its type.
THEOREM MemoTypeCorrect == MemoSpec => []MemoTypeOK
BY MemoInitType, MemoNextType, PTL DEF MemoSpec

-----------------------------------------------------------------------------
(* The invariant behind NoStaleId.                                          *)

\* An EXEC that has been delivered is pending, and what was pending stays so.
LEMMA ExecPends ==
  ASSUME MemoTypeOK, Lossy = FALSE, NEW p \in ProcessIds, NEW a \in Answers, Exec(p, a)
  PROVE  Pending(p)' /\ \A q \in ProcessIds : Pending(q) => Pending(q)'
<1>1. events \in Seq(ProcessIds) /\ events' = Append(events, p)
  BY DEF Exec, MemoTypeOK
<1>2. Len(events') = Len(events) + 1 /\ Len(events) \in Nat
  BY <1>1, LenProperties, AppendProperties
<1>3. events'[Len(events) + 1] = p
      /\ \A i \in 1 .. Len(events) : events'[i] = events[i]
  BY <1>1, <1>2, AppendProperties
<1>4. UNCHANGED <<pc, pid>>
  BY DEF Exec
<1>5. Pending(p)'
  BY <1>2, <1>3 DEF Pending
<1>6. ASSUME NEW q \in ProcessIds, Pending(q) PROVE Pending(q)'
  BY <1>2, <1>3, <1>4, <1>6 DEF Pending
<1> QED
  BY <1>5, <1>6

\* Taking an event leaves its pid pending unless the process is gone, and the
\* other pids pending.
LEMMA TakeKeepsPending ==
  ASSUME MemoTypeOK, TakeExec, NEW q \in ProcessIds, Pending(q)
  PROVE  Pending(q)' \/ environ[q] = Gone
<1>1. events \in Seq(ProcessIds) /\ events # <<>> /\ events' = Tail(events)
      /\ pc[W] = "idle"
  BY DEF TakeExec, MemoTypeOK
<1>2. Len(events') = Len(events) - 1 /\ Len(events) \in Nat \ {0}
      /\ \A i \in 1 .. Len(events) - 1 : events'[i] = events[i + 1]
      /\ Head(events) = events[1]
  BY <1>1, HeadTailProperties, EmptySeq, LenProperties
<1>3. PICK i \in 1 .. Len(events) : events[i] = q
  BY <1>1 DEF Pending
<1>4. CASE i = 1
  BY <1>2, <1>3, <1>4, ReaderNames DEF TakeExec, Pending, MemoTypeOK
<1>5. CASE i # 1
  <2>1. i - 1 \in 1 .. Len(events') /\ events'[i - 1] = q
    BY <1>2, <1>3, <1>5
  <2> QED
    BY <2>1 DEF Pending
<1> QED
  BY <1>4, <1>5

\* A step that leaves the events and the watcher's place alone changes nothing
\* about what is pending.
LEMMA PendingKept ==
  ASSUME UNCHANGED events, NEW q,
         UNCHANGED <<pc[W], pid[W]>> \/ (pc[W] # "drop" /\ pc'[W] # "drop")
  PROVE  Pending(q)' = Pending(q)
BY DEF Pending

\* MemoInv holds at first.
LEMMA MemoInitInv == MemoInit => MemoInv
BY ReaderNames DEF MemoInit, MemoInv, NoStaleId, NumberOnlyGrows, ReadIsCurrent, Answers

\* A step that touches no entry, no environ, no event and no read in progress
\* keeps the invariant.
LEMMA MemoNextInv ==
  ASSUME Lossy = FALSE, Forking = FALSE
  PROVE  MemoTypeOK /\ MemoInv /\ [MemoNext]_memoVars => MemoInv'
<1> SUFFICES ASSUME MemoTypeOK, MemoInv, [MemoNext]_memoVars PROVE MemoInv'
  OBVIOUS
<1> USE ReaderNames DEF MemoTypeOK, world, cache, read
<1>a. NoStaleId /\ NumberOnlyGrows /\ ReadIsCurrent(S) /\ ReadIsCurrent(W)
  BY DEF MemoInv
<1>b. SUFFICES NoStaleId' /\ NumberOnlyGrows' /\ ReadIsCurrent(S)' /\ ReadIsCurrent(W)'
  BY DEF MemoInv
<1>1. ASSUME NEW p \in ProcessIds, Exit(p) PROVE MemoInv'
  <2>1. \A q \in ProcessIds : Pending(q)' = Pending(q)
    BY <1>1, PendingKept DEF Exit
  <2>2. \A q \in ProcessIds : environ'[q] \in {environ[q], Gone}
    BY <1>1 DEF Exit
  <2>3. UNCHANGED <<cache, pc, pid, read>>
    BY <1>1 DEF Exit
  <2>4. NoStaleId'
    BY <1>a, <2>1, <2>2, <2>3 DEF NoStaleId
  <2>5. NumberOnlyGrows'
    BY <1>a, <2>3 DEF NumberOnlyGrows
  <2>6. ASSUME NEW t \in Readers PROVE ReadIsCurrent(t)'
    BY <1>a, <2>1, <2>2, <2>3 DEF ReadIsCurrent, Fresh
  <2> QED
    BY <2>4, <2>5, <2>6 DEF MemoInv
<1>2. ASSUME NEW p \in ProcessIds, NEW a \in Answers, Exec(p, a) PROVE MemoInv'
  <2>1. Pending(p)' /\ \A q \in ProcessIds : Pending(q) => Pending(q)'
    BY <1>2, ExecPends
  <2>2. \A q \in ProcessIds \ {p} : environ'[q] = environ[q]
    BY <1>2 DEF Exec
  <2>3. UNCHANGED <<cache, pc, pid, read>>
    BY <1>2 DEF Exec
  <2>4. NoStaleId'
    BY <1>a, <2>1, <2>2, <2>3 DEF NoStaleId
  <2>5. NumberOnlyGrows'
    BY <1>a, <2>3 DEF NumberOnlyGrows
  <2>6. ASSUME NEW t \in Readers PROVE ReadIsCurrent(t)'
    BY <1>a, <2>1, <2>2, <2>3 DEF ReadIsCurrent, Fresh
  <2> QED
    BY <2>4, <2>5, <2>6 DEF MemoInv
<1>3. ASSUME NEW t \in Readers, Lookup(t) PROVE MemoInv'
  <2>1. UNCHANGED <<environ, events, memo, seq, pid, id>> /\ pc[t] = "lookup"
        /\ pc'[t] \in {"next", "idle", "read"}
        /\ \A u \in Readers \ {t} : pc'[u] = pc[u] /\ seq0'[u] = seq0[u]
    BY <1>3 DEF Lookup, Return
  <2>2. \A q \in ProcessIds : Pending(q)' = Pending(q)
    BY <2>1, PendingKept
  <2>3. NoStaleId'
    BY <1>a, <2>1, <2>2 DEF NoStaleId
  <2>4. NumberOnlyGrows'
    <3>1. CASE t = S
      BY <1>3, <2>1, <3>1 DEF NumberOnlyGrows, Lookup, Return
    <3>2. CASE t # S
      BY <1>a, <2>1, <3>2 DEF NumberOnlyGrows
    <3> QED
      BY <3>1, <3>2
  <2>5. ASSUME NEW u \in Readers PROVE ReadIsCurrent(u)'
    BY <1>a, <2>1, <2>2 DEF ReadIsCurrent, Fresh
  <2> QED
    BY <2>3, <2>4, <2>5 DEF MemoInv
<1>4. ASSUME NEW t \in Readers, Read(t) PROVE MemoInv'
  <2>1. UNCHANGED <<environ, events, memo, seq, pid, seq0>> /\ pc[t] = "read"
        /\ pc'[t] = "store" /\ id'[t] = EnvironId(pid[t])
        /\ \A u \in Readers \ {t} : pc'[u] = pc[u] /\ id'[u] = id[u]
    BY <1>4 DEF Read
  <2>2. \A q \in ProcessIds : Pending(q)' = Pending(q)
    BY <2>1, PendingKept
  <2>3. NoStaleId'
    BY <1>a, <2>1, <2>2 DEF NoStaleId
  <2>4. NumberOnlyGrows'
    BY <1>a, <2>1 DEF NumberOnlyGrows
  <2>5. ASSUME NEW u \in Readers PROVE ReadIsCurrent(u)'
    BY <1>a, <2>1, <2>2 DEF ReadIsCurrent, Fresh, EnvironId
  <2> QED
    BY <2>3, <2>4, <2>5 DEF MemoInv
<1>5. ASSUME NEW t \in Readers, Store(t) PROVE MemoInv'
  <2> DEFINE p == pid[t]
  <2>1. UNCHANGED <<environ, events, pid, seq0, id>> /\ pc[t] = "store"
        /\ pc'[t] \in {"next", "idle"} /\ p \in ProcessIds
        /\ \A u \in Readers \ {t} : pc'[u] = pc[u]
    BY <1>5 DEF Store, Return
  <2>2. \A q \in ProcessIds : Pending(q)' = Pending(q)
    BY <2>1, PendingKept
  <2>3. \A q \in ProcessIds \ {p} : memo'[q] = memo[q] /\ seq'[q] = seq[q]
    BY <1>5 DEF Store
  <2>4. CASE ~Fresh(p, seq0[t])
    <3>1. UNCHANGED <<memo, seq>>
      BY <1>5, <2>4 DEF Store
    <3>2. NoStaleId'
      BY <1>a, <2>1, <2>2, <3>1 DEF NoStaleId
    <3>3. NumberOnlyGrows'
      BY <1>a, <2>1, <3>1 DEF NumberOnlyGrows
    <3>4. ASSUME NEW u \in Readers PROVE ReadIsCurrent(u)'
      BY <1>a, <2>1, <2>2, <3>1 DEF ReadIsCurrent, Fresh
    <3> QED
      BY <3>2, <3>3, <3>4 DEF MemoInv
  <2>5. CASE Fresh(p, seq0[t])
    <3>1. memo'[p] = id[t] /\ seq'[p] = seq0[t] /\ id[t] \in Answers
      BY <1>5, <2>5 DEF Store
    <3>2. environ[p] \in {Gone, id[t]} \/ Pending(p)
      BY <1>a, <2>1, <2>5 DEF ReadIsCurrent
    <3>3. NoStaleId'
      BY <1>a, <2>1, <2>2, <2>3, <3>1, <3>2 DEF NoStaleId
    <3>4. NumberOnlyGrows'
      BY <1>a, <2>1, <2>3, <2>5, <3>1 DEF NumberOnlyGrows, Fresh
    <3>5. ~Fresh(p, seq0[S])' /\ ~Fresh(p, seq0[W])'
      BY <2>1, <3>1 DEF Fresh
    <3>6. ASSUME NEW u \in Readers PROVE ReadIsCurrent(u)'
      <4>1. CASE pid[u] = p /\ u = S
        BY <2>1, <3>5, <4>1 DEF ReadIsCurrent
      <4>3. CASE u = W
        BY <1>a, <2>1, <2>2, <4>3 DEF ReadIsCurrent
      <4>2. CASE pid[u] # p
        BY <1>a, <2>1, <2>2, <2>3, <4>2 DEF ReadIsCurrent, Fresh
      <4> QED
        BY <4>1, <4>2, <4>3
    <3> QED
      BY <3>3, <3>4, <3>6 DEF MemoInv
  <2> QED
    BY <2>4, <2>5
<1>6. CASE List \/ FinishScan \/ Classify
  <2>1. UNCHANGED <<environ, events, memo, seq, seq0, id, pid[W], pc[W]>>
        /\ pc[S] \in {"idle", "next"} /\ pc'[S] \in {"sweep", "idle", "next", "lookup"}
    BY <1>6 DEF List, FinishScan, Classify
  <2>2. \A q \in ProcessIds : Pending(q)' = Pending(q)
    BY <2>1, PendingKept
  <2>3. NoStaleId'
    BY <1>a, <2>1, <2>2 DEF NoStaleId
  <2>4. NumberOnlyGrows'
    BY <2>1 DEF NumberOnlyGrows
  <2>5. ReadIsCurrent(S)' /\ ReadIsCurrent(W)'
    BY <1>a, <2>1, <2>2 DEF ReadIsCurrent, Fresh
  <2> QED
    BY <2>3, <2>4, <2>5 DEF MemoInv
<1>7. CASE Sweep
  <2>1. UNCHANGED <<environ, events, seq0, id, pid, pc[W]>> /\ pc'[S] = "next"
        /\ \A q \in ProcessIds : \/ memo'[q] = memo[q] /\ seq'[q] = seq[q]
                                 \/ memo'[q] = None /\ seq'[q] = 0
    BY <1>7 DEF Sweep
  <2>2. \A q \in ProcessIds : Pending(q)' = Pending(q)
    BY <2>1, PendingKept
  <2>3. NoStaleId'
    BY <1>a, <2>1, <2>2 DEF NoStaleId
  <2>4. NumberOnlyGrows' /\ ReadIsCurrent(S)'
    BY <2>1 DEF NumberOnlyGrows, ReadIsCurrent
  <2>5. ReadIsCurrent(W)'
    BY <1>a, <2>1, <2>2 DEF ReadIsCurrent, Fresh
  <2> QED
    BY <2>3, <2>4, <2>5 DEF MemoInv
<1>8. CASE TakeExec
  <2>1. UNCHANGED <<environ, memo, seq, seq0, id, pid[S], pc[S]>>
        /\ pc[W] = "idle" /\ pc'[W] \in {"idle", "drop"}
    BY <1>8 DEF TakeExec
  <2>2. \A q \in ProcessIds : Pending(q) => Pending(q)' \/ environ[q] = Gone
    BY <1>8, TakeKeepsPending
  <2>3. NoStaleId'
    BY <1>a, <2>1, <2>2 DEF NoStaleId
  <2>4. NumberOnlyGrows'
    BY <1>a, <2>1 DEF NumberOnlyGrows
  <2>5. ReadIsCurrent(W)'
    BY <2>1 DEF ReadIsCurrent
  <2>6. ReadIsCurrent(S)'
    <3>1. Fresh(pid[S], seq0[S])' = Fresh(pid[S], seq0[S])
      BY <2>1 DEF Fresh
    <3>2. pid[S] \in ProcessIds
      OBVIOUS
    <3> QED
      BY <1>a, <2>1, <2>2, <3>1, <3>2 DEF ReadIsCurrent
  <2> QED
    BY <2>3, <2>4, <2>5, <2>6 DEF MemoInv
<1>9. CASE DropAppId
  <2> DEFINE p == pid[W]
  <2>1. UNCHANGED <<environ, events, seq0, id, pid, pc[S]>> /\ p \in ProcessIds
        /\ pc[W] = "drop" /\ pc'[W] \in {"lookup", "idle"}
        /\ memo'[p] = Stale /\ seq'[p] = Bumped(p)
        /\ \A q \in ProcessIds \ {p} : memo'[q] = memo[q] /\ seq'[q] = seq[q]
    BY <1>9 DEF DropAppId
  <2>2. \A q \in ProcessIds \ {p} : Pending(q)' = Pending(q)
    BY <2>1 DEF Pending
  <2>3. NoStaleId'
    BY <1>a, <2>1, <2>2 DEF NoStaleId, Answers
  <2>4. NumberOnlyGrows'
    <3>1. CASE pid[S] = p
      <4>1. Bumped(p) = IF memo[p] = None THEN 1 ELSE seq[p] + 1
        BY DEF Bumped
      <4>2. seq[p] \in Nat /\ seq0[S] \in Nat
        BY <2>1
      <4> QED
        BY <1>a, <2>1, <3>1, <4>1, <4>2 DEF NumberOnlyGrows
    <3>2. CASE pid[S] # p
      BY <1>a, <2>1, <3>2 DEF NumberOnlyGrows
    <3> QED
      BY <3>1, <3>2
  <2>5. ReadIsCurrent(S)'
    <3>1. CASE pid[S] # p
      BY <1>a, <2>1, <2>2, <3>1 DEF ReadIsCurrent, Fresh
    <3>2. CASE pid[S] = p /\ pc[S] = "store"
      <4>1. seq0[S] < seq'[p]
        BY <1>a, <2>1, <3>2 DEF NumberOnlyGrows, Bumped
      <4>2. ~Fresh(p, seq0[S])'
        BY <2>1, <4>1 DEF Fresh
      <4> QED
        BY <2>1, <3>2, <4>2 DEF ReadIsCurrent
    <3> QED
      BY <2>1, <3>1, <3>2 DEF ReadIsCurrent
  <2>6. ReadIsCurrent(W)'
    BY <2>1 DEF ReadIsCurrent
  <2> QED
    BY <2>3, <2>4, <2>5, <2>6 DEF MemoInv
<1>10. CASE UNCHANGED memoVars
  <2>1. \A q \in ProcessIds : Pending(q)' = Pending(q)
    BY <1>10, PendingKept DEF memoVars
  <2> QED
    BY <1>10, <1>a, <2>1
    DEF memoVars, MemoInv, NoStaleId, NumberOnlyGrows, ReadIsCurrent, Fresh
<1>11. ASSUME NEW p \in ProcessIds, NEW a \in Answers, Fork(p, a) PROVE MemoInv'
  <2>1. /\ memo[p] = None
        /\ environ' = [environ EXCEPT ![p] = a]
        /\ UNCHANGED <<events, memo, seq, pc, pid, seq0, id, listed>>
        /\ \A t \in Readers : pc[t] = "store" => pid[t] # p
    BY <1>11 DEF Fork, Unremembered
  <2>2. \A q \in ProcessIds : q # p => environ'[q] = environ[q]
    BY <2>1
  <2>3. None \notin Answers
    BY ConstantsAssumption
  <2>4. NoStaleId'
    BY <1>a, <2>1, <2>2, <2>3 DEF NoStaleId, Pending
  <2>5. NumberOnlyGrows'
    BY <1>a, <2>1 DEF NumberOnlyGrows
  <2>6. ReadIsCurrent(S)' /\ ReadIsCurrent(W)'
    BY <1>a, <2>1, <2>2 DEF ReadIsCurrent, Pending, Fresh
  <2> QED
    BY <2>4, <2>5, <2>6 DEF MemoInv
<1> QED
  BY <1>1, <1>2, <1>3, <1>4, <1>5, <1>6, <1>7, <1>8, <1>9, <1>10, <1>11
  DEF MemoNext, Scan, Watcher, Reader, Environment, MemoInv

\* When every EXEC is seen and every process that takes over a pid execs, what
\* the memo answers for a pid is what its environ says.
THEOREM MemoIsCurrent ==
  ASSUME Lossy = FALSE, Forking = FALSE
  PROVE  MemoSpec => []NoStaleId
<1>1. MemoInit => MemoTypeOK /\ MemoInv
  BY MemoInitType, MemoInitInv
<1>2. MemoTypeOK /\ MemoInv /\ [MemoNext]_memoVars => (MemoTypeOK /\ MemoInv)'
  BY MemoNextType, MemoNextInv
<1>3. MemoInv => NoStaleId
  BY DEF MemoInv
<1> QED
  BY <1>1, <1>2, <1>3, PTL DEF MemoSpec

-----------------------------------------------------------------------------
(* Matching.  What the helpers return, what a bundle holds, what each tier  *)
(* finds; then the order of the tiers.                                      *)

\* The least number of a set is the one Min takes.
LEMMA MinIs ==
  ASSUME NEW T \in SUBSET Nat, T # {}
  PROVE  Min(T) \in T /\ \A n \in T : Min(T) <= n
<1>1. \E m \in T : \A n \in T : m <= n
  BY Least
<1> QED
  BY <1>1 DEF Min

\* A nonempty set of numbers with a bound has a greatest one.
LEMMA GreatestIs ==
  ASSUME NEW T \in SUBSET Nat, T # {}, NEW k \in Nat, \A n \in T : n <= k
  PROVE  \E m \in T : \A n \in T : n <= m
<1> DEFINE U == {k - n : n \in T}
<1>1. U \in SUBSET Nat /\ U # {}
  <2>1. \A n \in T : k - n \in Nat
    OBVIOUS
  <2> QED
    BY <2>1
<1>2. PICK u \in U : \A v \in U : u <= v
  BY <1>1, Least
<1>3. PICK m \in T : u = k - m
  OBVIOUS
<1>4. ASSUME NEW n \in T PROVE n <= m
  <2>1. k - n \in U
    OBVIOUS
  <2>2. k - m <= k - n
    BY <1>2, <1>3, <2>1
  <2> QED
    BY <2>2
<1> QED
  BY <1>4

\* FirstOf returns the first element that is something.
LEMMA FirstIs ==
  ASSUME NEW s, DOMAIN s \in SUBSET Nat
  PROVE  \/ FirstOf(s) = None /\ \A i \in DOMAIN s : s[i] = None
         \/ \E i \in DOMAIN s : /\ s[i] # None
                                /\ FirstOf(s) = s[i]
                                /\ \A j \in DOMAIN s : j < i => s[j] = None
<1> DEFINE some == {i \in DOMAIN s : s[i] # None}
<1>1. CASE some = {}
  BY <1>1 DEF FirstOf
<1>2. CASE some # {}
  <2>1. some \in SUBSET Nat
    OBVIOUS
  <2>2. Min(some) \in some /\ \A n \in some : Min(some) <= n
    BY <1>2, <2>1, MinIs
  <2>3. FirstOf(s) = s[Min(some)]
    BY <1>2 DEF FirstOf
  <2>4. \A j \in DOMAIN s : j < Min(some) => s[j] = None
    BY <2>1, <2>2
  <2> QED
    BY <2>2, <2>3, <2>4
<1> QED
  BY <1>1, <1>2

-----------------------------------------------------------------------------
\* What the lookups need of a text: it has a length and places up to it.
IsText(v) == Len(v) \in Nat /\ DOMAIN v = 1..Len(v)

\* What is picked of a text is a text.
LEMMA PickedIsText ==
  ASSUME NEW v, IsText(v), NEW kept \in SUBSET DOMAIN v
  PROVE  IsText(Picked(v, kept))
<1>1. IsFiniteSet(DOMAIN v)
  BY FS_Interval DEF IsText
<1>2. Cardinality(kept) \in Nat
  BY <1>1, FS_Subset, FS_CardinalityType
<1> DEFINE n == Cardinality(kept)
           w == Picked(v, kept)
           R == {w[k] : k \in 1..n}
<1>3. n \in Nat /\ w = [k \in 1..n |-> w[k]]
  BY <1>2 DEF Picked
<1> HIDE DEF n, w
<1>4. w \in Seq(R) /\ Len(w) = n
  BY <1>3, IsASeq
<1> QED
  BY <1>3, <1>4 DEF IsText, w

\* The variants of a text are texts, and there is at least one.
LEMMA VariantsAreTexts ==
  ASSUME NEW text, IsText(text)
  PROVE  /\ IsText(path_variants(text))
         /\ \A v \in ToSet(path_variants(text)) : IsText(v)
<1> DEFINE Add(vs, m) == LET v == WithoutMarker(text, m)
                         IN IF v \in ToSet(vs) THEN vs ELSE Append(vs, v)
           Fine(vs) == \E T : vs \in Seq(T) /\ \A v \in T : IsText(v)
<1>1. ASSUME NEW vs, Fine(vs), NEW m PROVE Fine(Add(vs, m))
  <2>1. IsText(WithoutMarker(text, m))
    BY PickedIsText DEF WithoutMarker
  <2>2. PICK T : vs \in Seq(T) /\ \A v \in T : IsText(v)
    BY <1>1
  <2>3. Add(vs, m) \in Seq(T \cup {WithoutMarker(text, m)})
    BY <2>2
  <2>4. \A v \in T \cup {WithoutMarker(text, m)} : IsText(v)
    BY <2>1, <2>2
  <2> QED
    BY <2>3, <2>4
<1>2. Fine(<<text>>)
  <2> DEFINE T == {text}
  <2>1. <<text>> \in Seq(T) /\ \A v \in T : IsText(v)
    OBVIOUS
  <2> HIDE DEF T
  <2> QED
    BY <2>1
<1>3. path_variants(text) = Add(Add(Add(Add(<<text>>, <<"64">>), <<".", "x", "64">>), <<"x", "64">>), <<"_", "64">>)
  BY DEF path_variants
<1> HIDE DEF Add, Fine
<1>4. Fine(path_variants(text))
  BY <1>1, <1>2, <1>3
<1>5. PICK T : path_variants(text) \in Seq(T) /\ \A v \in T : IsText(v)
  BY <1>4 DEF Fine
<1>6. ToSet(path_variants(text)) \subseteq T
  BY <1>5 DEF ToSet
<1> QED
  BY <1>5, <1>6 DEF IsText

-----------------------------------------------------------------------------
\* The parts of a path, put one after the other, are a text.
LEMMA FlattenIsText ==
  ASSUME NEW T, NEW s \in Seq(Seq(T)), s # <<>>
  PROVE  FlattenSeq(s) \in Seq(T)
<1> DEFINE Joined(n, f) == \A i \in 1..n : f[i] = IF i = 1 THEN s[i] ELSE f[i - 1] \o s[i]
           N == Len(s)
           Eq(f) == f = [i \in 1..N |-> IF i = 1 THEN s[i] ELSE f[i - 1] \o s[i]]
<1>0. N \in Nat \ {0} /\ s \in [1..N -> Seq(T)]
  OBVIOUS
<1> HIDE DEF N
<1>1. \E f : Eq(f)
  <2> DEFINE Amiss == {n \in 1..N : ~\E f \in [1..n -> Seq(T)] : Joined(n, f)}
  <2>1. Amiss = {}
    <3> SUFFICES ASSUME Amiss # {} PROVE FALSE
      OBVIOUS
    <3>1. Amiss \in SUBSET Nat
      BY <1>0
    <3>2. PICK m \in Amiss : \A n \in Amiss : m <= n
      BY <3>1, Least
    <3>3. m \in 1..N /\ ~\E f \in [1..m -> Seq(T)] : Joined(m, f)
      OBVIOUS
    <3>4. CASE m = 1
      <4>1. [i \in 1..1 |-> s[1]] \in [1..1 -> Seq(T)] /\ Joined(1, [i \in 1..1 |-> s[1]])
        BY <1>0
      <4> QED
        BY <3>3, <3>4, <4>1
    <3>5. CASE m # 1
      <4>1. m - 1 \in 1..N /\ m \in Nat /\ m > 1 /\ ~(m <= m - 1)
        BY <1>0, <3>3, <3>5
      <4>2. m - 1 \notin Amiss
        BY <3>2, <4>1
      <4>3. PICK f \in [1..(m - 1) -> Seq(T)] : Joined(m - 1, f)
        BY <4>1, <4>2
      <4> DEFINE g == [i \in 1..m |-> IF i = m THEN f[m - 1] \o s[m] ELSE f[i]]
      <4>4. f[m - 1] \o s[m] \in Seq(T)
        <5>1. f[m - 1] \in Seq(T) /\ s[m] \in Seq(T)
          BY <1>0, <3>3, <4>1
        <5> QED
          BY <5>1
      <4>5. \A i \in 1..m : i # m => i \in 1..(m - 1)
        BY <4>1
      <4>6. g \in [1..m -> Seq(T)]
        BY <4>4, <4>5
      <4>7. ASSUME NEW i \in 1..m PROVE g[i] = IF i = 1 THEN s[i] ELSE g[i - 1] \o s[i]
        <5>1. CASE i = m
          <6>1. m - 1 \in 1..m /\ m - 1 # m
            BY <4>1
          <6>2. g[m - 1] = f[m - 1]
            BY <6>1
          <6>3. g[i] = f[m - 1] \o s[m]
            BY <5>1
          <6>4. i # 1 /\ g[i] = g[i - 1] \o s[i]
            <7>1. i # 1
              BY <4>1, <5>1
            <7> HIDE DEF g
            <7> QED
              BY <5>1, <6>2, <6>3, <7>1
          <6> QED
            BY <6>4
        <5>2. CASE i # m
          <6>1. i \in 1..(m - 1)
            BY <4>5, <5>2
          <6>2. i # 1 => i - 1 \in 1..m /\ i - 1 # m
            BY <4>1, <6>1
          <6>3. f[i] = IF i = 1 THEN s[i] ELSE f[i - 1] \o s[i]
            BY <4>3, <6>1
          <6> QED
            BY <5>2, <6>2, <6>3
        <5> QED
          BY <5>1, <5>2
      <4> QED
        BY <3>3, <4>6, <4>7
    <3> QED
      BY <3>4, <3>5
  <2>2. N \in 1..N
    BY <1>0
  <2>3. PICK f \in [1..N -> Seq(T)] : Joined(N, f)
    BY <2>1, <2>2
  <2>4. Eq(f)
    BY <2>3
  <2> QED
    BY <2>4
<1> DEFINE f == CHOOSE f : Eq(f)
<1>2. Eq(f)
  BY <1>1
<1>3. FlattenSeq(s) = f[N]
  BY <1>0 DEF FlattenSeq, N
<1> HIDE DEF f
<1> DEFINE Amiss == {n \in 1..N : f[n] \notin Seq(T)}
<1>4. Amiss = {}
  <2> SUFFICES ASSUME Amiss # {} PROVE FALSE
    OBVIOUS
  <2>1. Amiss \in SUBSET Nat
    BY <1>0
  <2>2. PICK m \in Amiss : \A n \in Amiss : m <= n
    BY <2>1, Least
  <2>3. m \in 1..N /\ f[m] \notin Seq(T) /\ s[m] \in Seq(T)
    BY <1>0
  <2>4. f[m] = IF m = 1 THEN s[m] ELSE f[m - 1] \o s[m]
    BY <1>2, <2>3
  <2>5. m # 1
    BY <2>3, <2>4
  <2>6. m - 1 \in 1..N /\ ~(m <= m - 1)
    BY <1>0, <2>3, <2>5
  <2>7. f[m - 1] \in Seq(T)
    BY <2>2, <2>6
  <2>8. f[m - 1] \o s[m] \in Seq(T)
    BY <2>3, <2>7
  <2> QED
    BY <2>3, <2>4, <2>5, <2>8
<1> QED
  BY <1>0, <1>3, <1>4

\* A path as it is compared is a text.
LEMMA FlatIsText ==
  ASSUME NEW path \in Seq(Text), path # <<>>
  PROVE  IsText(Flat(path))
<1> DEFINE s == [i \in DOMAIN path |-> <<"/">> \o path[i]]
<1>1. ASSUME NEW i \in DOMAIN path PROVE <<"/">> \o path[i] \in Seq(Tokens)
  <2>1. <<"/">> \in Seq(Tokens)
    BY MatchAssumption
  <2>2. path[i] \in Seq(Tokens)
    BY DEF Text
  <2> QED
    BY <2>1, <2>2
<1>2. s \in Seq(Seq(Tokens)) /\ s # <<>>
  <2>1. Len(path) \in Nat /\ DOMAIN path = 1..Len(path) /\ Len(path) # 0
    OBVIOUS
  <2>2. s \in [1..Len(path) -> Seq(Tokens)]
    BY <1>1, <2>1
  <2>3. DOMAIN s = 1..Len(path)
    BY <2>1
  <2> HIDE DEF s
  <2>4. s \in Seq(Seq(Tokens)) /\ Len(s) = Len(path)
    BY <2>1, <2>2, <2>3
  <2> QED
    BY <2>1, <2>4
<1> HIDE DEF s
<1>3. FlattenSeq(s) \in Seq(Tokens)
  BY <1>2, FlattenIsText
<1> QED
  BY <1>3 DEF Flat, s, IsText

-----------------------------------------------------------------------------
\* Find returns a pattern that occurs, when one does.
LEMMA FindIs ==
  ASSUME NEW P \in SUBSET Pattern, NEW v, IsText(v)
  PROVE  \/ /\ Find(P, v) = None
            /\ \A m \in P, i \in DOMAIN v : ~ Occurs(m.pattern, v, i)
         \/ /\ Find(P, v) \in P
            /\ \E i \in DOMAIN v : Occurs(Find(P, v).pattern, v, i)
<1> DEFINE Spots == {m \in P \X DOMAIN v : Occurs(m[1].pattern, v, m[2])}
<1>1. CASE Spots = {}
  <2>1. Find(P, v) = None
    BY <1>1 DEF Find
  <2>2. ASSUME NEW m \in P, NEW i \in DOMAIN v PROVE ~ Occurs(m.pattern, v, i)
    <3>1. <<m, i>> \in P \X DOMAIN v
      OBVIOUS
    <3>2. <<m, i>> \notin Spots
      BY <1>1
    <3> QED
      BY <3>1, <3>2
  <2> QED
    BY <2>1, <2>2
<1>2. CASE Spots # {}
  <2>1. \A m \in Spots : /\ m[1] \in P /\ m[2] \in DOMAIN v /\ m[2] \in Nat /\ m[2] <= Len(v)
                      /\ Len(m[1].pattern) \in Nat /\ Len(m[1].pattern) <= Len(v)
                      /\ m[1].entry \in Nat /\ m[1].exe \in Nat
                      /\ Occurs(m[1].pattern, v, m[2])
    <3> SUFFICES ASSUME NEW m \in Spots
                 PROVE  /\ m[1] \in P /\ m[2] \in DOMAIN v /\ m[2] \in Nat /\ m[2] <= Len(v)
                        /\ Len(m[1].pattern) \in Nat /\ Len(m[1].pattern) <= Len(v)
                        /\ m[1].entry \in Nat /\ m[1].exe \in Nat
                        /\ Occurs(m[1].pattern, v, m[2])
      OBVIOUS
    <3>1. m[1] \in P /\ m[2] \in DOMAIN v /\ Occurs(m[1].pattern, v, m[2])
      OBVIOUS
    <3>2. m[1] \in Pattern /\ m[2] \in 1..Len(v) /\ Len(v) \in Nat
      BY <3>1 DEF IsText
    <3>3. m[1].pattern \in Text /\ m[1].entry \in Nat /\ m[1].exe \in Nat
      BY <3>2 DEF Pattern, Text
    <3>4. Len(m[1].pattern) \in Nat
      BY <3>3
    <3>5. m[2] + Len(m[1].pattern) - 1 <= Len(v)
      BY <3>1 DEF Occurs
    <3> QED
      BY <3>1, <3>2, <3>3, <3>4, <3>5
  <2>2. Len(v) \in Nat
    BY DEF IsText
  <2> HIDE DEF Spots
  <2>3. PICK i \in {m[2] : m \in Spots} : \A j \in {m[2] : m \in Spots} : j <= i
    <3> DEFINE T == {m[2] : m \in Spots}
    <3>1. T \in SUBSET Nat /\ T # {} /\ \A n \in T : n <= Len(v)
      BY <1>2, <2>1
    <3> HIDE DEF T
    <3>2. \E i \in T : \A j \in T : j <= i
      BY <2>2, <3>1, GreatestIs
    <3> QED
      BY <3>2 DEF T
  <2> DEFINE A1 == {m \in Spots : m[2] = i}
  <2>4. PICK l \in {Len(m[1].pattern) : m \in A1} : \A k \in {Len(m[1].pattern) : m \in A1} : k <= l
    <3> DEFINE T == {Len(m[1].pattern) : m \in A1}
    <3>1. T \in SUBSET Nat /\ T # {} /\ \A n \in T : n <= Len(v)
      BY <2>1, <2>3
    <3> HIDE DEF T
    <3>2. \E j \in T : \A k \in T : k <= j
      BY <2>2, <3>1, GreatestIs
    <3> QED
      BY <3>2 DEF T
  <2> DEFINE A2 == {m \in A1 : Len(m[1].pattern) = l}
  <2>5. PICK e \in {m[1].entry : m \in A2} : \A k \in {m[1].entry : m \in A2} : e <= k
    <3> DEFINE T == {m[1].entry : m \in A2}
    <3>1. T \in SUBSET Nat /\ T # {}
      BY <2>1, <2>4
    <3> HIDE DEF T
    <3>2. \E j \in T : \A k \in T : j <= k
      BY <3>1, Least
    <3> QED
      BY <3>2 DEF T
  <2> DEFINE A3 == {m \in A2 : m[1].entry = e}
  <2>6. PICK x \in {m[1].exe : m \in A3} : \A k \in {m[1].exe : m \in A3} : x <= k
    <3> DEFINE T == {m[1].exe : m \in A3}
    <3>1. T \in SUBSET Nat /\ T # {}
      BY <2>1, <2>5
    <3> HIDE DEF T
    <3>2. \E j \in T : \A k \in T : j <= k
      BY <3>1, Least
    <3> QED
      BY <3>2 DEF T
  <2>7. PICK m \in A3 : m[1].exe = x
    BY <2>6
  <2>8. m \in Spots /\ m[2] = i /\ Len(m[1].pattern) = l /\ m[1].entry = e /\ m[1].exe = x
    BY <2>7
  <2>9. ASSUME NEW n \in Spots PROVE ~ Before(n, m)
    <3> SUFFICES ASSUME Before(n, m) PROVE FALSE
      OBVIOUS
    <3>1. n[2] <= i
      BY <2>3
    <3>2. n[2] = i => Len(n[1].pattern) <= l
      BY <2>4
    <3>3. n[2] = i /\ Len(n[1].pattern) = l => e <= n[1].entry
      BY <2>5
    <3>4. n[2] = i /\ Len(n[1].pattern) = l /\ n[1].entry = e => x <= n[1].exe
      BY <2>6
    <3>5. /\ n[2] \in Nat /\ Len(n[1].pattern) \in Nat /\ n[1].entry \in Nat /\ n[1].exe \in Nat
          /\ i \in Nat /\ l \in Nat /\ e \in Nat /\ x \in Nat
      BY <2>1, <2>8
    <3> QED
      BY <2>8, <3>1, <3>2, <3>3, <3>4, <3>5 DEF Before
  <2> DEFINE c == CHOOSE k \in Spots : \A n \in Spots : ~ Before(n, k)
  <2>10. c \in Spots
    BY <2>8, <2>9
  <2>11. Find(P, v) = c[1]
    BY <1>2 DEF Find, Spots
  <2> HIDE DEF c
  <2>12. c[1] \in P /\ c[2] \in DOMAIN v /\ Occurs(c[1].pattern, v, c[2])
    BY <2>1, <2>10
  <2> QED
    BY <2>11, <2>12
<1> QED
  BY <1>1, <1>2

\* A pattern lies on a text: one of its variants has it.
Lies(pattern, text) ==
  \E v \in ToSet(path_variants(text)) : \E i \in DOMAIN v : Occurs(pattern, v, i)

\* The variants of a text are asked for one automaton's patterns.
LEMMA VariantsProbed ==
  ASSUME NEW P \in SUBSET Pattern, NEW text, IsText(text)
  PROVE  LET vs == path_variants(text)
             f  == FirstOf([v \in DOMAIN vs |-> Find(P, vs[v])])
         IN \/ f = None /\ \A m \in P : ~ Lies(m.pattern, text)
            \/ f \in P /\ Lies(f.pattern, text)
<1> DEFINE vs == path_variants(text)
           s == [v \in DOMAIN vs |-> Find(P, vs[v])]
<1>1. IsText(vs) /\ \A v \in DOMAIN vs : vs[v] \in ToSet(vs) /\ IsText(vs[v])
  BY VariantsAreTexts DEF ToSet
<1>1a. \A v \in ToSet(vs) : \E k \in DOMAIN vs : v = vs[k]
  BY DEF ToSet
<1> HIDE DEF vs
<1>2. DOMAIN s = DOMAIN vs /\ DOMAIN s \in SUBSET Nat
  BY <1>1 DEF IsText
<1>3. ASSUME NEW v \in DOMAIN vs
      PROVE  \/ /\ s[v] = None
                /\ \A m \in P, i \in DOMAIN vs[v] : ~ Occurs(m.pattern, vs[v], i)
             \/ s[v] \in P /\ \E i \in DOMAIN vs[v] : Occurs(s[v].pattern, vs[v], i)
  <2>1. s[v] = Find(P, vs[v]) /\ IsText(vs[v])
    BY <1>1
  <2> HIDE DEF s
  <2> QED
    BY <2>1, FindIs
<1> HIDE DEF s
<1>4. CASE FirstOf(s) = None /\ \A v \in DOMAIN s : s[v] = None
  <2>1. None \notin P
    BY MatchAssumption
  <2>2. \A v \in DOMAIN vs, m \in P : \A i \in DOMAIN vs[v] : ~ Occurs(m.pattern, vs[v], i)
    BY <1>2, <1>3, <1>4, <2>1
  <2>3. \A m \in P : ~ Lies(m.pattern, text)
    BY <1>1a, <2>2 DEF Lies, vs
  <2> QED
    BY <1>4, <2>3 DEF s, vs
<1>5. CASE \E v \in DOMAIN s : s[v] # None /\ FirstOf(s) = s[v]
  <2>1. PICK v \in DOMAIN vs : s[v] # None /\ FirstOf(s) = s[v]
    BY <1>2, <1>5
  <2>2. s[v] \in P /\ Lies(s[v].pattern, text)
    BY <1>1, <1>3, <2>1 DEF Lies, vs
  <2> QED
    BY <2>1, <2>2 DEF s, vs
<1> QED
  BY <1>2, <1>4, <1>5, FirstIs

\* The automata are asked one after the other.
LEMMA ProbeIs ==
  ASSUME NEW automata \in Seq(SUBSET Pattern), NEW text, IsText(text)
  PROVE  \/ /\ probe_variants(text, automata) = None
            /\ \A a \in DOMAIN automata : \A m \in automata[a] : ~ Lies(m.pattern, text)
         \/ \E a \in DOMAIN automata :
              /\ probe_variants(text, automata) \in automata[a]
              /\ Lies(probe_variants(text, automata).pattern, text)
              /\ \A c \in DOMAIN automata : c < a =>
                   \A m \in automata[c] : ~ Lies(m.pattern, text)
<1> DEFINE F(a) == LET vs == path_variants(text)
                   IN FirstOf([v \in DOMAIN vs |-> Find(automata[a], vs[v])])
           s == [a \in DOMAIN automata |-> F(a)]
<1>1. \A a \in DOMAIN automata : automata[a] \in SUBSET Pattern
  OBVIOUS
<1>2. ASSUME NEW a \in DOMAIN automata
      PROVE  \/ F(a) = None /\ \A m \in automata[a] : ~ Lies(m.pattern, text)
             \/ F(a) \in automata[a] /\ Lies(F(a).pattern, text)
  BY <1>1, VariantsProbed
<1>3. probe_variants(text, automata) = FirstOf(s)
  BY DEF probe_variants
<1>4. None \notin Pattern
  BY MatchAssumption
<1> HIDE DEF F
<1>5. DOMAIN s = DOMAIN automata /\ \A a \in DOMAIN automata : s[a] = F(a)
  OBVIOUS
<1> HIDE DEF s
<1>6. DOMAIN s \in SUBSET Nat
  BY <1>5
<1>7. CASE FirstOf(s) = None /\ \A a \in DOMAIN s : s[a] = None
  BY <1>1, <1>2, <1>3, <1>4, <1>5, <1>7
<1>8. CASE \E a \in DOMAIN s : /\ s[a] # None
                               /\ FirstOf(s) = s[a]
                               /\ \A j \in DOMAIN s : j < a => s[j] = None
  <2>1. PICK a \in DOMAIN s : /\ s[a] # None
                              /\ FirstOf(s) = s[a]
                              /\ \A j \in DOMAIN s : j < a => s[j] = None
    BY <1>8
  <2>2. FirstOf(s) \in automata[a] /\ Lies(FirstOf(s).pattern, text)
    BY <1>2, <1>5, <2>1
  <2>3. \A c \in DOMAIN automata : c < a => \A m \in automata[c] : ~ Lies(m.pattern, text)
    BY <1>1, <1>2, <1>4, <1>5, <2>1
  <2> QED
    BY <1>3, <1>5, <2>2, <2>3
<1> QED
  BY <1>6, <1>7, <1>8, FirstIs

-----------------------------------------------------------------------------
\* A pattern is a text.
LEMMA PatternIsText ==
  ASSUME NEW name \in Text
  PROVE  normalize_exe_pattern(name) \in Text
<1>1. <<"/">> \in Seq(Tokens)
  BY MatchAssumption
<1>2. name \in Seq(Tokens)
  BY DEF Text
<1>3. <<"/">> \o name \in Seq(Tokens)
  BY <1>1, <1>2
<1>4. CASE IsPrefix(<<">">>, name)
  <2>1. Len(name) >= 1
    BY <1>2, <1>4 DEF IsPrefix
  <2>2. Tail(name) \in Seq(Tokens)
    BY <1>2, <2>1
  <2>3. <<"/">> \o Tail(name) \in Seq(Tokens)
    BY <1>1, <2>2
  <2> QED
    BY <1>2, <1>3, <2>3 DEF normalize_exe_pattern, Text
<1>5. CASE ~ IsPrefix(<<">">>, name)
  BY <1>2, <1>3, <1>5 DEF normalize_exe_pattern, Text
<1> QED
  BY <1>4, <1>5

\* The executable at x of the entry is one of those for the systems os.
Wanted(e, x, os) == /\ x \in DOMAIN e.executables
                    /\ ~ e.executables[x].is_launcher
                    /\ e.executables[x].os \in os

\* The patterns of a list are those of its wanted executables.
LEMMA PatternsAre ==
  ASSUME NEW which \in {"main", "custom"}, NEW entries \in Seq(ScannedEntry), NEW os
  PROVE  /\ Patterns(which, entries, os) \in SUBSET Pattern
         /\ \A m \in Patterns(which, entries, os) :
              /\ m.list = which
              /\ m.entry \in DOMAIN entries
              /\ Wanted(entries[m.entry], m.exe, os)
              /\ m.pattern = normalize_exe_pattern(entries[m.entry].executables[m.exe].name)
         /\ \A e \in DOMAIN entries : \A x : Wanted(entries[e], x, os) =>
              \E m \in Patterns(which, entries, os) : m.entry = e /\ m.exe = x
<1> DEFINE Of(e, x) == [list |-> which, entry |-> e, exe |-> x,
                        pattern |-> normalize_exe_pattern(entries[e].executables[x].name)]
<1>1. ASSUME NEW m \in Patterns(which, entries, os)
      PROVE  \E e \in DOMAIN entries : \E x : Wanted(entries[e], x, os) /\ m = Of(e, x)
  BY DEF Patterns, Wanted
<1>2. ASSUME NEW e \in DOMAIN entries, NEW x, Wanted(entries[e], x, os)
      PROVE  Of(e, x) \in Patterns(which, entries, os)
  BY <1>2 DEF Patterns, Wanted
<1>3. ASSUME NEW e \in DOMAIN entries, NEW x, Wanted(entries[e], x, os)
      PROVE  Of(e, x) \in Pattern
  <2>1. e \in Nat /\ entries[e] \in ScannedEntry
    OBVIOUS
  <2>2. entries[e].executables \in Seq(ScannedExe)
    BY <2>1 DEF ScannedEntry
  <2>3. x \in Nat /\ entries[e].executables[x] \in ScannedExe
    BY <1>3, <2>2 DEF Wanted
  <2>4. normalize_exe_pattern(entries[e].executables[x].name) \in Text
    BY <2>3, PatternIsText DEF ScannedExe
  <2> QED
    BY <2>1, <2>3, <2>4 DEF Pattern
<1>4. \A e, x : /\ Of(e, x).list = which /\ Of(e, x).entry = e /\ Of(e, x).exe = x
               /\ Of(e, x).pattern = normalize_exe_pattern(entries[e].executables[x].name)
  OBVIOUS
<1> HIDE DEF Of
<1>5. Patterns(which, entries, os) \in SUBSET Pattern
  BY <1>1, <1>3
<1>6. ASSUME NEW m \in Patterns(which, entries, os)
      PROVE  /\ m.list = which
             /\ m.entry \in DOMAIN entries
             /\ Wanted(entries[m.entry], m.exe, os)
             /\ m.pattern = normalize_exe_pattern(entries[m.entry].executables[m.exe].name)
  <2>1. PICK e \in DOMAIN entries : \E x : Wanted(entries[e], x, os) /\ m = Of(e, x)
    BY <1>1
  <2>2. PICK x : Wanted(entries[e], x, os) /\ m = Of(e, x)
    BY <2>1
  <2>3. m.list = which /\ m.entry = e /\ m.exe = x
    BY <1>4, <2>2
  <2>4. m.pattern = normalize_exe_pattern(entries[e].executables[x].name)
    BY <1>4, <2>2
  <2> QED
    BY <2>2, <2>3, <2>4
<1>7. ASSUME NEW e \in DOMAIN entries, NEW x, Wanted(entries[e], x, os)
      PROVE  \E m \in Patterns(which, entries, os) : m.entry = e /\ m.exe = x
  BY <1>2, <1>4, <1>7
<1> QED
  BY <1>5, <1>6, <1>7

\* What an index has is the entry of one of its pairs.
LEMMA IndexIs ==
  ASSUME NEW pairs, \A p \in pairs : p[2] \in Nat, NEW key
  PROVE  /\ key \in DOMAIN SortedIndex(pairs) <=> \E p \in pairs : p[1] = key
         /\ key \in DOMAIN SortedIndex(pairs) =>
              \E p \in pairs : p[1] = key /\ SortedIndex(pairs)[key] = p[2]
<1>1. key \in DOMAIN SortedIndex(pairs) <=> \E p \in pairs : p[1] = key
  BY DEF SortedIndex
<1>2. ASSUME key \in DOMAIN SortedIndex(pairs)
      PROVE  \E p \in pairs : p[1] = key /\ SortedIndex(pairs)[key] = p[2]
  <2> DEFINE T == {p[2] : p \in {q \in pairs : q[1] = key}}
  <2>1. T \in SUBSET Nat /\ T # {}
    BY <1>1, <1>2
  <2>2. SortedIndex(pairs)[key] = Min(T)
    BY <1>2 DEF SortedIndex
  <2>3. Min(T) \in T
    BY <2>1, MinIs
  <2> QED
    BY <2>2, <2>3
<1> QED
  BY <1>1, <1>2

-----------------------------------------------------------------------------
\* b is a generation of the database.
Built(b) == \E main, own \in Seq(ScannedEntry) : b = build_bundle(main, own)

\* What a bundle is made of.
LEMMA BundleIs ==
  ASSUME NEW b, Built(b)
  PROVE  /\ b.list \in Seq(ScannedEntry) /\ b.custom \in Seq(ScannedEntry)
         /\ b.ac = Patterns("main", b.list, NativeSystems)
         /\ b.proton_ac = Patterns("main", b.list, ProtonSystems)
         /\ b.custom_ac = Patterns("custom", b.custom, AnySystem)
         /\ b.steam_map = SortedIndex(SteamIds(b.list))
         /\ b.name_map = SortedIndex(Names(b.list))
         /\ b.name_map_nodot = undotted_names(SortedIndex(Names(b.list)))
<1>1. PICK main \in Seq(ScannedEntry), own \in Seq(ScannedEntry) : b = build_bundle(main, own)
  BY DEF Built
<1> QED
  BY <1>1 DEF build_bundle

\* What the maps of a bundle hold: an appid, a title, a title without its dots.
LEMMA MapsAre ==
  ASSUME NEW b, Built(b), NEW key
  PROVE  /\ key \in DOMAIN b.steam_map <=>
              \E e \in DOMAIN b.list : key \in ToSet(b.list[e].steam_ids)
         /\ key \in DOMAIN b.steam_map =>
              /\ b.steam_map[key] \in DOMAIN b.list
              /\ key \in ToSet(b.list[b.steam_map[key]].steam_ids)
         /\ key \in DOMAIN b.name_map <=> \E e \in DOMAIN b.list : key \in TitlesOf(b.list[e])
         /\ key \in DOMAIN b.name_map =>
              b.name_map[key] \in DOMAIN b.list /\ key \in TitlesOf(b.list[b.name_map[key]])
         /\ \A e \in DOMAIN b.list : \A t \in TitlesOf(b.list[e]) :
              Dotted(t) /\ dedot(t) = key => key \in DOMAIN b.name_map_nodot
         /\ key \in DOMAIN b.name_map_nodot =>
              /\ b.name_map_nodot[key] \in DOMAIN b.list
              /\ \E t \in TitlesOf(b.list[b.name_map_nodot[key]]) : Dotted(t) /\ dedot(t) = key
<1> DEFINE ids == SteamIds(b.list)
           names == Names(b.list)
<1>1. /\ b.steam_map = SortedIndex(ids) /\ b.name_map = SortedIndex(names)
      /\ b.name_map_nodot = undotted_names(b.name_map)
      /\ DOMAIN b.list \in SUBSET Nat
  <2>1. b.list \in Seq(ScannedEntry)
    BY BundleIs
  <2>2. DOMAIN b.list \in SUBSET Nat
    BY <2>1
  <2> QED
    BY <2>2, BundleIs
<1>2. /\ \A p \in ids : p[2] \in DOMAIN b.list /\ p[1] \in ToSet(b.list[p[2]].steam_ids)
      /\ \A e \in DOMAIN b.list : \A appid \in ToSet(b.list[e].steam_ids) : <<appid, e>> \in ids
  BY DEF SteamIds
<1>3. /\ \A p \in names : p[2] \in DOMAIN b.list /\ p[1] \in TitlesOf(b.list[p[2]])
      /\ \A e \in DOMAIN b.list : \A t \in TitlesOf(b.list[e]) : <<t, e>> \in names
  BY DEF Names
<1> HIDE DEF ids, names
<1>4. \A p \in ids : p[2] \in Nat
  BY <1>1, <1>2
<1>5. \A p \in names : p[2] \in Nat
  BY <1>1, <1>3
<1>6. /\ key \in DOMAIN b.steam_map <=>
           \E e \in DOMAIN b.list : key \in ToSet(b.list[e].steam_ids)
      /\ key \in DOMAIN b.steam_map =>
           /\ b.steam_map[key] \in DOMAIN b.list
           /\ key \in ToSet(b.list[b.steam_map[key]].steam_ids)
  <2>1. /\ key \in DOMAIN b.steam_map <=> \E p \in ids : p[1] = key
        /\ key \in DOMAIN b.steam_map =>
             \E p \in ids : p[1] = key /\ b.steam_map[key] = p[2]
    BY <1>1, <1>4, IndexIs
  <2>2. \A e \in DOMAIN b.list : key \in ToSet(b.list[e].steam_ids) => \E p \in ids : p[1] = key
    BY <1>2
  <2> QED
    BY <1>2, <2>1, <2>2
<1>7. ASSUME NEW k
      PROVE  /\ k \in DOMAIN b.name_map <=> \E e \in DOMAIN b.list : k \in TitlesOf(b.list[e])
             /\ k \in DOMAIN b.name_map =>
                  b.name_map[k] \in DOMAIN b.list /\ k \in TitlesOf(b.list[b.name_map[k]])
  <2>1. /\ k \in DOMAIN b.name_map <=> \E p \in names : p[1] = k
        /\ k \in DOMAIN b.name_map => \E p \in names : p[1] = k /\ b.name_map[k] = p[2]
    BY <1>1, <1>5, IndexIs
  <2>2. \A e \in DOMAIN b.list : k \in TitlesOf(b.list[e]) => \E p \in names : p[1] = k
    BY <1>3
  <2> QED
    BY <1>3, <2>1, <2>2
<1> DEFINE map == b.name_map
           undotted == {<<dedot(k), map[k]>> : k \in {d \in DOMAIN map : Dotted(d)}}
<1>8. b.name_map_nodot = SortedIndex(undotted)
  BY <1>1 DEF undotted_names
<1>9. \A p \in undotted : \E k \in DOMAIN map : Dotted(k) /\ p[1] = dedot(k) /\ p[2] = map[k]
  OBVIOUS
<1>10. \A k \in DOMAIN map : Dotted(k) => <<dedot(k), map[k]>> \in undotted
  OBVIOUS
<1> HIDE DEF undotted
<1>11. \A p \in undotted : p[2] \in Nat
  BY <1>1, <1>7, <1>9
<1>12. /\ key \in DOMAIN b.name_map_nodot <=> \E p \in undotted : p[1] = key
       /\ key \in DOMAIN b.name_map_nodot =>
            \E p \in undotted : p[1] = key /\ b.name_map_nodot[key] = p[2]
  BY <1>8, <1>11, IndexIs
<1>13. ASSUME NEW e \in DOMAIN b.list, NEW t \in TitlesOf(b.list[e]), Dotted(t), dedot(t) = key
       PROVE  key \in DOMAIN b.name_map_nodot
  <2>1. t \in DOMAIN map
    BY <1>7
  <2>2. <<dedot(t), map[t]>> \in undotted
    BY <1>10, <1>13, <2>1
  <2> QED
    BY <1>12, <1>13, <2>2
<1>14. ASSUME key \in DOMAIN b.name_map_nodot
       PROVE  /\ b.name_map_nodot[key] \in DOMAIN b.list
              /\ \E t \in TitlesOf(b.list[b.name_map_nodot[key]]) : Dotted(t) /\ dedot(t) = key
  <2>1. PICK p \in undotted : p[1] = key /\ b.name_map_nodot[key] = p[2]
    BY <1>12, <1>14
  <2>2. PICK k \in DOMAIN map : Dotted(k) /\ p[1] = dedot(k) /\ p[2] = map[k]
    BY <1>9
  <2>3. map[k] \in DOMAIN b.list /\ k \in TitlesOf(b.list[map[k]])
    BY <1>7, <2>2
  <2> QED
    BY <2>1, <2>2, <2>3
<1> QED
  BY <1>6, <1>7, <1>13, <1>14

-----------------------------------------------------------------------------
\* The first of two.
LEMMA FirstOfTwo ==
  ASSUME NEW x, NEW y
  PROVE  FirstOf(<<x, y>>) = IF x # None THEN x ELSE y
<1> DEFINE s == <<x, y>>
<1>1. DOMAIN s = 1..2 /\ s[1] = x /\ s[2] = y
  OBVIOUS
<1> HIDE DEF s
<1>2. DOMAIN s \in SUBSET Nat
  BY <1>1
<1>3. FirstOf(s) = IF x # None THEN x ELSE y
  BY <1>1, <1>2, FirstIs
<1> QED
  BY <1>3 DEF s

\* The same of three.
LEMMA FirstOfThree ==
  ASSUME NEW x, NEW y, NEW z
  PROVE  FirstOf(<<x, y, z>>) = IF x # None THEN x ELSE IF y # None THEN y ELSE z
<1> DEFINE s == <<x, y, z>>
<1>1. DOMAIN s = 1..3 /\ s[1] = x /\ s[2] = y /\ s[3] = z
  OBVIOUS
<1> HIDE DEF s
<1>2. DOMAIN s \in SUBSET Nat
  BY <1>1
<1>3. FirstOf(s) = IF x # None THEN x ELSE IF y # None THEN y ELSE z
  <2>1. CASE x # None
    BY <1>1, <1>2, <2>1, FirstIs
  <2>2. CASE x = None /\ y # None
    BY <1>1, <1>2, <2>2, FirstIs
  <2>3. CASE x = None /\ y = None
    BY <1>1, <1>2, <2>3, FirstIs
  <2> QED
    BY <2>1, <2>2, <2>3
<1> QED
  BY <1>3 DEF s

\* A place in a bundle is a place in one of its lists.
LEMMA PlacesAre ==
  ASSUME NEW b, Built(b)
  PROVE  /\ None \notin Hits(b)
         /\ \A h \in Hits(b) :
              \/ h.list = "main" /\ h.entry \in DOMAIN b.list /\ EntryOf(h, b) = b.list[h.entry]
              \/ /\ h.list = "custom" /\ h.entry \in DOMAIN b.custom
                 /\ EntryOf(h, b) = b.custom[h.entry]
         /\ \A h \in Hits(b) : EntryOf(h, b) \in ScannedEntry
         /\ \A e \in DOMAIN b.list : [list |-> "main", entry |-> e] \in Hits(b)
         /\ \A e \in DOMAIN b.custom : [list |-> "custom", entry |-> e] \in Hits(b)
<1>1. b.list \in Seq(ScannedEntry) /\ b.custom \in Seq(ScannedEntry)
  BY BundleIs
<1>2. DOMAIN b.list \in SUBSET Nat /\ DOMAIN b.custom \in SUBSET Nat
  BY <1>1
<1>3. Hits(b) \subseteq Place
  BY <1>2 DEF Hits, Place
<1>4. \A h \in Hits(b) :
         \/ h.list = "main" /\ h.entry \in DOMAIN b.list /\ EntryOf(h, b) = b.list[h.entry]
         \/ /\ h.list = "custom" /\ h.entry \in DOMAIN b.custom
            /\ EntryOf(h, b) = b.custom[h.entry]
  BY DEF Hits, EntryOf
<1>5. /\ \A e \in DOMAIN b.list : b.list[e] \in ScannedEntry
      /\ \A e \in DOMAIN b.custom : b.custom[e] \in ScannedEntry
  BY <1>1
<1>6. \A h \in Hits(b) : EntryOf(h, b) \in ScannedEntry
  BY <1>4, <1>5
<1>7. None \notin Hits(b)
  BY <1>3, MatchAssumption
<1>8. /\ \A e \in DOMAIN b.list : [list |-> "main", entry |-> e] \in Hits(b)
      /\ \A e \in DOMAIN b.custom : [list |-> "custom", entry |-> e] \in Hits(b)
  BY DEF Hits
<1> QED
  BY <1>4, <1>6, <1>7, <1>8

\* An entry lies on a text exactly when one of its wanted patterns does.
LEMMA DeclaresIs ==
  ASSUME NEW e, NEW x, x \in DOMAIN e.executables, NEW os, NEW text
  PROVE  Declares(e, x, os, text) <=>
           Wanted(e, x, os) /\ Lies(normalize_exe_pattern(e.executables[x].name), text)
BY DEF Declares, Wanted, Lies

\* The patterns of the list the place is in.
PatternsOf(h, b, os) == IF h.list = "main" THEN Patterns("main", b.list, os)
                        ELSE Patterns("custom", b.custom, os)

\* What is mentioned on a text has a pattern there.
LEMMA MentionIs ==
  ASSUME NEW b, Built(b), NEW h \in Hits(b), NEW os, NEW texts, Mentioned(h, os, texts, b)
  PROVE  \E text \in texts : \E m \in PatternsOf(h, b, os) : Lies(m.pattern, text)
<1> DEFINE e == EntryOf(h, b)
<1>1. PICK x \in DOMAIN e.executables, text \in texts : Declares(e, x, os, text)
  BY DEF Mentioned
<1>2. Wanted(e, x, os) /\ Lies(normalize_exe_pattern(e.executables[x].name), text)
  BY <1>1, DeclaresIs
<1>3. b.list \in Seq(ScannedEntry) /\ b.custom \in Seq(ScannedEntry)
  BY BundleIs
<1>4. CASE h.list = "main" /\ h.entry \in DOMAIN b.list /\ e = b.list[h.entry]
  <2>0. Wanted(b.list[h.entry], x, os) /\ h.entry \in DOMAIN b.list
    BY <1>2, <1>4
  <2>1. PICK m \in Patterns("main", b.list, os) : m.entry = h.entry /\ m.exe = x
    BY <2>0, <1>3, PatternsAre
  <2>2. m.pattern = normalize_exe_pattern(b.list[m.entry].executables[m.exe].name)
    BY <1>3, PatternsAre
  <2>3. Lies(m.pattern, text)
    BY <1>2, <1>4, <2>1, <2>2
  <2> QED
    BY <1>4, <2>3 DEF PatternsOf
<1>5. CASE h.list = "custom" /\ h.entry \in DOMAIN b.custom /\ e = b.custom[h.entry]
  <2>0. Wanted(b.custom[h.entry], x, os) /\ h.entry \in DOMAIN b.custom
    BY <1>2, <1>5
  <2>1. PICK m \in Patterns("custom", b.custom, os) : m.entry = h.entry /\ m.exe = x
    BY <2>0, <1>3, PatternsAre
  <2>2. m.pattern = normalize_exe_pattern(b.custom[m.entry].executables[m.exe].name)
    BY <1>3, PatternsAre
  <2>3. Lies(m.pattern, text)
    BY <1>2, <1>5, <2>1, <2>2
  <2> QED
    BY <1>5, <2>3 DEF PatternsOf
<1> QED
  BY <1>4, <1>5, PlacesAre

\* A pattern that lies on a text: its entry is mentioned there, and the hit is
\* that entry unless its arguments are missing or the process is suspended.
LEMMA FinishIs ==
  ASSUME NEW b, Built(b), NEW p, NEW os, NEW m,
         m \in Patterns("main", b.list, os) \cup Patterns("custom", b.custom, os),
         NEW text, Lies(m.pattern, text), NEW texts, text \in texts
  PROVE  LET h == [list |-> m.list, entry |-> m.entry]
             r == finish_direct_hit(m, p, b)
         IN /\ h \in Hits(b)
            /\ m \in Patterns("main", b.list, os) => h.list = "main"
            /\ m \in Patterns("custom", b.custom, os) => h.list = "custom"
            /\ Mentioned(h, os, {text}, b)
            /\ Mentioned(h, os, texts, b)
            /\ \/ r = h /\ ~ p.suspended /\ Declared(h, os, texts, p, b)
               \/ r = None /\ (p.suspended \/ Withheld(h, os, texts, p, b))
<1> DEFINE h == [list |-> m.list, entry |-> m.entry]
           e == EntryOf(h, b)
<1>1. b.list \in Seq(ScannedEntry) /\ b.custom \in Seq(ScannedEntry)
  BY BundleIs
<1>2. h.list = m.list /\ h.entry = m.entry /\ EntryOf(m, b) = e
  BY DEF EntryOf
<1>3. /\ h \in Hits(b) /\ Wanted(e, m.exe, os)
      /\ m.pattern = normalize_exe_pattern(e.executables[m.exe].name)
      /\ m \in Patterns("main", b.list, os) => h.list = "main"
      /\ m \in Patterns("custom", b.custom, os) => h.list = "custom"
  <2>1. CASE m \in Patterns("main", b.list, os)
    <3>1. /\ m.list = "main" /\ m.entry \in DOMAIN b.list
          /\ Wanted(b.list[m.entry], m.exe, os)
          /\ m.pattern = normalize_exe_pattern(b.list[m.entry].executables[m.exe].name)
      BY <1>1, <2>1, PatternsAre
    <3>2. e = b.list[m.entry]
      BY <3>1 DEF EntryOf
    <3>3. h \in Hits(b)
      BY <3>1, PlacesAre
    <3>4. m \notin Patterns("custom", b.custom, os)
      BY <1>1, <3>1, PatternsAre
    <3> HIDE DEF e
    <3> QED
      BY <3>1, <3>2, <3>3, <3>4
  <2>2. CASE m \in Patterns("custom", b.custom, os)
    <3>1. /\ m.list = "custom" /\ m.entry \in DOMAIN b.custom
          /\ Wanted(b.custom[m.entry], m.exe, os)
          /\ m.pattern = normalize_exe_pattern(b.custom[m.entry].executables[m.exe].name)
      BY <1>1, <2>2, PatternsAre
    <3>2. e = b.custom[m.entry]
      BY <3>1 DEF EntryOf
    <3>3. h \in Hits(b)
      BY <3>1, PlacesAre
    <3>4. m \notin Patterns("main", b.list, os)
      BY <1>1, <3>1, PatternsAre
    <3> HIDE DEF e
    <3> QED
      BY <3>1, <3>2, <3>3, <3>4
  <2> QED
    BY <2>1, <2>2
<1> HIDE DEF h
<1>4. m.exe \in DOMAIN e.executables
  BY <1>3 DEF Wanted
<1>5. Declares(e, m.exe, os, text)
  BY <1>3, <1>4, DeclaresIs
<1>6. Mentioned(h, os, {text}, b) /\ Mentioned(h, os, texts, b)
  BY <1>4, <1>5 DEF Mentioned
<1>7. CASE HasArguments(e.executables[m.exe].arguments, p)
  <2>1. Declared(h, os, texts, p, b)
    BY <1>4, <1>5, <1>7 DEF Declared
  <2>2. finish_direct_hit(m, p, b) = IF p.suspended THEN None ELSE h
    BY <1>2, <1>7 DEF finish_direct_hit, live_or_none, h
  <2> QED
    BY <1>3, <1>6, <2>1, <2>2 DEF h
<1>8. CASE ~ HasArguments(e.executables[m.exe].arguments, p)
  <2>1. Withheld(h, os, texts, p, b)
    BY <1>4, <1>5, <1>8 DEF Withheld
  <2>2. finish_direct_hit(m, p, b) = None
    BY <1>2, <1>8 DEF finish_direct_hit
  <2> QED
    BY <1>3, <1>6, <2>1, <2>2 DEF h
<1> QED
  BY <1>7, <1>8

-----------------------------------------------------------------------------
\* The texts a path is looked for in are texts.
LEMMA TextsAre ==
  ASSUME NEW p \in Processes
  PROVE  /\ IsText(Flat(p.path))
         /\ Len(p.path) = 1 /\ p.cwd # None => IsText(Flat(p.cwd \o p.path))
<1>1. p \in Process
  BY MatchAssumption
<1>2. p.path \in Seq(Text) /\ p.path # <<>> /\ p.cwd \in Seq(Text) \cup {None}
  BY <1>1 DEF Process
<1>3. ASSUME p.cwd # None PROVE p.cwd \o p.path \in Seq(Text) /\ p.cwd \o p.path # <<>>
  <2>1. p.cwd \in Seq(Text)
    BY <1>2, <1>3
  <2> QED
    BY <1>2, <2>1
<1> QED
  BY <1>2, <1>3, FlatIsText

\* The native automata asked for one text.
LEMMA NativeProbed ==
  ASSUME NEW b, Built(b), NEW text, IsText(text)
  PROVE  LET f == probe_variants(text, <<b.ac, b.custom_ac>>)
         IN \/ f = None /\ \A m \in b.ac \cup b.custom_ac : ~ Lies(m.pattern, text)
            \/ /\ f # None /\ Lies(f.pattern, text)
               /\ f \in b.ac \/ (f \in b.custom_ac /\ \A m \in b.ac : ~ Lies(m.pattern, text))
<1> DEFINE s == <<b.ac, b.custom_ac>>
           f == probe_variants(text, s)
<1>1. b.ac \in SUBSET Pattern /\ b.custom_ac \in SUBSET Pattern
  BY BundleIs, PatternsAre
<1>2. s \in Seq(SUBSET Pattern) /\ DOMAIN s = {1, 2} /\ s[1] = b.ac /\ s[2] = b.custom_ac
  BY <1>1
<1>3. None \notin Pattern
  BY MatchAssumption
<1> HIDE DEF s
<1>4. CASE f = None /\ \A a \in DOMAIN s : \A m \in s[a] : ~ Lies(m.pattern, text)
  BY <1>2, <1>4 DEF s
<1>5. CASE \E a \in DOMAIN s : /\ f \in s[a]
                               /\ Lies(f.pattern, text)
                               /\ \A c \in DOMAIN s : c < a => \A m \in s[c] : ~ Lies(m.pattern, text)
  <2>1. CASE f \in s[1] /\ Lies(f.pattern, text)
    BY <1>1, <1>2, <1>3, <2>1 DEF s
  <2>2. CASE f \in s[2] /\ Lies(f.pattern, text) /\ \A m \in s[1] : ~ Lies(m.pattern, text)
    BY <1>1, <1>2, <1>3, <2>2 DEF s
  <2> QED
    BY <1>2, <1>5, <2>1, <2>2
<1> QED
  BY <1>2, <1>4, <1>5, ProbeIs

\* What Direct finds lies on one of the process's texts, a custom pattern only
\* where no main one does; when it finds nothing, nothing is mentioned.
LEMMA DirectIs ==
  ASSUME NEW b, Built(b), NEW p \in Processes
  PROVE  \/ Direct(p, b) = None /\ Evidence("path", p, b) = {}
         \/ /\ Direct(p, b) # None
            /\ \E text \in Texts(p) :
                 /\ Lies(Direct(p, b).pattern, text)
                 /\ \/ Direct(p, b) \in b.ac
                    \/ Direct(p, b) \in b.custom_ac /\ \A m \in b.ac : ~ Lies(m.pattern, text)
<1> DEFINE native == <<b.ac, b.custom_ac>>
           near == Flat(p.path)
           far  == Flat(p.cwd \o p.path)
           bare == Len(p.path) = 1 /\ p.cwd # None
           f1   == probe_variants(near, native)
           f2   == probe_variants(far, native)
<1>1. Direct(p, b) = IF f1 = None /\ bare THEN f2 ELSE f1
  BY DEF Direct
<1>2. near \in Texts(p) /\ (bare => far \in Texts(p))
      /\ \A t \in Texts(p) : t = near \/ (bare /\ t = far)
  BY DEF Texts
<1>3. IsText(near) /\ (bare => IsText(far))
  BY TextsAre
<1> DEFINE Seen(f, text) ==
             /\ f # None /\ Lies(f.pattern, text)
             /\ f \in b.ac \/ (f \in b.custom_ac /\ \A m \in b.ac : ~ Lies(m.pattern, text))
           Clean(text) == \A m \in b.ac \cup b.custom_ac : ~ Lies(m.pattern, text)
<1>4. (f1 = None /\ Clean(near)) \/ Seen(f1, near)
  BY <1>3, NativeProbed
<1>5. bare => (f2 = None /\ Clean(far)) \/ Seen(f2, far)
  BY <1>3, NativeProbed
<1> HIDE DEF near, far, bare, f1, f2
<1>6. ASSUME \A t \in Texts(p) : Clean(t)
      PROVE  Evidence("path", p, b) = {}
  <2> SUFFICES ASSUME NEW h \in Hits(b), Mentioned(h, Systems(h), Texts(p), b) PROVE FALSE
    BY DEF Evidence
  <2>1. PICK text \in Texts(p), m \in PatternsOf(h, b, Systems(h)) : Lies(m.pattern, text)
    BY MentionIs
  <2>2. m \in b.ac \cup b.custom_ac
    BY <2>1, BundleIs, PlacesAre DEF PatternsOf, Systems
  <2> QED
    BY <1>6, <2>1, <2>2
<1>7. CASE Seen(f1, near)
  BY <1>1, <1>2, <1>7
<1>8. CASE f1 = None /\ Clean(near) /\ ~ bare
  BY <1>1, <1>2, <1>6, <1>8
<1>9. CASE f1 = None /\ Clean(near) /\ bare /\ Seen(f2, far)
  BY <1>1, <1>2, <1>9
<1>10. CASE f1 = None /\ Clean(near) /\ bare /\ f2 = None /\ Clean(far)
  BY <1>1, <1>2, <1>6, <1>10
<1> QED
  BY <1>4, <1>5, <1>7, <1>8, <1>9, <1>10

\* The entries with an appid of the store.
Sold(appid, b) == {h \in Hits(b) : appid \in ToSet(EntryOf(h, b).steam_ids)}

\* The appid is looked up in the main list, then in the custom one.
LEMMA SteamIs ==
  ASSUME NEW b, Built(b), NEW p, NEW appid
  PROVE  LET r == match_steam_id(appid, p, b)
         IN /\ p.suspended => r = None
            /\ ~ p.suspended =>
                 \/ r = None /\ Sold(appid, b) = {}
                 \/ /\ r # None /\ r \in Sold(appid, b)
                    /\ r.list = "custom" => \A h \in Sold(appid, b) : h.list # "main"
<1> DEFINE r == match_steam_id(appid, p, b)
           owners == {c \in DOMAIN b.custom : appid \in ToSet(b.custom[c].steam_ids)}
           MainAt(e) == [list |-> "main", entry |-> e]
           CustomAt(e) == [list |-> "custom", entry |-> e]
<1>1. \A h \in Sold(appid, b) :
        \/ h.list = "main" /\ appid \in DOMAIN b.steam_map
        \/ h.list = "custom" /\ owners # {}
  <2> SUFFICES ASSUME NEW h \in Hits(b), appid \in ToSet(EntryOf(h, b).steam_ids)
               PROVE  \/ h.list = "main" /\ appid \in DOMAIN b.steam_map
                      \/ h.list = "custom" /\ owners # {}
    BY DEF Sold
  <2> QED
    BY PlacesAre, MapsAre
<1>2. \A e \in DOMAIN b.list : appid \in ToSet(b.list[e].steam_ids) =>
        MainAt(e) \in Sold(appid, b) /\ MainAt(e) # None
  BY PlacesAre DEF Sold, EntryOf
<1>3. \A e \in owners : CustomAt(e) \in Sold(appid, b) /\ CustomAt(e) # None
  <2> SUFFICES ASSUME NEW e \in owners
               PROVE  CustomAt(e) \in Sold(appid, b) /\ CustomAt(e) # None
    OBVIOUS
  <2>1. e \in DOMAIN b.custom /\ appid \in ToSet(b.custom[e].steam_ids)
    OBVIOUS
  <2>2. CustomAt(e) \in Hits(b) /\ CustomAt(e) # None
    BY <2>1, PlacesAre
  <2>3. EntryOf(CustomAt(e), b) = b.custom[e]
    BY DEF EntryOf
  <2> QED
    BY <2>1, <2>2, <2>3 DEF Sold
<1>4. owners \in SUBSET Nat
  <2>1. b.custom \in Seq(ScannedEntry)
    BY BundleIs
  <2> QED
    BY <2>1
<1>5. CASE appid = None
  <2>1. Sold(appid, b) = {}
    <3> SUFFICES ASSUME NEW h \in Hits(b), appid \in ToSet(EntryOf(h, b).steam_ids) PROVE FALSE
      BY DEF Sold
    <3>1. EntryOf(h, b).steam_ids \in Seq(Tokens)
      BY PlacesAre DEF ScannedEntry, Text
    <3>2. appid \in Tokens
      BY <3>1 DEF ToSet
    <3> QED
      BY <1>5, <3>2, MatchAssumption
  <2> QED
    BY <1>5, <2>1 DEF match_steam_id
<1>6. CASE appid # None /\ appid \in DOMAIN b.steam_map
  <2>1. b.steam_map[appid] \in DOMAIN b.list /\ appid \in ToSet(b.list[b.steam_map[appid]].steam_ids)
    BY <1>6, MapsAre
  <2>2. r = IF p.suspended THEN None ELSE MainAt(b.steam_map[appid])
    BY <1>6 DEF match_steam_id, live_or_none
  <2>3. MainAt(b.steam_map[appid]).list # "custom"
    OBVIOUS
  <2> HIDE DEF r, MainAt
  <2> QED
    BY <1>2, <2>1, <2>2, <2>3 DEF r
<1>7. CASE appid # None /\ appid \notin DOMAIN b.steam_map /\ owners = {}
  <2>1. Sold(appid, b) = {}
    BY <1>1, <1>7
  <2>2. r = None
    BY <1>7 DEF match_steam_id
  <2> QED
    BY <2>1, <2>2
<1>8. CASE appid # None /\ appid \notin DOMAIN b.steam_map /\ owners # {}
  <2>1. Min(owners) \in owners
    BY <1>4, <1>8, MinIs
  <2>2. r = IF p.suspended THEN None ELSE CustomAt(Min(owners))
    BY <1>8 DEF match_steam_id, live_or_none
  <2>3. CustomAt(Min(owners)) \in Sold(appid, b) /\ CustomAt(Min(owners)) # None
    BY <1>3, <2>1
  <2>4. \A h \in Sold(appid, b) : h.list # "main"
    BY <1>1, <1>8
  <2> HIDE DEF r, CustomAt
  <2> QED
    BY <2>2, <2>3, <2>4 DEF r
<1> QED
  BY <1>5, <1>6, <1>7, <1>8

-----------------------------------------------------------------------------
\* A look-up in the name map finds an entry with that title, if there is one.
LEMMA LookUpIs ==
  ASSUME NEW b, Built(b), NEW p, ~ p.suspended, NEW key
  PROVE  LET r == LookUp(b.name_map, key, p)
         IN \/ r = None /\ \A h \in Hits(b) : h.list = "main" => key \notin Titles(h, b)
            \/ r # None /\ r \in Hits(b) /\ r.list = "main" /\ key \in Titles(r, b)
<1> DEFINE r == LookUp(b.name_map, key, p)
           h == [list |-> "main", entry |-> b.name_map[key]]
<1>1. CASE key \in DOMAIN b.name_map
  <2>1. b.name_map[key] \in DOMAIN b.list /\ key \in TitlesOf(b.list[b.name_map[key]])
    BY <1>1, MapsAre
  <2>2. name_matchable(key)
    BY <2>1 DEF TitlesOf
  <2>3. r = h
    BY <1>1, <2>2 DEF LookUp, live_or_none
  <2>4. h \in Hits(b) /\ h.list = "main" /\ key \in Titles(h, b)
    BY <2>1, PlacesAre DEF Titles, EntryOf
  <2>5. h # None
    BY <2>4, PlacesAre
  <2> QED
    BY <2>3, <2>4, <2>5
<1>2. CASE key \notin DOMAIN b.name_map
  <2>1. r = None
    BY <1>2 DEF LookUp
  <2>2. ASSUME NEW g \in Hits(b), g.list = "main" PROVE key \notin Titles(g, b)
    <3>1. g.entry \in DOMAIN b.list /\ EntryOf(g, b) = b.list[g.entry]
      BY <2>2, PlacesAre
    <3> QED
      BY <1>2, <3>1, MapsAre DEF Titles
  <2> QED
    BY <2>1, <2>2
<1> QED
  BY <1>1, <1>2

\* The same without dots.
LEMMA LookUpUndotted ==
  ASSUME NEW b, Built(b), NEW p, ~ p.suspended, NEW key
  PROVE  LET r == LookUp(b.name_map_nodot, key, p)
             Suits(h) == \E t \in Titles(h, b) : Dotted(t) /\ name_matchable(dedot(t)) /\ dedot(t) = key
         IN \/ r = None /\ \A h \in Hits(b) : h.list = "main" => ~ Suits(h)
            \/ r # None /\ r \in Hits(b) /\ r.list = "main" /\ Suits(r)
<1> DEFINE map == b.name_map_nodot
           r == LookUp(map, key, p)
           h == [list |-> "main", entry |-> map[key]]
           Suits(g) == \E t \in Titles(g, b) : Dotted(t) /\ name_matchable(dedot(t)) /\ dedot(t) = key
<1>1. CASE name_matchable(key) /\ key \in DOMAIN map
  <2>1. map[key] \in DOMAIN b.list /\ \E t \in TitlesOf(b.list[map[key]]) : Dotted(t) /\ dedot(t) = key
    BY <1>1, MapsAre
  <2>2. r = h
    BY <1>1 DEF LookUp, live_or_none
  <2>3. h \in Hits(b) /\ h.list = "main" /\ Titles(h, b) = TitlesOf(b.list[map[key]])
    BY <2>1, PlacesAre DEF Titles, EntryOf
  <2>4. h # None
    BY <2>3, PlacesAre
  <2> HIDE DEF h, r
  <2>5. Suits(h)
    BY <1>1, <2>1, <2>3
  <2> QED
    BY <2>2, <2>3, <2>4, <2>5 DEF r
<1>2. CASE ~ (name_matchable(key) /\ key \in DOMAIN map)
  <2>1. r = None
    BY <1>2 DEF LookUp
  <2>2. ASSUME NEW g \in Hits(b), g.list = "main", Suits(g) PROVE FALSE
    <3>1. g.entry \in DOMAIN b.list /\ EntryOf(g, b) = b.list[g.entry]
      BY <2>2, PlacesAre
    <3>2. PICK t \in Titles(g, b) : Dotted(t) /\ name_matchable(dedot(t)) /\ dedot(t) = key
      BY <2>2
    <3>3. key \in DOMAIN map
      BY <3>1, <3>2, MapsAre DEF Titles
    <3> QED
      BY <1>2, <3>2, <3>3
  <2> QED
    BY <2>1, <2>2
<1> QED
  BY <1>1, <1>2

\* The folders of a path, the nearest first, are its ancestors.
LEMMA FoldersAre ==
  ASSUME NEW p \in Processes
  PROVE  /\ DOMAIN Reverse(Front(p.path)) \in SUBSET Nat
         /\ \A i \in DOMAIN Reverse(Front(p.path)) :
              Reverse(Front(p.path))[i] \in ToSet(Front(p.path))
         /\ \A n \in ToSet(Front(p.path)) :
              \E i \in DOMAIN Reverse(Front(p.path)) : Reverse(Front(p.path))[i] = n
<1> DEFINE s == Front(p.path)
           t == Reverse(s)
<1>1. p.path \in Seq(Text) /\ p.path # <<>>
  BY MatchAssumption DEF Process
<1>2. s \in Seq(Text)
  BY <1>1 DEF Front
<1> HIDE DEF s
<1>3. Len(s) \in Nat /\ DOMAIN s = 1..Len(s)
  BY <1>2
<1>4. DOMAIN t = 1..Len(s) /\ \A i \in 1..Len(s) : t[i] = s[(Len(s) - i) + 1]
  BY <1>3 DEF Reverse
<1> HIDE DEF t
<1>5. \A i \in 1..Len(s) : (Len(s) - i) + 1 \in 1..Len(s) /\ (Len(s) - ((Len(s) - i) + 1)) + 1 = i
  BY <1>3
<1>6. \A i \in DOMAIN t : t[i] \in ToSet(s)
  BY <1>3, <1>4, <1>5 DEF ToSet
<1>7. ASSUME NEW n \in ToSet(s) PROVE \E i \in DOMAIN t : t[i] = n
  <2>1. PICK k \in 1..Len(s) : n = s[k]
    BY <1>3 DEF ToSet
  <2>2. (Len(s) - k) + 1 \in DOMAIN t /\ t[(Len(s) - k) + 1] = n
    BY <1>4, <1>5, <2>1
  <2> QED
    BY <2>2
<1>8. DOMAIN t \in SUBSET Nat
  BY <1>3, <1>4
<1> QED
  BY <1>6, <1>7, <1>8 DEF s, t

\* match_name_or_folder finds an entry with the title, one whose title is there
\* as it stands if there is one.
LEMMA NamesAre ==
  ASSUME NEW b, Built(b), NEW p \in Processes, ~ p.suspended
  PROVE  LET r == match_name_or_folder(p, b)
         IN \/ r = None /\ Evidence("title", p, b) = {}
            \/ /\ r # None /\ r \in Evidence("title", p, b) /\ r.list = "main"
               /\ (\E h \in Evidence("title", p, b) : Exact(h, p, b)) => Exact(r, p, b)
<1> DEFINE ancestors == Reverse(Front(p.path))
           Straight(n) == IF Dotted(n) THEN None ELSE LookUp(b.name_map, normalize_name(n), p)
           Undotted(n) == IF Dotted(n)
                          THEN LookUp(b.name_map_nodot, normalize_name(dedot(n)), p)
                          ELSE None
           plain  == [i \in DOMAIN ancestors |-> Straight(ancestors[i])]
           dotted == [i \in DOMAIN ancestors |-> Undotted(ancestors[i])]
           stem == exe_stem(Last(p.path))
           r0 == LookUp(b.name_map, stem, p)
           r  == match_name_or_folder(p, b)
           names == ToSet(Front(p.path))
           OfMain(h) == h \in Hits(b) /\ h.list = "main"
           Suits(h, n) == \E t \in Titles(h, b) :
                           Dotted(t) /\ name_matchable(dedot(t)) /\ dedot(t) = normalize_name(dedot(n))
<1>1. r = FirstOf(<<r0, FirstOf(plain), FirstOf(dotted)>>)
  BY DEF match_name_or_folder
<1>2. r = IF r0 # None THEN r0 ELSE IF FirstOf(plain) # None THEN FirstOf(plain) ELSE FirstOf(dotted)
  BY <1>1, FirstOfThree
<1>3. /\ DOMAIN ancestors \in SUBSET Nat
      /\ \A i \in DOMAIN ancestors : ancestors[i] \in names
      /\ \A n \in names : \E i \in DOMAIN ancestors : ancestors[i] = n
  BY FoldersAre
<1>4. \/ r0 = None /\ \A h : OfMain(h) => stem \notin Titles(h, b)
      \/ r0 # None /\ OfMain(r0) /\ stem \in Titles(r0, b)
  BY LookUpIs
<1>5. ASSUME NEW n, ~ Dotted(n)
      PROVE  \/ Straight(n) = None /\ \A h : OfMain(h) => normalize_name(n) \notin Titles(h, b)
             \/ Straight(n) # None /\ OfMain(Straight(n)) /\ normalize_name(n) \in Titles(Straight(n), b)
  <2>1. Straight(n) = LookUp(b.name_map, normalize_name(n), p)
    BY <1>5
  <2> QED
    BY <2>1, LookUpIs
<1>6. ASSUME NEW n, Dotted(n)
      PROVE  \/ Undotted(n) = None /\ \A h : OfMain(h) => ~ Suits(h, n)
             \/ Undotted(n) # None /\ OfMain(Undotted(n)) /\ Suits(Undotted(n), n)
  <2> DEFINE u == Undotted(n)
  <2>1. u = LookUp(b.name_map_nodot, normalize_name(dedot(n)), p)
    BY <1>6
  <2>2. \/ u = None /\ \A h \in Hits(b) : h.list = "main" => ~ Suits(h, n)
        \/ u # None /\ u \in Hits(b) /\ u.list = "main" /\ Suits(u, n)
    BY <2>1, LookUpUndotted
  <2> HIDE DEF u
  <2>3. \/ u = None /\ \A h : OfMain(h) => ~ Suits(h, n)
        \/ u # None /\ OfMain(u) /\ Suits(u, n)
    BY <2>2
  <2> QED
    BY <2>3 DEF u
<1>7. /\ \A n : Dotted(n) => Straight(n) = None
      /\ \A n : ~ Dotted(n) => Undotted(n) = None
  OBVIOUS
<1>8. /\ DOMAIN plain = DOMAIN ancestors /\ DOMAIN dotted = DOMAIN ancestors
      /\ \A i \in DOMAIN ancestors : plain[i] = Straight(ancestors[i]) /\ dotted[i] = Undotted(ancestors[i])
  OBVIOUS
<1> HIDE DEF ancestors, Straight, Undotted, plain, dotted, r0, r, names
<1>9. ASSUME NEW h, OfMain(h)
      PROVE  h \in Evidence("title", p, b) <=>
               \/ stem \in Titles(h, b)
               \/ \E n \in names : ~ Dotted(n) /\ normalize_name(n) \in Titles(h, b)
               \/ \E n \in names : Dotted(n) /\ Suits(h, n)
  BY <1>9 DEF Evidence, Titled, names
<1>10. \A h \in Evidence("title", p, b) : OfMain(h)
  BY DEF Evidence, Titled
<1>11. \A h : Exact(h, p, b) <=>
          \/ stem \in Titles(h, b)
          \/ \E n \in names : ~ Dotted(n) /\ normalize_name(n) \in Titles(h, b)
  BY DEF Exact, names
<1> HIDE DEF Suits
<1>12. \/ FirstOf(plain) = None /\ \A n \in names : Straight(n) = None
       \/ \E n \in names : FirstOf(plain) = Straight(n) /\ Straight(n) # None
  BY <1>3, <1>8, FirstIs
<1>13. \/ FirstOf(dotted) = None /\ \A n \in names : Undotted(n) = None
       \/ \E n \in names : FirstOf(dotted) = Undotted(n) /\ Undotted(n) # None
  BY <1>3, <1>8, FirstIs
<1> HIDE DEF OfMain, stem
<1>14. CASE r0 # None
  BY <1>2, <1>4, <1>9, <1>10, <1>11, <1>14 DEF OfMain, r
<1>15. CASE r0 = None /\ \E n \in names : FirstOf(plain) = Straight(n) /\ Straight(n) # None
  <2>1. PICK n \in names : FirstOf(plain) = Straight(n) /\ Straight(n) # None
    BY <1>15
  <2>2. ~ Dotted(n) /\ OfMain(Straight(n)) /\ normalize_name(n) \in Titles(Straight(n), b)
    BY <1>5, <1>7, <2>1
  <2>3. r = Straight(n)
    BY <1>2, <1>15, <2>1
  <2>4. r \in Evidence("title", p, b) /\ Exact(r, p, b)
    BY <1>9, <1>11, <2>2, <2>3
  <2> QED
    BY <2>1, <2>2, <2>3, <2>4 DEF r, OfMain
<1>16. CASE r0 = None /\ FirstOf(plain) = None /\ \A n \in names : Straight(n) = None
  <2>1. \A h \in Evidence("title", p, b) : ~ Exact(h, p, b)
    BY <1>4, <1>5, <1>10, <1>11, <1>16
  <2>2. CASE FirstOf(dotted) = None /\ \A n \in names : Undotted(n) = None
    <3>1. ASSUME NEW h \in Evidence("title", p, b) PROVE FALSE
      <4>1. OfMain(h) /\ ~ Exact(h, p, b)
        BY <1>10, <2>1
      <4>2. PICK n \in names : Dotted(n) /\ Suits(h, n)
        BY <1>9, <1>11, <4>1
      <4> QED
        BY <1>6, <2>2, <4>1, <4>2
    <3> QED
      BY <1>2, <1>16, <2>2, <3>1 DEF r
  <2>3. CASE \E n \in names : FirstOf(dotted) = Undotted(n) /\ Undotted(n) # None
    <3>1. PICK n \in names : FirstOf(dotted) = Undotted(n) /\ Undotted(n) # None
      BY <2>3
    <3>2. Dotted(n) /\ OfMain(Undotted(n)) /\ Suits(Undotted(n), n)
      BY <1>6, <1>7, <3>1
    <3>3. r = Undotted(n)
      BY <1>2, <1>16, <3>1
    <3>4. r \in Evidence("title", p, b)
      BY <1>9, <3>1, <3>2, <3>3
    <3> QED
      BY <2>1, <3>1, <3>2, <3>3, <3>4 DEF r, OfMain
  <2> QED
    BY <1>13, <2>2, <2>3
<1> QED
  BY <1>12, <1>14, <1>15, <1>16

\* A suspended process is no game by name or folder.
LEMMA NoNames ==
  ASSUME NEW b, NEW p \in Processes, p.suspended
  PROVE  match_name_or_folder(p, b) = None
<1> DEFINE ancestors == Reverse(Front(p.path))
           plain  == [i \in DOMAIN ancestors |->
                        IF Dotted(ancestors[i]) THEN None
                        ELSE LookUp(b.name_map, normalize_name(ancestors[i]), p)]
           dotted == [i \in DOMAIN ancestors |->
                        IF Dotted(ancestors[i])
                        THEN LookUp(b.name_map_nodot, normalize_name(dedot(ancestors[i])), p)
                        ELSE None]
           r0 == LookUp(b.name_map, exe_stem(Last(p.path)), p)
<1>1. \A map, key : LookUp(map, key, p) = None
  BY DEF LookUp, live_or_none
<1>2. /\ DOMAIN plain = DOMAIN ancestors /\ DOMAIN dotted = DOMAIN ancestors
      /\ \A i \in DOMAIN ancestors : plain[i] = None /\ dotted[i] = None
  BY <1>1
<1>3. DOMAIN ancestors \in SUBSET Nat
  BY FoldersAre
<1>4. match_name_or_folder(p, b) = FirstOf(<<r0, FirstOf(plain), FirstOf(dotted)>>)
  BY DEF match_name_or_folder
<1>5. r0 = None
  BY <1>1
<1> HIDE DEF ancestors, plain, dotted, r0
<1>6. FirstOf(plain) = None
  BY <1>2, <1>3, FirstIs
<1>7. FirstOf(dotted) = None
  BY <1>2, <1>3, FirstIs
<1> QED
  BY <1>4, <1>5, <1>6, <1>7, FirstOfThree

-----------------------------------------------------------------------------
\* How what is returned rests on the evidence of a tier.
Based(tier, r, p, b) ==
  LET found == Evidence(tier, p, b) IN
  CASE tier = "path" ->
         \E h \in found, text \in Texts(p) :
           /\ Mentioned(h, Systems(h), {text}, b)
           /\ h.list = "custom" =>
                \A g \in Hits(b) : g.list = "main" => ~ Mentioned(g, Systems(g), {text}, b)
           /\ \/ r = h /\ Declared(h, Systems(h), Texts(p), p, b)
              \/ r = None /\ Withheld(h, Systems(h), Texts(p), p, b)
    [] tier = "proton" ->
         \E h \in found :
           /\ h.list = "main"
           /\ \/ r = h /\ Declared(h, ProtonSystems, {Flat(p.path)}, p, b)
              \/ r = None /\ Withheld(h, ProtonSystems, {Flat(p.path)}, p, b)
    [] tier = "title" ->
         r \in found /\ r.list = "main" /\ ((\E h \in found : Exact(h, p, b)) => Exact(r, p, b))
    [] OTHER ->
         r \in found /\ (r.list = "custom" => \A h \in found : h.list # "main")

\* A native pattern that was found.
LEMMA DirectRests ==
  ASSUME NEW b, Built(b), NEW p \in Processes, ~ p.suspended, Direct(p, b) # None
  PROVE  /\ Evidence("path", p, b) # {}
         /\ Based("path", finish_direct_hit(Direct(p, b), p, b), p, b)
<1> DEFINE m == Direct(p, b)
           r == finish_direct_hit(m, p, b)
           h == [list |-> m.list, entry |-> m.entry]
<1>1. PICK text \in Texts(p) :
        /\ Lies(m.pattern, text)
        /\ m \in b.ac \/ (m \in b.custom_ac /\ \A n \in b.ac : ~ Lies(n.pattern, text))
  BY DirectIs
<1> HIDE DEF m
<1> DEFINE Fine(os) == /\ h \in Hits(b)
                       /\ Mentioned(h, os, {text}, b)
                       /\ Mentioned(h, os, Texts(p), b)
                       /\ \/ r = h /\ Declared(h, os, Texts(p), p, b)
                          \/ r = None /\ Withheld(h, os, Texts(p), p, b)
<1>2. Fine(Systems(h)) /\ (h.list = "custom" => \A n \in b.ac : ~ Lies(n.pattern, text))
  <2>1. CASE m \in b.ac
    <3>1. m \in Patterns("main", b.list, NativeSystems)
      BY <2>1, BundleIs
    <3>2. Fine(NativeSystems) /\ h.list = "main"
      BY <1>1, <3>1, FinishIs
    <3> HIDE DEF h, r
    <3> QED
      BY <3>2 DEF Systems
  <2>2. CASE m \in b.custom_ac /\ \A n \in b.ac : ~ Lies(n.pattern, text)
    <3>1. m \in Patterns("custom", b.custom, AnySystem)
      BY <2>2, BundleIs
    <3>2. Fine(AnySystem) /\ h.list = "custom"
      BY <1>1, <3>1, FinishIs
    <3> HIDE DEF h, r
    <3> QED
      BY <2>2, <3>2 DEF Systems
  <2> QED
    BY <1>1, <2>1, <2>2
<1> HIDE DEF h, r
<1>3. h \in Evidence("path", p, b)
  BY <1>2 DEF Evidence
<1>4. ASSUME h.list = "custom", NEW g \in Hits(b), g.list = "main",
             Mentioned(g, Systems(g), {text}, b)
      PROVE  FALSE
  <2>1. PICK n \in PatternsOf(g, b, Systems(g)) : Lies(n.pattern, text)
    BY <1>4, MentionIs
  <2>2. n \in b.ac
    BY <1>4, <2>1, BundleIs DEF PatternsOf, Systems
  <2> QED
    BY <1>2, <1>4, <2>1, <2>2
<1> QED
  BY <1>2, <1>3, <1>4 DEF Based, r, m

\* The Proton patterns.
LEMMA ProtonRests ==
  ASSUME NEW b, Built(b), NEW p \in Processes, ~ p.suspended
  PROVE  LET m == probe_variants(Flat(p.path), <<b.proton_ac>>)
         IN \/ m = None /\ Evidence("proton", p, b) = {}
            \/ /\ m # None /\ Evidence("proton", p, b) # {}
               /\ Based("proton", finish_direct_hit(m, p, b), p, b)
<1> DEFINE s == <<b.proton_ac>>
           text == Flat(p.path)
           m == probe_variants(text, s)
           r == finish_direct_hit(m, p, b)
           h == [list |-> m.list, entry |-> m.entry]
<1>1. b.proton_ac = Patterns("main", b.list, ProtonSystems) /\ b.proton_ac \in SUBSET Pattern
  BY BundleIs, PatternsAre
<1>2. s \in Seq(SUBSET Pattern) /\ DOMAIN s = {1} /\ s[1] = b.proton_ac
  BY <1>1
<1>3. IsText(text)
  BY TextsAre
<1> HIDE DEF s, text
<1>4. \/ m = None /\ \A n \in b.proton_ac : ~ Lies(n.pattern, text)
      \/ m \in b.proton_ac /\ Lies(m.pattern, text)
  BY <1>2, <1>3, ProbeIs
<1>5. None \notin Pattern
  BY MatchAssumption
<1> HIDE DEF m
<1>6. CASE m = None /\ \A n \in b.proton_ac : ~ Lies(n.pattern, text)
  <2>1. Evidence("proton", p, b) = {}
    <3> SUFFICES ASSUME NEW g \in Hits(b), g.list = "main", Mentioned(g, ProtonSystems, {text}, b)
                 PROVE  FALSE
      BY DEF Evidence, text
    <3>1. PICK n \in PatternsOf(g, b, ProtonSystems) : Lies(n.pattern, text)
      BY MentionIs
    <3> QED
      BY <1>1, <1>6, <3>1 DEF PatternsOf
  <2> QED
    BY <1>6, <2>1 DEF m, s, text
<1>7. CASE m \in b.proton_ac /\ Lies(m.pattern, text)
  <2>1. /\ h \in Hits(b) /\ h.list = "main"
        /\ Mentioned(h, ProtonSystems, {text}, b)
        /\ \/ r = h /\ Declared(h, ProtonSystems, {text}, p, b)
           \/ r = None /\ Withheld(h, ProtonSystems, {text}, p, b)
    <3>1. m \in Patterns("main", b.list, ProtonSystems) /\ Lies(m.pattern, text)
      BY <1>1, <1>7
    <3>2. text \in {text}
      OBVIOUS
    <3> QED
      BY <3>1, <3>2, FinishIs
  <2> HIDE DEF h, r
  <2>2. h \in Evidence("proton", p, b)
    BY <2>1 DEF Evidence, text
  <2>3. Based("proton", r, p, b)
    BY <2>1, <2>2 DEF Based, text
  <2>4. m # None
    BY <1>1, <1>5, <1>7
  <2> QED
    BY <2>2, <2>3, <2>4 DEF r, m, s, text
<1> QED
  BY <1>4, <1>6, <1>7

\* The tiers in the order they are asked.
LEMMA TiersAre ==
  ASSUME NEW p
  PROVE  /\ DOMAIN Tiers(p) = 1..5
         /\ ToSet(Tiers(p)) = {"path", "store", "title", "proton", "library"}
         /\ Tiers(p)[1] = "path" /\ Tiers(p)[2] = "store"
         /\ is_shortcut_id(AppId(p)) =>
              Tiers(p)[3] = "title" /\ Tiers(p)[4] = "proton" /\ Tiers(p)[5] = "library"
         /\ ~ is_shortcut_id(AppId(p)) =>
              Tiers(p)[3] = "proton" /\ Tiers(p)[4] = "library" /\ Tiers(p)[5] = "title"
<1> DEFINE s == <<"path", "store", "title", "proton", "library">>
           t == <<"path", "store", "proton", "library", "title">>
<1>1. Tiers(p) = IF is_shortcut_id(AppId(p)) THEN s ELSE t
  BY DEF Tiers
<1>2. /\ DOMAIN s = 1..5 /\ s[1] = "path" /\ s[2] = "store" /\ s[3] = "title"
      /\ s[4] = "proton" /\ s[5] = "library"
  OBVIOUS
<1>3. /\ DOMAIN t = 1..5 /\ t[1] = "path" /\ t[2] = "store" /\ t[3] = "proton"
      /\ t[4] = "library" /\ t[5] = "title"
  OBVIOUS
<1> HIDE DEF s, t
<1>4. ASSUME NEW u, DOMAIN u = 1..5
      PROVE  ToSet(u) = {u[1], u[2], u[3], u[4], u[5]}
  <2>1. \A i \in 1..5 : i = 1 \/ i = 2 \/ i = 3 \/ i = 4 \/ i = 5
    OBVIOUS
  <2> QED
    BY <1>4, <2>1 DEF ToSet
<1>5. ToSet(s) = {"path", "store", "title", "proton", "library"}
  BY <1>2, <1>4
<1>6. ToSet(t) = {"path", "store", "title", "proton", "library"}
  BY <1>3, <1>4
<1> QED
  BY <1>1, <1>2, <1>3, <1>5, <1>6

\* Which tier decides.
LEMMA Decided ==
  ASSUME NEW p, NEW b, NEW i \in 1..5, Evidence(Tiers(p)[i], p, b) # {},
         \A j \in 1..5 : j < i => Evidence(Tiers(p)[j], p, b) = {}
  PROVE  Tiers(p)[i] \in ToSet(Tiers(p)) /\ IsBest(Tiers(p)[i], p, b)
<1>1. \A j \in 1..i - 1 : j \in 1..5 /\ j < i
  OBVIOUS
<1>2. DOMAIN Tiers(p) = 1..5
  BY TiersAre
<1>3. Tiers(p)[i] \in ToSet(Tiers(p))
  BY <1>2 DEF ToSet
<1> QED
  BY <1>1, <1>2, <1>3 DEF IsBest

\* match_process asks the tiers in order: what it returns rests on the first
\* that has any evidence.
LEMMA Outcome ==
  ASSUME NEW b, Built(b), NEW p \in Processes, Visible(p)
  PROVE  LET r == match_process(p, b)
         IN \/ r = None /\ \A tier \in ToSet(Tiers(p)) : Evidence(tier, p, b) = {}
            \/ \E tier \in ToSet(Tiers(p)) : IsBest(tier, p, b) /\ Based(tier, r, p, b)
<1> DEFINE r == match_process(p, b)
           E(tier) == Evidence(tier, p, b)
           found == Direct(p, b)
           store == match_steam_id(AppId(p), p, b)
           names == match_name_or_folder(p, b)
           proton == probe_variants(Flat(p.path), <<b.proton_ac>>)
           library == match_steam_id(match_prefix(p.path), p, b)
           fallback == Fallback(p, b)
           shortcut == is_shortcut_id(AppId(p))
           Final(tier) == IsBest(tier, p, b) /\ Based(tier, r, p, b)
           Nothing == r = None /\ \A tier \in ToSet(Tiers(p)) : E(tier) = {}
           T == {"path", "store", "title", "proton", "library"}
<1>1. ~ p.suspended /\ Last(p.path) \notin Excluded
  BY DEF Visible
<1>2. r = IF found # None THEN finish_direct_hit(found, p, b)
          ELSE FirstOf(<<store, IF shortcut THEN names ELSE None, fallback>>)
  BY <1>1 DEF match_process
<1>3. fallback = IF proton # None THEN finish_direct_hit(proton, p, b)
                 ELSE FirstOf(<<library, IF shortcut THEN None ELSE names>>)
  BY DEF Fallback
<1>4. E("store") = Sold(AppId(p), b) /\ E("library") = Sold(match_prefix(p.path), b)
  BY DEF Evidence, Sold
<1>5. ASSUME NEW tier \in {"store", "library"}, NEW x, x \in E(tier),
             x.list = "custom" => \A h \in E(tier) : h.list # "main"
      PROVE  Based(tier, x, p, b)
  BY <1>5 DEF Based
<1>6. \/ store = None /\ E("store") = {}
      \/ store # None /\ E("store") # {} /\ Based("store", store, p, b)
  <2>1. \/ store = None /\ Sold(AppId(p), b) = {}
        \/ /\ store # None /\ store \in Sold(AppId(p), b)
           /\ store.list = "custom" => \A h \in Sold(AppId(p), b) : h.list # "main"
    BY <1>1, SteamIs
  <2> HIDE DEF E, store
  <2> QED
    BY <1>4, <1>5, <2>1
<1>7. \/ library = None /\ E("library") = {}
      \/ library # None /\ E("library") # {} /\ Based("library", library, p, b)
  <2>1. \/ library = None /\ Sold(match_prefix(p.path), b) = {}
        \/ /\ library # None /\ library \in Sold(match_prefix(p.path), b)
           /\ library.list = "custom" => \A h \in Sold(match_prefix(p.path), b) : h.list # "main"
    BY <1>1, SteamIs
  <2> HIDE DEF E, library
  <2> QED
    BY <1>4, <1>5, <2>1
<1>8. \/ names = None /\ E("title") = {}
      \/ names # None /\ E("title") # {} /\ Based("title", names, p, b)
  <2>1. \/ names = None /\ E("title") = {}
        \/ /\ names # None /\ names \in E("title") /\ names.list = "main"
           /\ (\E h \in E("title") : Exact(h, p, b)) => Exact(names, p, b)
    BY <1>1, NamesAre
  <2> HIDE DEF names
  <2>2. CASE names \in E("title")
    BY <2>1, <2>2 DEF Based
  <2>3. CASE names = None /\ E("title") = {}
    BY <2>3
  <2> QED
    BY <2>1, <2>2, <2>3
<1>9. \/ proton = None /\ E("proton") = {}
      \/ /\ proton # None /\ E("proton") # {}
         /\ Based("proton", finish_direct_hit(proton, p, b), p, b)
  BY <1>1, ProtonRests
<1>10. \/ found = None /\ E("path") = {}
       \/ found # None /\ E("path") # {} /\ Based("path", finish_direct_hit(found, p, b), p, b)
  BY <1>1, DirectIs, DirectRests
<1>11. ToSet(Tiers(p)) = T
  BY TiersAre
<1> HIDE DEF r, E, found, store, names, proton, library, fallback, shortcut
<1>12. ASSUME NEW i \in 1..5, E(Tiers(p)[i]) # {}, \A j \in 1..5 : j < i => E(Tiers(p)[j]) = {}
       PROVE  IsBest(Tiers(p)[i], p, b)
  BY <1>12, Decided DEF E
<1>13. CASE found # None
  <2>1. IsBest("path", p, b)
    <3>1. \A j \in 1..5 : ~(j < 1)
      OBVIOUS
    <3> QED
      BY <1>10, <1>12, <1>13, <3>1, TiersAre
  <2> QED
    BY <1>2, <1>10, <1>11, <1>13, <2>1 DEF r
<1>14. CASE found = None /\ store # None
  <2>1. r = store
    BY <1>2, <1>14, FirstOfThree
  <2>2. IsBest("store", p, b)
    <3>1. \A j \in 1..5 : j < 2 => j = 1
      OBVIOUS
    <3> QED
      BY <1>6, <1>10, <1>12, <1>14, <3>1, TiersAre
  <2> QED
    BY <1>6, <1>11, <1>14, <2>1, <2>2 DEF r
<1>15. CASE found = None /\ store = None /\ shortcut
  <2>1. r = IF names # None THEN names ELSE fallback
    BY <1>2, <1>15, FirstOfThree
  <2>2. fallback = IF proton # None THEN finish_direct_hit(proton, p, b) ELSE library
    BY <1>3, <1>15, FirstOfTwo
  <2>3. /\ Tiers(p)[1] = "path" /\ Tiers(p)[2] = "store" /\ Tiers(p)[3] = "title"
        /\ Tiers(p)[4] = "proton" /\ Tiers(p)[5] = "library"
    BY <1>15, TiersAre DEF shortcut
  <2>4. E("path") = {} /\ E("store") = {}
    BY <1>6, <1>10, <1>15
  <2>5. CASE names # None
    <3>1. \A j \in 1..5 : j < 3 => j = 1 \/ j = 2
      OBVIOUS
    <3>2. IsBest("title", p, b)
      BY <1>8, <1>12, <2>3, <2>4, <2>5, <3>1
    <3> QED
      BY <1>8, <1>11, <2>1, <2>5, <3>2 DEF r
  <2>6. CASE names = None /\ proton # None
    <3>1. \A j \in 1..5 : j < 4 => j = 1 \/ j = 2 \/ j = 3
      OBVIOUS
    <3>2. IsBest("proton", p, b)
      BY <1>8, <1>9, <1>12, <2>3, <2>4, <2>6, <3>1
    <3> QED
      BY <1>9, <1>11, <2>1, <2>2, <2>6, <3>2 DEF r
  <2>7. CASE names = None /\ proton = None /\ library # None
    <3>1. \A j \in 1..5 : j < 5 => j = 1 \/ j = 2 \/ j = 3 \/ j = 4
      OBVIOUS
    <3>2. IsBest("library", p, b)
      BY <1>7, <1>8, <1>9, <1>12, <2>3, <2>4, <2>7, <3>1
    <3> QED
      BY <1>7, <1>11, <2>1, <2>2, <2>7, <3>2 DEF r
  <2>8. CASE names = None /\ proton = None /\ library = None
    BY <1>7, <1>8, <1>9, <1>11, <2>1, <2>2, <2>4, <2>8 DEF r, E
  <2> QED
    BY <2>5, <2>6, <2>7, <2>8
<1>16. CASE found = None /\ store = None /\ ~ shortcut
  <2>1. r = fallback
    BY <1>2, <1>16, FirstOfThree
  <2>2. fallback = IF proton # None THEN finish_direct_hit(proton, p, b)
                   ELSE IF library # None THEN library ELSE names
    BY <1>3, <1>16, FirstOfTwo
  <2>3. /\ Tiers(p)[1] = "path" /\ Tiers(p)[2] = "store" /\ Tiers(p)[3] = "proton"
        /\ Tiers(p)[4] = "library" /\ Tiers(p)[5] = "title"
    BY <1>16, TiersAre DEF shortcut
  <2>4. E("path") = {} /\ E("store") = {}
    BY <1>6, <1>10, <1>16
  <2>5. CASE proton # None
    <3>1. \A j \in 1..5 : j < 3 => j = 1 \/ j = 2
      OBVIOUS
    <3>2. IsBest("proton", p, b)
      BY <1>9, <1>12, <2>3, <2>4, <2>5, <3>1
    <3> QED
      BY <1>9, <1>11, <2>1, <2>2, <2>5, <3>2 DEF r
  <2>6. CASE proton = None /\ library # None
    <3>1. \A j \in 1..5 : j < 4 => j = 1 \/ j = 2 \/ j = 3
      OBVIOUS
    <3>2. IsBest("library", p, b)
      BY <1>7, <1>9, <1>12, <2>3, <2>4, <2>6, <3>1
    <3> QED
      BY <1>7, <1>11, <2>1, <2>2, <2>6, <3>2 DEF r
  <2>7. CASE proton = None /\ library = None /\ names # None
    <3>1. \A j \in 1..5 : j < 5 => j = 1 \/ j = 2 \/ j = 3 \/ j = 4
      OBVIOUS
    <3>2. IsBest("title", p, b)
      BY <1>7, <1>8, <1>9, <1>12, <2>3, <2>4, <2>7, <3>1
    <3> QED
      BY <1>8, <1>11, <2>1, <2>2, <2>7, <3>2 DEF r
  <2>8. CASE proton = None /\ library = None /\ names = None
    BY <1>7, <1>8, <1>9, <1>11, <2>1, <2>2, <2>4, <2>8 DEF r, E
  <2> QED
    BY <2>5, <2>6, <2>7, <2>8
<1> QED
  BY <1>13, <1>14, <1>15, <1>16

\* A suspended process is no game, whichever tier would find it.
LEMMA Unseen ==
  ASSUME NEW b, Built(b), NEW p \in Processes, ~ Visible(p)
  PROVE  match_process(p, b) = None
<1>1. CASE Last(p.path) \in Excluded
  BY <1>1 DEF match_process
<1>2. CASE p.suspended
  <2>1. \A m : finish_direct_hit(m, p, b) = None
    BY <1>2 DEF finish_direct_hit, live_or_none
  <2>2. \A appid : match_steam_id(appid, p, b) = None
    BY <1>2, SteamIs
  <2>3. match_name_or_folder(p, b) = None
    BY <1>2, NoNames
  <2>4. Fallback(p, b) = None
    BY <2>1, <2>2, <2>3, FirstOfTwo DEF Fallback
  <2>5. FirstOf(<<match_steam_id(AppId(p), p, b),
                  IF is_shortcut_id(AppId(p)) THEN match_name_or_folder(p, b) ELSE None,
                  Fallback(p, b)>>) = None
    BY <2>2, <2>3, <2>4, FirstOfThree
  <2> QED
    BY <2>1, <2>5 DEF match_process
<1> QED
  BY <1>1, <1>2 DEF Visible

-----------------------------------------------------------------------------
\* What is reached: a bundle, a process of the scan and what it was taken for.
MatchInv ==
  /\ Built(bundle)
  /\ process \in Processes \cup {None}
  /\ hit = IF process = None THEN None ELSE match_process(process, bundle)

\* A bundle is built from a pair of lists.
LEMMA MatchInitInv == MatchInit => MatchInv
<1> SUFFICES ASSUME MatchInit PROVE MatchInv
  OBVIOUS
<1>1. PICK d \in Databases : bundle = build_bundle(d[1], d[2])
  BY DEF MatchInit
<1>2. d[1] \in Seq(ScannedEntry) /\ d[2] \in Seq(ScannedEntry)
  BY MatchAssumption
<1>3. Built(bundle)
  BY <1>1, <1>2 DEF Built
<1> QED
  BY <1>3 DEF MatchInit, MatchInv

\* A turn of the loop classifies a process with the bundle it has.
LEMMA MatchNextInv == MatchInv /\ [MatchNext]_matchVars => MatchInv'
<1> SUFFICES ASSUME MatchInv, [MatchNext]_matchVars PROVE MatchInv'
  OBVIOUS
<1>1. CASE Examine
  <2>1. PICK p \in Processes : process' = p /\ hit' = match_process(p, bundle)
    BY <1>1 DEF Examine
  <2>2. p # None /\ bundle' = bundle
    BY <1>1, MatchAssumption DEF Examine
  <2> QED
    BY <2>1, <2>2 DEF MatchInv
<1>2. CASE Collect
  BY <1>2 DEF Collect, MatchInv
<1>3. CASE UNCHANGED matchVars
  BY <1>3 DEF matchVars, MatchInv
<1> QED
  BY <1>1, <1>2, <1>3 DEF MatchNext

\* What was hit, said of the state: it rests on the best tier.
LEMMA HitRests ==
  ASSUME MatchInv, process # None
  PROVE  /\ process \in Processes
         /\ ~ Visible(process) => hit = None
         /\ Visible(process) =>
              \/ hit = None /\ \A tier \in ToSet(Tiers(process)) : Evidence(tier, process, bundle) = {}
              \/ \E tier \in ToSet(Tiers(process)) :
                   IsBest(tier, process, bundle) /\ Based(tier, hit, process, bundle)
<1>1. Built(bundle) /\ process \in Processes /\ hit = match_process(process, bundle)
  BY DEF MatchInv
<1>2. ~ Visible(process) => hit = None
  BY <1>1, Unseen
<1>3. Visible(process) =>
        \/ hit = None /\ \A tier \in ToSet(Tiers(process)) : Evidence(tier, process, bundle) = {}
        \/ \E tier \in ToSet(Tiers(process)) :
             IsBest(tier, process, bundle) /\ Based(tier, hit, process, bundle)
  BY <1>1, Outcome
<1> QED
  BY <1>1, <1>2, <1>3

\* A hit is evidence of the tier it rests on, and has its arguments there.
LEMMA RestsOn ==
  ASSUME NEW tier \in {"path", "store", "title", "proton", "library"}, NEW r, NEW p, NEW b,
         Based(tier, r, p, b)
  PROVE  \/ r \in Evidence(tier, p, b)
         \/ /\ r = None
            /\ \E h \in Evidence(tier, p, b) :
                 \/ tier = "path" /\ Withheld(h, Systems(h), Texts(p), p, b)
                 \/ tier = "proton" /\ Withheld(h, ProtonSystems, {Flat(p.path)}, p, b)
BY DEF Based

\* HitIsBest: the first tier with evidence decides.
LEMMA BestHolds == MatchInv => HitIsBest
<1> SUFFICES ASSUME MatchInv, process # None, Visible(process)
             PROVE  \/ /\ hit = None
                       /\ \A tier \in ToSet(Tiers(process)) : Evidence(tier, process, bundle) = {}
                    \/ \E tier \in ToSet(Tiers(process)) :
                         /\ IsBest(tier, process, bundle)
                         /\ \/ hit \in Evidence(tier, process, bundle)
                            \/ /\ hit = None
                               /\ \E h \in Evidence(tier, process, bundle) :
                                    \/ /\ tier = "path"
                                       /\ Withheld(h, Systems(h), Texts(process), process, bundle)
                                    \/ /\ tier = "proton"
                                       /\ Withheld(h, ProtonSystems, {Flat(process.path)}, process, bundle)
  BY DEF HitIsBest
<1>1. ToSet(Tiers(process)) = {"path", "store", "title", "proton", "library"}
  BY TiersAre
<1>2. CASE hit = None /\ \A tier \in ToSet(Tiers(process)) : Evidence(tier, process, bundle) = {}
  BY <1>2
<1>3. CASE \E tier \in ToSet(Tiers(process)) :
             IsBest(tier, process, bundle) /\ Based(tier, hit, process, bundle)
  <2>1. PICK tier \in ToSet(Tiers(process)) :
          IsBest(tier, process, bundle) /\ Based(tier, hit, process, bundle)
    BY <1>3
  <2>2. \/ hit \in Evidence(tier, process, bundle)
        \/ /\ hit = None
           /\ \E h \in Evidence(tier, process, bundle) :
                \/ tier = "path" /\ Withheld(h, Systems(h), Texts(process), process, bundle)
                \/ tier = "proton" /\ Withheld(h, ProtonSystems, {Flat(process.path)}, process, bundle)
    BY <1>1, <2>1, RestsOn
  <2> QED
    BY <2>1, <2>2
<1> QED
  BY <1>2, <1>3, HitRests

\* A hit, the tier it rests on and the process it is for.
LEMMA HitTier ==
  ASSUME MatchInv, hit # None
  PROVE  /\ process \in Processes /\ Visible(process) /\ hit \in Hits(bundle)
         /\ \E tier \in ToSet(Tiers(process)) :
              /\ IsBest(tier, process, bundle)
              /\ hit \in Evidence(tier, process, bundle)
              /\ Based(tier, hit, process, bundle)
<1>1. process # None /\ Built(bundle)
  BY DEF MatchInv
<1>2. process \in Processes /\ Visible(process)
  BY <1>1, HitRests
<1>3. PICK tier \in ToSet(Tiers(process)) :
        IsBest(tier, process, bundle) /\ Based(tier, hit, process, bundle)
  BY <1>1, <1>2, HitRests
<1>4. tier \in {"path", "store", "title", "proton", "library"}
  BY TiersAre
<1>5. hit \in Evidence(tier, process, bundle)
  BY <1>3, <1>4, RestsOn
<1>6. hit \in Hits(bundle)
  BY <1>5 DEF Evidence
<1> QED
  BY <1>2, <1>3, <1>5, <1>6

\* HitIsJustified: every tier has its reason.
LEMMA JustifiedHolds == MatchInv => HitIsJustified
<1> SUFFICES ASSUME MatchInv, hit # None
             PROVE  /\ Visible(process)
                    /\ \/ Declared(hit, Systems(hit), Texts(process), process, bundle)
                       \/ Declared(hit, ProtonSystems, Texts(process), process, bundle)
                       \/ \E t \in {"store", "library", "title"} : hit \in Evidence(t, process, bundle)
  BY DEF HitIsJustified
<1>1. PICK tier \in ToSet(Tiers(process)) :
        hit \in Evidence(tier, process, bundle) /\ Based(tier, hit, process, bundle)
  BY HitTier
<1>2. tier \in {"path", "store", "title", "proton", "library"}
  BY TiersAre
<1>3. Visible(process)
  BY HitTier
<1>4. CASE tier = "path"
  BY <1>1, <1>3, <1>4 DEF Based
<1>5. CASE tier = "proton"
  <2>1. Declared(hit, ProtonSystems, {Flat(process.path)}, process, bundle)
    BY <1>1, <1>5 DEF Based
  <2>2. Flat(process.path) \in Texts(process)
    BY DEF Texts
  <2>3. Declared(hit, ProtonSystems, Texts(process), process, bundle)
    BY <2>1, <2>2 DEF Declared
  <2> QED
    BY <1>3, <2>3
<1>6. CASE tier \in {"store", "library", "title"}
  BY <1>1, <1>3, <1>6
<1> QED
  BY <1>2, <1>4, <1>5, <1>6

\* Only one tier is the first with evidence.
LEMMA BestIsOne ==
  ASSUME NEW p, NEW b, NEW s, NEW t, IsBest(s, p, b), IsBest(t, p, b)
  PROVE  s = t
<1>1. PICK i \in 1..5 : /\ Tiers(p)[i] = s /\ Evidence(s, p, b) # {}
                        /\ \A k \in 1..i - 1 : Evidence(Tiers(p)[k], p, b) = {}
  BY TiersAre DEF IsBest
<1>2. PICK j \in 1..5 : /\ Tiers(p)[j] = t /\ Evidence(t, p, b) # {}
                        /\ \A k \in 1..j - 1 : Evidence(Tiers(p)[k], p, b) = {}
  BY TiersAre DEF IsBest
<1>3. ~(i < j)
  <2> SUFFICES ASSUME i < j PROVE FALSE
    OBVIOUS
  <2>1. i \in 1..j - 1
    OBVIOUS
  <2> QED
    BY <1>1, <1>2, <2>1
<1>4. ~(j < i)
  <2> SUFFICES ASSUME j < i PROVE FALSE
    OBVIOUS
  <2>1. j \in 1..i - 1
    OBVIOUS
  <2> QED
    BY <1>1, <1>2, <2>1
<1>5. i = j
  BY <1>3, <1>4
<1> QED
  BY <1>1, <1>2, <1>5

\* ExactTitleFirst: the exact look-ups come before the de-dotted ones.
LEMMA ExactHolds == MatchInv => ExactTitleFirst
<1> SUFFICES ASSUME MatchInv, hit # None, IsBest("title", process, bundle),
                    \E h \in Evidence("title", process, bundle) : Exact(h, process, bundle)
             PROVE  Exact(hit, process, bundle)
  BY DEF ExactTitleFirst
<1>1. PICK tier : IsBest(tier, process, bundle) /\ Based(tier, hit, process, bundle)
  BY HitTier
<1>2. tier = "title"
  BY <1>1, BestIsOne
<1> QED
  BY <1>1, <1>2 DEF Based

\* MainBeatsCustom: a custom hit has no main rival on its text or for its appid.
LEMMA MainHolds == MatchInv => MainBeatsCustom
<1> DEFINE main == {h \in Hits(bundle) : h.list = "main"}
<1> SUFFICES ASSUME MatchInv, hit # None, hit.list = "custom"
             PROVE  \E tier \in ToSet(Tiers(process)) :
                      /\ IsBest(tier, process, bundle)
                      /\ IF tier = "path"
                         THEN \E text \in Texts(process) :
                                /\ Mentioned(hit, Systems(hit), {text}, bundle)
                                /\ \A h \in main : ~ Mentioned(h, Systems(h), {text}, bundle)
                         ELSE main \cap Evidence(tier, process, bundle) = {}
  BY DEF MainBeatsCustom
<1>1. PICK tier \in ToSet(Tiers(process)) :
        IsBest(tier, process, bundle) /\ Based(tier, hit, process, bundle)
  BY HitTier
<1>2. tier \in {"path", "store", "title", "proton", "library"}
  BY TiersAre
<1>3. CASE tier = "path"
  <2>1. PICK text \in Texts(process) :
          /\ Mentioned(hit, Systems(hit), {text}, bundle)
          /\ \A g \in Hits(bundle) : g.list = "main" => ~ Mentioned(g, Systems(g), {text}, bundle)
    BY <1>1, <1>3 DEF Based
  <2> QED
    BY <1>1, <1>3, <2>1
<1>4. CASE tier \in {"title", "proton"}
  <2>1. hit.list = "main"
    BY <1>1, <1>4 DEF Based
  <2> QED
    BY <2>1
<1>5. CASE tier \in {"store", "library"}
  <2>1. \A h \in Evidence(tier, process, bundle) : h.list # "main"
    BY <1>1, <1>5 DEF Based
  <2> QED
    BY <1>1, <1>5, <2>1
<1> QED
  BY <1>2, <1>3, <1>4, <1>5

\* The hit is a place in the bundle, and its maps lead to entries.
LEMMA MatchTyped == MatchInv => MatchTypeOK
<1> SUFFICES ASSUME MatchInv PROVE MatchTypeOK
  OBVIOUS
<1>1. Built(bundle) /\ process \in Processes \cup {None}
  BY DEF MatchInv
<1>2. hit \in Hits(bundle) \cup {None}
  BY HitTier
<1>3. /\ Range(bundle.steam_map) \subseteq DOMAIN bundle.list
      /\ Range(bundle.name_map) \subseteq DOMAIN bundle.list
      /\ Range(bundle.name_map_nodot) \subseteq DOMAIN bundle.list
  BY <1>1, MapsAre DEF Range
<1> QED
  BY <1>1, <1>2, <1>3 DEF MatchTypeOK

\* The matching has its types: every lookup of a bundle leads to an entry of its
\* list (build_bundle), and a hit is a place in one of the lists.
THEOREM MatchTypeCorrect == MatchSpec => []MatchTypeOK
<1>1. MatchSpec => []MatchInv
  BY MatchInitInv, MatchNextInv, PTL DEF MatchSpec
<1> QED
  BY <1>1, MatchTyped, PTL

\* What match_process returns is what its order of tiers, titles and lists
\* calls for, whatever the database, the processes and the build's system.
THEOREM HitRight == MatchSpec => []HitIsRight
<1>1. MatchSpec => []MatchInv
  BY MatchInitInv, MatchNextInv, PTL DEF MatchSpec
<1>2. MatchInv => HitIsRight
  BY BestHolds, JustifiedHolds, ExactHolds, MainHolds DEF HitIsRight
<1> QED
  BY <1>1, <1>2, PTL

-----------------------------------------------------------------------------
(* The components side by side, as they are checked together.               *)

\* A step of the composition is a step of each component, or leaves it alone.
LEMMA EachSteps ==
  ASSUME [Next]_intakeVars
  PROVE  /\ [SocketsNext]_socketVars
         /\ [WsNext]_wsVars
         /\ [ProcNext]_procVars
         /\ [SteamNext]_steamVars
         /\ [MatchNext]_matchVars
<1>1. CASE Sockets
  BY <1>1 DEF Sockets, NotSockets
<1>2. CASE Websocket
  BY <1>2 DEF Websocket, NotWebsocket
<1>3. CASE Reports
  BY <1>3 DEF Reports, NotEvents
<1>4. CASE Libs
  BY <1>4 DEF Libs, NotLibs
<1>5. CASE Matches
  BY <1>5 DEF Matches, NotMatches
<1>6. CASE UNCHANGED intakeVars
  BY <1>6 DEF intakeVars
<1> QED
  BY <1>1, <1>2, <1>3, <1>4, <1>5, <1>6 DEF Next

\* Every behaviour of the composition is one of each component's own
\* specification, so that what is proved of them holds side by side.
THEOREM IntakeImplements ==
  Spec => SocketsSpec /\ WsSpec /\ ProcSpec /\ SteamSpec /\ MatchSpec
<1>1. Init => SocketsInit /\ WsInit /\ ProcInit /\ SteamInit /\ MatchInit
  BY DEF Init
<1> QED
  BY <1>1, EachSteps, PTL DEF Spec, SocketsSpec, WsSpec, ProcSpec, SteamSpec, MatchSpec

\* Every variable of every component keeps its type, side by side.
THEOREM IntakeTypeCorrect == Spec => []IntakeTypeOK
<1>1. SocketsSpec => []SocketsTypeOK
  BY SocketsTypeCorrect, SocketAssumption
<1>2. WsSpec => []WsTypeOK
  BY WsTypeCorrect, WsAssumption
<1>3. ProcSpec => []ProcTypeOK
  BY ProcTypeCorrect, ProcAssumption
<1>4. SteamSpec => [](SteamTypeOK /\ NeverDiluted)
  BY SteamTypeCorrect, SteamAssumption
<1>5. SocketsTypeOK /\ WsTypeOK /\ ProcTypeOK /\ (SteamTypeOK /\ NeverDiluted) /\ MatchTypeOK
        => IntakeTypeOK
  BY DEF IntakeTypeOK
<1> QED
  BY IntakeImplements, <1>1, <1>2, <1>3, <1>4, <1>5, MatchTypeCorrect, PTL
=============================================================================

--------------------------- MODULE SteamLibraries ---------------------------
(***************************************************************************)
(* The map from install directories to Steam application ids              *)
(* (src/lib/src/server/steam.rs): found once at the start of the scanner,  *)
(* with the help of a cache on disk, and revalidated on every scan tick    *)
(* while Steam installs and removes games, rewrites libraryfolders.vdf,    *)
(* and disks come and go.                                                  *)
(*                                                                         *)
(* One library has the libraryfolders.vdf that lists others; more may be   *)
(* found on their own (mounted partitions, running clients, home).  What a *)
(* pass reads of the disk, it reads in steps: the disk changes in between. *)
(***************************************************************************)
EXTENDS FiniteSets, Tables

CONSTANTS
  Libraries,    \* directories that may hold a steamapps directory
  Home,         \* the one whose libraryfolders.vdf is read
  Listable,     \* those it may list
  Mounts,       \* those every full collection of the roots comes upon
  Installs,     \* install directories that have a manifest
  ProtonPrefixes,     \* Proton prefixes: directories under steamapps/compatdata
  AppIds,
  Custom,       \* TRUE: RSRPC_STEAM_ROOT names Home
  PROBE,        \* ticks between two collections of the roots: 120
  RacingScan,   \* TRUE: the disk may change at any point of a pass
  MaxClock      \* changes to the disk

Places == Installs \cup ProtonPrefixes

ASSUME SteamAssumption ==
  /\ Home \in Libraries
  /\ Listable \subseteq Libraries \ {Home}
  /\ Mounts \subseteq Libraries
  /\ Custom \in BOOLEAN /\ RacingScan \in BOOLEAN
  /\ PROBE \in Nat \ {0} /\ MaxClock \in Nat \ {0}
  /\ IsFiniteSet(Libraries) /\ IsFiniteSet(Places)

VARIABLES
  disk,      \* disk[l]: whether l is there, what is installed, its fingerprint
  folders,   \* libraryfolders.vdf: what it lists, its mtime (0: no file)
  clock,     \* the mtime of the last change
  dirs,      \* SteamLibraries.dirs, by library
  prints,    \* SteamLibraries.fingerprints: 0 for no entry
  marker,    \* watched and mtimes: Home's libraryfolders.vdf
  exclusive,
  ticks,     \* modulo PROBE
  pass,      \* the discovery or the refresh under way
  cacheFile  \* the libraries in the cache on disk, with their fingerprints

diskVars  == <<disk, folders, clock>>
knownVars == <<dirs, prints, marker, exclusive, ticks>>
steamVars == <<diskVars, knownVars, pass, cacheFile>>

Empty      == [p \in Places |-> None]
NoDirs     == [l \in Libraries |-> Empty]
NoPrints   == [l \in Libraries |-> 0]
Memory      == [dirs |-> dirs, prints |-> prints]
NoCache    == [dirs |-> NoDirs, prints |-> NoPrints]
Unwatched  == [watched |-> FALSE, seen |-> 0]

-----------------------------------------------------------------------------
(* The disk.                                                                *)

Present(l) == disk[l].up

\* dir_fingerprint: of a directory that is there.
Fingerprint(l) == IF Present(l) THEN disk[l].stamp ELSE 0

\* The mtime of libraryfolders.vdf.
FoldersTime == IF Present(Home) THEN folders.stamp ELSE 0

\* collect_roots and custom_root.
CollectRoots ==
  IF Custom /\ Present(Home) THEN {Home}
  ELSE {l \in Mounts \cup {Home} : Present(l)}

\* root_libraries: the root, and what its libraryfolders.vdf lists.
RootLibraries(root) ==
  {root} \cup IF root = Home /\ FoldersTime # 0 THEN folders.listed ELSE {}

Resolved(roots) == UNION {RootLibraries(r) : r \in {s \in roots : Present(s)}}

\* scan_library_into: the manifests.  The prefixes are looked for among the
\* entries of steamapps itself, and they are one level further down.
Scanned(l) ==
  [p \in Places |-> IF Present(l) /\ p \in Installs
                      THEN disk[l].holds[p] ELSE None]

-----------------------------------------------------------------------------
(* What happens to the disk.                                                *)

Off      == [at |-> "off"]
Resting  == [at |-> "idle"]

Scanning == pass.at \in {"scan", "stamp"}

\* What a discovery has read, and not stamped yet.
Unstamped == pass.at = "stamp" /\ pass.rest.kind = "discover"

Changes ==
  /\ clock < MaxClock
  /\ clock' = clock + 1
  /\ UNCHANGED <<knownVars, pass, cacheFile>>

\* Steam installs, updates or removes: the fingerprint moves.
InstallGame(l, p, a) ==
  /\ Present(l)
  /\ disk[l].holds[p] # a
  /\ RacingScan \/ ~Unstamped
  /\ Changes
  /\ disk' = [disk EXCEPT ![l].holds[p] = a, ![l].stamp = clock']
  /\ UNCHANGED folders

\* A disk leaves or comes back, as it was.
Mount(l) ==
  /\ RacingScan \/ ~Scanning
  /\ Changes
  /\ disk' = [disk EXCEPT ![l].up = ~@]
  /\ UNCHANGED folders

\* Steam rewrites libraryfolders.vdf, or it is removed.
Relist(ls) ==
  /\ Present(Home)
  /\ Changes
  /\ folders' \in {[listed |-> ls, stamp |-> clock'], [listed |-> {}, stamp |-> 0]}
  /\ UNCHANGED disk

DiskChanges ==
  \/ \E l \in Libraries :
       \/ \E p \in Places, a \in AppIds \cup {None} : InstallGame(l, p, a)
       \/ Mount(l)
  \/ \E ls \in SUBSET Listable : Relist(ls)

-----------------------------------------------------------------------------
(* A pass: the roots are resolved, then every library is looked at.         *)

\* The libraries of a pass are known; stat the marker next, or compare.
Walk(kind, at, libs) ==
  [at |-> at, kind |-> kind, todo |-> libs, dirs |-> NoDirs,
   prints |-> NoPrints, changed |-> FALSE]

Discovering == pass.kind = "discover"

\* SteamLibraries::discover: what the cache says stands in for what is known.
Discover ==
  /\ pass = Off
  /\ pass' = Walk("discover", "mark", Resolved(CollectRoots))
  /\ exclusive' = (Custom /\ Present(Home))
  /\ dirs' = cacheFile.dirs
  /\ prints' = cacheFile.prints
  /\ ticks' = 0
  /\ marker' = Unwatched
  /\ UNCHANGED <<diskVars, cacheFile>>

FoldersChanged == marker.watched /\ FoldersTime # marker.seen

\* Faulty: the roots are collected anew, whoever named them.
AnyRoots == {l \in Mounts \cup {Home} : Present(l)}

\* Where a refresh starts from.
RefreshRoots == IF exclusive THEN {Home} ELSE CollectRoots

\* Faulty: the roots are collected only when the marker moves.
NeverDue(t) == FALSE

ProbeDue(t) == t = 0

\* refresh_if_stale, up to the libraries it will look at.
Refresh ==
  /\ pass = Resting
  /\ ticks' = (ticks + 1) % PROBE
  /\ pass' = IF FoldersChanged \/ ProbeDue(ticks')
               THEN Walk("refresh", "mark", Resolved(RefreshRoots))
               ELSE Walk("refresh", "compare", {l \in Libraries : prints[l] # 0})
  /\ UNCHANGED <<diskVars, dirs, prints, marker, exclusive, cacheFile>>

\* Faulty: what was last seen of a file is kept when the file is not watched.
MarkedForever ==
  [watched |-> Present(Home),
   seen    |-> IF FoldersTime # 0 THEN FoldersTime ELSE marker.seen]

\* The mtime goes with the file; a layout that is gone is not watched.
Marked ==
  IF Present(Home)
    THEN [watched |-> TRUE,
          seen    |-> IF FoldersTime # 0 THEN FoldersTime ELSE marker.seen]
    ELSE Unwatched

\* After libraryfolders.vdf was read, its mtime is.
Mark ==
  /\ pass.at = "mark"
  /\ marker' = Marked
  /\ pass' = [pass EXCEPT !.at = IF Discovering THEN "walk" ELSE "compare"]
  /\ UNCHANGED <<diskVars, dirs, prints, exclusive, ticks, cacheFile>>

\* The fast path: the same libraries, with the same fingerprints.
Unmoved ==
  /\ Cardinality(pass.todo) = Cardinality({l \in Libraries : prints[l] # 0})
  /\ \A l \in pass.todo : Present(l) /\ Fingerprint(l) = prints[l]

Compare ==
  /\ pass.at = "compare"
  /\ pass' = IF Unmoved THEN Resting ELSE [pass EXCEPT !.at = "walk"]
  /\ UNCHANGED <<diskVars, knownVars, cacheFile>>

\* The next library: gone, as it was, or to be scanned.
Look(l) ==
  /\ pass.at = "walk"
  /\ l \in pass.todo
  /\ LET live == Fingerprint(l)
         rest == [pass EXCEPT !.todo = @ \ {l}]
     IN  pass' = IF live = 0 /\ ~Discovering THEN [rest EXCEPT !.changed = TRUE]
                 ELSE IF live # 0 /\ live = prints[l]
                   THEN [rest EXCEPT !.dirs[l] = dirs[l], !.prints[l] = live]
                   ELSE [at |-> "scan", of |-> l, live |-> live, rest |-> rest]
  /\ UNCHANGED <<diskVars, knownVars, cacheFile>>

\* Faulty: a refresh takes the fingerprint after the scan.
StampedLast(rest, l, live) ==
  [at |-> "stamp", of |-> l, rest |-> rest]

\* A refresh has the fingerprint from before the scan; a discovery takes one
\* after it (scan_library).
AfterScan(rest, l, live) ==
  IF rest.kind = "refresh"
    THEN [rest EXCEPT !.prints[l] = live, !.changed = TRUE]
    ELSE [at |-> "stamp", of |-> l, rest |-> rest]

ScanLibrary ==
  /\ pass.at = "scan"
  /\ pass' = AfterScan([pass.rest EXCEPT !.dirs[pass.of] = Scanned(pass.of)],
                       pass.of, pass.live)
  /\ UNCHANGED <<diskVars, knownVars, cacheFile>>

StampLibrary ==
  /\ pass.at = "stamp"
  /\ pass' = [pass.rest EXCEPT !.prints[pass.of] = Fingerprint(pass.of),
                               !.changed = TRUE]
  /\ UNCHANGED <<diskVars, knownVars, cacheFile>>

\* Faulty: saved before the map is replaced.
SaveBefore(known) == cacheFile' = [dirs |-> dirs, prints |-> known.prints]

\* save_cache: a file beside it and a rename, or nothing at all.
Save(known) ==
  \/ cacheFile' = known
  \/ UNCHANGED cacheFile

Prefixed(d) == {w \in Libraries \X Places : d[w[1]][w[2]] # None}

\* Faulty: only what a scan found counts.
OnlyIfScanned == pass.changed

\* A refresh that lost a library without looking at it has fewer prefixes.
Differs ==
  \/ Discovering
  \/ pass.changed
  \/ Cardinality(Prefixed(pass.dirs)) # Cardinality(Prefixed(dirs))

Finish ==
  /\ pass.at = "walk"
  /\ pass.todo = {}
  /\ pass' = Resting
  /\ prints' = pass.prints
  /\ IF Differs
       THEN /\ dirs' = pass.dirs
            /\ Save([dirs |-> pass.dirs, prints |-> pass.prints])
       ELSE UNCHANGED <<dirs, cacheFile>>
  /\ UNCHANGED <<diskVars, marker, exclusive, ticks>>

\* The daemon is killed, and the cache is what it left, or removed.
Killed ==
  /\ pass # Off
  /\ clock < MaxClock
  /\ clock' = clock + 1
  /\ pass' = Off
  /\ cacheFile' \in {cacheFile, NoCache}
  /\ dirs' = NoDirs
  /\ prints' = NoPrints
  /\ marker' = Unwatched
  /\ exclusive' = FALSE
  /\ ticks' = 0
  /\ UNCHANGED <<disk, folders>>

-----------------------------------------------------------------------------
SteamInit ==
  /\ disk \in [Libraries -> [up : BOOLEAN, holds : {Empty}, stamp : {1}]]
  /\ folders \in {[listed |-> Listable, stamp |-> 1], [listed |-> {}, stamp |-> 0]}
  /\ clock = 1
  /\ dirs = NoDirs
  /\ prints = NoPrints
  /\ marker = Unwatched
  /\ exclusive = FALSE
  /\ ticks = 0
  /\ pass = Off
  /\ cacheFile = NoCache

SteamPass ==
  \/ Discover
  \/ Refresh
  \/ Mark
  \/ Compare
  \/ \E l \in Libraries : Look(l)
  \/ ScanLibrary
  \/ StampLibrary
  \/ Finish

SteamNext == DiskChanges \/ SteamPass \/ Killed

\* The scan loop keeps ticking.
SteamFairness == WF_steamVars(SteamPass)

SteamSpec     == SteamInit /\ [][SteamNext]_steamVars
SteamFairSpec == SteamSpec /\ SteamFairness

-----------------------------------------------------------------------------
(* Properties.                                                              *)

Holdings == [Places -> AppIds \cup {None}]

\* Every variable has its type, and an mtime is remembered of a watched file only.
SteamTypeOK ==
  /\ disk \in [Libraries -> [up : BOOLEAN, holds : Holdings, stamp : 1 .. MaxClock]]
  /\ folders \in [listed : SUBSET Listable, stamp : 0 .. MaxClock]
  /\ clock \in 1 .. MaxClock
  /\ \A known \in {Memory, cacheFile} :
       /\ known.dirs \in [Libraries -> Holdings]
       /\ known.prints \in [Libraries -> 0 .. MaxClock]
  /\ marker \in [watched : BOOLEAN, seen : 0 .. MaxClock]
  /\ marker.seen # 0 => marker.watched
  /\ ticks \in 0 .. (PROBE - 1)
  /\ pass.at \in {"off", "idle", "mark", "compare", "walk", "scan", "stamp"}

AsOnDisk(known) ==
  \A l \in Libraries :
    Present(l) /\ known.prints[l] = disk[l].stamp => known.dirs[l] = Scanned(l)

\* A library whose fingerprint has not moved since is known as it is on disk: a
\* change in the middle of a refresh is found by the next one (refresh_if_stale).
StampedIsCurrent == pass = Resting => AsOnDisk(Memory)

\* So is what a later start takes over from the cache, whoever was killed
\* between two saves (save_cache, load_cache).
CacheIsCurrent == AsOnDisk(cacheFile)

\* No prefix outlives the library it came from (refresh_if_stale drops those
\* that vanish, and those that are no longer listed).
NoOrphans ==
  pass = Resting => \A l \in Libraries : prints[l] = 0 => dirs[l] = Empty

\* Under an explicit root nothing is known that neither is it nor is listed by
\* it, not even when the root goes away and the next refresh has none.
NeverDiluted ==
  pass = Resting /\ exclusive =>
    \A l \in Libraries : prints[l] # 0 => l \in {Home} \cup Listable

\* What a fingerprint vouches for is right, in memory and in the cache, and nothing
\* is known of a library that no fingerprint vouches for.
IndexIsCurrent == StampedIsCurrent /\ CacheIsCurrent /\ NoOrphans /\ NeverDiluted

Reachable == Resolved(IF exclusive THEN {Home} ELSE CollectRoots)

Ideal == [l \in Libraries |-> IF l \in Reachable THEN Scanned(l) ELSE Empty]

\* Once discovery began and the disk came to rest, the map comes to say what is on
\* it: through lists read while they were rewritten and disks that are back under
\* an old list.
SteamSettles == <>[](pass # Off) => <>[](dirs = Ideal)

\* A Proton prefix names its owner, without a manifest.
ProtonPrefixesKnown ==
  pass = Resting =>
    \A l \in Libraries : \A p \in ProtonPrefixes :
      Present(l) /\ prints[l] = disk[l].stamp => dirs[l][p] = disk[l].holds[p]
=============================================================================

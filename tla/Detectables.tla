----------------------------- MODULE Detectables ----------------------------
(***************************************************************************)
(* What the scanner matches against: the generations of the detection      *)
(* database and of the user's overrides (src/lib/src/server/process.rs,    *)
(* src/lib/src/lib.rs), the conditional hourly refresh that replaces the   *)
(* database, and the exclusions fetched with it (detection.rs).            *)
(*                                                                         *)
(* A generation is one pointer, read and written under a lock; both who    *)
(* append or remove overrides (the API thread) and the refresh thread read *)
(* it, build the next one off the lock, and write that.                    *)
(***************************************************************************)
EXTENDS Sequences, Tables

CONSTANTS
  Contents,      \* what a database may hold, as far as the scanner looks
  NoGames,       \* the content of `[]`
  Bundled,       \* the content of the snapshot in the binary
  Unbuildable,   \* contents whose automata exceed the builder's limits
  Forms,         \* the byte sequences that carry one content
  OverrideNames,         \* overrides
  PatternLists,  \* exclusions that may be served: sequences of program sizes
  MAX_PATTERN_BYTES,
  Racing,        \* FALSE: API calls and rebuilds come one at a time
  BlindStart     \* FALSE: the database of the start builds

\* A body is the bytes of a database; serving it anew may change its tag only.
Bodies == [content : Contents, form : Forms]
Responses == [body : Bodies, tag : {"first", "second", None}]

ASSUME DetectablesAssumption ==
  /\ {NoGames, Bundled} \cup Unbuildable \subseteq Contents
  /\ Bundled \notin Unbuildable \cup {NoGames}
  /\ NoGames \notin Unbuildable
  /\ None \notin Contents /\ None \notin Bodies
  /\ MAX_PATTERN_BYTES \in Nat /\ PatternLists \subseteq Seq(Nat)
  /\ Racing \in BOOLEAN /\ BlindStart \in BOOLEAN

VARIABLES
  remote,      \* what the database's URL serves
  started,     \* whether RPCServer::start has run
  staged,      \* staged_overrides
  list,        \* the main side of the generation in force
  custom,      \* and its overrides
  asked,       \* the overrides the API has been asked for
  call,        \* the API thread: what it has read and is about to write
  refresh,     \* the refresh thread: where it is, and what it has read
  etag, raw, trimmed, \* what it knows of the database it last took
  exclusions   \* the exclusions in force

detectVars == <<remote, started, staged, list, custom, asked, call, refresh,
                etag, raw, trimmed, exclusions>>

Tag(served) == IF served.tag = None THEN None ELSE <<served.tag, served.body>>

Buildable(content) == content \notin Unbuildable

\* Detection sees nothing, overrides included.
Blind == [list |-> NoGames, custom |-> {}]

\* initial_bundle.
Initial(content, overrides) ==
  IF Buildable(content) THEN [list |-> content, custom |-> overrides] ELSE Blind

-----------------------------------------------------------------------------
(* Before the start: the database is fetched, or the bundled one is used.   *)

\* server_from_fetched: a body that parses seeds what the refresh knows.
BootFetched ==
  /\ list = remote.body.content
  /\ etag = Tag(remote)
  /\ raw = remote.body
  /\ trimmed = remote.body.content

BootBundled ==
  /\ list = Bundled
  /\ etag = None
  /\ raw = None
  /\ trimmed = None

DetectInit ==
  /\ remote \in Responses
  /\ BootFetched \/ BootBundled
  /\ BlindStart \/ Buildable(list)
  /\ started = FALSE
  /\ staged = {}
  /\ custom = {}
  /\ asked = {}
  /\ call = [at |-> "idle"]
  /\ refresh = [at |-> "off"]
  /\ exclusions = <<>>

\* RPCServer::start: the staged overrides fold into the first generation.
StartServer ==
  /\ ~started
  /\ started' = TRUE
  /\ list' = Initial(list, staged).list
  /\ custom' = Initial(list, staged).custom
  /\ staged' = {}
  /\ refresh' = [at |-> "prime"]
  /\ UNCHANGED <<remote, asked, call, etag, raw, trimmed, exclusions>>

-----------------------------------------------------------------------------
(* append_detectables and remove_detectable_by_name.                        *)

StageAppend(n) ==
  /\ ~started
  /\ staged' = staged \cup {n}
  /\ asked' = asked \cup {n}
  /\ UNCHANGED <<remote, started, list, custom, call, refresh, etag, raw,
                 trimmed, exclusions>>

Rebuilding == refresh.at \in {"update", "build"}

\* The first lock: the overrides in force, with the change made to them.
Change(overrides, wanted) ==
  /\ started
  /\ call.at = "idle"
  /\ Racing \/ ~Rebuilding
  /\ call' = [at |-> "list", custom |-> overrides]
  /\ asked' = wanted
  /\ UNCHANGED <<remote, started, staged, list, custom, refresh, etag, raw,
                 trimmed, exclusions>>

Append1(n)    == Change(custom \cup {n}, asked \cup {n})
RemoveName(n) == Change(custom \ {n}, asked \ {n})

\* rebuild_custom: the second lock, for the list.
RebuildList ==
  /\ call.at = "list"
  /\ call' = [at |-> "swap", custom |-> call.custom, list |-> list]
  /\ UNCHANGED <<remote, started, staged, list, custom, asked, refresh, etag, raw,
                 trimmed, exclusions>>

\* The third, for the pointer.
RebuildSwap ==
  /\ call.at = "swap"
  /\ call' = [at |-> "idle"]
  /\ custom' = call.custom
  /\ list' = call.list
  /\ UNCHANGED <<remote, started, staged, asked, refresh, etag, raw, trimmed,
                 exclusions>>

-----------------------------------------------------------------------------
(* The refresh thread.                                                      *)

\* Anything may be served next: other games, the same in other bytes, the same
\* bytes under another tag, no games at all.
Serve ==
  /\ remote' \in Responses \ {remote}
  /\ UNCHANGED <<started, staged, list, custom, asked, call, refresh, etag, raw,
                 trimmed, exclusions>>

Waiting == refresh.at \in {"prime", "asleep"}

\* What the patterns of a list take together.
Program(sizes) ==
  LET total[i \in 0 .. Len(sizes)] ==
        IF i = 0 THEN 0 ELSE total[i - 1] + sizes[i]
  IN  total[Len(sizes)]

Fits(sizes, n) == Program(SubSeq(sizes, 1, n)) <= MAX_PATTERN_BYTES

\* Faulty: the middle is rounded down, and the last pattern is never tried.
KeptRoundedDown(sizes) ==
  LET search[range \in (0 .. Len(sizes)) \X (0 .. Len(sizes))] ==
        LET lo  == range[1]
            hi  == range[2]
            mid == (lo + hi) \div 2
        IN  IF lo >= hi \/ mid = lo THEN lo
            ELSE IF Fits(sizes, mid) THEN search[<<mid, hi>>]
            ELSE search[<<lo, mid - 1>>]
  IN  SubSeq(sizes, 1, search[<<0, Len(sizes)>>])

\* parse_exclusions: all of them, or the prefix a binary search finds.
Kept(sizes) ==
  LET search[range \in (0 .. Len(sizes)) \X (0 .. Len(sizes))] ==
        LET lo  == range[1]
            hi  == range[2]
            mid == (lo + hi + 1) \div 2
        IN  IF lo >= hi THEN lo
            ELSE IF Fits(sizes, mid) THEN search[<<mid, hi>>]
            ELSE search[<<lo, mid - 1>>]
  IN  IF Fits(sizes, Len(sizes)) THEN sizes
      ELSE SubSeq(sizes, 1, search[<<0, Len(sizes)>>])

\* refresh_exclusions, once before the first sleep and then before every check:
\* a list, a body that is no JSON (which counts as an empty list), an error.
RefreshExclusions ==
  /\ Waiting
  /\ \/ \E sizes \in PatternLists : exclusions' = Kept(sizes)
     \/ exclusions' = <<>>
     \/ UNCHANGED exclusions
  /\ refresh' = [at |-> IF refresh.at = "prime" THEN "asleep" ELSE "fetch"]
  /\ UNCHANGED <<remote, started, staged, list, custom, asked, call, etag, raw,
                 trimmed>>

Fetched(next) ==
  /\ refresh.at = "fetch"
  /\ refresh' = next
  /\ UNCHANGED <<remote, started, staged, list, custom, asked, call, exclusions>>

\* The server could not be reached, or sent garbage.
FetchFailed ==
  /\ Fetched([at |-> "asleep"])
  /\ UNCHANGED <<etag, raw, trimmed>>

NotModified == etag # None /\ etag = Tag(remote)

\* 304: If-None-Match named the tag in force.
FetchUnchanged ==
  /\ NotModified
  /\ Fetched([at |-> "asleep"])
  /\ UNCHANGED <<etag, raw, trimmed>>

\* Faulty: once something is known, all that comes is the same.
SameOnceKnown == raw = remote.body \/ trimmed # None

\* FetchOutcome::SameContent: by its bytes, or by what the scanner reads.
SameContent ==
  \/ raw = remote.body
  \/ trimmed = remote.body.content

\* Faulty: the hash of the bytes alone.
KnownBytes ==
  /\ etag' = Tag(remote)
  /\ raw' = remote.body
  /\ UNCHANGED trimmed

\* The hashes of the raw and of the trimmed body, kept for the next check.
Known ==
  /\ etag' = Tag(remote)
  /\ raw' = remote.body
  /\ trimmed' = remote.body.content

FetchSame ==
  /\ ~NotModified
  /\ SameContent
  /\ Fetched([at |-> "asleep"])
  /\ Known

\* FetchOutcome::Updated: known from here on, whether or not it is taken.
FetchUpdated ==
  /\ ~NotModified
  /\ ~SameContent
  /\ Fetched([at |-> "update", list |-> remote.body.content])
  /\ Known

\* Faulty: whatever was fetched is taken.
AnyGames(content) == TRUE

\* update_main_detectables refuses an empty database.
HasGames(content) == content # NoGames

UpdateRead ==
  /\ refresh.at = "update"
  /\ Racing \/ call.at = "idle"
  /\ refresh' = IF HasGames(refresh.list)
                  THEN [at |-> "build", list |-> refresh.list, custom |-> custom]
                  ELSE [at |-> "asleep"]
  /\ UNCHANGED <<remote, started, staged, list, custom, asked, call, etag, raw,
                 trimmed, exclusions>>

\* Faulty: the overrides are forgotten when the database is replaced.
UpdateSwapAlone ==
  /\ refresh.at = "build"
  /\ refresh' = [at |-> "asleep"]
  /\ list' = IF Buildable(refresh.list) THEN refresh.list ELSE list
  /\ custom' = IF Buildable(refresh.list) THEN {} ELSE custom
  /\ UNCHANGED <<remote, started, staged, asked, call, etag, raw, trimmed,
                 exclusions>>

\* A build that fails keeps what is there.
UpdateSwap ==
  /\ refresh.at = "build"
  /\ refresh' = [at |-> "asleep"]
  /\ IF Buildable(refresh.list)
       THEN list' = refresh.list /\ custom' = refresh.custom
       ELSE UNCHANGED <<list, custom>>
  /\ UNCHANGED <<remote, started, staged, asked, call, etag, raw, trimmed,
                 exclusions>>

-----------------------------------------------------------------------------
Api ==
  \/ \E n \in OverrideNames : StageAppend(n) \/ Append1(n) \/ RemoveName(n)
  \/ RebuildList
  \/ RebuildSwap

FetchDone == FetchUnchanged \/ FetchSame \/ FetchUpdated

RefreshThread ==
  \/ RefreshExclusions
  \/ FetchFailed
  \/ FetchDone
  \/ UpdateRead
  \/ UpdateSwap

DetectNext == StartServer \/ Api \/ Serve \/ RefreshThread

DetectSpec == DetectInit /\ [][DetectNext]_detectVars

\* Calls end, the refresh thread runs on, and not every fetch fails.
DetectFairness ==
  /\ WF_detectVars(RebuildList \/ RebuildSwap)
  /\ WF_detectVars(RefreshThread)
  /\ SF_detectVars(FetchDone)

DetectFairSpec == DetectSpec /\ DetectFairness

-----------------------------------------------------------------------------
(* Properties.                                                              *)

\* Every variable has its type.
DetectTypeOK ==
  /\ remote \in Responses
  /\ list \in Contents
  /\ {staged, custom, asked} \subseteq SUBSET OverrideNames
  /\ call.at \in {"idle", "list", "swap"}
  /\ refresh.at \in {"off", "prime", "asleep", "fetch", "update", "build"}
  /\ refresh.at # "off" <=> started
  /\ staged # {} => ~started
  /\ raw \in Bodies \cup {None}
  /\ trimmed \in Contents \cup {None}
  /\ raw = None <=> trimmed = None

\* The overrides in force are the ones asked for whenever no call and no
\* rebuild is under way (append_detectables, remove_detectable_by_name,
\* update_main_detectables).
OverridesKept ==
  started /\ call.at = "idle" /\ ~Rebuilding => custom = asked

\* No refresh blinds a daemon that had games, whatever the server sends
\* (update_main_detectables: empty and unbuildable databases are refused).
NeverBlinded == [][started /\ list # NoGames => list' # NoGames]_detectVars

\* A database that stays on the server is in force from some time on, through
\* tags that flap, bodies that are reformatted, failed fetches and refused
\* databases before it (fetch_detectable_etag, finish_fetch).
DatabaseCatchesUp ==
  \A content \in Contents \ (Unbuildable \cup {NoGames}) :
    <>[](started /\ remote.body.content = content) => <>[](list = content)

\* The exclusions in force are as many of those served as fit in the budget.
ExclusionsFit ==
  \/ exclusions = <<>>
  \/ \E sizes \in PatternLists :
       /\ Len(exclusions) <= Len(sizes)
       /\ exclusions = SubSeq(sizes, 1, Len(exclusions))
       /\ Fits(sizes, Len(exclusions))
       /\ \A n \in (Len(exclusions) + 1) .. Len(sizes) : ~Fits(sizes, n)

\* What is in force is what was asked for and as much of what is served as fits.
InForceAsGiven == OverridesKept /\ ExclusionsFit

\* A fetch that brings no exclusions leaves those in force alone.
ExclusionsSurvive ==
  [][exclusions # <<>> => exclusions' # <<>>]_detectVars

-----------------------------------------------------------------------------
(* The invariants behind DetectTypeOK, NeverBlinded and InForceAsGiven.     *)

\* What a call and a rebuild have read has its type too.
DetectTyped ==
  /\ DetectTypeOK
  /\ call.at # "idle" => started /\ call.custom \subseteq OverrideNames
  /\ call.at = "swap" => call.list \in Contents
  /\ Rebuilding => refresh.list \in Contents
  /\ refresh.at = "build" => HasGames(refresh.list) /\ refresh.custom \subseteq OverrideNames

\* What either has read is still what is in force when it writes.
OneAtATime ==
  /\ call.at # "idle" => refresh.at # "build"
  /\ call.at = "swap" => call.list = list
  /\ refresh.at = "build" => refresh.custom = custom

\* Where the overrides that were asked for are.
AskedIsHeld ==
  /\ ~started => staged = asked /\ Buildable(list)
  /\ started => asked = IF call.at = "idle" THEN custom ELSE call.custom
=============================================================================

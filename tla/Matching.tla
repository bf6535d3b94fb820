------------------------------ MODULE Matching ------------------------------
(***************************************************************************)
(* How the scanner tells which game a process is: match_process and what   *)
(* it consults, over one generation of the database (a bundle).            *)
(*                                                                         *)
(* Text is a sequence of tokens, a path a sequence of names and a name a   *)
(* text without "/".  Letter case and backslashes are folded before        *)
(* anything is compared, so tokens have neither.                           *)
(***************************************************************************)
EXTENDS Naturals, SequencesExt, Tables

CONSTANTS
  Tokens,       \* what texts are made of
  Native,       \* the os of this build, as the database spells it
  MinLength,    \* the shortest title that is looked up, in tokens
  Digits,       \* the tokens that are runs of digits
  ShortcutIds,  \* the application ids in the range Steam gives to shortcuts
  Excluded,     \* the basenames of Discord's exclusions
  InstallDirs,  \* Steam's install directories, each with its application id
  Processes,    \* the processes a scan may meet
  Databases     \* the pairs of lists <<main, custom>> a bundle is built from

VARIABLES
  bundle,   \* the generation scanned with
  process,  \* the process last classified, or None
  hit       \* its entry, or None

matchVars == <<bundle, process, hit>>

-----------------------------------------------------------------------------
\* Texts, what the database says of a game, and processes.

Text == Seq(Tokens)

AnySystem == {"", "win32", "linux", "darwin", "other"}

\* What this build's patterns are for (os_matches: on a system it does not name,
\* for all); Wine and Proton run on Linux only.
NativeSystems == IF Native \in {"win32", "linux", "darwin"} THEN {"", Native} ELSE AnySystem
ProtonSystems == IF Native = "linux" THEN {"win32"} ELSE {}

ScannedExe   == [name : Text, os : AnySystem, is_launcher : BOOLEAN,
                 arguments : Text \cup {None}]
ScannedEntry == [name : Text, executables : Seq(ScannedExe),
                 steam_ids : Text, aliases : Seq(Text)]
Process == [path : Seq(Text) \ {<<>>}, cwd : Seq(Text) \cup {None},
            environ : Tokens \cup {None}, arguments : Text \cup {None},
            suspended : BOOLEAN]

\* An entry by its place in its list, and one of its patterns.
Place   == [list : {"main", "custom"}, entry : Nat]
Pattern == [list : {"main", "custom"}, entry : Nat, exe : Nat, pattern : Text]

ASSUME MatchAssumption ==
  /\ Databases \subseteq Seq(ScannedEntry) \X Seq(ScannedEntry)
  /\ Processes \subseteq Process
  /\ "/" \in Tokens
  /\ None \notin Tokens
  /\ None \notin Process
  /\ None \notin Place
  /\ None \notin Pattern

Occurs(s, text, i) == /\ i + Len(s) - 1 <= Len(text)
                      /\ SubSeq(text, i, i + Len(s) - 1) = s

\* A path as it is compared: every name with its slash.
Flat(path) == FlattenSeq([i \in DOMAIN path |-> <<"/">> \o path[i]])

\* The tokens of the text at the places S, in order.
Picked(text, S) ==
  [k \in 1..Cardinality(S) |->
     text[CHOOSE i \in S : Cardinality({j \in S : j <= i}) = k]]

\* text.replace(marker, ""); no marker overlaps itself.
WithoutMarker(text, marker) ==
  Picked(text, {i \in DOMAIN text :
    \A j \in 1..i : Occurs(marker, text, j) => j + Len(marker) <= i})

\* The text, then what each marker leaves of it, where that is new.
path_variants(text) ==
  LET Add(variants, marker) ==
        LET v == WithoutMarker(text, marker)
        IN IF v \in ToSet(variants) THEN variants ELSE Append(variants, v)
  IN Add(Add(Add(Add(<<text>>, <<"64">>), <<".", "x", "64">>), <<"x", "64">>), <<"_", "64">>)

\* The tokens of S become spaces; runs of spaces are one, none at the ends.
Spaced(text, S) ==
  LET blank(i) == text[i] \in S \cup {" "}
      kept(i)  == ~ blank(i) \/ (/\ i > 1
                                 /\ ~ blank(i - 1)
                                 /\ \E j \in i + 1..Len(text) : ~ blank(j))
  IN Picked([i \in DOMAIN text |-> IF blank(i) THEN " " ELSE text[i]],
            {i \in DOMAIN text : kept(i)})

normalize_name(text) == Spaced(text, {":", "?"})
dedot(text) == Spaced(text, {"."})
Dotted(text) == "." \in ToSet(text)
name_matchable(text) == " " \in ToSet(text) /\ Len(text) >= MinLength

exe_stem(name) ==
  LET dot == SelectLastInSeq(name, LAMBDA t : t = ".")
  IN IF dot > 1 THEN SubSeq(name, 1, dot - 1) ELSE name

FirstOf(s) == LET some == {i \in DOMAIN s : s[i] # None}
              IN IF some = {} THEN None ELSE s[Min(some)]

-----------------------------------------------------------------------------
\* A generation of the database.

normalize_exe_pattern(name) ==
  CASE IsPrefix(<<">">>, name) -> <<"/">> \o Tail(name)
    [] IsPrefix(<<"/">>, name) -> name
    [] OTHER                   -> <<"/">> \o name

\* The patterns of the executables for the systems os, launchers left out.
Patterns(which, list, os) ==
  UNION {{[list |-> which, entry |-> e, exe |-> x,
           pattern |-> normalize_exe_pattern(list[e].executables[x].name)] :
             x \in {y \in DOMAIN list[e].executables :
                      /\ ~ list[e].executables[y].is_launcher
                      /\ list[e].executables[y].os \in os}} :
          e \in DOMAIN list}

\* The first pair of a key wins.  The pairs <<key, entry>> come in the order of
\* the entries: it is the one of the lowest.
SortedIndex(pairs) ==
  [key \in {p[1] : p \in pairs} |-> Min({p[2] : p \in {q \in pairs : q[1] = key}})]

SteamIds(list) ==
  UNION {{<<id, e>> : id \in ToSet(list[e].steam_ids)} : e \in DOMAIN list}

\* The titles an entry is looked up by, its name and its aliases.
TitlesOf(e) ==
  {t \in {normalize_name(n) : n \in {e.name} \cup ToSet(e.aliases)} : name_matchable(t)}

Names(list) == UNION {{<<t, e>> : t \in TitlesOf(list[e])} : e \in DOMAIN list}

\* The dotted keys of the name map without their dots.
undotted_names(name_map) ==
  SortedIndex({<<dedot(k), name_map[k]>> : k \in {d \in DOMAIN name_map : Dotted(d)}})

\* Faulty: the custom entries are indexed with the main ones.
BundleOfOneIndex(main, custom) ==
  LET names == SortedIndex(Names(main)) IN
  [list |-> main, custom |-> custom,
   ac |-> Patterns("main", main, NativeSystems),
   proton_ac |-> Patterns("main", main, ProtonSystems),
   custom_ac |-> Patterns("custom", custom, AnySystem),
   steam_map |-> SortedIndex(SteamIds(main \o custom)),
   name_map |-> names, name_map_nodot |-> undotted_names(names)]

build_bundle(main, custom) ==
  LET names == SortedIndex(Names(main)) IN
  [list          |-> main,
   custom        |-> custom,
   ac            |-> Patterns("main", main, NativeSystems),
   proton_ac     |-> Patterns("main", main, ProtonSystems),
   custom_ac     |-> Patterns("custom", custom, AnySystem),
   steam_map     |-> SortedIndex(SteamIds(main)),
   name_map      |-> names,
   name_map_nodot |-> undotted_names(names)]

-----------------------------------------------------------------------------
\* The tiers.

\* The automaton reads the reversed path and reports the first match to end:
\* the pattern that starts furthest to the right, the longest of those, and
\* the first listed of equal ones.
Before(m, n) ==
  \/ m[2] > n[2]
  \/ m[2] = n[2] /\ Len(m[1].pattern) > Len(n[1].pattern)
  \/ /\ m[2] = n[2] /\ Len(m[1].pattern) = Len(n[1].pattern)
     /\ \/ m[1].entry < n[1].entry
        \/ m[1].entry = n[1].entry /\ m[1].exe < n[1].exe

Find(patterns, text) ==
  LET At == {m \in patterns \X DOMAIN text : Occurs(m[1].pattern, text, m[2])}
  IN IF At = {} THEN None
     ELSE (CHOOSE m \in At : \A n \in At : ~ Before(n, m))[1]

\* Faulty: each variant in turn, every automaton with each.
ProbeByVariant(text, automata) ==
  LET variants == path_variants(text)
  IN FirstOf([v \in DOMAIN variants |->
       FirstOf([a \in DOMAIN automata |-> Find(automata[a], variants[v])])])

\* Each automaton in turn, every variant of the text with each.
probe_variants(text, automata) ==
  LET variants == path_variants(text)
  IN FirstOf([a \in DOMAIN automata |->
       FirstOf([v \in DOMAIN variants |-> Find(automata[a], variants[v])])])

EntryOf(h, b) == IF h.list = "main" THEN b.list[h.entry] ELSE b.custom[h.entry]

live_or_none(which, entry, p) ==
  IF p.suspended THEN None ELSE [list |-> which, entry |-> entry]

\* Faulty: the arguments an executable asks for are not looked at.
FinishUnchecked(found, p, b) == live_or_none(found.list, found.entry, p)

HasArguments(needed, p) ==
  \/ needed = None
  \/ /\ p.arguments # None
     /\ \E i \in DOMAIN p.arguments : Occurs(needed, p.arguments, i)

finish_direct_hit(found, p, b) ==
  IF HasArguments(EntryOf(found, b).executables[found.exe].arguments, p)
  THEN live_or_none(found.list, found.entry, p)
  ELSE None

match_steam_id(id, p, b) ==
  LET overrides == {c \in DOMAIN b.custom : id \in ToSet(b.custom[c].steam_ids)}
  IN IF id = None THEN None
     ELSE IF id \in DOMAIN b.steam_map THEN live_or_none("main", b.steam_map[id], p)
     ELSE IF overrides = {} THEN None
     ELSE live_or_none("custom", Min(overrides), p)

LookUp(map, key, p) == IF name_matchable(key) /\ key \in DOMAIN map
                       THEN live_or_none("main", map[key], p)
                       ELSE None

\* Faulty: one walk over the folders, dotted or not.
FoldersInOneWalk(p, b) ==
  LET folders == Reverse(Front(p.path))
  IN FirstOf(<<LookUp(b.name_map, exe_stem(Last(p.path)), p),
               FirstOf([i \in DOMAIN folders |->
                 IF Dotted(folders[i])
                 THEN LookUp(b.name_map_nodot, normalize_name(dedot(folders[i])), p)
                 ELSE LookUp(b.name_map, normalize_name(folders[i]), p)])>>)

\* The stem of the executable, then the folders, the nearest first: those
\* without a dot by name, then those with one, de-dotted.
match_name_or_folder(p, b) ==
  LET folders == Reverse(Front(p.path))
      plain   == [i \in DOMAIN folders |->
                    IF Dotted(folders[i]) THEN None
                    ELSE LookUp(b.name_map, normalize_name(folders[i]), p)]
      dotted  == [i \in DOMAIN folders |->
                    IF Dotted(folders[i])
                    THEN LookUp(b.name_map_nodot, normalize_name(dedot(folders[i])), p)
                    ELSE None]
  IN FirstOf(<<LookUp(b.name_map, exe_stem(Last(p.path)), p),
               FirstOf(plain), FirstOf(dotted)>>)

\* The application of the longest install directory the path is under.
match_prefix(path) ==
  LET under == {d \in DOMAIN InstallDirs : IsStrictPrefix(d, path)}
  IN IF under = {} THEN None
     ELSE InstallDirs[CHOOSE d \in under : \A o \in under : Len(o) <= Len(d)]

\* A bare executable that is not found is looked for under the process's cwd.
Direct(p, b) ==
  LET native == <<b.ac, b.custom_ac>>
      found  == probe_variants(Flat(p.path), native)
  IN IF found = None /\ Len(p.path) = 1 /\ p.cwd # None
     THEN probe_variants(Flat(p.cwd \o p.path), native)
     ELSE found

\* The digits after the first "AppId=" that stands on its own.
app_id_from_args(args) ==
  LET found == {i \in DOMAIN args : /\ args[i] = "AppId="
                                    /\ i = 1 \/ args[i - 1] \in {" ", "-", "/"}
                                    /\ i < Len(args) /\ args[i + 1] \in Digits}
  IN IF found = {} THEN None
     ELSE args[(CHOOSE i \in found : \A j \in found : i <= j) + 1]

AppId(p) ==
  IF p.environ # None THEN p.environ
  ELSE IF p.arguments = None THEN None
  ELSE app_id_from_args(p.arguments)
is_shortcut_id(id) == id \in ShortcutIds

\* What is left when no path matched and the id told nothing: the Proton
\* patterns, whose answer is final, the install directory, and the names
\* unless a shortcut has already asked them.
Fallback(p, b) ==
  LET proton == probe_variants(Flat(p.path), <<b.proton_ac>>)
  IN IF proton # None
     THEN finish_direct_hit(proton, p, b)
     ELSE FirstOf(<<match_steam_id(match_prefix(p.path), p, b),
                    IF is_shortcut_id(AppId(p)) THEN None
                    ELSE match_name_or_folder(p, b)>>)

\* Faulty: the names are asked before the id the process carries.
MatchNamesFirst(p, b) ==
  LET found == Direct(p, b)
  IN IF Last(p.path) \in Excluded
     THEN None
     ELSE IF found # None
     THEN finish_direct_hit(found, p, b)
     ELSE FirstOf(<<match_name_or_folder(p, b), match_steam_id(AppId(p), p, b), Fallback(p, b)>>)

match_process(p, b) ==
  LET found == Direct(p, b)
  IN IF Last(p.path) \in Excluded
     THEN None
     ELSE IF found # None
     THEN finish_direct_hit(found, p, b)
     ELSE FirstOf(<<match_steam_id(AppId(p), p, b),
                    IF is_shortcut_id(AppId(p)) THEN match_name_or_folder(p, b)
                    ELSE None,
                    Fallback(p, b)>>)

-----------------------------------------------------------------------------
MatchInit == /\ bundle \in {build_bundle(d[1], d[2]) : d \in Databases}
             /\ process = None
             /\ hit = None

\* One turn of the scan's loop.
Examine == /\ process = None
           /\ \E p \in Processes : /\ process' = p
                                   /\ hit' = match_process(p, bundle)
           /\ UNCHANGED bundle

\* The hit is collected and the buffers are used for the next process.
Collect == /\ process # None
           /\ process' = None
           /\ hit' = None
           /\ UNCHANGED bundle

MatchNext == Examine \/ Collect

MatchSpec == MatchInit /\ [][MatchNext]_matchVars

-----------------------------------------------------------------------------
\* What a hit rests on, said without automata, maps or an order of lookups.

Hits(b) == [list : {"main"}, entry : DOMAIN b.list]
           \cup [list : {"custom"}, entry : DOMAIN b.custom]

\* An executable of the entry, for one of the systems os, lies on the text.
Declares(e, x, os, text) ==
  LET exe == e.executables[x] IN
  /\ ~ exe.is_launcher
  /\ exe.os \in os
  /\ \E v \in ToSet(path_variants(text)) : \E i \in DOMAIN v :
       Occurs(normalize_exe_pattern(exe.name), v, i)

Declared(h, os, texts, p, b) ==
  \E x \in DOMAIN EntryOf(h, b).executables, text \in texts :
    /\ Declares(EntryOf(h, b), x, os, text)
    /\ HasArguments(EntryOf(h, b).executables[x].arguments, p)

\* The arguments it asks for are missing.
Withheld(h, os, texts, p, b) ==
  \E x \in DOMAIN EntryOf(h, b).executables, text \in texts :
    /\ Declares(EntryOf(h, b), x, os, text)
    /\ ~ HasArguments(EntryOf(h, b).executables[x].arguments, p)

\* The same, whatever arguments it asks for.
Mentioned(h, os, texts, b) ==
  \E x \in DOMAIN EntryOf(h, b).executables, text \in texts :
    Declares(EntryOf(h, b), x, os, text)

Texts(p) == {Flat(p.path)}
            \cup IF Len(p.path) = 1 /\ p.cwd # None THEN {Flat(p.cwd \o p.path)} ELSE {}

Systems(h) == IF h.list = "main" THEN NativeSystems ELSE AnySystem

Titles(h, b) == TitlesOf(EntryOf(h, b))

Titled(h, p, b) ==
  /\ h.list = "main"
  /\ \E t \in Titles(h, b) :
       \/ t = exe_stem(Last(p.path))
       \/ \E n \in ToSet(Front(p.path)) :
            IF Dotted(n)
            THEN Dotted(t) /\ name_matchable(dedot(t)) /\ dedot(t) = normalize_name(dedot(n))
            ELSE t = normalize_name(n)

Evidence(tier, p, b) ==
  {h \in Hits(b) :
     CASE tier = "path"    -> Mentioned(h, Systems(h), Texts(p), b)
       [] tier = "store"   -> AppId(p) \in ToSet(EntryOf(h, b).steam_ids)
       [] tier = "proton"  -> h.list = "main" /\ Mentioned(h, ProtonSystems, {Flat(p.path)}, b)
       [] tier = "library" -> match_prefix(p.path) \in ToSet(EntryOf(h, b).steam_ids)
       [] tier = "title"   -> Titled(h, p, b)}

Tiers(p) == IF is_shortcut_id(AppId(p))
            THEN <<"path", "store", "title", "proton", "library">>
            ELSE <<"path", "store", "proton", "library", "title">>

\* The first tier that has any evidence.
IsBest(tier, p, b) ==
  \E i \in DOMAIN Tiers(p) :
    /\ Tiers(p)[i] = tier
    /\ Evidence(tier, p, b) # {}
    /\ \A j \in 1..i - 1 : Evidence(Tiers(p)[j], p, b) = {}

Visible(p) == Last(p.path) \notin Excluded /\ ~ p.suspended

-----------------------------------------------------------------------------
\* Every lookup of the bundle leads to an entry of its list.
MatchTypeOK ==
  /\ process \in Processes \cup {None}
  /\ hit \in Hits(bundle) \cup {None}
  /\ Range(bundle.steam_map) \cup Range(bundle.name_map) \cup Range(bundle.name_map_nodot)
       \subseteq DOMAIN bundle.list

\* No process is taken for a game without a reason (match_process): a hit has
\* an executable of its own on the path, with the arguments it asks for, or
\* the process's id, or its title; and an excluded or suspended process is
\* no game, whichever tier finds it.
HitIsJustified ==
  hit # None =>
    /\ Visible(process)
    /\ \/ Declared(hit, Systems(hit), Texts(process), process, bundle)
       \/ Declared(hit, ProtonSystems, Texts(process), process, bundle)
       \/ \E t \in {"store", "library", "title"} : hit \in Evidence(t, process, bundle)

\* The order match_process announces (process.rs:1302-1306): what is hit has
\* the best evidence there is, and a process with any is hit, unless the path
\* of its best tier belongs to an executable that asks for other arguments.
HitIsBest ==
  process # None /\ Visible(process) =>
    \/ /\ hit = None
       /\ \A tier \in ToSet(Tiers(process)) : Evidence(tier, process, bundle) = {}
    \/ \E tier \in ToSet(Tiers(process)) :
         /\ IsBest(tier, process, bundle)
         /\ \/ hit \in Evidence(tier, process, bundle)
            \/ /\ hit = None
               /\ \E h \in Evidence(tier, process, bundle) :
                    \/ /\ tier = "path"
                       /\ Withheld(h, Systems(h), Texts(process), process, bundle)
                    \/ /\ tier = "proton"
                       /\ Withheld(h, ProtonSystems, {Flat(process.path)}, process, bundle)

\* The stem or a folder is the title as it stands, dots and all.
Exact(h, p, b) ==
  \/ exe_stem(Last(p.path)) \in Titles(h, b)
  \/ \E n \in ToSet(Front(p.path)) : ~ Dotted(n) /\ normalize_name(n) \in Titles(h, b)

\* A title that equals a folder beats one that equals it only without its dots,
\* however near that folder is (match_name_or_folder; CHANGELOG.md:277-278).
ExactTitleFirst ==
  /\ hit # None
  /\ IsBest("title", process, bundle)
  /\ \E h \in Evidence("title", process, bundle) : Exact(h, process, bundle)
  => Exact(hit, process, bundle)

\* A main pattern beats a custom one on the same text even when only a variant
\* of the text has it, and the main list owns its ids (probe_variants,
\* match_steam_id).
MainBeatsCustom ==
  hit # None /\ hit.list = "custom" =>
    LET main == {h \in Hits(bundle) : h.list = "main"}
    IN \E tier \in ToSet(Tiers(process)) :
         /\ IsBest(tier, process, bundle)
         /\ IF tier = "path"
            THEN \E text \in Texts(process) :
                   /\ Mentioned(hit, Systems(hit), {text}, bundle)
                   /\ \A h \in main : ~ Mentioned(h, Systems(h), {text}, bundle)
            ELSE main \cap Evidence(tier, process, bundle) = {}

\* What match_process returns is what its order of tiers, titles and lists calls for.
HitIsRight == HitIsBest /\ HitIsJustified /\ ExactTitleFirst /\ MainBeatsCustom

-----------------------------------------------------------------------------
\* README.md:148: custom overrides "always win over the main DB".
CustomWins ==
  hit # None /\ hit.list = "main" =>
    \A c \in DOMAIN bundle.custom :
      LET h == [list |-> "custom", entry |-> c]
      IN ~ Declared(h, Systems(h), Texts(process), process, bundle)

\* process.rs:1980: "canonical names are inserted first and win ties".
CanonicalWins ==
  \A e \in DOMAIN bundle.list :
    LET key == normalize_name(bundle.list[e].name)
    IN key \in DOMAIN bundle.name_map =>
         normalize_name(bundle.list[bundle.name_map[key]].name) = key

\* process.rs:2066-2070: the arguments an executable declares tell two games
\* with one executable apart: the one whose arguments are there is found.
ArgumentsDecide ==
  process # None /\ Visible(process) /\ hit = None =>
    \A h \in Hits(bundle) : ~ Declared(h, Systems(h), Texts(process), process, bundle)
=============================================================================

---------------------------- MODULE MCMatching ----------------------------
(* Instances of Matching for TLC: lists of a few games that share names,   *)
(* executables and ids, and processes that could be several of them.       *)
EXTENDS Matching

Exe(name, os)            == [name |-> name, os |-> os, is_launcher |-> FALSE, arguments |-> None]
With(exe, arguments)     == [exe EXCEPT !.arguments = arguments]
Launcher(exe)            == [exe EXCEPT !.is_launcher = TRUE]
GameEntry(name, exes, ids, aliases) ==
  [name |-> name, executables |-> exes, steam_ids |-> ids, aliases |-> aliases]

WowExe    == <<"wow", ".", "exe">>
Wow64Exe  == <<"wow", "64", ".", "exe">>
DoomExe   == <<"doom", ".", "exe">>
FishTitle == <<"how", " ", "to", " ", "fish">>
RepoTitle == <<"r", ".", "e", ".", "p", " ", "haul">>

Wow   == GameEntry(<<"wow">>, <<Exe(<<"launch">>, "linux"), Exe(WowExe, "linux")>>, <<"10">>, <<>>)
Tf    == GameEntry(<<"tf">>, <<With(Exe(<<">", "hl">>, ""), <<"tf">>)>>, <<"20">>, <<>>)
Cs    == GameEntry(<<"cs">>, <<With(Exe(<<"hl">>, "linux"), <<"cs">>)>>, <<>>, <<>>)
Doom  == GameEntry(<<"doom">>, <<Launcher(Exe(<<"doom">> \o <<"/">> \o WowExe, "linux")),
                            Exe(<<"doom", "/">> \o DoomExe, "win32")>>, <<"30">>, <<>>)
Fish  == GameEntry(FishTitle, <<>>, <<"40">>, <<>>)
Repo  == GameEntry(RepoTitle, <<>>, <<>>, <<<<"the", " ", "haul", ":", "2">>>>)
Alias == GameEntry(<<"pond">>, <<With(Exe(<<"pond">>, "win32"), <<"cs">>)>>, <<"50">>, <<FishTitle>>)
Mod   == GameEntry(<<"mod">>, <<Exe(Wow64Exe, "win32"), Exe(DoomExe, "win32")>>, <<"40", "60">>, <<>>)

\* The same executable twice, and a title that is short without its dots.
Twice == GameEntry(<<"twice">>, <<With(Exe(<<"hl">>, ""), <<"tf">>), Exe(<<"hl">>, "")>>, <<>>, <<>>)
Short == GameEntry(<<"a", " ", ".", ".">>, <<>>, <<>>, <<>>)

Main  == <<Wow, Tf, Cs, Doom, Fish, Repo, Alias>>
MCDatabases  == {<<Main, <<>>>>, <<Main, <<Mod>>>>, <<<<Twice, Short, Fish, Repo, Alias, Doom>>, <<Mod, Wow>>>>,
                 <<<<>>, <<Mod>>>>}
AliasDatabases == {<<<<Wow, Alias, Fish>>, <<>>>>}

Steam == <<<<"s">>, <<"common">>>>
MCInstallDirs ==
  (Steam \o <<<<"doom">>>>) :> "30" @@ (Steam \o <<<<"doom">>, <<"mod">>>>) :> "60"
  @@ (Steam \o <<FishTitle>>) :> "50"

Paths ==
  {<<Wow64Exe>>, <<<<"hl">>>>, <<DoomExe>>, <<<<"setup">>>>,
   <<<<"g">>, WowExe>>, <<<<"g">>, <<"hl", "x", "64">>>>, <<<<"g">>, FishTitle \o <<".", "exe">>>>,
   <<FishTitle, RepoTitle, <<"x">>>>, <<RepoTitle, <<"bin">>, <<"x">>>>,
   <<<<"the", " ", "haul", "?", "2">>, <<"pond">>>>, <<<<"a", ".">>, <<"x">>>>,
   Steam \o <<<<"doom">>, <<"mod">>, <<"x">>>>, Steam \o <<FishTitle, <<"pond">>>>,
   Steam \o <<FishTitle, <<"doom">>, DoomExe>>}

MCProcesses ==
  [path : Paths, cwd : {None, <<<<"g">>, <<"doom">>>>}, environ : {None, "10", "40", "sc"},
   arguments : {None, <<"-", "cs">>, <<"run", " ", "AppId=", "60">>,
                <<"Steam", "AppId=", "60", " ", "cs">>}, suspended : BOOLEAN]

MCTokens   == STRING
MCExcluded == {<<"setup">>}
=============================================================================

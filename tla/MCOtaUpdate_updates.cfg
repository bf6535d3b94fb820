\* A daemon that stages, and a command line beside it; a kill and a failing call anywhere.
SPECIFICATION Spec
CONSTANTS
  daemon = daemon
  cli = cli
  Procs = {daemon, cli}
  Goals <- Beside
  Stagers = {daemon}
  CrossDevice = {TRUE, FALSE}
  OneBoot = TRUE
  MaxVersion = 3
  MaxCrashes = 2
  MaxFaults = 2
  None = None
  Torn = Torn
\* A kill while the executable is aside leaves nothing to start.
CHECK_DEADLOCK FALSE
INVARIANT TypeOK
INVARIANT InstallSurvives
INVARIANT RecordMatchesUnlessHurt
PROPERTY NoDowngrade

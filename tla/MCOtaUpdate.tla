---------------------------- MODULE MCOtaUpdate ----------------------------
(***************************************************************************)
(* Instances of OtaUpdate for TLC: a daemon and a command line that share  *)
(* one installation.                                                       *)
(***************************************************************************)
EXTENDS OtaUpdate

CONSTANTS daemon, cli

\* One process after another, whatever it is started for.
Anything == [p \in Procs |-> {"run", "update", "rollback"}]

\* One process is the daemon or --update, the other one --check-update or
\* --rollback.
Beside == [p \in Procs |-> IF p = daemon THEN {"run", "update"} ELSE {"update", "rollback"}]

Updating == [p \in Procs |-> {"run", "update"}]
=============================================================================

------------------------------ MODULE MCScanner -----------------------------
(***************************************************************************)
(* Instances of Scanner for TLC: which process belongs to which game.      *)
(***************************************************************************)
EXTENDS Scanner

CONSTANTS a1, a2, p1, p2, p3

\* A game with a helper process of the same application, and another game.
WithHelper == [p \in Pids |-> IF p \in {p1, p2} THEN a1 ELSE a2]

TwoGames == [p \in Pids |-> IF p = p1 THEN a1 ELSE a2]
=============================================================================

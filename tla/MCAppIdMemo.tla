---------------------------- MODULE MCAppIdMemo ----------------------------
(***************************************************************************)
(* Instances of AppIdMemo for TLC.                                         *)
(***************************************************************************)
EXTENDS AppIdMemo, TLC

CONSTANTS p1, p2, i1, i2

\* ProcessIds are interchangeable, and so are games.
Symmetric == Permutations(ProcessIds) \cup Permutations(Ids)
=============================================================================

---------------------------- MODULE MCDetectables ---------------------------
(***************************************************************************)
(* Instances of Detectables for TLC.                                       *)
(***************************************************************************)
EXTENDS Detectables

\* Over a budget of 4 by the last three patterns, and by all but the first.
SomeLists == {<<1, 1, 1, 1, 1, 1, 1>>, <<3, 3, 1, 1, 1>>}
=============================================================================

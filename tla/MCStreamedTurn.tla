--------------------------- MODULE MCStreamedTurn ---------------------------
(* StreamedTurn for TLC: a few tokens and commentary texts in any order,   *)
(* hit twice, so that a clean-up is hit as well.                           *)
EXTENDS StreamedTurn
=============================================================================

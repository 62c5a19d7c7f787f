---------------------------- MODULE MCTurnInput ------------------------------
(* TurnInput for TLC: turns, edits, blocked messages and reviews, without  *)
(* reconnects and restarts.                                                *)
EXTENDS TurnInput
=============================================================================

--------------------------- MODULE MCHitlWorkflow ----------------------------
(***************************************************************************)
(* Instances of HitlWorkflow for TLC: one or two browser sessions, two or  *)
(* three turns and reviews, and the events of the environment per run.     *)
(***************************************************************************)
EXTENDS HitlWorkflow, TLC

\* Turns of one session are interchangeable: each is sent at most once.
TurnSymmetry == Permutations(Turns)
=============================================================================

---------------------------- MODULE MCOAuthGrants ----------------------------
(***************************************************************************)
(* OAuthGrants for TLC: the first login's token is refreshed twice; the    *)
(* second login begins when the first is complete, and only takes its      *)
(* place: nothing is requested for it, and it does not log out.            *)
(***************************************************************************)
EXTENDS OAuthGrants

CONSTANTS l1, l2

MCMaxRefreshes == [l \in Logins |-> IF l = l1 THEN 2 ELSE 0]

SecondLogin ==
  /\ phase[l1] = "in" \/ phase'[l2] = "out"
  /\ logout'[l2] = "none" /\ \A r \in Requests : login'[r] # l2

OneLoginSpec == Init /\ [][Next /\ SecondLogin]_vars /\ Fairness
=============================================================================

---------------------------- MODULE AtomicGrants -----------------------------
(***************************************************************************)
(* What sso/tokens.py promises of the grant of each login, without         *)
(* workers, locks and statements: one grant is held; a refresh of it at    *)
(* the provider and its replacement are one step, which settles unless an  *)
(* abort takes the old grant back; a held grant is only discarded between  *)
(* refreshes, and only what a logout removed is revoked.                   *)
(***************************************************************************)
EXTENDS Naturals

CONSTANTS
  Logins,       \* session IDs of browser logins
  NoGrant,      \* nothing is held
  NoToken,      \* no refresh token, or one the provider refuses
  Aborts        \* TRUE: a refresh may be lost before it has settled

VARIABLES
  held,         \* held[l]: the grant that requests of login l get
  before,       \* before[l]: the grant an unsettled refresh replaced
  removed,      \* removed[l]: the grant l's logout removed
  issued,       \* issued[l]: the provider's newest access token
  fresh,        \* fresh[l]: that token may still be used
  valid         \* valid[l]: the refresh token the provider accepts

grantVars == <<held, before, removed, issued, fresh, valid>>

GrantInit ==
  /\ held = [l \in Logins |-> NoGrant]
  /\ before = [l \in Logins |-> NoGrant]
  /\ removed = [l \in Logins |-> NoGrant]
  /\ issued = [l \in Logins |-> 0]
  /\ fresh = [l \in Logins |-> TRUE]
  /\ valid = [l \in Logins |-> NoToken]

SignIn(l) ==
  /\ held[l] = NoGrant
  /\ issued[l] = 0
  /\ \E token \in {0, NoToken} :
       /\ held' = [held EXCEPT ![l] = [access |-> 0, refresh |-> token]]
       /\ valid' = [valid EXCEPT ![l] = token]
  /\ UNCHANGED <<before, removed, issued, fresh>>

\* The held grant, and no other, is refreshed: when its token cannot be used,
\* with the refresh token the provider accepts.
RefreshGrant(l) ==
  /\ held[l] # NoGrant
  /\ before[l] = NoGrant
  /\ held[l].access # issued[l] \/ ~fresh[l]
  /\ held[l].refresh = valid[l]
  /\ valid[l] # NoToken
  /\ \E token \in {issued[l] + 1, valid[l]} :
       /\ held' = [held EXCEPT ![l] = [access |-> issued[l] + 1, refresh |-> token]]
       /\ valid' = [valid EXCEPT ![l] = token]
  /\ before' = [before EXCEPT ![l] = held[l]]
  /\ issued' = [issued EXCEPT ![l] = @ + 1]
  /\ fresh' = [fresh EXCEPT ![l] = TRUE]
  /\ UNCHANGED removed

Settle(l) ==
  /\ before' = [before EXCEPT ![l] = NoGrant]
  /\ UNCHANGED <<held, removed, issued, fresh, valid>>

Lose(l) ==
  /\ Aborts
  /\ before[l] # NoGrant
  /\ held' = [held EXCEPT ![l] = before[l]]
  /\ before' = [before EXCEPT ![l] = NoGrant]
  /\ UNCHANGED <<removed, issued, fresh, valid>>

\* Grants that expired, or that a login of the same browser replaces.
Discard(gone) ==
  /\ \A l \in gone : before[l] = NoGrant
  /\ held' = [l \in Logins |-> IF l \in gone THEN NoGrant ELSE held[l]]
  /\ UNCHANGED <<before, removed, issued, fresh, valid>>

Remove(l) ==
  /\ before[l] = NoGrant
  /\ removed' = [removed EXCEPT ![l] = held[l]]
  /\ held' = [held EXCEPT ![l] = NoGrant]
  /\ UNCHANGED <<before, issued, fresh, valid>>

RevokeRemoved(l) ==
  /\ removed[l] # NoGrant
  /\ removed[l].refresh = valid[l]
  /\ valid' = [valid EXCEPT ![l] = NoToken]
  /\ UNCHANGED <<held, before, removed, issued, fresh>>

Age(l) ==
  /\ fresh' = [fresh EXCEPT ![l] = FALSE]
  /\ UNCHANGED <<held, before, removed, issued, valid>>

GrantNext ==
  \/ \E l \in Logins :
       \/ SignIn(l) \/ RefreshGrant(l) \/ Settle(l) \/ Lose(l)
       \/ Remove(l) \/ RevokeRemoved(l) \/ Age(l)
  \/ \E gone \in SUBSET Logins : Discard(gone)

GrantSpec == GrantInit /\ [][GrantNext]_grantVars
=============================================================================

----------------------------- MODULE OAuthGrants -----------------------------
(***************************************************************************)
(* The delegated OAuth grants of browser logins: sso/tokens.py, with the   *)
(* callback and logout routes of sso/chainlit.py that save and delete      *)
(* them.  Workers share one PostgreSQL table; a step is one statement, or  *)
(* one request to the identity provider, awaited by a handler.  A grant's  *)
(* tokens are named by the refresh that issued them, 0 for the login's.    *)
(***************************************************************************)
EXTENDS Naturals

CONSTANTS
  Logins,        \* session IDs of browser logins
  Requests,      \* calls of access_token, on any worker
  MaxRefreshes,  \* bound: MaxRefreshes[l] refreshes of login l's grant
  NoGrant,       \* no row for the login
  NoToken,       \* a grant without refresh token, or one the provider refuses
  None,          \* no request, or no login
  Aborts         \* TRUE: Stop or a dying worker may end a request anywhere

ASSUME BoundAssumption == MaxRefreshes \in [Logins -> Nat] /\ Aborts \in BOOLEAN

Grants == [access : Nat, refresh : Nat \cup {NoToken}]

ASSUME NullsAssumption ==
  /\ NoGrant \notin Grants /\ NoToken \notin Nat
  /\ None \notin Logins /\ None \notin Requests

VARIABLES
  row,        \* row[l]: the stored grant, or NoGrant
  lapsed,     \* logins whose row has passed its expires_at
  rowLock,    \* rowLock[l]: the request whose transaction locked the row
  issued,     \* issued[l]: the provider's newest access token
  fresh,      \* fresh[l]: that token has more than 30 s to live
  valid,      \* valid[l]: the refresh token the provider accepts
  pc,         \* pc[r]: the call r awaits next
  login,      \* login[r]: the login r asks for
  tokens,     \* tokens[r]: the grant r has in hand
  phase,      \* phase[l]: how far l's callback is
  previous,   \* previous[l]: the login l's callback replaces
  logout,     \* logout[l]: how far l's logout is
  deleted,    \* deleted[l]: the grant the logout's DELETE returned
  refreshes,  \* history: refreshes[l][n], how often access token n was refreshed
  lost        \* history: logins of which an abort dropped a refreshed grant

requestVars == <<pc, login, tokens>>
loginVars == <<phase, previous, logout, deleted>>
providerVars == <<issued, fresh, valid>>
historyVars == <<refreshes, lost>>
vars == <<row, lapsed, rowLock, requestVars, loginVars, providerVars, historyVars>>

TypeOK ==
  /\ row \in [Logins -> Grants \cup {NoGrant}]
  /\ lapsed \subseteq Logins
  /\ rowLock \in [Logins -> Requests \cup {None}]
  /\ issued \in [Logins -> Nat]
  /\ fresh \in [Logins -> BOOLEAN]
  /\ valid \in [Logins -> Nat \cup {NoToken}]
  /\ pc \in [Requests -> {"idle", "select", "lock", "refresh", "update"}]
  /\ login \in [Requests -> Logins \cup {None}]
  /\ tokens \in [Requests -> Grants \cup {NoGrant}]
  /\ phase \in [Logins -> {"out", "purging", "inserting", "replacing", "in"}]
  /\ previous \in [Logins -> Logins \cup {None}]
  /\ logout \in [Logins -> {"none", "deleting", "revoking", "revoked", "done"}]
  /\ deleted \in [Logins -> Grants \cup {NoGrant}]
  /\ DOMAIN refreshes = Logins
  /\ \A l \in Logins : refreshes[l] \in [0 .. MaxRefreshes[l] -> Nat]
  /\ lost \subseteq Logins

Init ==
  /\ row = [l \in Logins |-> NoGrant]
  /\ lapsed = {}
  /\ rowLock = [l \in Logins |-> None]
  /\ issued = [l \in Logins |-> 0]
  /\ fresh = [l \in Logins |-> TRUE]
  /\ valid = [l \in Logins |-> NoToken]
  /\ pc = [r \in Requests |-> "idle"]
  /\ login = [r \in Requests |-> None]
  /\ tokens = [r \in Requests |-> NoGrant]
  /\ phase = [l \in Logins |-> "out"]
  /\ previous = [l \in Logins |-> None]
  /\ logout = [l \in Logins |-> "none"]
  /\ deleted = [l \in Logins |-> NoGrant]
  /\ refreshes = [l \in Logins |-> [n \in 0 .. MaxRefreshes[l] |-> 0]]
  /\ lost = {}

-----------------------------------------------------------------------------
(* access_token.                                                           *)

\* "tokens.expires_at > time() + 30": an older token was refreshed for lapsing.
Usable(l, grant) == grant.access = issued[l] /\ fresh[l]

\* The query of access_token sees a row until it expires.
Visible(l) == row[l] # NoGrant /\ l \notin lapsed

\* r returns or raises: its transaction, if any, ends and unlocks the row.
Leave(r) ==
  /\ pc' = [pc EXCEPT ![r] = "idle"]
  /\ login' = [login EXCEPT ![r] = None]
  /\ tokens' = [tokens EXCEPT ![r] = NoGrant]
  /\ rowLock' = [l \in Logins |-> IF rowLock[l] = r THEN None ELSE rowLock[l]]

\* A callback of a logged-in browser, or of its open chat, needs a credential.
Request(r, l) ==
  /\ pc[r] = "idle"
  /\ phase[l] = "in"
  /\ pc' = [pc EXCEPT ![r] = "select"]
  /\ login' = [login EXCEPT ![r] = l]
  /\ UNCHANGED <<row, lapsed, rowLock, tokens, loginVars, providerVars, historyVars>>

\* The first SELECT: no row raises OAuthLoginRequired, a usable token returns.
Select(r, l) ==
  /\ pc[r] = "select"
  /\ login[r] = l
  /\ IF Visible(l) /\ ~Usable(l, row[l])
       THEN /\ pc' = [pc EXCEPT ![r] = "lock"]
            /\ tokens' = [tokens EXCEPT ![r] = row[l]]
            /\ UNCHANGED <<login, rowLock>>
       ELSE Leave(r)
  /\ UNCHANGED <<row, lapsed, loginVars, providerVars, historyVars>>

\* Mutated form of SelectForUpdate: the grant of the first SELECT is kept.
SelectForUpdateKeepingTokens(r, l) ==
  /\ pc[r] = "lock"
  /\ login[r] = l
  /\ rowLock[l] = None
  /\ IF Visible(l) /\ ~Usable(l, tokens[r]) /\ tokens[r].refresh # NoToken
       THEN /\ pc' = [pc EXCEPT ![r] = "refresh"]
            /\ rowLock' = [rowLock EXCEPT ![l] = r]
            /\ UNCHANGED <<tokens, login>>
       ELSE Leave(r)
  /\ UNCHANGED <<row, lapsed, loginVars, providerVars, historyVars>>

(* SELECT ... FOR UPDATE waits for the row's lock and reads the row again: *)
(* what another worker refreshed is returned, what it cannot refresh       *)
(* raises, and otherwise the lock is kept for the transaction.             *)
SelectForUpdate(r, l) ==
  /\ pc[r] = "lock"
  /\ login[r] = l
  /\ rowLock[l] = None
  /\ IF Visible(l) /\ ~Usable(l, row[l]) /\ row[l].refresh # NoToken
       THEN /\ pc' = [pc EXCEPT ![r] = "refresh"]
            /\ tokens' = [tokens EXCEPT ![r] = row[l]]
            /\ rowLock' = [rowLock EXCEPT ![l] = r]
            /\ UNCHANGED login
       ELSE Leave(r)
  /\ UNCHANGED <<row, lapsed, loginVars, providerVars, historyVars>>

\* lock_timeout: the row stayed locked for 10 s and the statement fails.
LockTimeout(r, l) ==
  /\ pc[r] = "lock"
  /\ login[r] = l
  /\ rowLock[l] # None
  /\ Leave(r)
  /\ UNCHANGED <<row, lapsed, loginVars, providerVars, historyVars>>

\* Mutated form of the result's use: a missing refresh token is stored as such.
KeptRefreshNone(r, rotated, n) == IF rotated THEN n ELSE NoToken

\* Lines 152-153: a result without refresh token keeps the present one.
KeptRefresh(r, rotated, n) == IF rotated THEN n ELSE tokens[r].refresh

(* The provider accepts the refresh token and issues an access token, with *)
(* a new refresh token that replaces the old one or without.               *)
Refresh(r, l) ==
  /\ pc[r] = "refresh"
  /\ login[r] = l
  /\ tokens[r].refresh = valid[l]
  /\ issued[l] < MaxRefreshes[l]
  /\ issued' = [issued EXCEPT ![l] = @ + 1]
  /\ fresh' = [fresh EXCEPT ![l] = TRUE]
  /\ \E rotated \in BOOLEAN :
       /\ valid' = IF rotated THEN [valid EXCEPT ![l] = issued[l] + 1] ELSE valid
       /\ tokens' = [tokens EXCEPT ![r] =
                       [access |-> issued[l] + 1,
                        refresh |-> KeptRefresh(r, rotated, issued[l] + 1)]]
  /\ refreshes' = [refreshes EXCEPT ![l][tokens[r].access] = @ + 1]
  /\ pc' = [pc EXCEPT ![r] = "update"]
  /\ UNCHANGED <<row, lapsed, rowLock, login, loginVars, lost>>

\* Mutated form of RefreshFails: the transaction is left open.
RefreshFailsInTransaction(r, l) ==
  /\ pc[r] = "refresh"
  /\ login[r] = l
  /\ pc' = [pc EXCEPT ![r] = "idle"]
  /\ login' = [login EXCEPT ![r] = None]
  /\ tokens' = [tokens EXCEPT ![r] = NoGrant]
  /\ UNCHANGED <<row, lapsed, rowLock, loginVars, providerVars, historyVars>>

(* The provider refuses the token (OAuthLoginRequired), or discovery or    *)
(* the request fails: the transaction is rolled back.                      *)
RefreshFails(r, l) ==
  /\ pc[r] = "refresh"
  /\ login[r] = l
  /\ Leave(r)
  /\ UNCHANGED <<row, lapsed, loginVars, providerVars, historyVars>>

\* UPDATE and the transaction's commit; the new access token is returned.
Commit(r, l) ==
  /\ pc[r] = "update"
  /\ login[r] = l
  /\ row' = IF row[l] = NoGrant THEN row ELSE [row EXCEPT ![l] = tokens[r]]
  /\ Leave(r)
  /\ UNCHANGED <<lapsed, loginVars, providerVars, historyVars>>

(* Stop cancels the task that asked, or its worker dies: the transaction   *)
(* is rolled back, and with it what the provider just issued.              *)
Abort(r, l) ==
  /\ Aborts
  /\ pc[r] # "idle"
  /\ login[r] = l
  /\ lost' = IF pc[r] = "update" THEN lost \cup {l} ELSE lost
  /\ Leave(r)
  /\ UNCHANGED <<row, lapsed, loginVars, providerVars, refreshes>>

-----------------------------------------------------------------------------
(* The callback route: save, then delete the grant of the browser's        *)
(* previous login.                                                         *)

Callback(l, p) ==
  /\ phase[l] = "out"
  /\ p # None => phase[p] = "in"
  /\ phase' = [phase EXCEPT ![l] = "purging"]
  /\ previous' = [previous EXCEPT ![l] = p]
  /\ UNCHANGED <<row, lapsed, rowLock, requestVars, logout, deleted, providerVars,
                 historyVars>>

\* DELETE of the rows past their expires_at, which waits for locked ones.
DeleteExpired ==
  /\ \A e \in lapsed : rowLock[e] = None
  /\ row' = [e \in Logins |-> IF e \in lapsed THEN NoGrant ELSE row[e]]

\* initialize, when a worker starts.
Initialize ==
  /\ DeleteExpired
  /\ UNCHANGED <<lapsed, rowLock, requestVars, loginVars, providerVars, historyVars>>

\* save's first statement.
Purge(l) ==
  /\ phase[l] = "purging"
  /\ DeleteExpired
  /\ phase' = [phase EXCEPT ![l] = "inserting"]
  /\ UNCHANGED <<lapsed, rowLock, requestVars, previous, logout, deleted, providerVars,
                 historyVars>>

\* save's INSERT, with or without a refresh token.
Insert(l) ==
  /\ phase[l] = "inserting"
  /\ \E refresh \in {0, NoToken} :
       /\ row' = [row EXCEPT ![l] = [access |-> 0, refresh |-> refresh]]
       /\ valid' = [valid EXCEPT ![l] = refresh]
  /\ phase' = [phase EXCEPT ![l] = "replacing"]
  /\ UNCHANGED <<lapsed, rowLock, requestVars, previous, logout, deleted, issued, fresh,
                 historyVars>>

\* Mutated form of ReplacePrevious: a locked row is skipped.
ReplacePreviousIfFree(l) ==
  /\ phase[l] = "replacing"
  /\ row' = IF previous[l] # None /\ rowLock[previous[l]] = None
              THEN [row EXCEPT ![previous[l]] = NoGrant] ELSE row
  /\ phase' = [phase EXCEPT ![l] = "in"]
  /\ UNCHANGED <<lapsed, rowLock, requestVars, previous, logout, deleted, providerVars,
                 historyVars>>

\* delete of the previous login's grant; the response carries the new cookie.
ReplacePrevious(l) ==
  /\ phase[l] = "replacing"
  /\ previous[l] # None => rowLock[previous[l]] = None
  /\ row' = IF previous[l] # None THEN [row EXCEPT ![previous[l]] = NoGrant] ELSE row
  /\ phase' = [phase EXCEPT ![l] = "in"]
  /\ UNCHANGED <<lapsed, rowLock, requestVars, previous, logout, deleted, providerVars,
                 historyVars>>

-----------------------------------------------------------------------------
(* The logout route.                                                       *)

Logout(l) ==
  /\ phase[l] = "in"
  /\ logout[l] = "none"
  /\ logout' = [logout EXCEPT ![l] = "deleting"]
  /\ UNCHANGED <<row, lapsed, rowLock, requestVars, phase, previous, deleted,
                 providerVars, historyVars>>

\* Mutated form of Delete: RETURNING names the key, not the tokens.
DeleteReturningKey(l) ==
  /\ logout[l] = "deleting"
  /\ rowLock[l] = None
  /\ row' = [row EXCEPT ![l] = NoGrant]
  /\ deleted' = [deleted EXCEPT ![l] = l]
  /\ logout' = [logout EXCEPT ![l] = IF row[l] = NoGrant THEN "done" ELSE "revoking"]
  /\ UNCHANGED <<lapsed, rowLock, requestVars, phase, previous, providerVars, historyVars>>

\* Mutated form of Delete: the tokens are read before the lock is waited for.
DeleteReadingFirst(l) ==
  /\ logout[l] = "deleting"
  /\ IF deleted[l] = NoGrant /\ row[l] # NoGrant
       THEN deleted' = [deleted EXCEPT ![l] = row[l]] /\ UNCHANGED <<row, logout>>
       ELSE /\ rowLock[l] = None
            /\ row' = [row EXCEPT ![l] = NoGrant]
            /\ logout' = [logout EXCEPT ![l] = IF deleted[l] = NoGrant THEN "done"
                                               ELSE "revoking"]
            /\ UNCHANGED deleted
  /\ UNCHANGED <<lapsed, rowLock, requestVars, phase, previous, providerVars, historyVars>>

\* delete: waits for the row's lock and returns the grant it removed.
Delete(l) ==
  /\ logout[l] = "deleting"
  /\ rowLock[l] = None
  /\ row' = [row EXCEPT ![l] = NoGrant]
  /\ deleted' = [deleted EXCEPT ![l] = row[l]]
  /\ logout' = [logout EXCEPT ![l] = IF row[l] = NoGrant THEN "done" ELSE "revoking"]
  /\ UNCHANGED <<lapsed, rowLock, requestVars, phase, previous, providerVars, historyVars>>

\* The provider revokes the refresh token, or the access token without one.
Revoke(l) ==
  /\ logout[l] = "revoking"
  /\ valid' = IF deleted[l].refresh = valid[l] THEN [valid EXCEPT ![l] = NoToken] ELSE valid
  /\ logout' = [logout EXCEPT ![l] = "revoked"]
  /\ UNCHANGED <<row, lapsed, rowLock, requestVars, phase, previous, deleted, issued,
                 fresh, historyVars>>

\* Revocation is not offered or fails: logged, the logout goes on.
RevokeFails(l) ==
  /\ logout[l] = "revoking"
  /\ logout' = [logout EXCEPT ![l] = "done"]
  /\ UNCHANGED <<row, lapsed, rowLock, requestVars, phase, previous, deleted,
                 providerVars, historyVars>>

-----------------------------------------------------------------------------
(* Time.                                                                   *)

\* The newest access token has 30 s or less to live.
Expire(l) ==
  /\ phase[l] = "in"
  /\ fresh[l]
  /\ issued[l] < MaxRefreshes[l]
  /\ fresh' = [fresh EXCEPT ![l] = FALSE]
  /\ UNCHANGED <<row, lapsed, rowLock, requestVars, loginVars, issued, valid, historyVars>>

\* The row passes its expires_at, user_session_timeout after the login.
Lapse(l) ==
  /\ phase[l] = "in"
  /\ l \notin lapsed
  /\ lapsed' = lapsed \cup {l}
  /\ UNCHANGED <<row, rowLock, requestVars, loginVars, providerVars, historyVars>>

-----------------------------------------------------------------------------
RequestStep(r) ==
  \E l \in Logins :
    \/ Select(r, l) \/ SelectForUpdate(r, l) \/ LockTimeout(r, l)
    \/ Refresh(r, l) \/ RefreshFails(r, l) \/ Commit(r, l)

CallbackStep(l) == Purge(l) \/ Insert(l) \/ ReplacePrevious(l)
LogoutStep(l) == Delete(l) \/ Revoke(l) \/ RevokeFails(l)

Next ==
  \/ Initialize
  \/ \E r \in Requests : RequestStep(r) \/ \E l \in Logins : Request(r, l) \/ Abort(r, l)
  \/ \E l \in Logins :
       \/ \E p \in (Logins \ {l}) \cup {None} : Callback(l, p)
       \/ CallbackStep(l)
       \/ Logout(l)
       \/ LogoutStep(l)
       \/ Expire(l)
       \/ Lapse(l)

Spec == Init /\ [][Next]_vars

(* Every awaited statement and request returns, by its time limit if not   *)
(* before, and PostgreSQL grants a free row lock to each waiting DELETE in *)
(* turn.                                                                   *)
Fairness ==
  /\ \A r \in Requests : WF_vars(RequestStep(r))
  /\ \A l \in Logins : SF_vars(LogoutStep(l))

FairSpec == Spec /\ Fairness

-----------------------------------------------------------------------------
(* Properties.                                                             *)

(* "Return a usable access token, refreshing it once across all workers"   *)
(* (tokens.py:116): no access token is refreshed twice, whichever workers  *)
(* find it expired, unless an abort dropped what the first refresh issued. *)
RefreshedOnce ==
  \A l \in Logins \ lost : \A n \in 0 .. MaxRefreshes[l] : refreshes[l][n] <= 1

(* Outside a refresh the stored grant is the provider's newest, so the     *)
(* login survives the next expiry: its refresh token is the one accepted.  *)
StoredGrantIsCurrent ==
  \A l \in Logins \ lost :
    row[l] # NoGrant /\ rowLock[l] = None /\ logout[l] = "none" =>
      row[l].access = issued[l] /\ row[l].refresh = valid[l]

(* A logout that waited for a refresh revokes the token it rotated to, not *)
(* the one it replaced: after a revocation nothing can be refreshed.       *)
LogoutRevokesCurrent ==
  \A l \in Logins \ lost : logout[l] = "revoked" => valid[l] = NoToken

(* "Commit local invalidation before provider revocation" (tokens.py:103): *)
(* once a grant is deleted, by its logout or by the next login of its      *)
(* browser, it stays deleted, and no request still refreshes it.           *)
Gone(l) == \/ logout[l] \in {"revoking", "revoked", "done"}
           \/ \E n \in Logins : phase[n] = "in" /\ previous[n] = l
DeletedStaysDeleted ==
  \A l \in Logins : Gone(l) =>
    row[l] = NoGrant /\ \A r \in Requests : login[r] = l => pc[r] \notin {"refresh", "update"}

(* "Return a usable access token, refreshing it once across all workers"   *)
(* (tokens.py:116): whatever workers, waits, timeouts, logins and logouts  *)
(* do between the statements, a login's grant behaves as one value that a  *)
(* refresh replaces in one step.  While a refreshing request awaits its    *)
(* UPDATE the grant is what it has in hand; otherwise it is the row.       *)
Unsettled(l) == rowLock[l] # None /\ pc[rowLock[l]] = "update"
Held == [l \in Logins |-> IF Unsettled(l) THEN tokens[rowLock[l]] ELSE row[l]]
Before == [l \in Logins |-> IF Unsettled(l) THEN row[l] ELSE NoGrant]
Atomic == INSTANCE AtomicGrants WITH held <- Held, before <- Before, removed <- deleted
ImplementsAtomicGrants == Atomic!GrantSpec

(* A logout ends, whatever requests of its login hold or wait for the row. *)
LogoutEnds == \A l \in Logins : logout[l] = "deleting" ~> logout[l] \in {"revoked", "done"}
=============================================================================

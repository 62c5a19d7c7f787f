-------------------------- MODULE OAuthGrantsProofs --------------------------
(***************************************************************************)
(* Proofs about OAuthGrants for any number of logins, requests and         *)
(* refreshes, with and without aborts.                                     *)
(***************************************************************************)
EXTENDS OAuthGrants, TLAPS

(* A call of access_token that ends gives up its place and its lock.       *)
LEMMA LeaveTypes ==
  ASSUME TypeOK, NEW r \in Requests, Leave(r)
  PROVE  /\ pc' \in [Requests -> {"idle", "select", "lock", "refresh", "update"}]
         /\ login' \in [Requests -> Logins \cup {None}]
         /\ tokens' \in [Requests -> Grants \cup {NoGrant}]
         /\ rowLock' \in [Logins -> Requests \cup {None}]
  BY DEF TypeOK, Leave

(* Every step keeps the types: one case per statement or request.          *)
LEMMA TypeStep == TypeOK /\ [Next]_vars => TypeOK'
<1> SUFFICES ASSUME TypeOK, [Next]_vars PROVE TypeOK'
  OBVIOUS
<1>a. /\ \A a \in Nat, f \in Nat \cup {NoToken} : [access |-> a, refresh |-> f] \in Grants
      /\ \A g \in Grants : g.access \in Nat /\ g.refresh \in Nat \cup {NoToken}
  BY DEF Grants
<1> USE NullsAssumption, BoundAssumption DEF TypeOK, requestVars, loginVars,
        providerVars, historyVars
<1>1. ASSUME NEW r \in Requests, NEW l \in Logins, Request(r, l) PROVE TypeOK'
  BY <1>1 DEF Request
<1>2. ASSUME NEW r \in Requests, NEW l \in Logins, Select(r, l) PROVE TypeOK'
  <2>1. CASE Leave(r)
    BY <1>2, <2>1, LeaveTypes DEF Select
  <2>2. CASE ~ Leave(r)
    <3>1. row[l] \in Grants /\ UNCHANGED <<login, rowLock>>
      BY <1>2, <2>2 DEF Select, Visible
    <3>2. pc' = [pc EXCEPT ![r] = "lock"] /\ tokens' = [tokens EXCEPT ![r] = row[l]]
      BY <1>2, <2>2 DEF Select
    <3> QED
      BY <1>2, <3>1, <3>2 DEF Select
  <2> QED
    BY <2>1, <2>2
<1>3. ASSUME NEW r \in Requests, NEW l \in Logins, SelectForUpdate(r, l) PROVE TypeOK'
  <2>1. CASE Leave(r)
    BY <1>3, <2>1, LeaveTypes DEF SelectForUpdate
  <2>2. CASE ~ Leave(r)
    <3>1. row[l] \in Grants /\ UNCHANGED login
      BY <1>3, <2>2 DEF SelectForUpdate, Visible
    <3>2. /\ pc' = [pc EXCEPT ![r] = "refresh"]
          /\ tokens' = [tokens EXCEPT ![r] = row[l]]
          /\ rowLock' = [rowLock EXCEPT ![l] = r]
      BY <1>3, <2>2 DEF SelectForUpdate
    <3> QED
      BY <1>3, <3>1, <3>2 DEF SelectForUpdate
  <2> QED
    BY <2>1, <2>2
<1>4. ASSUME NEW r \in Requests, NEW l \in Logins,
             LockTimeout(r, l) \/ RefreshFails(r, l) \/ Abort(r, l)
      PROVE  TypeOK'
  BY <1>4, LeaveTypes DEF LockTimeout, RefreshFails, Abort
<1>5. ASSUME NEW r \in Requests, NEW l \in Logins, Refresh(r, l) PROVE TypeOK'
  <2>1. PICK rotated \in BOOLEAN :
          /\ valid' = IF rotated THEN [valid EXCEPT ![l] = issued[l] + 1] ELSE valid
          /\ tokens' = [tokens EXCEPT ![r] =
                          [access |-> issued[l] + 1,
                           refresh |-> KeptRefresh(r, rotated, issued[l] + 1)]]
    BY <1>5 DEF Refresh
  <2>2. tokens[r].refresh \in Nat \cup {NoToken} /\ issued[l] + 1 \in Nat
    BY <1>5 DEF Refresh
  <2>3. KeptRefresh(r, rotated, issued[l] + 1) \in Nat \cup {NoToken}
    BY <2>2 DEF KeptRefresh
  <2>4. /\ tokens' \in [Requests -> Grants \cup {NoGrant}]
        /\ valid' \in [Logins -> Nat \cup {NoToken}]
    BY <2>1, <2>2, <2>3, <1>a
  <2>5. /\ DOMAIN refreshes' = Logins
        /\ \A k \in Logins : refreshes'[k] \in [0 .. MaxRefreshes[k] -> Nat]
    <3>1. \A k \in Logins : refreshes'[k] = IF k = l
            THEN [refreshes[l] EXCEPT ![tokens[r].access] = @ + 1] ELSE refreshes[k]
      BY <1>5 DEF Refresh
    <3>2. [refreshes[l] EXCEPT ![tokens[r].access] = @ + 1] \in [0 .. MaxRefreshes[l] -> Nat]
      <4> DEFINE f == refreshes[l]  e == tokens[r].access  D == 0 .. MaxRefreshes[l]
      <4>1. f \in [D -> Nat]
        OBVIOUS
      <4> HIDE DEF f, e, D
      <4>2. CASE e \in D
        <5>1. f[e] + 1 \in Nat
          BY <4>1, <4>2
        <5> QED
          BY <4>1, <5>1 DEF f, e, D
      <4>3. CASE e \notin D
        <5>1. [f EXCEPT ![e] = f[e] + 1] = f
          BY <4>1, <4>3
        <5> QED
          BY <4>1, <5>1 DEF f, e, D
      <4> QED
        BY <4>2, <4>3
    <3>3. DOMAIN refreshes' = Logins
      BY <1>5 DEF Refresh
    <3> QED
      BY <3>1, <3>2, <3>3
  <2> QED
    BY <1>5, <2>4, <2>5 DEF Refresh
<1>6. ASSUME NEW r \in Requests, NEW l \in Logins, Commit(r, l) PROVE TypeOK'
  BY <1>6, LeaveTypes DEF Commit
<1>7. ASSUME NEW l \in Logins, NEW p \in Logins \cup {None}, Callback(l, p) PROVE TypeOK'
  BY <1>7 DEF Callback
<1>8. CASE Initialize
  BY <1>8 DEF Initialize, DeleteExpired
<1>9. ASSUME NEW l \in Logins, Purge(l) PROVE TypeOK'
  BY <1>9 DEF Purge, DeleteExpired
<1>10. ASSUME NEW l \in Logins, Insert(l) PROVE TypeOK'
  BY <1>a, <1>10 DEF Insert
<1>11. ASSUME NEW l \in Logins, ReplacePrevious(l) PROVE TypeOK'
  BY <1>11 DEF ReplacePrevious
<1>12. ASSUME NEW l \in Logins, Logout(l) PROVE TypeOK'
  BY <1>12 DEF Logout
<1>13. ASSUME NEW l \in Logins, Delete(l) PROVE TypeOK'
  BY <1>13 DEF Delete
<1>14. ASSUME NEW l \in Logins, Revoke(l) PROVE TypeOK'
  BY <1>14 DEF Revoke
<1>15. ASSUME NEW l \in Logins, RevokeFails(l) PROVE TypeOK'
  BY <1>15 DEF RevokeFails
<1>16. ASSUME NEW l \in Logins, Expire(l) \/ Lapse(l) PROVE TypeOK'
  BY <1>16 DEF Expire, Lapse
<1>17. CASE UNCHANGED vars
  BY <1>17 DEF vars
<1> HIDE DEF TypeOK
<1> QED
  BY <1>1, <1>2, <1>3, <1>4, <1>5, <1>6, <1>7, <1>8, <1>9, <1>10, <1>11, <1>12, <1>13,
     <1>14, <1>15, <1>16, <1>17
  DEF Next, RequestStep, CallbackStep, LogoutStep

(* Every variable keeps its type: what is stored, in hand or deleted is a  *)
(* grant or none, and every await is one of access_token, callback and     *)
(* logout.                                                                 *)
THEOREM TypeCorrect == Spec => []TypeOK
<1>1. Init => TypeOK
  BY NullsAssumption, BoundAssumption DEF Init, TypeOK, Grants
<1> QED
  BY <1>1, TypeStep, PTL DEF Spec

-----------------------------------------------------------------------------
(* The inductive invariant.  A row's lock is held by the request that      *)
(* refreshes it, so what that request has in hand is the row.              *)

Holding == {"refresh", "update"}

\* A request asks for one login's credential; to refresh is to hold the lock.
RequestsHold ==
  /\ \A r \in Requests : pc[r] = "idle" <=> login[r] = None
  /\ \A r \in Requests : pc[r] # "idle" => phase[login[r]] = "in"
  /\ \A l \in Logins, r \in Requests : rowLock[l] = r <=> login[r] = l /\ pc[r] \in Holding

\* Before save's INSERT nothing is stored, issued, requested or deleted.
LoginsBegin ==
  \A l \in Logins :
    /\ phase[l] \in {"out", "purging", "inserting"} => row[l] = NoGrant /\ issued[l] = 0
    /\ previous[l] # None => phase[previous[l]] = "in"
    /\ logout[l] # "none" => phase[l] = "in"

\* What a request refreshes with is the row it read under the lock.
RefreshesStored ==
  \A r \in Requests, l \in Logins :
    login[r] = l /\ pc[r] = "refresh" => row[l] # NoGrant /\ tokens[r] = row[l]

Newest(grant, l) == grant.access = issued[l] /\ grant.refresh = valid[l]

(* The newest grant is in the row, or with the request that will store it. *)
NewestKept ==
  \A l \in Logins \ lost :
    /\ row[l] # NoGrant /\ (\A r \in Requests : login[r] = l => pc[r] # "update")
         => Newest(row[l], l)
    /\ \A r \in Requests : login[r] = l /\ pc[r] = "update" => Newest(tokens[r], l)

\* Only access tokens older than the newest were refreshed, each once.
OlderRefreshed ==
  \A l \in Logins \ lost : \A n \in 0 .. MaxRefreshes[l] :
    /\ refreshes[l][n] <= 1
    /\ n >= issued[l] => refreshes[l][n] = 0

\* What a logout deleted was the newest grant, and is what it revokes.
NewestDeleted ==
  \A l \in Logins \ lost :
    /\ logout[l] = "revoking" => deleted[l] # NoGrant /\ deleted[l].refresh = valid[l]
    /\ logout[l] = "revoked" => valid[l] = NoToken

IInv ==
  /\ TypeOK
  /\ RequestsHold
  /\ LoginsBegin
  /\ RefreshesStored
  /\ NewestKept
  /\ OlderRefreshed
  /\ NewestDeleted
  /\ DeletedStaysDeleted

(* A call that ends keeps the invariant on who holds which lock.           *)
LEMMA LeaveHolds ==
  ASSUME TypeOK, RequestsHold, NEW r \in Requests, Leave(r), UNCHANGED phase
  PROVE  RequestsHold'
  BY NullsAssumption DEF TypeOK, RequestsHold, Leave, Holding

(* The steps that are not access_token's leave its calls and locks alone.  *)
LEMMA RequestsApart ==
  ASSUME TypeOK, [Next]_vars,
         ~ \E r \in Requests : RequestStep(r) \/ \E l \in Logins : Request(r, l) \/ Abort(r, l)
  PROVE  /\ UNCHANGED <<pc, login, tokens, rowLock, refreshes, lost>>
         /\ \A l \in Logins : phase[l] = "in" => phase'[l] = "in"
<1> USE DEF requestVars, historyVars, TypeOK
<1>1. CASE Initialize
  BY <1>1 DEF Initialize, loginVars
<1>2. ASSUME NEW l \in Logins, NEW p \in Logins \cup {None}, Callback(l, p)
      PROVE  /\ UNCHANGED <<pc, login, tokens, rowLock, refreshes, lost>>
             /\ \A k \in Logins : phase[k] = "in" => phase'[k] = "in"
  BY <1>2 DEF Callback
<1>3. ASSUME NEW l \in Logins, CallbackStep(l)
      PROVE  /\ UNCHANGED <<pc, login, tokens, rowLock, refreshes, lost>>
             /\ \A k \in Logins : phase[k] = "in" => phase'[k] = "in"
  BY <1>3 DEF CallbackStep, Purge, Insert, ReplacePrevious
<1>4. ASSUME NEW l \in Logins, Logout(l) \/ LogoutStep(l)
      PROVE  /\ UNCHANGED <<pc, login, tokens, rowLock, refreshes, lost>>
             /\ \A k \in Logins : phase[k] = "in" => phase'[k] = "in"
  BY <1>4 DEF Logout, LogoutStep, Delete, Revoke, RevokeFails
<1>5. ASSUME NEW l \in Logins, Expire(l) \/ Lapse(l)
      PROVE  /\ UNCHANGED <<pc, login, tokens, rowLock, refreshes, lost>>
             /\ \A k \in Logins : phase[k] = "in" => phase'[k] = "in"
  BY <1>5 DEF Expire, Lapse, loginVars
<1>6. CASE UNCHANGED vars
  BY <1>6 DEF vars, loginVars
<1> QED
  BY <1>1, <1>2, <1>3, <1>4, <1>5, <1>6 DEF Next

(* A lock is held exactly while its request refreshes and stores.          *)
LEMMA RequestsHoldStep == IInv /\ [Next]_vars => RequestsHold'
<1> SUFFICES ASSUME IInv, [Next]_vars PROVE RequestsHold'
  OBVIOUS
<1> USE NullsAssumption DEF IInv, TypeOK, RequestsHold, Holding, loginVars
<1>1. ASSUME NEW r \in Requests, NEW l \in Logins, Request(r, l) PROVE RequestsHold'
  BY <1>1 DEF Request
<1>2. ASSUME NEW r \in Requests, NEW l \in Logins, Select(r, l) PROVE RequestsHold'
  <2>1. CASE Leave(r)
    BY <1>2, <2>1, LeaveHolds DEF Select
  <2>2. CASE ~ Leave(r)
    BY <1>2, <2>2 DEF Select
  <2> QED
    BY <2>1, <2>2
<1>3. ASSUME NEW r \in Requests, NEW l \in Logins, SelectForUpdate(r, l)
      PROVE  RequestsHold'
  <2>1. CASE Leave(r)
    BY <1>3, <2>1, LeaveHolds DEF SelectForUpdate
  <2>2. CASE ~ Leave(r)
    <3>1. /\ pc[r] = "lock" /\ login[r] = l /\ rowLock[l] = None
          /\ pc' = [pc EXCEPT ![r] = "refresh"]
          /\ rowLock' = [rowLock EXCEPT ![l] = r]
          /\ UNCHANGED <<login, phase>>
      BY <1>3, <2>2 DEF SelectForUpdate
    <3>2. \A k \in Logins, q \in Requests :
            rowLock'[k] = q <=> login'[q] = k /\ pc'[q] \in Holding
      BY <3>1
    <3> QED
      BY <3>1, <3>2
  <2> QED
    BY <2>1, <2>2
<1>4. ASSUME NEW r \in Requests, NEW l \in Logins,
             LockTimeout(r, l) \/ RefreshFails(r, l) \/ Commit(r, l) \/ Abort(r, l)
      PROVE  RequestsHold'
  BY <1>4, LeaveHolds DEF LockTimeout, RefreshFails, Commit, Abort
<1>5. ASSUME NEW r \in Requests, NEW l \in Logins, Refresh(r, l) PROVE RequestsHold'
  BY <1>5 DEF Refresh
<1>6. CASE ~ \E r \in Requests : \/ RequestStep(r)
                                 \/ \E l \in Logins : Request(r, l) \/ Abort(r, l)
  <2>1. /\ UNCHANGED <<pc, login, tokens, rowLock>>
        /\ \A l \in Logins : phase[l] = "in" => phase'[l] = "in"
    BY <1>6, RequestsApart
  <2> QED
    BY <2>1
<1> QED
  BY <1>1, <1>2, <1>3, <1>4, <1>5, <1>6 DEF RequestStep

(* Nothing is stored or issued for a login before its INSERT.              *)
LEMMA LoginsBeginStep == IInv /\ [Next]_vars => LoginsBegin'
<1> SUFFICES ASSUME IInv, [Next]_vars PROVE LoginsBegin'
  OBVIOUS
<1> USE NullsAssumption DEF IInv, TypeOK, LoginsBegin, requestVars, loginVars, providerVars
<1>1. ASSUME NEW r \in Requests, NEW l \in Logins,
             \/ Request(r, l) \/ Select(r, l) \/ SelectForUpdate(r, l)
             \/ LockTimeout(r, l) \/ RefreshFails(r, l) \/ Abort(r, l)
      PROVE  LoginsBegin'
  BY <1>1 DEF Request, Select, SelectForUpdate, LockTimeout, RefreshFails, Abort
<1>2. ASSUME NEW r \in Requests, NEW l \in Logins, Refresh(r, l) PROVE LoginsBegin'
  <2>1. phase[l] = "in"
    BY <1>2 DEF RequestsHold, Refresh
  <2> QED
    BY <1>2, <2>1 DEF Refresh
<1>3. ASSUME NEW r \in Requests, NEW l \in Logins, Commit(r, l) PROVE LoginsBegin'
  BY <1>3 DEF Commit
<1>4. ASSUME NEW l \in Logins, NEW p \in Logins \cup {None}, Callback(l, p)
      PROVE  LoginsBegin'
  BY <1>4 DEF Callback
<1>5. CASE Initialize
  BY <1>5 DEF Initialize, DeleteExpired
<1>6. ASSUME NEW l \in Logins, Purge(l) PROVE LoginsBegin'
  BY <1>6 DEF Purge, DeleteExpired
<1>7. ASSUME NEW l \in Logins, Insert(l) PROVE LoginsBegin'
  BY <1>7 DEF Insert
<1>8. ASSUME NEW l \in Logins, ReplacePrevious(l) PROVE LoginsBegin'
  BY <1>8 DEF ReplacePrevious
<1>9. ASSUME NEW l \in Logins, Logout(l) \/ LogoutStep(l) PROVE LoginsBegin'
  BY <1>9 DEF Logout, LogoutStep, Delete, Revoke, RevokeFails
<1>10. ASSUME NEW l \in Logins, Expire(l) \/ Lapse(l) PROVE LoginsBegin'
  BY <1>10 DEF Expire, Lapse
<1>11. CASE UNCHANGED vars
  BY <1>11 DEF vars
<1> QED
  BY <1>1, <1>2, <1>3, <1>4, <1>5, <1>6, <1>7, <1>8, <1>9, <1>10, <1>11
  DEF Next, RequestStep, CallbackStep

(* A row is only deleted while it is not locked, and inserted before its   *)
(* login is complete.                                                      *)
LEMMA DeletionsWait ==
  ASSUME TypeOK, [Next]_vars,
         ~ \E r \in Requests : RequestStep(r) \/ \E l \in Logins : Request(r, l) \/ Abort(r, l),
         NEW k \in Logins
  PROVE  \/ row'[k] = row[k]
         \/ row'[k] = NoGrant /\ rowLock[k] = None
         \/ Insert(k)
<1> USE DEF TypeOK, loginVars
<1> DEFINE Waits == \/ row'[k] = row[k]
                    \/ row'[k] = NoGrant /\ rowLock[k] = None
                    \/ Insert(k)
<1>1. CASE Initialize
  BY <1>1 DEF Initialize, DeleteExpired
<1>2. ASSUME NEW l \in Logins, NEW p \in Logins \cup {None}, Callback(l, p) PROVE Waits
  BY <1>2 DEF Callback
<1>3. ASSUME NEW l \in Logins, CallbackStep(l) PROVE Waits
  <2>1. CASE Purge(l)
    BY <2>1 DEF Purge, DeleteExpired
  <2>2. CASE Insert(l)
    BY <2>2 DEF Insert
  <2>3. CASE ReplacePrevious(l)
    BY <2>3 DEF ReplacePrevious
  <2> QED
    BY <1>3, <2>1, <2>2, <2>3 DEF CallbackStep
<1>4. ASSUME NEW l \in Logins, Logout(l) \/ LogoutStep(l) PROVE Waits
  BY <1>4 DEF Logout, LogoutStep, Delete, Revoke, RevokeFails
<1>5. ASSUME NEW l \in Logins, Expire(l) \/ Lapse(l) PROVE Waits
  BY <1>5 DEF Expire, Lapse
<1>6. CASE UNCHANGED vars
  BY <1>6 DEF vars
<1> QED
  BY <1>1, <1>2, <1>3, <1>4, <1>5, <1>6 DEF Next

(* While a request refreshes, the row stays the one it read.               *)
LEMMA RefreshesStoredStep == IInv /\ [Next]_vars => RefreshesStored'
<1> SUFFICES ASSUME IInv, [Next]_vars,
                    NEW q \in Requests, NEW k \in Logins, login'[q] = k, pc'[q] = "refresh"
             PROVE  row'[k] # NoGrant /\ tokens'[q] = row'[k]
  BY DEF RefreshesStored
<1> DEFINE Stored == row'[k] # NoGrant /\ tokens'[q] = row'[k]
<1> USE NullsAssumption
    DEF IInv, TypeOK, RequestsHold, RefreshesStored, Holding, requestVars, loginVars
<1>1. ASSUME NEW r \in Requests, NEW l \in Logins, Request(r, l) PROVE Stored
  BY <1>1 DEF Request
<1>2. ASSUME NEW r \in Requests, NEW l \in Logins, Select(r, l) PROVE Stored
  <2>1. q # r
    BY <1>2 DEF Select, Leave
  <2>2. login[q] = k /\ pc[q] = "refresh" /\ tokens'[q] = tokens[q]
    BY <1>2, <2>1 DEF Select, Leave
  <2> QED
    BY <1>2, <2>2 DEF Select
<1>3. ASSUME NEW r \in Requests, NEW l \in Logins, SelectForUpdate(r, l) PROVE Stored
  <2>1. CASE q = r
    <3>1. Visible(l) /\ l = k /\ tokens' = [tokens EXCEPT ![r] = row[l]]
      BY <1>3, <2>1 DEF SelectForUpdate, Leave
    <3> QED
      BY <1>3, <2>1, <3>1 DEF SelectForUpdate, Visible
  <2>2. CASE q # r
    <3>1. login[q] = k /\ pc[q] = "refresh" /\ tokens'[q] = tokens[q]
      BY <1>3, <2>2 DEF SelectForUpdate, Leave
    <3> QED
      BY <1>3, <3>1 DEF SelectForUpdate
  <2> QED
    BY <2>1, <2>2
<1>4. ASSUME NEW r \in Requests, NEW l \in Logins,
             LockTimeout(r, l) \/ RefreshFails(r, l) \/ Abort(r, l)
      PROVE  Stored
  BY <1>4 DEF LockTimeout, RefreshFails, Abort, Leave
<1>5. ASSUME NEW r \in Requests, NEW l \in Logins, Refresh(r, l) PROVE Stored
  BY <1>5 DEF Refresh
<1>6. ASSUME NEW r \in Requests, NEW l \in Logins, Commit(r, l) PROVE Stored
  BY <1>6 DEF Commit, Leave
<1>7. CASE ~ \E r \in Requests : \/ RequestStep(r)
                                 \/ \E l \in Logins : Request(r, l) \/ Abort(r, l)
  <2>1. UNCHANGED <<pc, login, tokens>>
    BY <1>7, RequestsApart
  <2>2. rowLock[k] = q /\ phase[k] = "in"
    BY <2>1
  <2>3. row'[k] = row[k] \/ rowLock[k] = None \/ Insert(k)
    BY <1>7, DeletionsWait
  <2>4. row'[k] = row[k]
    BY <2>2, <2>3 DEF Insert
  <2> QED
    BY <2>1, <2>4
<1> HIDE DEF IInv, TypeOK, RequestsHold, RefreshesStored
<1> QED
  BY <1>1, <1>2, <1>3, <1>4, <1>5, <1>6, <1>7 DEF RequestStep

(* Only an INSERT, a refresh and a revocation change what the provider     *)
(* knows of a login.                                                       *)
LEMMA ProviderChanges ==
  ASSUME TypeOK, [Next]_vars, NEW k \in Logins
  PROVE  \/ UNCHANGED <<issued[k], valid[k]>>
         \/ UNCHANGED issued[k] /\ (Insert(k) \/ Revoke(k))
         \/ \E r \in Requests : Refresh(r, k)
<1> USE DEF TypeOK, loginVars, providerVars
<1> DEFINE Known == \/ UNCHANGED <<issued[k], valid[k]>>
                    \/ UNCHANGED issued[k] /\ (Insert(k) \/ Revoke(k))
                    \/ \E r \in Requests : Refresh(r, k)
<1>1. ASSUME NEW r \in Requests, NEW l \in Logins, Refresh(r, l) PROVE Known
  BY <1>1 DEF Refresh
<1>2. ASSUME NEW r \in Requests, NEW l \in Logins,
             \/ Request(r, l) \/ Select(r, l) \/ SelectForUpdate(r, l)
             \/ LockTimeout(r, l) \/ RefreshFails(r, l) \/ Commit(r, l) \/ Abort(r, l)
      PROVE  Known
  BY <1>2 DEF Request, Select, SelectForUpdate, LockTimeout, RefreshFails, Commit, Abort
<1>3. ASSUME NEW l \in Logins, Insert(l) PROVE Known
  BY <1>3 DEF Insert
<1>4. ASSUME NEW l \in Logins, Revoke(l) PROVE Known
  BY <1>4 DEF Revoke
<1>5. CASE Initialize
  BY <1>5 DEF Initialize
<1>6. ASSUME NEW l \in Logins, NEW p \in Logins \cup {None}, Callback(l, p) PROVE Known
  BY <1>6 DEF Callback
<1>7. ASSUME NEW l \in Logins,
             \/ Purge(l) \/ ReplacePrevious(l) \/ Logout(l) \/ Delete(l)
             \/ RevokeFails(l) \/ Expire(l) \/ Lapse(l)
      PROVE  Known
  BY <1>7 DEF Purge, ReplacePrevious, Logout, Delete, RevokeFails, Expire, Lapse
<1>8. CASE UNCHANGED vars
  BY <1>8 DEF vars
<1> HIDE DEF Known
<1> QED
  BY <1>1, <1>2, <1>3, <1>4, <1>5, <1>6, <1>7, <1>8
  DEF Known, Next, RequestStep, CallbackStep, LogoutStep

(* The newest grant is never dropped, unless an abort drops it.            *)
LEMMA NewestKeptStep == IInv /\ [Next]_vars => NewestKept'
<1> DEFINE Updating(r, k) == login[r] = k /\ pc[r] = "update"
           Kept(k) == /\ row[k] # NoGrant /\ (\A r \in Requests : ~ Updating(r, k))
                           => Newest(row[k], k)
                      /\ \A r \in Requests : Updating(r, k) => Newest(tokens[r], k)
<1> SUFFICES ASSUME IInv, [Next]_vars, NEW k \in Logins, k \notin lost' PROVE Kept(k)'
  BY DEF NewestKept, Newest
<1> USE NullsAssumption DEF IInv, TypeOK, RequestsHold, Holding, Newest, requestVars,
        loginVars, providerVars, historyVars
<1>1. ASSUME k \notin lost, UNCHANGED <<row[k], issued[k], valid[k]>>,
             \A r \in Requests : /\ Updating(r, k)' <=> Updating(r, k)
                                 /\ Updating(r, k) => tokens'[r] = tokens[r]
      PROVE  Kept(k)'
  BY <1>1 DEF NewestKept
<1>2. ASSUME NEW r \in Requests, NEW l \in Logins,
             \/ Request(r, l) \/ Select(r, l) \/ SelectForUpdate(r, l)
             \/ LockTimeout(r, l) \/ RefreshFails(r, l) \/ Abort(r, l)
      PROVE  Kept(k)'
  <2>1. UNCHANGED <<row, issued, valid>> /\ k \notin lost
    BY <1>2 DEF Request, Select, SelectForUpdate, LockTimeout, RefreshFails, Abort
  <2>2. \A x \in Requests : x # r =>
          pc'[x] = pc[x] /\ login'[x] = login[x] /\ tokens'[x] = tokens[x]
    BY <1>2 DEF Request, Select, SelectForUpdate, LockTimeout, RefreshFails, Abort, Leave
  <2>3. ~ Updating(r, k)' /\ ~ Updating(r, k)
    BY <1>2 DEF Request, Select, SelectForUpdate, LockTimeout, RefreshFails, Abort, Leave
  <2> QED
    BY <1>1, <2>1, <2>2, <2>3
<1>3. ASSUME NEW r \in Requests, NEW l \in Logins, Refresh(r, l) PROVE Kept(k)'
  <2>1. CASE k = l
    <3>1. \A x \in Requests : x # r => ~ Updating(x, k)'
      BY <1>3, <2>1 DEF Refresh
    <3>2. Updating(r, k)'
      BY <1>3, <2>1 DEF Refresh
    <3>3. Newest(tokens[r], k)'
      BY <1>3, <2>1 DEF Refresh, KeptRefresh
    <3> QED
      BY <3>1, <3>2, <3>3
  <2>2. CASE k # l
    BY <1>1, <1>3, <2>2 DEF Refresh
  <2> QED
    BY <2>1, <2>2
<1>4. ASSUME NEW r \in Requests, NEW l \in Logins, Commit(r, l) PROVE Kept(k)'
  <2>1. CASE k = l
    <3>1. \A x \in Requests : ~ Updating(x, k)'
      BY <1>4, <2>1 DEF Commit, Leave
    <3>2. Newest(tokens[r], k) /\ UNCHANGED <<issued, valid>>
      BY <1>4, <2>1 DEF Commit, NewestKept
    <3>3. row'[k] = NoGrant \/ row'[k] = tokens[r]
      BY <1>4, <2>1 DEF Commit
    <3> QED
      BY <3>1, <3>2, <3>3
  <2>2. CASE k # l
    BY <1>1, <1>4, <2>2 DEF Commit, Leave
  <2> QED
    BY <2>1, <2>2
<1>5. CASE ~ \E r \in Requests : \/ RequestStep(r)
                                 \/ \E l \in Logins : Request(r, l) \/ Abort(r, l)
  <2>1. UNCHANGED <<pc, login, tokens, lost>>
    BY <1>5, RequestsApart
  <2>2. row'[k] = row[k] \/ row'[k] = NoGrant \/ Insert(k)
    BY <1>5, DeletionsWait
  <2>3. \/ UNCHANGED <<issued[k], valid[k]>>
        \/ UNCHANGED issued[k] /\ (Insert(k) \/ Revoke(k))
    <3>1. ~ \E r \in Requests : Refresh(r, k)
      BY <1>5 DEF RequestStep
    <3> QED
      BY <3>1, ProviderChanges
  <2>4. CASE Insert(k)
    <3>1. \A x \in Requests : ~ Updating(x, k)'
      <4>1. phase[k] # "in"
        BY <2>4 DEF Insert
      <4> QED
        BY <2>1, <4>1
    <3>2. Newest(row[k], k)'
      BY <2>4 DEF Insert, LoginsBegin
    <3> QED
      BY <3>1, <3>2
  <2>5. CASE Revoke(k)
    <3>1. row'[k] = NoGrant /\ \A x \in Requests : ~ Updating(x, k)
      BY <2>5 DEF Revoke, DeletedStaysDeleted, Gone
    <3> QED
      BY <2>1, <3>1
  <2>6. CASE UNCHANGED <<issued[k], valid[k]>> /\ ~ Insert(k)
    BY <2>1, <2>2, <2>6 DEF NewestKept
  <2> QED
    BY <2>3, <2>4, <2>5, <2>6
<1> HIDE DEF IInv, TypeOK, RequestsHold, Newest, Kept
<1> QED
  BY <1>2, <1>3, <1>4, <1>5 DEF RequestStep

(* A token is refreshed by the request that holds the row, which stores it.*)
LEMMA OlderRefreshedStep == IInv /\ [Next]_vars => OlderRefreshed'
<1> SUFFICES ASSUME IInv, [Next]_vars, NEW k \in Logins, k \notin lost',
                    NEW n \in 0 .. MaxRefreshes[k]
             PROVE  /\ refreshes'[k][n] <= 1
                    /\ n >= issued'[k] => refreshes'[k][n] = 0
  BY BoundAssumption DEF OlderRefreshed, IInv, TypeOK
<1> DEFINE Once == /\ refreshes'[k][n] <= 1
                   /\ n >= issued'[k] => refreshes'[k][n] = 0
<1> USE NullsAssumption, BoundAssumption DEF IInv, TypeOK, RequestsHold, Holding, requestVars,
        loginVars, providerVars, historyVars
<1>1. CASE UNCHANGED <<refreshes, issued[k]>> /\ k \notin lost
  BY <1>1 DEF OlderRefreshed
<1>2. ASSUME NEW r \in Requests, NEW l \in Logins,
             \/ Request(r, l) \/ Select(r, l) \/ SelectForUpdate(r, l)
             \/ LockTimeout(r, l) \/ RefreshFails(r, l) \/ Commit(r, l) \/ Abort(r, l)
      PROVE  Once
  BY <1>1, <1>2
  DEF Request, Select, SelectForUpdate, LockTimeout, RefreshFails, Commit, Abort
<1>3. ASSUME NEW r \in Requests, NEW l \in Logins, Refresh(r, l) PROVE Once
  <2>1. CASE k = l
    <3>1. Newest(row[k], k) /\ tokens[r] = row[k] /\ k \notin lost
      BY <1>3, <2>1 DEF Refresh, RefreshesStored, NewestKept
    <3>2. /\ issued[k] \in 0 .. MaxRefreshes[k]
          /\ refreshes'[k] = [refreshes[k] EXCEPT ![issued[k]] = @ + 1]
          /\ issued'[k] = issued[k] + 1
      <4>1. tokens[r].access = issued[k]
        BY <3>1 DEF Newest
      <4>2. issued[k] \in Nat /\ MaxRefreshes[k] \in Nat /\ issued[k] < MaxRefreshes[k]
        BY <1>3, <2>1 DEF Refresh
      <4>3. refreshes'[k] = [refreshes[k] EXCEPT ![tokens[r].access] = @ + 1]
        BY <1>3, <2>1 DEF Refresh
      <4>4. issued'[k] = issued[k] + 1
        BY <1>3, <2>1 DEF Refresh
      <4> QED
        BY <4>1, <4>2, <4>3, <4>4
    <3>3. \A m \in 0 .. MaxRefreshes[k] : /\ refreshes[k][m] <= 1
                                          /\ m >= issued[k] => refreshes[k][m] = 0
      BY <3>1 DEF OlderRefreshed
    <3>4. issued[k] \in Nat /\ refreshes[k] \in [0 .. MaxRefreshes[k] -> Nat]
      OBVIOUS
    <3> HIDE DEF IInv, TypeOK
    <3>5. CASE n = issued[k]
      BY <3>2, <3>3, <3>4, <3>5
    <3>6. CASE n # issued[k]
      <4>1. refreshes'[k][n] = refreshes[k][n]
        BY <3>2, <3>4, <3>6
      <4> QED
        BY <3>2, <3>3, <3>4, <4>1
    <3> QED
      BY <3>5, <3>6
  <2>2. CASE k # l
    <3>1. refreshes'[k] = refreshes[k] /\ issued'[k] = issued[k] /\ k \notin lost
      BY <1>3, <2>2 DEF Refresh
    <3> QED
      BY <3>1 DEF OlderRefreshed
  <2> QED
    BY <2>1, <2>2
<1>4. CASE ~ \E r \in Requests : \/ RequestStep(r)
                                 \/ \E l \in Logins : Request(r, l) \/ Abort(r, l)
  <2>1. UNCHANGED <<refreshes, lost>>
    BY <1>4, RequestsApart
  <2>2. UNCHANGED issued[k]
    <3>1. ~ \E r \in Requests : Refresh(r, k)
      BY <1>4 DEF RequestStep
    <3> QED
      BY <3>1, ProviderChanges
  <2> QED
    BY <1>1, <2>1, <2>2
<1> HIDE DEF IInv, TypeOK, RequestsHold
<1> QED
  BY <1>2, <1>3, <1>4 DEF RequestStep

(* A deleted grant stays deleted, and its refresh token the accepted one   *)
(* until it is revoked.                                                    *)
LEMMA DeletedStaysDeletedStep == IInv /\ [Next]_vars => DeletedStaysDeleted'
<1> DEFINE Absent(k) == /\ row[k] = NoGrant
                        /\ \A r \in Requests : login[r] = k => pc[r] \notin Holding
<1> SUFFICES ASSUME IInv, [Next]_vars, NEW k \in Logins, Gone(k)' PROVE Absent(k)'
  BY DEF DeletedStaysDeleted, Holding
<1> USE NullsAssumption DEF IInv, TypeOK, RequestsHold, requestVars, loginVars, providerVars,
        historyVars
<1>1. Gone(k) => Absent(k)
  BY DEF DeletedStaysDeleted, Holding
<1>2. ASSUME Gone(k), row'[k] = row[k], UNCHANGED <<pc, login>> PROVE Absent(k)'
  BY <1>1, <1>2
<1>3. ASSUME NEW r \in Requests, NEW l \in Logins,
             \/ Request(r, l) \/ Select(r, l) \/ LockTimeout(r, l)
             \/ RefreshFails(r, l) \/ Abort(r, l)
      PROVE  Absent(k)'
  <2>1. Gone(k) /\ UNCHANGED row
    BY <1>3 DEF Gone, Request, Select, LockTimeout, RefreshFails, Abort
  <2>2. pc'[r] \notin Holding /\ \A x \in Requests : x # r =>
          pc'[x] = pc[x] /\ login'[x] = login[x]
    BY <1>3 DEF Request, Select, LockTimeout, RefreshFails, Abort, Leave, Holding
  <2> QED
    BY <1>1, <2>1, <2>2
<1>4. ASSUME NEW r \in Requests, NEW l \in Logins, SelectForUpdate(r, l) PROVE Absent(k)'
  <2>1. Gone(k) /\ UNCHANGED row
    BY <1>4 DEF Gone, SelectForUpdate
  <2>2. login'[r] = k => pc'[r] \notin Holding
    BY <1>1, <1>4, <2>1 DEF SelectForUpdate, Leave, Visible, Holding
  <2>3. \A x \in Requests : x # r => pc'[x] = pc[x] /\ login'[x] = login[x]
    BY <1>4 DEF SelectForUpdate, Leave
  <2> QED
    BY <1>1, <2>1, <2>2, <2>3
<1>5. ASSUME NEW r \in Requests, NEW l \in Logins, Refresh(r, l) \/ Commit(r, l)
      PROVE  Absent(k)'
  <2>1. Gone(k)
    BY <1>5 DEF Gone, Refresh, Commit
  <2>2. k # l
    BY <1>1, <1>5, <2>1 DEF Refresh, Commit, Holding
  <2>3. row'[k] = row[k]
    BY <1>5, <2>2 DEF Refresh, Commit
  <2>4. login'[r] # k /\ \A x \in Requests : x # r => pc'[x] = pc[x] /\ login'[x] = login[x]
    BY <1>5, <2>2 DEF Refresh, Commit, Leave
  <2> QED
    BY <1>1, <2>1, <2>3, <2>4
<1>6. ASSUME NEW l \in Logins, NEW p \in Logins \cup {None}, Callback(l, p)
      PROVE  Absent(k)'
  BY <1>2, <1>6 DEF Callback, Gone
<1>7. CASE Initialize
  BY <1>1, <1>7 DEF Initialize, DeleteExpired, Gone
<1>8. ASSUME NEW l \in Logins, Purge(l) PROVE Absent(k)'
  BY <1>1, <1>8 DEF Purge, DeleteExpired, Gone
<1>9. ASSUME NEW l \in Logins, Insert(l) PROVE Absent(k)'
  <2>1. Gone(k)
    BY <1>9 DEF Insert, Gone
  <2>2. phase[k] = "in"
    BY <2>1 DEF Gone, LoginsBegin
  <2> QED
    BY <1>2, <1>9, <2>1, <2>2 DEF Insert
<1>10. ASSUME NEW l \in Logins, ReplacePrevious(l) PROVE Absent(k)'
  <2>1. CASE previous[l] = k
    BY <1>10, <2>1 DEF ReplacePrevious
  <2>2. CASE previous[l] # k
    <3>1. Gone(k) /\ row'[k] = row[k]
      BY <1>10, <2>2 DEF ReplacePrevious, Gone
    <3> QED
      BY <1>2, <1>10, <3>1 DEF ReplacePrevious
  <2> QED
    BY <2>1, <2>2
<1>11. ASSUME NEW l \in Logins, Delete(l) PROVE Absent(k)'
  <2>1. CASE k = l
    BY <1>11, <2>1 DEF Delete
  <2>2. CASE k # l
    BY <1>2, <1>11, <2>2 DEF Delete, Gone
  <2> QED
    BY <2>1, <2>2
<1>12. ASSUME NEW l \in Logins,
              \/ Logout(l) \/ Revoke(l) \/ RevokeFails(l) \/ Expire(l) \/ Lapse(l)
       PROVE  Absent(k)'
  BY <1>2, <1>12 DEF Logout, Revoke, RevokeFails, Expire, Lapse, Gone
<1>13. CASE UNCHANGED vars
  BY <1>2, <1>13 DEF vars, Gone
<1> HIDE DEF IInv, TypeOK, RequestsHold, Absent
<1> QED
  BY <1>3, <1>4, <1>5, <1>6, <1>7, <1>8, <1>9, <1>10, <1>11, <1>12, <1>13
  DEF Next, RequestStep, CallbackStep, LogoutStep

(* What a logout deleted stays the newest grant until it is revoked: no    *)
(* request refreshes a deleted grant.                                      *)
LEMMA NewestDeletedStep == IInv /\ [Next]_vars => NewestDeleted'
<1> DEFINE Last(k) ==
             /\ logout[k] = "revoking" => deleted[k] # NoGrant /\ deleted[k].refresh = valid[k]
             /\ logout[k] = "revoked" => valid[k] = NoToken
<1> SUFFICES ASSUME IInv, [Next]_vars, NEW k \in Logins, k \notin lost' PROVE Last(k)'
  BY DEF NewestDeleted
<1> USE NullsAssumption DEF IInv, TypeOK, requestVars, loginVars, providerVars, historyVars
<1>1. ASSUME k \notin lost, UNCHANGED <<logout[k], deleted[k], valid[k]>> PROVE Last(k)'
  BY <1>1 DEF NewestDeleted
<1>2. ASSUME NEW r \in Requests, NEW l \in Logins,
             \/ Request(r, l) \/ Select(r, l) \/ SelectForUpdate(r, l)
             \/ LockTimeout(r, l) \/ RefreshFails(r, l) \/ Commit(r, l) \/ Abort(r, l)
      PROVE  Last(k)'
  BY <1>1, <1>2
  DEF Request, Select, SelectForUpdate, LockTimeout, RefreshFails, Commit, Abort
<1>3. ASSUME NEW r \in Requests, NEW l \in Logins, Refresh(r, l) PROVE Last(k)'
  <2>1. CASE k = l
    <3>1. logout[k] \notin {"revoking", "revoked"}
      BY <1>3, <2>1 DEF Refresh, DeletedStaysDeleted, Gone
    <3> QED
      BY <1>3, <3>1 DEF Refresh
  <2>2. CASE k # l
    BY <1>1, <1>3, <2>2 DEF Refresh
  <2> QED
    BY <2>1, <2>2
<1>4. ASSUME NEW l \in Logins, NEW p \in Logins \cup {None}, Callback(l, p) PROVE Last(k)'
  BY <1>1, <1>4 DEF Callback
<1>5. CASE Initialize
  BY <1>1, <1>5 DEF Initialize
<1>6. ASSUME NEW l \in Logins, Insert(l) PROVE Last(k)'
  <2>1. CASE k = l
    BY <1>6, <2>1 DEF Insert, LoginsBegin
  <2>2. CASE k # l
    BY <1>1, <1>6, <2>2 DEF Insert
  <2> QED
    BY <2>1, <2>2
<1>7. ASSUME NEW l \in Logins, Delete(l) PROVE Last(k)'
  <2>1. CASE k = l
    <3>1. \A r \in Requests : login[r] = k => pc[r] # "update"
      BY <1>7, <2>1 DEF Delete, RequestsHold, Holding
    <3>2. row[k] # NoGrant => Newest(row[k], k)
      BY <1>7, <3>1 DEF NewestKept, Delete
    <3>3. /\ UNCHANGED valid[k] /\ deleted'[k] = row[k]
          /\ logout'[k] = IF row[k] = NoGrant THEN "done" ELSE "revoking"
      BY <1>7, <2>1 DEF Delete
    <3> QED
      BY <3>2, <3>3 DEF Newest
  <2>2. CASE k # l
    BY <1>1, <1>7, <2>2 DEF Delete
  <2> QED
    BY <2>1, <2>2
<1>8. ASSUME NEW l \in Logins, Revoke(l) PROVE Last(k)'
  <2>1. CASE k = l
    BY <1>8, <2>1 DEF Revoke, NewestDeleted
  <2>2. CASE k # l
    BY <1>1, <1>8, <2>2 DEF Revoke
  <2> QED
    BY <2>1, <2>2
<1>9. ASSUME NEW l \in Logins, Logout(l) \/ RevokeFails(l) PROVE Last(k)'
  <2>1. CASE k = l
    BY <1>9, <2>1 DEF Logout, RevokeFails
  <2>2. CASE k # l
    BY <1>1, <1>9, <2>2 DEF Logout, RevokeFails
  <2> QED
    BY <2>1, <2>2
<1>10. ASSUME NEW l \in Logins, Purge(l) \/ ReplacePrevious(l) \/ Expire(l) \/ Lapse(l)
       PROVE  Last(k)'
  BY <1>1, <1>10 DEF Purge, ReplacePrevious, Expire, Lapse
<1>11. CASE UNCHANGED vars
  BY <1>1, <1>11 DEF vars
<1> HIDE DEF IInv, TypeOK, Last
<1> QED
  BY <1>2, <1>3, <1>4, <1>5, <1>6, <1>7, <1>8, <1>9, <1>10, <1>11
  DEF Next, RequestStep, CallbackStep, LogoutStep

(* The invariant holds of the first state and of every state after it.     *)
THEOREM Inductive == Spec => []IInv
<1>1. Init => IInv
  <2> SUFFICES ASSUME Init PROVE IInv
    OBVIOUS
  <2> USE NullsAssumption, BoundAssumption
  <2>1. TypeOK
    BY DEF Init, TypeOK, Grants
  <2>2. RequestsHold /\ LoginsBegin /\ RefreshesStored
    BY DEF Init, RequestsHold, Holding, LoginsBegin, RefreshesStored
  <2>3. NewestKept /\ OlderRefreshed /\ NewestDeleted
    BY DEF Init, NewestKept, OlderRefreshed, NewestDeleted
  <2>4. DeletedStaysDeleted
    BY DEF Init, DeletedStaysDeleted, Gone
  <2> QED
    BY <2>1, <2>2, <2>3, <2>4 DEF IInv
<1>2. IInv /\ [Next]_vars => IInv'
  <2> SUFFICES ASSUME IInv, [Next]_vars PROVE IInv'
    OBVIOUS
  <2>1. TypeOK'
    BY TypeStep DEF IInv
  <2> QED
    BY <2>1, RequestsHoldStep, LoginsBeginStep, RefreshesStoredStep, NewestKeptStep,
       OlderRefreshedStep, NewestDeletedStep, DeletedStaysDeletedStep
    DEF IInv
<1> QED
  BY <1>1, <1>2, PTL DEF Spec

(* Whichever workers find an access token expired, it is refreshed once,   *)
(* unless an abort dropped what the first refresh issued.                  *)
THEOREM AlwaysRefreshedOnce == Spec => []RefreshedOnce
<1>1. IInv => RefreshedOnce
  BY DEF IInv, OlderRefreshed, RefreshedOnce
<1> QED
  BY <1>1, Inductive, PTL

(* Whenever no worker has a row locked, its grant is the provider's newest *)
(* and its refresh token the one the provider accepts.                     *)
THEOREM AlwaysCurrent == Spec => []StoredGrantIsCurrent
<1>1. IInv => StoredGrantIsCurrent
  <2> SUFFICES ASSUME IInv, NEW l \in Logins \ lost, row[l] # NoGrant, rowLock[l] = None
               PROVE  row[l].access = issued[l] /\ row[l].refresh = valid[l]
    BY DEF StoredGrantIsCurrent
  <2>1. \A r \in Requests : login[r] = l => pc[r] # "update"
    BY NullsAssumption DEF IInv, RequestsHold, Holding
  <2> QED
    BY <2>1 DEF IInv, NewestKept, Newest
<1> QED
  BY <1>1, Inductive, PTL

(* However long a logout waits for a refresh of its login, what it revokes *)
(* is the token that refresh rotated to.                                   *)
THEOREM AlwaysRevokesCurrent == Spec => []LogoutRevokesCurrent
<1>1. IInv => LogoutRevokesCurrent
  BY DEF IInv, NewestDeleted, LogoutRevokesCurrent
<1> QED
  BY <1>1, Inductive, PTL

(* No worker brings a deleted grant back, or still refreshes it.           *)
THEOREM AlwaysDeleted == Spec => []DeletedStaysDeleted
<1>1. IInv => DeletedStaysDeleted
  BY DEF IInv
<1> QED
  BY <1>1, Inductive, PTL

-----------------------------------------------------------------------------
(* The grant of a login behaves as one value.  What the steps of this      *)
(* value need of the requests under way:                                   *)

\* A request refreshes a token that cannot be used any more.
RefreshesNeeded ==
  \A r \in Requests, l \in Logins : login[r] = l /\ pc[r] = "refresh" =>
    ~Usable(l, tokens[r]) /\ tokens[r].refresh # NoToken

\* The row that an UPDATE is about to replace is still there.
UpdatesStored ==
  \A r \in Requests, l \in Logins : login[r] = l /\ pc[r] = "update" => row[l] # NoGrant

RevokesRemoved == \A l \in Logins : logout[l] = "revoking" => deleted[l] # NoGrant

AtomicInv == IInv /\ RefreshesNeeded /\ UpdatesStored /\ RevokesRemoved

\* A token becomes usable by a refresh only, whose request holds the row.
LEMMA RefreshesNeededStep == AtomicInv /\ [Next]_vars => RefreshesNeeded'
<1> SUFFICES ASSUME AtomicInv, [Next]_vars,
                    NEW q \in Requests, NEW k \in Logins, login'[q] = k, pc'[q] = "refresh"
             PROVE  ~Usable(k, tokens[q])' /\ tokens'[q].refresh # NoToken
  BY DEF RefreshesNeeded, Usable
<1> DEFINE Needed == ~Usable(k, tokens[q])' /\ tokens'[q].refresh # NoToken
<1> USE NullsAssumption
    DEF AtomicInv, IInv, TypeOK, RequestsHold, RefreshesNeeded, Usable, Holding,
        requestVars, loginVars, providerVars
<1>1. ASSUME NEW r \in Requests, NEW l \in Logins, Request(r, l) PROVE Needed
  BY <1>1 DEF Request
<1>2. ASSUME NEW r \in Requests, NEW l \in Logins, Select(r, l) PROVE Needed
  <2>1. q # r
    BY <1>2 DEF Select, Leave
  <2>2. login[q] = k /\ pc[q] = "refresh" /\ tokens'[q] = tokens[q]
    BY <1>2, <2>1 DEF Select, Leave
  <2> QED
    BY <1>2, <2>2 DEF Select
<1>3. ASSUME NEW r \in Requests, NEW l \in Logins, SelectForUpdate(r, l) PROVE Needed
  <2>1. CASE q = r
    <3>1. /\ l = k /\ tokens' = [tokens EXCEPT ![r] = row[l]]
          /\ ~Usable(l, row[l]) /\ row[l].refresh # NoToken
      BY <1>3, <2>1 DEF SelectForUpdate, Leave
    <3> QED
      BY <1>3, <2>1, <3>1 DEF SelectForUpdate
  <2>2. CASE q # r
    <3>1. login[q] = k /\ pc[q] = "refresh" /\ tokens'[q] = tokens[q]
      BY <1>3, <2>2 DEF SelectForUpdate, Leave
    <3> QED
      BY <1>3, <3>1 DEF SelectForUpdate
  <2> QED
    BY <2>1, <2>2
<1>4. ASSUME NEW r \in Requests, NEW l \in Logins,
             LockTimeout(r, l) \/ RefreshFails(r, l) \/ Abort(r, l) \/ Commit(r, l)
      PROVE  Needed
  BY <1>4 DEF LockTimeout, RefreshFails, Abort, Commit, Leave
<1>5. ASSUME NEW r \in Requests, NEW l \in Logins, Refresh(r, l) PROVE Needed
  <2>1. q # r /\ login[q] = k /\ pc[q] = "refresh" /\ tokens'[q] = tokens[q]
    BY <1>5 DEF Refresh
  <2>2. k # l
    BY <1>5, <2>1 DEF Refresh
  <2>3. issued'[k] = issued[k] /\ fresh'[k] = fresh[k]
    BY <1>5, <2>2 DEF Refresh
  <2> QED
    BY <2>1, <2>3
<1>6. CASE ~ \E r \in Requests : \/ RequestStep(r)
                                 \/ \E l \in Logins : Request(r, l) \/ Abort(r, l)
  <2>1. UNCHANGED <<pc, login, tokens>>
    BY <1>6, RequestsApart
  <2>2. issued'[k] = issued[k]
    BY <1>6, ProviderChanges DEF RequestStep
  <2>3. fresh'[k] => fresh[k]
    <3>1. CASE Initialize
      BY <3>1 DEF Initialize
    <3>2. ASSUME NEW l \in Logins, NEW p \in Logins \cup {None}, Callback(l, p)
          PROVE  fresh'[k] => fresh[k]
      BY <3>2 DEF Callback
    <3>3. ASSUME NEW l \in Logins, CallbackStep(l) \/ Logout(l) \/ LogoutStep(l)
          PROVE  fresh'[k] => fresh[k]
      BY <3>3 DEF CallbackStep, Purge, Insert, ReplacePrevious, Logout, LogoutStep, Delete,
                  Revoke, RevokeFails
    <3>4. ASSUME NEW l \in Logins, Expire(l) \/ Lapse(l) PROVE fresh'[k] => fresh[k]
      BY <3>4 DEF Expire, Lapse
    <3>5. CASE UNCHANGED vars
      BY <3>5 DEF vars
    <3> QED
      BY <1>6, <3>1, <3>2, <3>3, <3>4, <3>5 DEF Next
  <2> QED
    BY <2>1, <2>2, <2>3
<1> HIDE DEF AtomicInv, IInv, TypeOK, RequestsHold, RefreshesNeeded, Usable
<1> QED
  BY <1>1, <1>2, <1>3, <1>4, <1>5, <1>6 DEF RequestStep

\* The row stays while it is locked.
LEMMA UpdatesStoredStep == AtomicInv /\ [Next]_vars => UpdatesStored'
<1> SUFFICES ASSUME AtomicInv, [Next]_vars,
                    NEW q \in Requests, NEW k \in Logins, login'[q] = k, pc'[q] = "update"
             PROVE  row'[k] # NoGrant
  BY DEF UpdatesStored
<1> USE NullsAssumption
    DEF AtomicInv, IInv, TypeOK, RequestsHold, UpdatesStored, Holding, requestVars, loginVars
<1>1. ASSUME NEW r \in Requests, NEW l \in Logins,
             \/ Request(r, l) \/ Select(r, l) \/ SelectForUpdate(r, l)
             \/ LockTimeout(r, l) \/ RefreshFails(r, l) \/ Abort(r, l)
      PROVE  row'[k] # NoGrant
  <2>1. row' = row
    BY <1>1 DEF Request, Select, SelectForUpdate, LockTimeout, RefreshFails, Abort
  <2>2. login[q] = k /\ pc[q] = "update"
    BY <1>1 DEF Request, Select, SelectForUpdate, LockTimeout, RefreshFails, Abort, Leave
  <2> QED
    BY <2>1, <2>2
<1>2. ASSUME NEW r \in Requests, NEW l \in Logins, Refresh(r, l) PROVE row'[k] # NoGrant
  <2>1. row' = row /\ login' = login /\ pc[r] = "refresh" /\ pc' = [pc EXCEPT ![r] = "update"]
    BY <1>2 DEF Refresh
  <2>2. login[q] = k /\ pc[q] \in {"refresh", "update"}
    BY <2>1
  <2> QED
    BY <2>1, <2>2 DEF RefreshesStored
<1>3. ASSUME NEW r \in Requests, NEW l \in Logins, Commit(r, l) PROVE row'[k] # NoGrant
  <2>1. q # r /\ login[q] = k /\ pc[q] = "update"
    BY <1>3 DEF Commit, Leave
  <2>2. k # l
    BY <1>3, <2>1 DEF Commit
  <2> QED
    BY <1>3, <2>1, <2>2 DEF Commit
<1>4. CASE ~ \E r \in Requests : \/ RequestStep(r)
                                 \/ \E l \in Logins : Request(r, l) \/ Abort(r, l)
  <2>1. UNCHANGED <<pc, login>>
    BY <1>4, RequestsApart
  <2>2. rowLock[k] = q /\ phase[k] = "in" /\ row[k] # NoGrant
    BY <2>1
  <2>3. row'[k] = row[k] \/ rowLock[k] = None \/ Insert(k)
    BY <1>4, DeletionsWait
  <2> QED
    BY <2>2, <2>3 DEF Insert
<1> HIDE DEF AtomicInv, IInv, TypeOK, RequestsHold, UpdatesStored
<1> QED
  BY <1>1, <1>2, <1>3, <1>4 DEF RequestStep

\* A logout revokes only what it removed.
LEMMA RevokesRemovedStep == AtomicInv /\ [Next]_vars => RevokesRemoved'
<1> SUFFICES ASSUME AtomicInv, [Next]_vars, NEW k \in Logins, logout'[k] = "revoking"
             PROVE  deleted'[k] # NoGrant
  BY DEF RevokesRemoved
<1> USE DEF AtomicInv, IInv, TypeOK, RevokesRemoved, loginVars
<1>1. ASSUME NEW r \in Requests, NEW l \in Logins,
             RequestStep(r) \/ Request(r, l) \/ Abort(r, l)
      PROVE  deleted'[k] # NoGrant
  BY <1>1 DEF RequestStep, Request, Select, SelectForUpdate, LockTimeout, RefreshFails,
              Commit, Abort, Refresh
<1>2. CASE Initialize
  BY <1>2 DEF Initialize
<1>3. ASSUME NEW l \in Logins, NEW p \in Logins \cup {None}, Callback(l, p)
      PROVE  deleted'[k] # NoGrant
  BY <1>3 DEF Callback
<1>4. ASSUME NEW l \in Logins,
             CallbackStep(l) \/ Logout(l) \/ Revoke(l) \/ RevokeFails(l) \/ Expire(l) \/ Lapse(l)
      PROVE  deleted'[k] # NoGrant
  BY <1>4 DEF CallbackStep, Purge, Insert, ReplacePrevious, Logout, Revoke, RevokeFails,
              Expire, Lapse
<1>5. ASSUME NEW l \in Logins, Delete(l) PROVE deleted'[k] # NoGrant
  BY <1>5 DEF Delete
<1>6. CASE UNCHANGED vars
  BY <1>6 DEF vars
<1> HIDE DEF AtomicInv, IInv, TypeOK, RevokesRemoved
<1> QED
  BY <1>1, <1>2, <1>3, <1>4, <1>5, <1>6 DEF Next, LogoutStep

LEMMA AtomicInvariant == Spec => []AtomicInv
<1>1. Init => RefreshesNeeded /\ UpdatesStored /\ RevokesRemoved
  BY DEF Init, RefreshesNeeded, UpdatesStored, RevokesRemoved
<1>2. IInv /\ IInv' /\ RefreshesNeeded /\ UpdatesStored /\ RevokesRemoved /\ [Next]_vars
        => (RefreshesNeeded /\ UpdatesStored /\ RevokesRemoved)'
  BY RefreshesNeededStep, UpdatesStoredStep, RevokesRemovedStep DEF AtomicInv
<1>3. Spec => [](RefreshesNeeded /\ UpdatesStored /\ RevokesRemoved)
  BY <1>1, <1>2, Inductive, PTL DEF Spec
<1> QED
  BY <1>3, Inductive, PTL DEF AtomicInv

(* Where a login's grant is: with the request whose UPDATE is awaited, and *)
(* in the row when there is none.                                          *)
LEMMA GrantInHand ==
  ASSUME TypeOK, RequestsHold, NEW r \in Requests, login[r] # None, pc[r] = "update"
  PROVE  Held[login[r]] = tokens[r] /\ Before[login[r]] = row[login[r]]
  BY NullsAssumption DEF TypeOK, RequestsHold, Holding, Unsettled, Held, Before

LEMMA GrantInRow ==
  ASSUME TypeOK, RequestsHold, NEW l \in Logins,
         \A r \in Requests : login[r] = l => pc[r] # "update"
  PROVE  Held[l] = row[l] /\ Before[l] = NoGrant
  BY NullsAssumption DEF TypeOK, RequestsHold, Holding, Unsettled, Held, Before

\* The same after a step.
LEMMA GrantInHandNext ==
  ASSUME TypeOK', RequestsHold', NEW r \in Requests, login'[r] # None, pc'[r] = "update"
  PROVE  Held'[login'[r]] = tokens'[r] /\ Before'[login'[r]] = row'[login'[r]]
  BY NullsAssumption DEF TypeOK, RequestsHold, Holding, Unsettled, Held, Before

LEMMA GrantInRowNext ==
  ASSUME TypeOK', RequestsHold', NEW l \in Logins,
         \A r \in Requests : login'[r] = l => pc'[r] # "update"
  PROVE  Held'[l] = row'[l] /\ Before'[l] = NoGrant
  BY NullsAssumption DEF TypeOK, RequestsHold, Holding, Unsettled, Held, Before

\* A step that changes neither a login's row nor its UPDATE keeps its grant.
LEMMA GrantKept ==
  ASSUME TypeOK, TypeOK', RequestsHold, RequestsHold', NEW l \in Logins, row'[l] = row[l],
         \A r \in Requests : login[r] = l /\ pc[r] = "update"
                               <=> login'[r] = l /\ pc'[r] = "update",
         \A r \in Requests : login[r] = l /\ pc[r] = "update" => tokens'[r] = tokens[r]
  PROVE  Held'[l] = Held[l] /\ Before'[l] = Before[l]
<1>1. CASE \E r \in Requests : login[r] = l /\ pc[r] = "update"
  BY <1>1, NullsAssumption, GrantInHand, GrantInHandNext
<1>2. CASE ~ \E r \in Requests : login[r] = l /\ pc[r] = "update"
  BY <1>2, GrantInRow, GrantInRowNext
<1> QED
  BY <1>1, <1>2

\* Held and Before are functions on the logins.
LEMMA GrantFunctions ==
  /\ Held = [l \in Logins |-> Held[l]] /\ Held' = [l \in Logins |-> Held'[l]]
  /\ Before = [l \in Logins |-> Before[l]] /\ Before' = [l \in Logins |-> Before'[l]]
  BY DEF Held, Before

LEMMA GrantsKept ==
  ASSUME TypeOK, TypeOK', RequestsHold, RequestsHold', row' = row,
         \A r \in Requests : pc'[r] = "update" <=> pc[r] = "update",
         \A r \in Requests : pc[r] = "update" => login'[r] = login[r] /\ tokens'[r] = tokens[r]
  PROVE  Held' = Held /\ Before' = Before
<1>1. \A l \in Logins : Held'[l] = Held[l] /\ Before'[l] = Before[l]
  BY GrantKept
<1> QED
  BY <1>1, GrantFunctions

\* A DELETE of rows that nobody has locked.
LEMMA RowsDeleted ==
  ASSUME TypeOK, TypeOK', RequestsHold, RequestsHold', UNCHANGED requestVars,
         NEW gone \in SUBSET Logins, \A l \in gone : rowLock[l] = None,
         row' = [l \in Logins |-> IF l \in gone THEN NoGrant ELSE row[l]]
  PROVE  /\ \A l \in gone : Before[l] = NoGrant /\ Held[l] = row[l]
         /\ Held' = [l \in Logins |-> IF l \in gone THEN NoGrant ELSE Held[l]]
         /\ Before' = Before
<1>1. ASSUME NEW l \in gone
      PROVE  /\ Before[l] = NoGrant /\ Held[l] = row[l]
             /\ Before'[l] = NoGrant /\ Held'[l] = NoGrant
  <2>1. \A r \in Requests : login[r] = l => pc[r] # "update"
    BY <1>1, NullsAssumption DEF RequestsHold, Holding
  <2>2. \A r \in Requests : login'[r] = l => pc'[r] # "update"
    BY <2>1 DEF requestVars
  <2>3. row'[l] = NoGrant
    BY <1>1
  <2> QED
    BY <1>1, <2>1, <2>2, <2>3, GrantInRow, GrantInRowNext
<1>2. ASSUME NEW l \in Logins, l \notin gone PROVE Held'[l] = Held[l] /\ Before'[l] = Before[l]
  <2>1. row'[l] = row[l]
    BY <1>2
  <2> QED
    BY <2>1, GrantKept DEF requestVars
<1> QED
  BY <1>1, <1>2, GrantFunctions

(* The answer of the provider replaces the grant: it was the row that the  *)
(* request has locked, and is now what the request will store.             *)
LEMMA RefreshIsAtomic ==
  ASSUME AtomicInv, TypeOK', RequestsHold',
         NEW r \in Requests, NEW l \in Logins, Refresh(r, l)
  PROVE  Atomic!RefreshGrant(l)
<1> USE NullsAssumption DEF AtomicInv, IInv
<1>1. /\ login[r] = l /\ pc[r] = "refresh" /\ row' = row /\ login' = login
      /\ pc' = [pc EXCEPT ![r] = "update"] /\ UNCHANGED <<rowLock, deleted>>
      /\ issued' = [issued EXCEPT ![l] = @ + 1]
      /\ fresh' = [fresh EXCEPT ![l] = TRUE]
      /\ tokens[r].refresh = valid[l]
  BY DEF Refresh, loginVars
<1>2. row[l] # NoGrant /\ tokens[r] = row[l] /\ ~Usable(l, tokens[r]) /\ valid[l] # NoToken
  BY <1>1 DEF RefreshesStored, RefreshesNeeded
<1>3. Held[l] = row[l] /\ Before[l] = NoGrant
  <2>1. \A q \in Requests : login[q] = l => pc[q] # "update"
    BY <1>1 DEF RequestsHold, Holding
  <2> QED
    BY <2>1, GrantInRow
<1>4. PICK token \in {issued[l] + 1, valid[l]} :
        /\ valid' = [valid EXCEPT ![l] = token]
        /\ tokens' = [tokens EXCEPT ![r] = [access |-> issued[l] + 1, refresh |-> token]]
  BY <1>1 DEF Refresh, KeptRefresh, TypeOK
<1>5. /\ Held'[l] = [access |-> issued[l] + 1, refresh |-> token]
      /\ Before'[l] = Held[l]
  <2>1. pc'[r] = "update" /\ login'[r] = l /\ l # None
    BY <1>1 DEF TypeOK
  <2>2. tokens'[r] = [access |-> issued[l] + 1, refresh |-> token] /\ row'[l] = row[l]
    BY <1>1, <1>4 DEF TypeOK
  <2> QED
    BY <1>3, <2>1, <2>2, GrantInHandNext
<1>6. \A k \in Logins : k # l => Held'[k] = Held[k] /\ Before'[k] = Before[k]
  <2> SUFFICES ASSUME NEW k \in Logins, k # l
               PROVE  Held'[k] = Held[k] /\ Before'[k] = Before[k]
    OBVIOUS
  <2>1. \A q \in Requests : login[q] = k => q # r /\ pc'[q] = pc[q] /\ tokens'[q] = tokens[q]
    BY <1>1, <1>4 DEF TypeOK
  <2> QED
    BY <1>1, <2>1, GrantKept
<1>7. /\ Held' = [Held EXCEPT ![l] = [access |-> issued[l] + 1, refresh |-> token]]
      /\ Before' = [Before EXCEPT ![l] = Held[l]]
  BY <1>5, <1>6, GrantFunctions
<1> QED
  BY <1>1, <1>2, <1>3, <1>4, <1>7 DEF Atomic!RefreshGrant, Usable

(* The UPDATE stores what the login already has.                           *)
LEMMA CommitIsAtomic ==
  ASSUME AtomicInv, TypeOK', RequestsHold',
         NEW r \in Requests, NEW l \in Logins, Commit(r, l)
  PROVE  Atomic!Settle(l)
<1> USE NullsAssumption DEF AtomicInv, IInv
<1>1. /\ login[r] = l /\ pc[r] = "update" /\ row[l] # NoGrant
      /\ row' = [row EXCEPT ![l] = tokens[r]] /\ Leave(r)
      /\ UNCHANGED <<deleted, issued, fresh, valid>>
  BY DEF Commit, UpdatesStored, loginVars, providerVars
<1>2. Held[l] = tokens[r]
  BY <1>1, GrantInHand
<1>3. Held'[l] = tokens[r] /\ Before'[l] = NoGrant
  <2>1. \A q \in Requests : login'[q] = l => pc'[q] # "update"
    BY <1>1 DEF Leave, RequestsHold, Holding, TypeOK
  <2>2. row'[l] = tokens[r]
    BY <1>1 DEF TypeOK
  <2> QED
    BY <2>1, <2>2, GrantInRowNext
<1>4. \A k \in Logins : k # l => Held'[k] = Held[k] /\ Before'[k] = Before[k]
  <2> SUFFICES ASSUME NEW k \in Logins, k # l
               PROVE  Held'[k] = Held[k] /\ Before'[k] = Before[k]
    OBVIOUS
  <2>1. row'[k] = row[k]
    BY <1>1 DEF TypeOK
  <2>2. \A q \in Requests :
          \/ q = r /\ login[q] # k /\ login'[q] # k
          \/ login'[q] = login[q] /\ pc'[q] = pc[q] /\ tokens'[q] = tokens[q]
    BY <1>1 DEF TypeOK, Leave
  <2> QED
    BY <2>1, <2>2, GrantKept
<1>5. Held' = Held /\ Before' = [Before EXCEPT ![l] = NoGrant]
  BY <1>2, <1>3, <1>4, GrantFunctions
<1> QED
  BY <1>1, <1>5 DEF Atomic!Settle

(* A request that ends before its UPDATE loses what it refreshed, if       *)
(* anything, and the login has the row again.                              *)
LEMMA AbortIsAtomic ==
  ASSUME AtomicInv, TypeOK', RequestsHold',
         NEW r \in Requests, NEW l \in Logins, Abort(r, l), pc[r] = "update"
  PROVE  Atomic!Lose(l)
<1> USE NullsAssumption DEF AtomicInv, IInv
<1>1. /\ Aborts /\ login[r] = l /\ row' = row /\ Leave(r) /\ row[l] # NoGrant
      /\ UNCHANGED <<deleted, issued, fresh, valid>>
  BY DEF Abort, UpdatesStored, loginVars, providerVars
<1>2. Before[l] = row[l]
  BY <1>1, GrantInHand
<1>3. Held'[l] = row[l] /\ Before'[l] = NoGrant
  <2>1. \A q \in Requests : login'[q] = l => pc'[q] # "update"
    BY <1>1 DEF Leave, RequestsHold, Holding, TypeOK
  <2> QED
    BY <1>1, <2>1, GrantInRowNext
<1>4. \A k \in Logins : k # l => Held'[k] = Held[k] /\ Before'[k] = Before[k]
  <2> SUFFICES ASSUME NEW k \in Logins, k # l
               PROVE  Held'[k] = Held[k] /\ Before'[k] = Before[k]
    OBVIOUS
  <2>1. \A q \in Requests :
          \/ q = r /\ login[q] # k /\ login'[q] # k
          \/ login'[q] = login[q] /\ pc'[q] = pc[q] /\ tokens'[q] = tokens[q]
    BY <1>1 DEF TypeOK, Leave
  <2> QED
    BY <1>1, <2>1, GrantKept
<1>5. Held' = [Held EXCEPT ![l] = Before[l]] /\ Before' = [Before EXCEPT ![l] = NoGrant]
  BY <1>2, <1>3, <1>4, GrantFunctions
<1> QED
  BY <1>1, <1>2, <1>5 DEF Atomic!Lose

(* save's INSERT is the sign-in: before it the login has no grant, and no  *)
(* request asks for one.                                                   *)
LEMMA InsertIsAtomic ==
  ASSUME AtomicInv, TypeOK', RequestsHold', NEW l \in Logins, Insert(l)
  PROVE  Atomic!SignIn(l)
<1> USE NullsAssumption DEF AtomicInv, IInv
<1>1. PICK refresh \in {0, NoToken} :
        /\ row' = [row EXCEPT ![l] = [access |-> 0, refresh |-> refresh]]
        /\ valid' = [valid EXCEPT ![l] = refresh]
  BY DEF Insert
<1>2. /\ phase[l] = "inserting" /\ row[l] = NoGrant /\ issued[l] = 0
      /\ UNCHANGED <<pc, login, tokens, deleted, issued, fresh>>
  BY DEF Insert, LoginsBegin, requestVars
<1>3. \A r \in Requests : login[r] = l => pc[r] # "update"
  BY <1>2 DEF RequestsHold, TypeOK
<1>4. Held[l] = NoGrant /\ Before[l] = NoGrant
  BY <1>2, <1>3, GrantInRow
<1>5. Held'[l] = [access |-> 0, refresh |-> refresh] /\ Before'[l] = NoGrant
  <2>1. row'[l] = [access |-> 0, refresh |-> refresh]
    BY <1>1 DEF TypeOK
  <2> QED
    BY <1>2, <1>3, <2>1, GrantInRowNext
<1>6. \A k \in Logins : k # l => Held'[k] = Held[k] /\ Before'[k] = Before[k]
  <2> SUFFICES ASSUME NEW k \in Logins, k # l
               PROVE  Held'[k] = Held[k] /\ Before'[k] = Before[k]
    OBVIOUS
  <2>1. row'[k] = row[k]
    BY <1>1 DEF TypeOK
  <2> QED
    BY <1>2, <2>1, GrantKept
<1>7. /\ Held' = [Held EXCEPT ![l] = [access |-> 0, refresh |-> refresh]]
      /\ Before' = Before
  BY <1>4, <1>5, <1>6, GrantFunctions
<1> QED
  BY <1>1, <1>2, <1>4, <1>7 DEF Atomic!SignIn

(* The statements that delete rows, each on rows that nobody has locked.   *)
LEMMA ExpiredAreDiscarded ==
  ASSUME AtomicInv, TypeOK', RequestsHold', DeleteExpired,
         UNCHANGED <<requestVars, deleted, providerVars>>
  PROVE  Atomic!Discard(lapsed)
<1> USE DEF AtomicInv, IInv
<1>1. lapsed \in SUBSET Logins
  BY DEF TypeOK
<1> QED
  BY <1>1, RowsDeleted DEF DeleteExpired, Atomic!Discard, providerVars

LEMMA PreviousIsDiscarded ==
  ASSUME AtomicInv, TypeOK', RequestsHold', NEW l \in Logins, ReplacePrevious(l)
  PROVE  Atomic!Discard({previous[l]} \cap Logins)
<1> USE NullsAssumption DEF AtomicInv, IInv
<1> DEFINE gone == {previous[l]} \cap Logins
<1>1. /\ gone \in SUBSET Logins /\ \A k \in gone : rowLock[k] = None
      /\ UNCHANGED <<requestVars, deleted, providerVars>>
  BY DEF ReplacePrevious
<1>2. row' = [k \in Logins |-> IF k \in gone THEN NoGrant ELSE row[k]]
  <2>1. row \in [Logins -> Grants \cup {NoGrant}] /\ previous[l] \in Logins \cup {None}
    BY DEF TypeOK
  <2>2. CASE previous[l] = None
    BY <2>1, <2>2 DEF ReplacePrevious
  <2>3. CASE previous[l] # None
    BY <2>1, <2>3 DEF ReplacePrevious
  <2> QED
    BY <2>2, <2>3
<1>3. /\ \A k \in gone : Before[k] = NoGrant /\ Held[k] = row[k]
      /\ Held' = [k \in Logins |-> IF k \in gone THEN NoGrant ELSE Held[k]]
      /\ Before' = Before
  <2> HIDE DEF gone
  <2> QED
    BY <1>1, <1>2, RowsDeleted
<1> QED
  BY <1>1, <1>3 DEF Atomic!Discard, providerVars

LEMMA DeleteIsAtomic ==
  ASSUME AtomicInv, TypeOK', RequestsHold', NEW l \in Logins, Delete(l)
  PROVE  Atomic!Remove(l)
<1> USE DEF AtomicInv, IInv
<1> DEFINE gone == {l}
<1>1. /\ gone \in SUBSET Logins /\ \A k \in gone : rowLock[k] = None
      /\ UNCHANGED <<requestVars, providerVars>>
      /\ deleted' = [deleted EXCEPT ![l] = row[l]]
  BY DEF Delete
<1>2. row' = [k \in Logins |-> IF k \in gone THEN NoGrant ELSE row[k]]
  BY DEF Delete, TypeOK
<1>3. /\ \A k \in gone : Before[k] = NoGrant /\ Held[k] = row[k]
      /\ Held' = [k \in Logins |-> IF k \in gone THEN NoGrant ELSE Held[k]]
      /\ Before' = Before
  <2> HIDE DEF gone
  <2> QED
    BY <1>1, <1>2, RowsDeleted
<1>4. Held' = [Held EXCEPT ![l] = NoGrant]
  BY <1>3, GrantFunctions
<1> QED
  BY <1>1, <1>3, <1>4 DEF Atomic!Remove, providerVars

(* Every step of a worker, a route or the time is a step of that one value *)
(* or leaves it as it is.                                                  *)
LEMMA GrantStep ==
  ASSUME AtomicInv, AtomicInv', [Next]_vars
  PROVE  [Atomic!GrantNext]_(Atomic!grantVars)
<1> USE NullsAssumption DEF AtomicInv, IInv, requestVars, loginVars, providerVars
<1>1. ASSUME Held' = Held, Before' = Before, UNCHANGED <<deleted, issued, fresh, valid>>
      PROVE  UNCHANGED Atomic!grantVars
  BY <1>1 DEF Atomic!grantVars
<1>2. ASSUME UNCHANGED <<row, pc, login, tokens>> PROVE Held' = Held /\ Before' = Before
  BY <1>2, GrantsKept
<1>3. ASSUME NEW r \in Requests, NEW l \in Logins,
             \/ Request(r, l) \/ Select(r, l) \/ SelectForUpdate(r, l)
             \/ LockTimeout(r, l) \/ RefreshFails(r, l)
             \/ Abort(r, l) /\ pc[r] # "update"
      PROVE  UNCHANGED Atomic!grantVars
  <2>1. row' = row /\ UNCHANGED <<deleted, issued, fresh, valid>>
    BY <1>3 DEF Request, Select, SelectForUpdate, LockTimeout, RefreshFails, Abort
  <2>2. /\ pc[r] # "update" /\ pc'[r] # "update"
        /\ \A q \in Requests : q # r =>
             pc'[q] = pc[q] /\ login'[q] = login[q] /\ tokens'[q] = tokens[q]
    BY <1>3 DEF TypeOK, Leave, Request, Select, SelectForUpdate, LockTimeout, RefreshFails, Abort
  <2> QED
    BY <1>1, <2>1, <2>2, GrantsKept
<1>4. ASSUME NEW l \in Logins, NEW p \in Logins \cup {None},
             Callback(l, p) \/ Logout(l) \/ RevokeFails(l) \/ Lapse(l)
      PROVE  UNCHANGED Atomic!grantVars
  BY <1>1, <1>2, <1>4 DEF Callback, Logout, RevokeFails, Lapse
<1>5. ASSUME NEW r \in Requests, NEW l \in Logins, Refresh(r, l) PROVE Atomic!GrantNext
  BY <1>5, RefreshIsAtomic DEF Atomic!GrantNext
<1>6. ASSUME NEW r \in Requests, NEW l \in Logins, Commit(r, l) PROVE Atomic!GrantNext
  BY <1>6, CommitIsAtomic DEF Atomic!GrantNext
<1>7. ASSUME NEW r \in Requests, NEW l \in Logins, Abort(r, l), pc[r] = "update"
      PROVE  Atomic!GrantNext
  BY <1>7, AbortIsAtomic DEF Atomic!GrantNext
<1>8. ASSUME Initialize \/ \E l \in Logins : Purge(l) PROVE Atomic!GrantNext
  <2>1. DeleteExpired /\ UNCHANGED <<pc, login, tokens, deleted, issued, fresh, valid>>
    BY <1>8 DEF Initialize, Purge
  <2>2. lapsed \in SUBSET Logins
    BY DEF TypeOK
  <2> QED
    BY <2>1, <2>2, ExpiredAreDiscarded DEF Atomic!GrantNext
<1>9. ASSUME NEW l \in Logins, Insert(l) PROVE Atomic!GrantNext
  BY <1>9, InsertIsAtomic DEF Atomic!GrantNext
<1>10. ASSUME NEW l \in Logins, ReplacePrevious(l) PROVE Atomic!GrantNext
  BY <1>10, PreviousIsDiscarded DEF Atomic!GrantNext
<1>11. ASSUME NEW l \in Logins, Delete(l) PROVE Atomic!GrantNext
  BY <1>11, DeleteIsAtomic DEF Atomic!GrantNext
<1>12. ASSUME NEW l \in Logins, Revoke(l)
       PROVE  Atomic!GrantNext \/ UNCHANGED Atomic!grantVars
  <2>1. /\ UNCHANGED <<row, pc, login, tokens, deleted, issued, fresh>>
        /\ deleted[l] # NoGrant
    BY <1>12 DEF Revoke, RevokesRemoved
  <2>2. CASE deleted[l].refresh = valid[l]
    <3>1. Atomic!RevokeRemoved(l)
      BY <1>2, <1>12, <2>1, <2>2 DEF Revoke, Atomic!RevokeRemoved
    <3> QED
      BY <3>1 DEF Atomic!GrantNext
  <2>3. CASE deleted[l].refresh # valid[l]
    BY <1>1, <1>2, <1>12, <2>1, <2>3 DEF Revoke
  <2> QED
    BY <2>2, <2>3
<1>13. ASSUME NEW l \in Logins, Expire(l) PROVE Atomic!GrantNext
  <2>1. Atomic!Age(l)
    BY <1>2, <1>13 DEF Expire, Atomic!Age
  <2> QED
    BY <2>1 DEF Atomic!GrantNext
<1>14. CASE UNCHANGED vars
  BY <1>1, <1>2, <1>14 DEF vars
<1> HIDE DEF AtomicInv, IInv
<1> QED
  BY <1>3, <1>4, <1>5, <1>6, <1>7, <1>8, <1>9, <1>10, <1>11, <1>12, <1>13, <1>14
  DEF Next, RequestStep, CallbackStep, LogoutStep

(* Workers, locks, timeouts, aborts, logins and logouts included, the      *)
(* grant of a login is one value that a refresh replaces in one step, that *)
(* is discarded only between refreshes, and of which only what a logout    *)
(* removed is revoked (tokens.py:116, tokens.py:103).                      *)
THEOREM GrantsAreAtomic == Spec => ImplementsAtomicGrants
<1>1. Init => Atomic!GrantInit
  BY DEF Init, Atomic!GrantInit, Held, Before, Unsettled
<1>2. AtomicInv /\ AtomicInv' /\ [Next]_vars => [Atomic!GrantNext]_(Atomic!grantVars)
  BY GrantStep
<1>3. Spec => Atomic!GrantInit /\ [][Atomic!GrantNext]_(Atomic!grantVars)
  BY <1>1, <1>2, AtomicInvariant, PTL DEF Spec
<1> QED
  BY <1>3 DEF ImplementsAtomicGrants, Atomic!GrantSpec
=============================================================================

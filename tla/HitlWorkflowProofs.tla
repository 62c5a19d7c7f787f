-------------------------- MODULE HitlWorkflowProofs --------------------------
(***************************************************************************)
(* Proofs about HitlWorkflow for every set of sessions and turns, any      *)
(* number of reviews and restarts, and every choice of Inline and Events.  *)
(***************************************************************************)
EXTENDS HitlWorkflow, TLAPS

(* Updating one entry of a table of tables keeps its type: the shape of    *)
(* every change a step makes to ledger, handler and task.                  *)
LEMMA TableUpdate ==
  ASSUME NEW A, NEW B, NEW C, NEW f \in [A -> [B -> C]],
         NEW a \in A, NEW b \in B, NEW v \in C
  PROVE  [f EXCEPT ![a][b] = v] \in [A -> [B -> C]]
  OBVIOUS

(* Every step keeps the types: one case per action.                        *)
LEMMA TypeStep == TypeOK /\ [Next]_vars => TypeOK'
<1> SUFFICES ASSUME TypeOK, [Next]_vars PROVE TypeOK'
  OBVIOUS
<1>a. /\ "created" \in TaskStates /\ "announcing" \in TaskStates
      /\ "blocked" \in TaskStates /\ "requesting" \in TaskStates
      /\ "publishing" \in TaskStates /\ "notice" \in TaskStates
      /\ "cancelled" \in TaskStates /\ "over" \in TaskStates
      /\ "none" \in TaskStates
  BY DEF TaskStates
<1>b. /\ "idle" \in HandlerStates /\ "updating" \in HandlerStates
      /\ "removing" \in HandlerStates /\ "done" \in HandlerStates
  BY DEF HandlerStates
<1>c. "absent" \in LedgerStates /\ "pending" \in LedgerStates /\ Closed \subseteq LedgerStates
  BY DEF LedgerStates
<1>d. Turns \subseteq Tasks /\ Reviews \subseteq Tasks
  BY DEF Tasks
<1>e. crashes \in Runs /\ \A r \in Reviews : continued[crashes][r] + 1 \in Nat
  BY DEF TypeOK, Runs
<1> USE BoundsAssumption, <1>a, <1>b, <1>c, <1>d DEF TypeOK
<1>1. ASSUME NEW s \in Sessions, Open(s) PROVE TypeOK'
  BY <1>1 DEF Open
<1>2. ASSUME NEW s \in Sessions, NEW t \in Turns, SendTurn(s, t) PROVE TypeOK'
  BY <1>2 DEF SendTurn
<1>3. ASSUME NEW s \in Sessions, NEW r \in Reviews, NEW outcome \in Closed,
             Submit(s, r, outcome)
      PROVE  TypeOK'
  BY <1>3 DEF Submit, Close, SetLedger, NormalizeCreatedAt
<1>4. ASSUME NEW s \in Sessions, Stop(s) PROVE TypeOK'
  <2>1. PICK k \in Tasks : \E v \in {"over", "cancelled"} : task' = [task EXCEPT ![s][k] = v]
    BY <1>4 DEF Stop
  <2>2. task' \in [Sessions -> [Tasks -> TaskStates]]
    BY <2>1, TableUpdate
  <2>3. UNCHANGED <<live, ledger, naive, unsaved, stored, handler,
                  current, loading, asked, continued, crashes>>
    BY <1>4 DEF Stop
  <2> QED
    BY <2>2, <2>3
<1>5. ASSUME NEW s \in Sessions, Reconnect(s) PROVE TypeOK'
  BY <1>5 DEF Reconnect
<1>6. ASSUME NEW s \in Sessions, NEW r \in Reviews, Save(s, r) PROVE TypeOK'
  <2>1. stored' \in [Reviews -> LedgerStates] /\ unsaved' \in [Sessions -> SUBSET Reviews]
    BY <1>6 DEF Save
  <2> QED
    BY <1>6, <2>1 DEF Save
<1>7. ASSUME NEW s \in Sessions, NEW r \in Reviews,
             MessageUpdated(s, r) \/ UpdateFails(s, r)
      PROVE  TypeOK'
  <2>1. handler' \in [Sessions -> [Reviews -> HandlerStates]]
    <3>1. [handler EXCEPT ![s][r] = "removing"] \in [Sessions -> [Reviews -> HandlerStates]]
      BY TableUpdate
    <3>2. [handler EXCEPT ![s][r] = "done"] \in [Sessions -> [Reviews -> HandlerStates]]
      BY TableUpdate
    <3> QED
      BY <1>7, <3>1, <3>2 DEF MessageUpdated, UpdateFails
  <2>2. UNCHANGED <<live, ledger, naive, unsaved, stored, task,
                  current, loading, asked, continued, crashes>>
    BY <1>7 DEF MessageUpdated, UpdateFails
  <2> QED
    BY <2>1, <2>2
<1>8. ASSUME NEW s \in Sessions, NEW r \in Reviews, ControlRemoved(s, r)
      PROVE  TypeOK'
  <2>1. handler' \in [Sessions -> [Reviews -> HandlerStates]]
    <3>1. [handler EXCEPT ![s][r] = "done"] \in [Sessions -> [Reviews -> HandlerStates]]
      BY TableUpdate
    <3> QED
      BY <1>8, <3>1 DEF ControlRemoved
  <2>2. task' \in [Sessions -> [Tasks -> TaskStates]]
    <3>1. [task EXCEPT ![s][r] = "requesting"] \in [Sessions -> [Tasks -> TaskStates]]
      BY TableUpdate
    <3>2. [task EXCEPT ![s][r] = "created"] \in [Sessions -> [Tasks -> TaskStates]]
      BY TableUpdate
    <3> QED
      BY <1>8, <3>1, <3>2 DEF ControlRemoved
  <2>3. /\ current' \in [Sessions -> Tasks \cup {NoTask}]
        /\ continued' \in [Runs -> [Reviews -> Nat]]
    <3>1. r \in Tasks
      OBVIOUS
    <3>2. current' = current \/ current' = [current EXCEPT ![s] = r]
      BY <1>8 DEF ControlRemoved
    <3>3. \/ continued' = continued
          \/ continued' = [continued EXCEPT ![crashes][r] = continued[crashes][r] + 1]
      BY <1>8 DEF ControlRemoved
    <3>4. [current EXCEPT ![s] = r] \in [Sessions -> Tasks \cup {NoTask}]
      BY <3>1
    <3>5. [continued EXCEPT ![crashes][r] = continued[crashes][r] + 1]
            \in [Runs -> [Reviews -> Nat]]
      BY <1>e, TableUpdate
    <3> QED
      BY <3>2, <3>3, <3>4, <3>5
  <2>4. UNCHANGED <<live, ledger, naive, unsaved, stored, loading, asked, crashes>>
    BY <1>8 DEF ControlRemoved
  <2> QED
    BY <2>1, <2>2, <2>3, <2>4
<1>9. ASSUME NEW s \in Sessions, NEW k \in Tasks, Announce(s, k) PROVE TypeOK'
  <2>1. task' \in [Sessions -> [Tasks -> TaskStates]]
    BY <1>9, TableUpdate DEF Announce
  <2>2. loading' \in [Sessions -> BOOLEAN]
    BY <1>9 DEF Announce
  <2>3. UNCHANGED <<live, ledger, naive, unsaved, stored, handler,
                  current, asked, continued, crashes>>
    BY <1>9 DEF Announce
  <2> QED
    BY <2>1, <2>2, <2>3
<1>10. ASSUME NEW s \in Sessions, NEW t \in Turns, BeginTurn(s, t) PROVE TypeOK'
  <2>1. task' \in [Sessions -> [Tasks -> TaskStates]]
    BY <1>10, TableUpdate DEF BeginTurn
  <2>2. UNCHANGED <<live, ledger, naive, unsaved, stored, handler,
                  current, loading, asked, continued, crashes>>
    BY <1>10 DEF BeginTurn
  <2> QED
    BY <2>1, <2>2
<1>11. ASSUME NEW s \in Sessions, NEW r \in Reviews, BeginContinuation(s, r)
       PROVE  TypeOK'
  <2>1. task' \in [Sessions -> [Tasks -> TaskStates]]
    BY <1>11, TableUpdate DEF BeginContinuation
  <2>2. continued' \in [Runs -> [Reviews -> Nat]]
    BY <1>e, <1>11, TableUpdate DEF BeginContinuation
  <2>3. UNCHANGED <<live, ledger, naive, unsaved, stored, handler,
                  current, loading, asked, crashes>>
    BY <1>11 DEF BeginContinuation
  <2> QED
    BY <2>1, <2>2, <2>3
<1>12. ASSUME NEW s \in Sessions, NEW k \in Tasks, AskReview(s, k) PROVE TypeOK'
  <2>1. asked + 1 \in Reviews /\ asked' \in 0 .. MaxReviews
    BY <1>12 DEF AskReview, SetLedger, Reviews
  <2>2. ledger' \in [Sessions -> [Reviews -> LedgerStates]]
    BY <1>12, <2>1, TableUpdate DEF AskReview, SetLedger
  <2>3. task' \in [Sessions -> [Tasks -> TaskStates]]
    BY <1>12, TableUpdate DEF AskReview, SetLedger
  <2>4. unsaved' \in [Sessions -> SUBSET Reviews]
    BY <1>12, <2>1 DEF AskReview, SetLedger
  <2>5. UNCHANGED <<live, naive, stored, handler, current, loading, continued, crashes>>
    BY <1>12 DEF AskReview, SetLedger
  <2> QED
    BY <2>1, <2>2, <2>3, <2>4, <2>5
<1>13. ASSUME NEW s \in Sessions, NEW k \in Tasks,
              PublishFinal(s, k) \/ Fail(s, k) \/ Finish(s, k)
       PROVE  TypeOK'
  <2>1. task' \in [Sessions -> [Tasks -> TaskStates]]
    <3>1. \A v \in TaskStates :
            [task EXCEPT ![s][k] = v] \in [Sessions -> [Tasks -> TaskStates]]
      BY TableUpdate
    <3> QED
      <4>1. PICK v \in TaskStates : task' = [task EXCEPT ![s][k] = v]
        BY <1>13 DEF PublishFinal, Fail, Finish
      <4> QED
        BY <3>1, <4>1
  <2>2. loading' \in [Sessions -> BOOLEAN]
    BY <1>13 DEF PublishFinal, Fail, Finish
  <2>3. UNCHANGED <<live, ledger, naive, unsaved, stored, handler,
                  current, asked, continued, crashes>>
    BY <1>13 DEF PublishFinal, Fail, Finish
  <2> QED
    BY <2>1, <2>2, <2>3
<1>14. CASE Crash
  BY <1>14 DEF Crash
<1>15. CASE UNCHANGED vars
  BY <1>15 DEF vars
<1> HIDE DEF TypeOK
<1> QED
  BY <1>1, <1>2, <1>3, <1>4, <1>5, <1>6, <1>7, <1>8, <1>9, <1>10, <1>11, <1>12,
     <1>13, <1>14, <1>15
     DEF Next, UserNext, SubmissionNext, TaskNext

(* Every variable keeps its type: in particular a task never leaves the    *)
(* states of _run and process_message, and asked stays within its bound.   *)
THEOREM TypeCorrect == Spec => []TypeOK
<1>1. Init => TypeOK
  BY BoundsAssumption DEF Init, TypeOK, LedgerStates, HandlerStates, TaskStates,
                          Closed, Tasks, Reviews
<1> QED
  BY <1>1, TypeStep, PTL DEF Spec

-----------------------------------------------------------------------------
(* The inductive invariant that holds for any number of sessions and every *)
(* event.  It ties a continuation to the ledger its session recorded.      *)

\* A continuation exists only for a review its session holds as answered.
TaskAnswered ==
  \A s \in Sessions, r \in Reviews : task[s][r] # "none" => ledger[s][r] = "answered"

\* Nothing is known of a review before it is asked.
NothingBeforeAsked ==
  \A r \in Reviews : r > asked =>
    stored[r] = "absent" /\ \A s \in Sessions : ledger[s][r] = "absent"

\* A session that is not open has no task, no submission and no write.
NothingBeforeOpen ==
  \A s \in Sessions \ live :
    /\ unsaved[s] = {}
    /\ \A r \in Reviews : handler[s][r] = "idle"
    /\ \A k \in Tasks : task[s][k] = "none"

SessionInv == TypeOK /\ TaskAnswered /\ NothingBeforeAsked /\ NothingBeforeOpen

\* The invariant holds before any session opens.
LEMMA SessionInvInit == Init => SessionInv
  BY BoundsAssumption DEF Init, SessionInv, TypeOK, TaskAnswered, NothingBeforeAsked,
     NothingBeforeOpen, LedgerStates, HandlerStates, TaskStates, Closed, Tasks, Reviews

\* Every step of every session keeps it: one case per action.
LEMMA SessionInvStep == SessionInv /\ [Next]_vars => SessionInv'
<1>1. SessionInv /\ [Next]_vars => TypeOK'
  BY TypeStep DEF SessionInv
<1>2. SessionInv /\ [Next]_vars => (TaskAnswered /\ NothingBeforeAsked /\ NothingBeforeOpen)'
  <2> SUFFICES ASSUME SessionInv, [Next]_vars, TypeOK'
               PROVE  (TaskAnswered /\ NothingBeforeAsked /\ NothingBeforeOpen)'
    BY <1>1
  <2>a. /\ \A t \in Turns : t \in Tasks /\ t \notin Reviews
        /\ \A r \in Reviews : r \in Tasks /\ r \in Int
        /\ asked \in Int
    BY TurnsAssumption, BoundsAssumption DEF Tasks, Reviews, SessionInv, TypeOK
  <2> USE <2>a DEF SessionInv, TypeOK, TaskAnswered, NothingBeforeAsked, NothingBeforeOpen
  <2>1. ASSUME NEW s \in Sessions, Open(s)
        PROVE  (TaskAnswered /\ NothingBeforeAsked /\ NothingBeforeOpen)'
    BY <2>1 DEF Open
  <2>2. ASSUME NEW s \in Sessions, NEW t \in Turns, SendTurn(s, t)
        PROVE  (TaskAnswered /\ NothingBeforeAsked /\ NothingBeforeOpen)'
    BY <2>2 DEF SendTurn
  <2>3. ASSUME NEW s \in Sessions, NEW r \in Reviews, NEW outcome \in Closed,
               Submit(s, r, outcome)
        PROVE  (TaskAnswered /\ NothingBeforeAsked /\ NothingBeforeOpen)'
    BY <2>3 DEF Submit, Close, SetLedger, NormalizeCreatedAt, CurrentPending
  <2>4. ASSUME NEW s \in Sessions, Stop(s)
        PROVE  (TaskAnswered /\ NothingBeforeAsked /\ NothingBeforeOpen)'
    BY <2>4 DEF Stop, Active
  <2>5. ASSUME NEW s \in Sessions, Reconnect(s)
        PROVE  (TaskAnswered /\ NothingBeforeAsked /\ NothingBeforeOpen)'
    BY <2>5 DEF Reconnect
  <2>6. ASSUME NEW s \in Sessions, NEW r \in Reviews, Save(s, r)
        PROVE  (TaskAnswered /\ NothingBeforeAsked /\ NothingBeforeOpen)'
    BY <2>6 DEF Save
  <2>7. ASSUME NEW s \in Sessions, NEW r \in Reviews,
               MessageUpdated(s, r) \/ UpdateFails(s, r)
        PROVE  (TaskAnswered /\ NothingBeforeAsked /\ NothingBeforeOpen)'
    <3>1. /\ s \in live
          /\ \E v \in {"removing", "done"} : handler' = [handler EXCEPT ![s][r] = v]
      BY <2>7 DEF MessageUpdated, UpdateFails
    <3>2. UNCHANGED <<live, ledger, unsaved, stored, task, asked>>
      BY <2>7 DEF MessageUpdated, UpdateFails
    <3> QED
      BY <3>1, <3>2
  <2>8. ASSUME NEW s \in Sessions, NEW r \in Reviews, ControlRemoved(s, r)
        PROVE  (TaskAnswered /\ NothingBeforeAsked /\ NothingBeforeOpen)'
    <3>1. s \in live /\ handler' = [handler EXCEPT ![s][r] = "done"]
      BY <2>8 DEF ControlRemoved
    <3>2. \/ task' = task
          \/ /\ ledger[s][r] = "answered"
             /\ \E v \in {"requesting", "created"} : task' = [task EXCEPT ![s][r] = v]
      BY <2>8 DEF ControlRemoved, Continues
    <3>3. UNCHANGED <<live, ledger, unsaved, stored, asked>>
      BY <2>8 DEF ControlRemoved
    <3>7. \A s2 \in Sessions, k \in Tasks :
            \/ task'[s2][k] = task[s2][k]
            \/ s2 = s /\ k = r /\ ledger[s][r] = "answered"
      <4>1. CASE task' = task
        BY <4>1
      <4>2. ASSUME NEW v \in {"requesting", "created"}, ledger[s][r] = "answered",
                   task' = [task EXCEPT ![s][r] = v]
            PROVE  \A s2 \in Sessions, k \in Tasks :
                     \/ task'[s2][k] = task[s2][k]
                     \/ s2 = s /\ k = r /\ ledger[s][r] = "answered"
        BY <4>2
      <4> QED
        BY <3>2, <4>1, <4>2
    <3>4. TaskAnswered' /\ NothingBeforeAsked'
      <4>1. ASSUME NEW s2 \in Sessions, NEW q \in Reviews, task'[s2][q] # "none"
            PROVE  ledger'[s2][q] = "answered"
        <5>1. q \in Tasks
          OBVIOUS
        <5>2. task'[s2][q] = task[s2][q] \/ ledger[s2][q] = "answered"
          BY <3>7, <5>1
        <5> QED
          BY <3>3, <4>1, <5>2
      <4> QED
        BY <3>3, <4>1
    <3>5. \A s2 \in Sessions \ live, q \in Reviews : handler'[s2][q] = "idle"
      BY <3>1
    <3>6. \A s2 \in Sessions \ live, k \in Tasks : task'[s2][k] = "none"
      <4> SUFFICES ASSUME NEW s2 \in Sessions \ live, NEW k \in Tasks
                   PROVE  task'[s2][k] = "none"
        OBVIOUS
      <4>1. s2 \in Sessions /\ s2 # s /\ task[s2][k] = "none"
        BY <3>1
      <4> QED
        BY <3>7, <4>1
    <3> QED
      BY <3>3, <3>4, <3>5, <3>6
  <2>9. ASSUME NEW s \in Sessions, NEW k \in Tasks, Announce(s, k)
        PROVE  (TaskAnswered /\ NothingBeforeAsked /\ NothingBeforeOpen)'
    BY <2>9 DEF Announce
  <2>10. ASSUME NEW s \in Sessions, NEW t \in Turns, BeginTurn(s, t)
        PROVE  (TaskAnswered /\ NothingBeforeAsked /\ NothingBeforeOpen)'
    BY <2>10 DEF BeginTurn
  <2>11. ASSUME NEW s \in Sessions, NEW r \in Reviews, BeginContinuation(s, r)
        PROVE  (TaskAnswered /\ NothingBeforeAsked /\ NothingBeforeOpen)'
    BY <2>11 DEF BeginContinuation
  <2>12. ASSUME NEW s \in Sessions, NEW k \in Tasks, AskReview(s, k)
        PROVE  (TaskAnswered /\ NothingBeforeAsked /\ NothingBeforeOpen)'
    BY <2>12 DEF AskReview, SetLedger
  <2>13. ASSUME NEW s \in Sessions, NEW k \in Tasks,
               PublishFinal(s, k) \/ Fail(s, k) \/ Finish(s, k)
        PROVE  (TaskAnswered /\ NothingBeforeAsked /\ NothingBeforeOpen)'
    <3>1. /\ task[s][k] # "none"
          /\ \E v \in {"publishing", "notice", "over"} : task' = [task EXCEPT ![s][k] = v]
      BY <2>13 DEF PublishFinal, Fail, Finish
    <3>2. UNCHANGED <<live, ledger, unsaved, stored, handler, asked>>
      BY <2>13 DEF PublishFinal, Fail, Finish
    <3> QED
      BY <3>1, <3>2
  <2>14. CASE Crash
    BY <2>14 DEF Crash
  <2>15. CASE UNCHANGED vars
    BY <2>15 DEF vars
  <2> HIDE DEF SessionInv, TypeOK, TaskAnswered, NothingBeforeAsked, NothingBeforeOpen
  <2> QED
    BY <2>1, <2>2, <2>3, <2>4, <2>5, <2>6, <2>7, <2>8, <2>9, <2>10, <2>11, <2>12,
       <2>13, <2>14, <2>15
       DEF Next, UserNext, SubmissionNext, TaskNext
<1> QED
  BY <1>1, <1>2 DEF SessionInv

\* It holds of every behavior, with any sessions and events.
LEMMA SessionInvariant == Spec => []SessionInv
  BY SessionInvInit, SessionInvStep, PTL DEF Spec

(* A running continuation's session replays its review: a transcript built *)
(* meanwhile includes it (hitl.py:178-179), in every session, whatever the *)
(* user, the network, restarts and failed updates do.                      *)
THEOREM TranscriptComplete == Spec => []TranscriptIncludesReview
<1>1. SessionInv => TranscriptIncludesReview
  BY DEF SessionInv, TaskAnswered, TranscriptIncludesReview, Replayed
<1> QED
  BY <1>1, SessionInvariant, PTL

-----------------------------------------------------------------------------
(* A thread shown by one browser session at a time.                        *)

OneSession == \A s1, s2 \in Sessions : s1 = s2

\* What the data layer holds as closed, an open session holds the same way.
StoredInv == SessionInv /\ StoredCloseIsKnown

\* The steps that touch neither the open sessions nor any ledger.
LEMMA LedgerFrame ==
  ASSUME NEW s \in Sessions,
         \/ \E t \in Turns : SendTurn(s, t) \/ BeginTurn(s, t)
         \/ Stop(s) \/ Reconnect(s)
         \/ \E r \in Reviews : \/ MessageUpdated(s, r) \/ UpdateFails(s, r)
                              \/ ControlRemoved(s, r) \/ BeginContinuation(s, r)
         \/ \E k \in Tasks : \/ Announce(s, k) \/ PublishFinal(s, k)
                            \/ Fail(s, k) \/ Finish(s, k)
  PROVE  UNCHANGED <<live, ledger, stored>>
  BY DEF SendTurn, BeginTurn, Stop, Reconnect, MessageUpdated, UpdateFails,
         ControlRemoved, BeginContinuation, Announce, PublishFinal, Fail, Finish

\* Every step of the one session keeps what ties its ledger to the stored one.
LEMMA StoredInvStep ==
  ASSUME OneSession, StoredInv, [Next]_vars
  PROVE  StoredInv' /\ OutcomeStep
<1>1. SessionInv'
  BY SessionInvStep DEF StoredInv
<1>2. StoredCloseIsKnown' /\ OutcomeStep
  <2>a. /\ "pending" \notin Closed /\ "absent" \notin Closed
        /\ TypeOK /\ TypeOK' /\ NothingBeforeAsked /\ NothingBeforeOpen
        /\ StoredCloseIsKnown
        /\ \A r \in Reviews : r \in Int
        /\ asked \in Int
    BY <1>1, BoundsAssumption DEF Closed, StoredInv, SessionInv, Reviews, TypeOK
  <2> USE <2>a DEF StoredCloseIsKnown, OutcomeStep
  <2>1. ASSUME NEW s \in Sessions, Open(s) PROVE StoredCloseIsKnown' /\ OutcomeStep
    <3>1. /\ live = {} /\ live' = {s} /\ stored' = stored
          /\ ledger' = [ledger EXCEPT ![s] = stored]
      BY <2>1 DEF Open, OneSession, TypeOK
    <3>2. ledger'[s] = stored'
      BY <3>1 DEF TypeOK
    <3> QED
      BY <3>1, <3>2
  <2>2. ASSUME NEW s \in Sessions, NEW r \in Reviews, NEW outcome \in Closed,
               Submit(s, r, outcome)
        PROVE  StoredCloseIsKnown' /\ OutcomeStep
    <3>1. /\ s \in live /\ ledger[s][r] = "pending"
          /\ ledger' = [ledger EXCEPT ![s][r] = outcome]
          /\ UNCHANGED <<live, stored>>
      BY <2>2 DEF Submit, Close, SetLedger, NormalizeCreatedAt, CurrentPending
    <3>2. stored[r] \notin Closed
      BY <3>1
    <3> QED
      BY <3>1, <3>2 DEF TypeOK
  <2>3. ASSUME NEW s \in Sessions, NEW r \in Reviews, Save(s, r)
        PROVE  StoredCloseIsKnown' /\ OutcomeStep
    <3>1. /\ s \in live
          /\ stored' = stored \/ stored' = [stored EXCEPT ![r] = ledger[s][r]]
          /\ UNCHANGED <<live, ledger>>
      BY <2>3 DEF Save, NothingBeforeOpen
    <3>2. \A s2 \in live : s2 = s
      BY DEF OneSession, TypeOK
    <3>3. \A q \in Reviews : stored'[q] = stored[q] \/ stored'[q] = ledger[s][q]
      BY <3>1 DEF TypeOK
    <3>4. \A q \in Reviews : stored[q] \in Closed => stored'[q] = stored[q]
      BY <3>1, <3>3
    <3>5. \A q \in Reviews : stored'[q] \in Closed => ledger[s][q] = stored'[q]
      BY <3>1, <3>3
    <3> QED
      BY <3>1, <3>2, <3>4, <3>5
  <2>4. ASSUME NEW s \in Sessions, NEW k \in Tasks, AskReview(s, k)
        PROVE  StoredCloseIsKnown' /\ OutcomeStep
    <3>1. /\ asked + 1 \in Reviews
          /\ ledger' = [ledger EXCEPT ![s][asked + 1] = "pending"]
          /\ UNCHANGED <<live, stored>>
      BY <2>4, BoundsAssumption DEF AskReview, SetLedger, Reviews, TypeOK
    <3>2. /\ stored[asked + 1] = "absent"
          /\ \A s2 \in Sessions : ledger[s2][asked + 1] = "absent"
      BY <3>1 DEF NothingBeforeAsked
    <3> QED
      BY <3>1, <3>2 DEF TypeOK
  <2>5. CASE Crash
    BY <2>5 DEF Crash
  <2>6. CASE UNCHANGED <<live, ledger, stored>>
    BY <2>6
  <2> HIDE DEF StoredCloseIsKnown, OutcomeStep
  <2> QED
    BY <2>1, <2>2, <2>3, <2>4, <2>5, <2>6, LedgerFrame
       DEF Next, UserNext, SubmissionNext, TaskNext, vars
<1> QED
  BY <1>1, <1>2 DEF StoredInv

\* With one session the stored ledger never runs ahead of the chat context's.
LEMMA StoredInvariant == ASSUME OneSession PROVE Spec => []StoredInv
<1>1. Init => StoredInv
  BY SessionInvInit DEF StoredInv, StoredCloseIsKnown, Init, Closed
<1> QED
  BY <1>1, StoredInvStep, PTL DEF Spec

(* A review whose closed ledger reached the data layer is never open again *)
(* in the session that shows the thread, whatever restarts, reloads, late  *)
(* writes and repeated submissions follow.                                 *)
THEOREM StoredCloseSafe == ASSUME OneSession PROVE Spec => []StoredCloseIsKnown
<1>1. StoredInv => StoredCloseIsKnown
  BY DEF StoredInv
<1> QED
  BY <1>1, StoredInvariant, PTL

(* A recorded outcome is final, in the data layer and in the session.      *)
THEOREM OutcomeFinal == ASSUME OneSession PROVE Spec => OutcomeIsFinal
<1>1. StoredInv /\ [Next]_vars => [OutcomeStep]_vars
  BY StoredInvStep
<1> QED
  BY <1>1, StoredInvariant, PTL DEF Spec, OutcomeIsFinal

-----------------------------------------------------------------------------
(* In one run of the process the submission that closes a review is the    *)
(* only one that can resume it: until it has, this run has not continued   *)
(* the review.  A restart begins a run with no continuation at all.        *)

Resumed(r) == continued[crashes][r]

OpenNeverContinued ==
  \A s \in Sessions, r \in Reviews : ledger[s][r] \notin Closed =>
    handler[s][r] = "idle" /\ Resumed(r) = 0

ClosingNeverContinued ==
  \A s \in Sessions, r \in Reviews : handler[s][r] \in {"updating", "removing"} =>
    task[s][r] = "none" /\ Resumed(r) = 0

StartingNeverContinued ==
  \A s \in Sessions, r \in Reviews :
    task[s][r] \in {"none", "created", "announcing"} => Resumed(r) = 0

NothingContinuedBeforeOpen ==
  \A s \in Sessions \ live, r \in Reviews : Resumed(r) = 0

NothingContinuedLater ==
  \A n \in Runs, r \in Reviews : n > crashes => continued[n][r] = 0

ContinuedInv ==
  /\ SessionInv
  /\ OpenNeverContinued
  /\ ClosingNeverContinued
  /\ StartingNeverContinued
  /\ NothingContinuedBeforeOpen
  /\ NothingContinuedLater
  /\ AtMostOneContinuation

\* The states in which a continuation has not reached its request yet.
Starting == {"none", "created", "announcing"}

\* No continuation appears and none goes back to before its request.
TasksAdvance ==
  \A s \in Sessions, r \in Reviews :
    /\ task'[s][r] \in Starting => task[s][r] \in Starting
    /\ task[s][r] = "none" => task'[s][r] = "none"

\* The steps of a task other than those that ask or that resume a Response.
LEMMA TaskFrame ==
  ASSUME NEW s \in Sessions, TypeOK,
         \/ \E t \in Turns : SendTurn(s, t) \/ BeginTurn(s, t)
         \/ Stop(s)
         \/ \E k \in Tasks : \/ Announce(s, k) \/ PublishFinal(s, k)
                            \/ Fail(s, k) \/ Finish(s, k)
  PROVE  /\ TasksAdvance
         /\ UNCHANGED <<live, ledger, stored, handler, continued, crashes>>
<1>1. UNCHANGED <<live, ledger, stored, handler, continued, crashes>>
  BY DEF SendTurn, BeginTurn, Stop, Announce, PublishFinal, Fail, Finish
<1>2. PICK k \in Tasks, v \in TaskStates :
        /\ task' = [task EXCEPT ![s][k] = v]
        /\ k \in Reviews => task[s][k] # "none"
        /\ k \in Reviews /\ v \in Starting => task[s][k] \in Starting
  <2>1. CASE \E t \in Turns : SendTurn(s, t) \/ BeginTurn(s, t)
    BY <2>1, TurnsAssumption DEF SendTurn, BeginTurn, Tasks, TaskStates
  <2>2. CASE Stop(s)
    BY <2>2 DEF Stop, Active, TaskStates, Starting
  <2>3. CASE \E k \in Tasks : \/ Announce(s, k) \/ PublishFinal(s, k)
                            \/ Fail(s, k) \/ Finish(s, k)
    BY <2>3 DEF Announce, PublishFinal, Fail, Finish, TaskStates, Starting
  <2> QED
    BY <2>1, <2>2, <2>3
<1>3. \A s2 \in Sessions, q \in Tasks :
        task'[s2][q] = IF s2 = s /\ q = k THEN v ELSE task[s2][q]
  BY <1>2 DEF TypeOK
<1> QED
  BY <1>1, <1>2, <1>3 DEF TasksAdvance, Tasks

\* No review has been continued before any session opens.
LEMMA ContinuedInvInit == Init => ContinuedInv
<1> SUFFICES ASSUME Init PROVE ContinuedInv
  OBVIOUS
<1>1. /\ crashes \in Runs
      /\ \A n \in Runs, r \in Reviews : continued[n][r] = 0
  BY BoundsAssumption DEF Init, Runs
<1>2. \A s \in Sessions, r \in Reviews :
        ledger[s][r] = "absent" /\ handler[s][r] = "idle" /\ task[s][r] = "none"
  BY DEF Init, Tasks
<1> QED
  BY <1>1, <1>2, SessionInvInit DEF ContinuedInv, OpenNeverContinued,
     ClosingNeverContinued, StartingNeverContinued, NothingContinuedBeforeOpen,
     NothingContinuedLater, AtMostOneContinuation, Resumed, Closed

(* A step that resumes review r in the present run, which had not, keeps   *)
(* the history of the runs; every other step of a run leaves it alone.     *)
LEMMA HistoryStep ==
  ASSUME TypeOK, NothingContinuedLater, AtMostOneContinuation,
         NEW r \in Reviews, Resumed(r) = 0, crashes' = crashes,
         continued' = [continued EXCEPT ![crashes][r] = @ + 1]
  PROVE  /\ NothingContinuedLater' /\ AtMostOneContinuation'
         /\ Resumed(r)' = 1
         /\ \A q \in Reviews : q # r => Resumed(q)' = Resumed(q)
         /\ continued'[crashes] = [continued[crashes] EXCEPT ![r] = @ + 1]
<1>1. crashes \in Runs /\ crashes \in Int /\ Runs \subseteq Int
  BY BoundsAssumption DEF TypeOK, Runs
<1>2. \A n \in Runs, q \in Reviews :
        continued'[n][q] = IF n = crashes /\ q = r THEN continued[n][q] + 1
                           ELSE continued[n][q]
  BY <1>1 DEF TypeOK
<1>3. continued[crashes][r] = 0
  BY DEF Resumed
<1>4. continued'[crashes] = [continued[crashes] EXCEPT ![r] = @ + 1]
  BY <1>1 DEF TypeOK
<1>5. NothingContinuedLater'
  BY <1>1, <1>2 DEF NothingContinuedLater
<1>6. AtMostOneContinuation'
  BY <1>2, <1>3 DEF AtMostOneContinuation
<1> QED
  BY <1>1, <1>2, <1>3, <1>4, <1>5, <1>6 DEF Resumed

\* Every step of the one session, and a restart, keeps the count of continuations.
LEMMA ContinuedInvStep ==
  ASSUME OneSession, ContinuedInv, [Next]_vars
  PROVE  ContinuedInv'
<1> DEFINE Kept == /\ OpenNeverContinued' /\ ClosingNeverContinued'
                   /\ StartingNeverContinued' /\ NothingContinuedBeforeOpen'
                   /\ NothingContinuedLater' /\ AtMostOneContinuation'
           SameRuns == /\ NothingContinuedLater' /\ AtMostOneContinuation'
                       /\ \A r \in Reviews : Resumed(r)' = Resumed(r)
<1>1. SessionInv'
  BY SessionInvStep DEF ContinuedInv
<1>2. ASSUME UNCHANGED <<continued, crashes>> PROVE SameRuns
  BY <1>2 DEF ContinuedInv, NothingContinuedLater, AtMostOneContinuation, Resumed
<1>3. Kept
  <2>a. /\ "pending" \notin Closed /\ "absent" \notin Closed /\ "answered" \in Closed
        /\ TypeOK /\ TypeOK' /\ NothingBeforeAsked /\ NothingBeforeOpen /\ TaskAnswered
        /\ OpenNeverContinued /\ ClosingNeverContinued /\ StartingNeverContinued
        /\ NothingContinuedBeforeOpen /\ NothingContinuedLater /\ AtMostOneContinuation
        /\ Reviews \subseteq Tasks
    BY <1>1, BoundsAssumption DEF Closed, ContinuedInv, SessionInv, Tasks
  <2> HIDE DEF SameRuns
  <2> USE <2>a DEF OpenNeverContinued, ClosingNeverContinued, StartingNeverContinued,
                   NothingContinuedBeforeOpen
  <2>1. ASSUME NEW s \in Sessions, Open(s) PROVE Kept
    <3>1. /\ s \notin live /\ live' = live \cup {s}
          /\ ledger' = [ledger EXCEPT ![s] = stored]
          /\ UNCHANGED <<stored, task, handler, continued, crashes>>
      BY <2>1 DEF Open
    <3>2. \A s2 \in Sessions, r \in Reviews :
            /\ s2 = s /\ handler[s2][r] = "idle" /\ task[s2][r] = "none"
            /\ Resumed(r) = 0
      BY <3>1 DEF OneSession, NothingBeforeOpen
    <3>3. SameRuns
      BY <1>2, <3>1
    <3> QED
      BY <3>1, <3>2, <3>3 DEF SameRuns
  <2>2. ASSUME NEW s \in Sessions, NEW r \in Reviews, NEW outcome \in Closed,
               Submit(s, r, outcome)
        PROVE  Kept
    <3>1. /\ s \in live /\ ledger[s][r] = "pending"
          /\ ledger' = [ledger EXCEPT ![s][r] = outcome]
          /\ handler' = [handler EXCEPT ![s][r] = "updating"]
          /\ UNCHANGED <<live, stored, task, continued, crashes>>
      BY <2>2 DEF Submit, Close, SetLedger, NormalizeCreatedAt, CurrentPending
    <3>2. Resumed(r) = 0 /\ task[s][r] = "none"
      BY <3>1 DEF TaskAnswered
    <3>3. \A s2 \in Sessions, q \in Reviews :
            IF s2 = s /\ q = r THEN ledger'[s2][q] = outcome /\ handler'[s2][q] = "updating"
            ELSE ledger'[s2][q] = ledger[s2][q] /\ handler'[s2][q] = handler[s2][q]
      BY <3>1 DEF TypeOK
    <3>4. SameRuns
      BY <1>2, <3>1
    <3> QED
      BY <3>1, <3>2, <3>3, <3>4 DEF SameRuns
  <2>3. ASSUME NEW s \in Sessions, NEW r \in Reviews, Save(s, r) PROVE Kept
    <3>1. UNCHANGED <<live, ledger, task, handler, continued, crashes>>
      BY <2>3 DEF Save
    <3>2. SameRuns
      BY <1>2, <3>1
    <3> QED
      BY <3>1, <3>2 DEF SameRuns
  <2>4. ASSUME NEW s \in Sessions, NEW r \in Reviews,
               MessageUpdated(s, r) \/ UpdateFails(s, r)
        PROVE  Kept
    <3>1. /\ handler[s][r] = "updating"
          /\ \E v \in {"removing", "done"} : handler' = [handler EXCEPT ![s][r] = v]
          /\ UNCHANGED <<live, ledger, stored, task, continued, crashes>>
      BY <2>4 DEF MessageUpdated, UpdateFails
    <3>2. \A s2 \in Sessions, q \in Reviews :
            \/ handler'[s2][q] = handler[s2][q]
            \/ handler[s2][q] = "updating"
      BY <3>1 DEF TypeOK
    <3>3. SameRuns
      BY <1>2, <3>1
    <3> QED
      BY <3>1, <3>2, <3>3 DEF SameRuns
  <2>5. ASSUME NEW s \in Sessions, NEW r \in Reviews, ControlRemoved(s, r) PROVE Kept
    <3>1. /\ handler[s][r] = "removing" /\ handler' = [handler EXCEPT ![s][r] = "done"]
          /\ UNCHANGED <<live, ledger, stored, crashes>>
      BY <2>5 DEF ControlRemoved
    <3>2. task[s][r] = "none" /\ Resumed(r) = 0 /\ ledger[s][r] \in Closed /\ s \in live
      BY <3>1 DEF NothingBeforeOpen
    <3>3. \/ UNCHANGED <<task, continued>>
          \/ /\ task' = [task EXCEPT ![s][r] = "requesting"]
             /\ continued' = [continued EXCEPT ![crashes][r] = @ + 1]
          \/ task' = [task EXCEPT ![s][r] = "created"] /\ UNCHANGED continued
      BY <2>5 DEF ControlRemoved
    <3>4. \A s2 \in Sessions, q \in Reviews :
            IF s2 = s /\ q = r THEN handler'[s2][q] = "done"
            ELSE handler'[s2][q] = handler[s2][q] /\ task'[s2][q] = task[s2][q]
      BY <3>1, <3>3 DEF TypeOK
    <3>5. \A s2 \in Sessions : s2 = s
      BY DEF OneSession
    <3>6. CASE UNCHANGED continued
      <4>1. SameRuns
        BY <1>2, <3>1, <3>6
      <4> QED
        BY <3>1, <3>2, <3>4, <3>5, <4>1 DEF SameRuns
    <3>7. CASE /\ task' = [task EXCEPT ![s][r] = "requesting"]
               /\ continued' = [continued EXCEPT ![crashes][r] = @ + 1]
      <4>1. /\ NothingContinuedLater' /\ AtMostOneContinuation'
            /\ \A q \in Reviews : q # r => Resumed(q)' = Resumed(q)
        BY <3>1, <3>2, <3>7, HistoryStep
      <4>2. task'[s][r] = "requesting"
        BY <3>7 DEF TypeOK
      <4> QED
        BY <3>1, <3>2, <3>4, <3>5, <4>1, <4>2
    <3> QED
      BY <3>3, <3>6, <3>7
  <2>6. ASSUME NEW s \in Sessions, NEW r \in Reviews, BeginContinuation(s, r) PROVE Kept
    <3>1. /\ task[s][r] = "announcing" /\ task' = [task EXCEPT ![s][r] = "requesting"]
          /\ continued' = [continued EXCEPT ![crashes][r] = @ + 1]
          /\ UNCHANGED <<live, ledger, stored, handler, crashes>>
      BY <2>6 DEF BeginContinuation
    <3>2. Resumed(r) = 0 /\ ledger[s][r] = "answered" /\ s \in live
      BY <3>1 DEF TaskAnswered, NothingBeforeOpen
    <3>3. /\ NothingContinuedLater' /\ AtMostOneContinuation'
          /\ \A q \in Reviews : q # r => Resumed(q)' = Resumed(q)
      BY <3>1, <3>2, HistoryStep
    <3>4. \A s2 \in Sessions, q \in Reviews :
            IF q = r THEN s2 = s /\ task'[s2][q] = "requesting"
            ELSE task'[s2][q] = task[s2][q]
      BY <3>1 DEF TypeOK, OneSession
    <3>5. handler[s][r] \notin {"updating", "removing"}
      BY <3>1
    <3>6. \A s2 \in Sessions : s2 = s
      BY DEF OneSession
    <3> QED
      BY <3>1, <3>2, <3>3, <3>4, <3>5, <3>6
  <2>7. ASSUME NEW s \in Sessions, NEW k \in Tasks, AskReview(s, k) PROVE Kept
    <3>1. /\ asked + 1 \in Reviews /\ task[s][k] = "requesting"
          /\ ledger' = [ledger EXCEPT ![s][asked + 1] = "pending"]
          /\ task' = [task EXCEPT ![s][k] = "publishing"]
          /\ UNCHANGED <<live, stored, handler, continued, crashes>>
      BY <2>7, BoundsAssumption DEF AskReview, SetLedger, Reviews, TypeOK
    <3>2. ledger[s][asked + 1] = "absent"
      BY <3>1, BoundsAssumption DEF NothingBeforeAsked, TypeOK, Reviews
    <3>3. SameRuns
      BY <1>2, <3>1
    <3>4. \A s2 \in Sessions, q \in Reviews :
            /\ ledger'[s2][q] = ledger[s2][q] \/ (s2 = s /\ q = asked + 1)
            /\ task'[s2][q] = task[s2][q] \/
                 (task[s2][q] = "requesting" /\ task'[s2][q] = "publishing")
      BY <3>1 DEF TypeOK
    <3> QED
      BY <3>1, <3>2, <3>3, <3>4 DEF SameRuns
  <2>8. ASSUME TasksAdvance, UNCHANGED <<live, ledger, stored, handler, continued, crashes>>
        PROVE  Kept
    <3>1. SameRuns
      BY <1>2, <2>8
    <3> QED
      BY <2>8, <3>1 DEF TasksAdvance, Starting, SameRuns
  <2>9. ASSUME UNCHANGED <<live, ledger, handler, task, continued, crashes>> PROVE Kept
    <3>1. SameRuns
      BY <1>2, <2>9
    <3> QED
      BY <2>9, <3>1 DEF SameRuns
  <2>10. ASSUME NEW s \in Sessions, Reconnect(s) PROVE Kept
    BY <2>9, <2>10 DEF Reconnect
  <2>11. CASE Crash
    <3>1. /\ crashes' = crashes + 1 /\ crashes' \in Runs /\ continued' = continued
          /\ crashes \in Int /\ Runs \subseteq Int
      BY <2>11, BoundsAssumption DEF Crash, TypeOK, Runs
    <3>2. \A s \in Sessions, r \in Reviews :
            ledger'[s][r] = "absent" /\ handler'[s][r] = "idle" /\ task'[s][r] = "none"
      BY <2>11 DEF Crash
    <3>3. \A r \in Reviews : Resumed(r)' = 0
      BY <3>1 DEF NothingContinuedLater, Resumed
    <3>4. NothingContinuedLater' /\ AtMostOneContinuation'
      BY <3>1 DEF NothingContinuedLater, AtMostOneContinuation
    <3> QED
      BY <3>2, <3>3, <3>4
  <2> HIDE DEF Kept, OpenNeverContinued, ClosingNeverContinued, StartingNeverContinued,
               NothingContinuedBeforeOpen
  <2> QED
    BY <2>1, <2>2, <2>3, <2>4, <2>5, <2>6, <2>7, <2>8, <2>9, <2>10, <2>11, TaskFrame
       DEF Next, UserNext, SubmissionNext, TaskNext, vars
<1> QED
  BY <1>1, <1>3 DEF ContinuedInv

\* The count of continuations is kept in every behavior, restarts included.
LEMMA ContinuedInvariant == ASSUME OneSession PROVE Spec => []ContinuedInv
  BY ContinuedInvInit, ContinuedInvStep, PTL DEF Spec

(* A duplicate submission, at any moment and in any order with the first   *)
(* one's awaits, its continuation, Stop, reconnects and restarts, never    *)
(* resumes the Response twice in a run of the process (hitl.py:264-265):   *)
(* one session.                                                            *)
THEOREM ResumedOnce == ASSUME OneSession PROVE Spec => []AtMostOneContinuation
<1>1. ContinuedInv => AtMostOneContinuation
  BY DEF ContinuedInv
<1> QED
  BY <1>1, ContinuedInvariant, PTL

-----------------------------------------------------------------------------
(* The browser's spinner.  The witness of SpinnerHasTask must be a task    *)
(* that will emit task_end: one that announced itself and still runs.      *)

Running == Active \ {"created"}

\* An inline continuation runs inside submit and never announces itself.
InlineUnannounced ==
  \A s \in Sessions, r \in Inline : task[s][r] \notin {"created", "announcing"}

Shown(s) == \E k \in Tasks \ Inline : task[s][k] \in Running
Forgotten(s) == \E r \in Reviews : task[s][r] = "over" /\ Resumed(r) = 0
LoadingIsShown == \A s \in Sessions : loading[s] => Shown(s) \/ Forgotten(s)

SpinnerInv == InlineUnannounced /\ LoadingIsShown

\* A step of task k keeps the spinner right when it keeps k running, announces
\* it or takes the announcement back, or when the browser never heard of k.
LEMMA SpinnerTask ==
  ASSUME OneSession, TypeOK, SpinnerInv,
         NEW s \in Sessions, NEW k \in Tasks, NEW v \in TaskStates,
         task[s][k] # "over", task' = [task EXCEPT ![s][k] = v],
         \A r \in Reviews \ {k} : Resumed(r)' = Resumed(r),
         k \in Inline => v \notin {"created", "announcing"},
         \/ /\ loading' = loading
            /\ task[s][k] \in Running /\ k \notin Inline
                 => v \in Running \/ (k \in Reviews /\ v = "over" /\ Resumed(k)' = 0)
         \/ loading' = [loading EXCEPT ![s] = TRUE] /\ k \notin Inline /\ v \in Running
         \/ loading' = [loading EXCEPT ![s] = FALSE]
  PROVE  SpinnerInv'
<1>1. \A s2 \in Sessions : s2 = s
  BY DEF OneSession
<1>2. \A q \in Tasks : task'[s][q] = IF q = k THEN v ELSE task[s][q]
  BY DEF TypeOK
<1>3. Inline \subseteq Tasks /\ Reviews \subseteq Tasks
  BY BoundsAssumption DEF Tasks
<1>4. InlineUnannounced'
  BY <1>1, <1>2, <1>3 DEF SpinnerInv, InlineUnannounced
<1>5. CASE loading' = [loading EXCEPT ![s] = FALSE]
  BY <1>1, <1>4, <1>5 DEF SpinnerInv, LoadingIsShown, TypeOK
<1>6. CASE loading' = [loading EXCEPT ![s] = TRUE] /\ k \notin Inline /\ v \in Running
  BY <1>1, <1>2, <1>4, <1>6 DEF SpinnerInv, LoadingIsShown, Shown
<1>7. CASE /\ loading' = loading
           /\ task[s][k] \in Running /\ k \notin Inline
                => v \in Running \/ (k \in Reviews /\ v = "over" /\ Resumed(k)' = 0)
  <2>1. ASSUME Forgotten(s) PROVE Forgotten(s)'
    BY <1>2, <1>3, <2>1 DEF Forgotten
  <2>2. ASSUME Shown(s) PROVE Shown(s)' \/ Forgotten(s)'
    <3>1. PICK q \in Tasks \ Inline : task[s][q] \in Running
      BY <2>2 DEF Shown
    <3>2. CASE q # k
      BY <1>2, <3>1, <3>2 DEF Shown
    <3>3. CASE q = k
      BY <1>2, <1>7, <3>1, <3>3 DEF Shown, Forgotten
    <3> QED
      BY <3>2, <3>3
  <2> QED
    BY <1>1, <1>4, <1>7, <2>1, <2>2 DEF SpinnerInv, LoadingIsShown
<1> QED
  BY <1>5, <1>6, <1>7

\* Every step of the one session, and a restart, keeps it.
LEMMA SpinnerStep ==
  ASSUME OneSession, ContinuedInv, SpinnerInv, [Next]_vars
  PROVE  SpinnerInv'
<1>a. /\ TypeOK /\ ClosingNeverContinued /\ StartingNeverContinued
      /\ Turns \subseteq Tasks /\ Reviews \subseteq Tasks /\ Inline \subseteq Reviews
      /\ \A t \in Turns : t \notin Inline
      /\ OneSession /\ SpinnerInv
  BY BoundsAssumption, TurnsAssumption DEF ContinuedInv, SessionInv, Tasks
<1>b. /\ {"created", "announcing", "blocked", "requesting", "publishing", "notice",
          "cancelled", "over"} \subseteq TaskStates
      /\ \A v \in {"announcing", "blocked", "requesting", "publishing", "notice",
                   "cancelled"} : v \in Running
      /\ \A v \in {"none", "created", "over"} : v \notin Running
      /\ \A v \in Active : v # "over"
  BY DEF TaskStates, Running, Active
<1> USE DEF Resumed
<1>1. ASSUME NEW s \in Sessions, NEW t \in Turns, SendTurn(s, t) PROVE SpinnerInv'
  BY <1>1, <1>a, <1>b, SpinnerTask DEF SendTurn
<1>2. ASSUME NEW s \in Sessions, Stop(s) PROVE SpinnerInv'
  <2>1. PICK k \in Tasks :
          /\ task[s][k] \in Active
          /\ task' = [task EXCEPT ![s][k] =
                        IF task[s][k] = "created" \/ (task[s][k] = "announcing" /\ k \in Reviews)
                          THEN "over" ELSE "cancelled"]
          /\ UNCHANGED <<loading, continued, crashes>>
    BY <1>2 DEF Stop
  <2>2. CASE task[s][k] = "created"
    <3>1. task' = [task EXCEPT ![s][k] = "over"]
      BY <2>1, <2>2
    <3> QED
      BY <1>a, <1>b, <2>1, <2>2, <3>1, SpinnerTask
  <2>3. CASE task[s][k] = "announcing" /\ k \in Reviews
    <3>1. task' = [task EXCEPT ![s][k] = "over"] /\ Resumed(k)' = 0
      BY <1>a, <2>1, <2>3 DEF StartingNeverContinued
    <3> QED
      BY <1>a, <1>b, <2>1, <2>3, <3>1, SpinnerTask
  <2>4. CASE task[s][k] # "created" /\ ~(task[s][k] = "announcing" /\ k \in Reviews)
    <3>1. task' = [task EXCEPT ![s][k] = "cancelled"]
      BY <2>1, <2>4
    <3> QED
      BY <1>a, <1>b, <2>1, <3>1, SpinnerTask
  <2> QED
    BY <2>2, <2>3, <2>4
<1>3. ASSUME NEW s \in Sessions, Reconnect(s) PROVE SpinnerInv'
  <2>1. /\ \A s2 \in Sessions : ~loading'[s2]
        /\ UNCHANGED <<task, continued, crashes>>
    BY <1>3, <1>a DEF Reconnect, OneSession, TypeOK
  <2> QED
    BY <1>a, <2>1 DEF SpinnerInv, InlineUnannounced, LoadingIsShown
<1>4. ASSUME NEW s \in Sessions, NEW r \in Reviews, ControlRemoved(s, r) PROVE SpinnerInv'
  <2>1. task[s][r] = "none"
    BY <1>4, <1>a DEF ControlRemoved, ClosingNeverContinued
  <2>2. CASE ~Continues(s, r)
    BY <1>4, <1>a, <2>2 DEF ControlRemoved, SpinnerInv, InlineUnannounced, LoadingIsShown,
                            Shown, Forgotten
  <2>3. CASE Continues(s, r) /\ r \in Inline
    <3>1. /\ task' = [task EXCEPT ![s][r] = "requesting"] /\ loading' = loading
          /\ continued' = [continued EXCEPT ![crashes][r] = @ + 1] /\ crashes' = crashes
      BY <1>4, <2>3 DEF ControlRemoved
    <3>2. \A q \in Reviews \ {r} : Resumed(q)' = Resumed(q)
      BY <1>a, <3>1 DEF TypeOK, Runs
    <3> QED
      BY <1>a, <1>b, <2>1, <2>3, <3>1, <3>2, SpinnerTask
  <2>4. CASE Continues(s, r) /\ r \notin Inline
    <3>1. /\ task' = [task EXCEPT ![s][r] = "created"]
          /\ UNCHANGED <<loading, continued, crashes>>
      BY <1>4, <2>4 DEF ControlRemoved
    <3> QED
      BY <1>a, <1>b, <2>1, <2>4, <3>1, SpinnerTask
  <2> QED
    BY <2>2, <2>3, <2>4
<1>5. ASSUME NEW s \in Sessions, NEW k \in Tasks, Announce(s, k) PROVE SpinnerInv'
  <2>1. k \notin Inline
    BY <1>5, <1>a DEF Announce, SpinnerInv, InlineUnannounced
  <2> QED
    BY <1>5, <1>a, <1>b, <2>1, SpinnerTask DEF Announce
<1>6. ASSUME NEW s \in Sessions, NEW t \in Turns, BeginTurn(s, t) PROVE SpinnerInv'
  <2>1. PICK v \in {"blocked", "requesting"} :
          task' = [task EXCEPT ![s][t] = v] /\ UNCHANGED <<loading, continued, crashes>>
    BY <1>6 DEF BeginTurn
  <2> QED
    BY <1>6, <1>a, <1>b, <2>1, SpinnerTask DEF BeginTurn
<1>7. ASSUME NEW s \in Sessions, NEW r \in Reviews, BeginContinuation(s, r) PROVE SpinnerInv'
  <2>1. \A q \in Reviews \ {r} : Resumed(q)' = Resumed(q)
    BY <1>7, <1>a DEF BeginContinuation, TypeOK, Runs
  <2> QED
    BY <1>7, <1>a, <1>b, <2>1, SpinnerTask DEF BeginContinuation
<1>8. ASSUME NEW s \in Sessions, NEW k \in Tasks,
             AskReview(s, k) \/ PublishFinal(s, k) \/ Fail(s, k)
      PROVE  SpinnerInv'
  <2>1. PICK v \in {"publishing", "notice"} :
          /\ task[s][k] = "requesting" /\ task' = [task EXCEPT ![s][k] = v]
          /\ UNCHANGED <<loading, continued, crashes>>
    BY <1>8 DEF AskReview, PublishFinal, Fail
  <2> QED
    BY <1>a, <1>b, <2>1, SpinnerTask
<1>9. ASSUME NEW s \in Sessions, NEW k \in Tasks, Finish(s, k) PROVE SpinnerInv'
  <2>1. /\ task[s][k] # "over" /\ task' = [task EXCEPT ![s][k] = "over"]
        /\ loading' = [loading EXCEPT ![s] = FALSE] \/ (k \in Inline /\ loading' = loading)
        /\ UNCHANGED <<continued, crashes>>
    BY <1>9 DEF Finish, Announced
  <2> QED
    BY <1>a, <1>b, <2>1, SpinnerTask
<1>10. CASE UNCHANGED <<task, loading, continued, crashes>>
  BY <1>10, <1>a DEF SpinnerInv, InlineUnannounced, LoadingIsShown, Shown, Forgotten
<1>11. ASSUME NEW s \in Sessions, NEW r \in Reviews,
              \/ Save(s, r) \/ MessageUpdated(s, r) \/ UpdateFails(s, r)
              \/ \E outcome \in Closed : Submit(s, r, outcome)
       PROVE  UNCHANGED <<task, loading, continued, crashes>>
  BY <1>11 DEF Open, Save, MessageUpdated, UpdateFails, Submit, Close, SetLedger,
               NormalizeCreatedAt
<1>12. ASSUME NEW s \in Sessions, Open(s) PROVE UNCHANGED <<task, loading, continued, crashes>>
  BY <1>12 DEF Open
<1>13. CASE Crash
  BY <1>13, <1>a DEF Crash, SpinnerInv, InlineUnannounced, LoadingIsShown
<1> HIDE DEF Resumed
<1> QED
  BY <1>1, <1>2, <1>3, <1>4, <1>5, <1>6, <1>7, <1>8, <1>9, <1>10, <1>11, <1>12, <1>13
     DEF Next, UserNext, SubmissionNext, TaskNext, vars

(* However a task ends, failures and Stop included, the browser does not   *)
(* keep showing a task when none runs, but for the continuation that Stop  *)
(* cancels in task_start (hitl.py:331): one session.                       *)
THEOREM SpinnerTrue ==
  ASSUME OneSession PROVE Spec => []SpinnerHasTask
<1>1. Init => SpinnerInv
  BY BoundsAssumption DEF Init, SpinnerInv, InlineUnannounced, LoadingIsShown, Tasks
<1>2. ContinuedInv /\ SpinnerInv /\ [Next]_vars => SpinnerInv'
  BY SpinnerStep
<1>3. SpinnerInv => SpinnerHasTask
  BY DEF SpinnerInv, LoadingIsShown, Shown, Forgotten, Resumed, Running, SpinnerHasTask
<1> QED
  BY <1>1, <1>2, <1>3, ContinuedInvariant, PTL DEF Spec

-----------------------------------------------------------------------------
(* HitlWorkflow implements ReviewLifecycle.                                *)

\* The lifecycle's reading of the state, on which its steps are judged.
Seen == IF TheSession \in live THEN ledger[TheSession] ELSE stored

\* A continuation is due while its answer is being closed or its task has not
\* reached its request.
DueOf(r) ==
  /\ ledger[TheSession][r] = "answered"
  /\ \/ handler[TheSession][r] \in {"updating", "removing"}
     \/ task[TheSession][r] \in {"created", "announcing"}

LEMMA DueMember == \A r : r \in Due <=> r \in Reviews /\ DueOf(r)
  BY DEF Due, DueOf

LEMMA DueMemberNext == \A r : r \in Due' <=> r \in Reviews /\ DueOf(r)'
  BY DEF Due, DueOf

\* The variables of the lifecycle, as this module implements them.
SameLifecycle == Seen' = Seen /\ stored' = stored /\ Due' = Due
                   /\ continued'[crashes'] = continued[crashes]

\* A step at one review of the session, seen by the lifecycle.
LEMMA DueStep ==
  ASSUME NEW r \in Reviews,
         \A q \in Reviews \ {r} : DueOf(q)' <=> DueOf(q)
  PROVE  /\ (DueOf(r)' <=> DueOf(r)) => Due' = Due
         /\ DueOf(r)' => Due' = Due \cup {r}
         /\ ~DueOf(r)' => Due' = Due \ {r}
  BY DueMember, DueMemberNext

(* Every step of the workflow, a restart included, is a step of the        *)
(* lifecycle, or changes nothing of it: one case per action.               *)
LEMMA LifecycleStep ==
  ASSUME OneSession, Sessions # {}, ContinuedInv, [Next]_vars
  PROVE  Lifecycle!LifecycleNext \/ SameLifecycle
<1> DEFINE s == TheSession
           Simulated == Lifecycle!LifecycleNext \/ SameLifecycle
<1>a. /\ s \in Sessions /\ \A s2 \in Sessions : s2 = s
      /\ TypeOK /\ NothingBeforeAsked /\ NothingBeforeOpen /\ TaskAnswered
      /\ OpenNeverContinued /\ ClosingNeverContinued /\ StartingNeverContinued
      /\ NothingContinuedBeforeOpen /\ NothingContinuedLater /\ AtMostOneContinuation
      /\ Reviews \subseteq Tasks
  BY DEF TheSession, OneSession, ContinuedInv, SessionInv, Tasks
<1> HIDE DEF s
<1>b. /\ Seen = IF s \in live THEN ledger[s] ELSE stored
      /\ Seen' = IF s \in live' THEN ledger'[s] ELSE stored'
      /\ \A r \in Reviews : DueOf(r) <=>
           /\ ledger[s][r] = "answered"
           /\ handler[s][r] \in {"updating", "removing"}
                \/ task[s][r] \in {"created", "announcing"}
      /\ \A r \in Reviews : DueOf(r)' <=>
           /\ ledger'[s][r] = "answered"
           /\ handler'[s][r] \in {"updating", "removing"}
                \/ task'[s][r] \in {"created", "announcing"}
  BY DEF s, Seen, DueOf
<1>c. ASSUME s \in live, NEW q \in Reviews, TRUE PROVE Seen[q] = ledger[s][q]
  BY <1>b, <1>c
\* Actions of the lifecycle, in terms of Seen and Due.
<1>d. ASSUME NEW r \in Reviews,
             \/ /\ Seen[r] = "absent" /\ Seen' = [Seen EXCEPT ![r] = "pending"]
                /\ UNCHANGED <<stored, Due>> /\ continued'[crashes'] = continued[crashes]
             \/ /\ Seen[r] = "pending" /\ Seen' = [Seen EXCEPT ![r] = "answered"]
                /\ Due' = Due \cup {r}
                /\ UNCHANGED stored /\ continued'[crashes'] = continued[crashes]
             \/ /\ Seen[r] = "pending" /\ Seen' = [Seen EXCEPT ![r] = "cancelled"]
                /\ UNCHANGED <<stored, Due>> /\ continued'[crashes'] = continued[crashes]
             \/ /\ r \in Due /\ Seen[r] = "answered" /\ Due' = Due \ {r}
                /\ continued'[crashes'] = [continued[crashes] EXCEPT ![r] = @ + 1]
                /\ UNCHANGED <<Seen, stored>>
             \/ /\ r \in Due /\ Due' = Due \ {r} /\ UNCHANGED <<Seen, stored>>
                /\ continued'[crashes'] = continued[crashes]
             \/ /\ stored' = [stored EXCEPT ![r] = Seen[r]]
                /\ UNCHANGED <<Seen, Due>> /\ continued'[crashes'] = continued[crashes]
      PROVE  Simulated
  BY <1>d DEF Lifecycle!LifecycleNext, Lifecycle!Ask, Lifecycle!AnswerReview,
              Lifecycle!CancelReview, Lifecycle!ContinueReview, Lifecycle!Abandon,
              Lifecycle!SaveReview, Seen
<1> HIDE DEF Simulated
<1>e. ASSUME Seen' = Seen, stored' = stored, UNCHANGED <<continued, crashes>>,
             \A q \in Reviews : DueOf(q)' <=> DueOf(q)
      PROVE  Simulated
  <2>1. Due' = Due
    BY <1>e, DueMember, DueMemberNext
  <2> QED
    BY <1>e, <2>1 DEF Simulated, SameLifecycle
<1>1. ASSUME Open(s) PROVE Simulated
  <2>1. /\ s \notin live /\ s \in live' /\ ledger'[s] = stored
        /\ UNCHANGED <<stored, handler, task, continued, crashes>>
    BY <1>1, <1>a DEF Open, TypeOK
  <2>2. \A r \in Reviews : handler[s][r] = "idle" /\ task[s][r] = "none"
    BY <2>1, <1>a DEF NothingBeforeOpen
  <2> QED
    BY <2>1, <2>2, <1>b, <1>e
<1>2. ASSUME NEW r \in Reviews, Save(s, r) PROVE Simulated
  <2>1. /\ s \in live
        /\ stored' = stored \/ stored' = [stored EXCEPT ![r] = ledger[s][r]]
        /\ UNCHANGED <<live, ledger, handler, task, continued, crashes>>
    BY <1>2, <1>a DEF Save, NothingBeforeOpen
  <2>2. Seen' = Seen /\ \A q \in Reviews : DueOf(q)' <=> DueOf(q)
    BY <2>1, <1>b
  <2>3. CASE stored' = stored
    BY <2>1, <2>2, <2>3, <1>e
  <2>4. CASE stored' = [stored EXCEPT ![r] = Seen[r]]
    <3>1. Due' = Due
      BY <2>2, DueMember, DueMemberNext
    <3> QED
      BY <2>1, <2>2, <2>4, <3>1, <1>d
  <2> QED
    BY <2>1, <2>3, <2>4, <1>c
<1>3. ASSUME NEW r \in Reviews, NEW outcome \in Closed, Submit(s, r, outcome)
      PROVE  Simulated
  <2>1. /\ s \in live /\ ledger[s][r] = "pending"
        /\ ledger' = [ledger EXCEPT ![s][r] = outcome]
        /\ handler' = [handler EXCEPT ![s][r] = "updating"]
        /\ UNCHANGED <<live, stored, task, continued, crashes>>
    BY <1>3 DEF Submit, Close, SetLedger, NormalizeCreatedAt, CurrentPending
  <2>2. /\ ledger'[s] = [ledger[s] EXCEPT ![r] = outcome]
        /\ handler'[s] = [handler[s] EXCEPT ![r] = "updating"]
        /\ ledger[s] \in [Reviews -> LedgerStates] /\ handler[s] \in [Reviews -> HandlerStates]
    BY <2>1, <1>a DEF TypeOK
  <2>3. Seen[r] = "pending" /\ Seen' = [Seen EXCEPT ![r] = outcome]
    BY <2>1, <2>2, <1>b
  <2>4. ~DueOf(r) /\ \A q \in Reviews \ {r} : DueOf(q)' <=> DueOf(q)
    BY <2>1, <2>2, <1>b
  <2>5. CASE outcome = "answered"
    <3>1. DueOf(r)'
      BY <2>1, <2>2, <2>5, <1>b
    <3>2. Due' = Due \cup {r}
      BY <2>4, <3>1, DueStep
    <3> QED
      BY <2>1, <2>3, <2>5, <3>2, <1>d
  <2>6. CASE outcome = "cancelled"
    <3>1. ~DueOf(r)'
      BY <2>1, <2>2, <2>6, <1>b
    <3>2. Due' = Due
      BY <2>4, <3>1, DueStep
    <3> QED
      BY <2>1, <2>3, <2>6, <3>2, <1>d
  <2> QED
    BY <2>5, <2>6 DEF Closed
<1>4. ASSUME NEW r \in Reviews, MessageUpdated(s, r) PROVE Simulated
  <2>1. /\ handler[s][r] = "updating" /\ handler' = [handler EXCEPT ![s][r] = "removing"]
        /\ UNCHANGED <<live, ledger, stored, task, continued, crashes>>
    BY <1>4 DEF MessageUpdated
  <2>2. \A q \in Reviews :
          handler'[s][q] = IF q = r THEN "removing" ELSE handler[s][q]
    BY <2>1, <1>a DEF TypeOK
  <2> QED
    BY <2>1, <2>2, <1>b, <1>e
\* The end of a continuation that was due, before its request.
<1>5. ASSUME NEW r \in Reviews, ~DueOf(r)', \A q \in Reviews \ {r} : DueOf(q)' <=> DueOf(q),
             UNCHANGED <<live, ledger, stored, continued, crashes>>
      PROVE  Simulated
  <2>1. Seen' = Seen
    BY <1>5, <1>b
  <2>2. CASE r \in Due
    <3>1. Due' = Due \ {r}
      BY <1>5, DueStep
    <3> QED
      BY <1>5, <2>1, <2>2, <3>1, <1>d
  <2>3. CASE r \notin Due
    <3>1. \A q \in Reviews : DueOf(q)' <=> DueOf(q)
      BY <1>5, <2>3, DueMember
    <3> QED
      BY <1>5, <2>1, <3>1, <1>e
  <2> QED
    BY <2>2, <2>3
<1>6. ASSUME NEW r \in Reviews, UpdateFails(s, r) PROVE Simulated
  <2>1. /\ handler[s][r] = "updating" /\ handler' = [handler EXCEPT ![s][r] = "done"]
        /\ UNCHANGED <<live, ledger, stored, task, continued, crashes>>
    BY <1>6 DEF UpdateFails
  <2>2. task[s][r] = "none"
    BY <2>1, <1>a DEF ClosingNeverContinued
  <2>3. \A q \in Reviews : handler'[s][q] = IF q = r THEN "done" ELSE handler[s][q]
    BY <2>1, <1>a DEF TypeOK
  <2>4. ~DueOf(r)' /\ \A q \in Reviews \ {r} : DueOf(q)' <=> DueOf(q)
    BY <2>1, <2>2, <2>3, <1>b
  <2> QED
    BY <2>1, <2>4, <1>5
\* A request resumes the Response of a review that is due.
<1>7. ASSUME NEW r \in Reviews, DueOf(r), ~DueOf(r)',
             \A q \in Reviews \ {r} : DueOf(q)' <=> DueOf(q), s \in live, Resumed(r) = 0,
             continued' = [continued EXCEPT ![crashes][r] = @ + 1],
             UNCHANGED <<live, ledger, stored, crashes>>
      PROVE  Simulated
  <2>1. r \in Due /\ Due' = Due \ {r}
    BY <1>7, DueMember, DueStep
  <2>2. Seen' = Seen /\ Seen[r] = "answered"
    BY <1>7, <1>b
  <2>3. continued'[crashes'] = [continued[crashes] EXCEPT ![r] = @ + 1]
    BY <1>7, <1>a, HistoryStep
  <2> QED
    BY <1>7, <2>1, <2>2, <2>3, <1>d
<1>8. ASSUME NEW r \in Reviews, ControlRemoved(s, r) PROVE Simulated
  <2>1. /\ handler[s][r] = "removing" /\ handler' = [handler EXCEPT ![s][r] = "done"]
        /\ UNCHANGED <<live, ledger, stored, crashes>>
    BY <1>8 DEF ControlRemoved
  <2>2. task[s][r] = "none" /\ Resumed(r) = 0 /\ s \in live
    BY <2>1, <1>a DEF ClosingNeverContinued, NothingBeforeOpen
  <2>3. \A q \in Reviews : handler'[s][q] = IF q = r THEN "done" ELSE handler[s][q]
    BY <2>1, <1>a DEF TypeOK
  <2>4. CASE ~Continues(s, r)
    <3>1. task' = task /\ continued' = continued /\ ledger[s][r] # "answered"
      BY <1>8, <2>4 DEF ControlRemoved, Continues
    <3>2. \A q \in Reviews : DueOf(q)' <=> DueOf(q)
      BY <2>1, <2>3, <3>1, <1>b
    <3> QED
      BY <2>1, <3>1, <3>2, <1>b, <1>e
  <2>5. CASE Continues(s, r) /\ r \in Inline
    <3>1. /\ task' = [task EXCEPT ![s][r] = "requesting"] /\ ledger[s][r] = "answered"
          /\ continued' = [continued EXCEPT ![crashes][r] = @ + 1]
      BY <1>8, <2>5 DEF ControlRemoved, Continues
    <3>2. \A q \in Reviews : task'[s][q] = IF q = r THEN "requesting" ELSE task[s][q]
      BY <3>1, <1>a DEF TypeOK
    <3>3. DueOf(r) /\ ~DueOf(r)' /\ \A q \in Reviews \ {r} : DueOf(q)' <=> DueOf(q)
      BY <2>1, <2>3, <3>1, <3>2, <1>b
    <3> QED
      BY <2>1, <2>2, <3>1, <3>3, <1>7
  <2>6. CASE Continues(s, r) /\ r \notin Inline
    <3>1. /\ task' = [task EXCEPT ![s][r] = "created"] /\ ledger[s][r] = "answered"
          /\ continued' = continued
      BY <1>8, <2>6 DEF ControlRemoved, Continues
    <3>2. \A q \in Reviews : task'[s][q] = IF q = r THEN "created" ELSE task[s][q]
      BY <3>1, <1>a DEF TypeOK
    <3>3. \A q \in Reviews : DueOf(q)' <=> DueOf(q)
      BY <2>1, <2>3, <3>1, <3>2, <1>b
    <3> QED
      BY <2>1, <3>1, <3>3, <1>b, <1>e
  <2> QED
    BY <2>4, <2>5, <2>6
<1>9. ASSUME NEW r \in Reviews, BeginContinuation(s, r) PROVE Simulated
  <2>1. /\ task[s][r] = "announcing" /\ task' = [task EXCEPT ![s][r] = "requesting"]
        /\ continued' = [continued EXCEPT ![crashes][r] = @ + 1]
        /\ UNCHANGED <<live, ledger, stored, handler, crashes>>
    BY <1>9 DEF BeginContinuation
  <2>2. Resumed(r) = 0 /\ ledger[s][r] = "answered" /\ s \in live
    BY <2>1, <1>a DEF StartingNeverContinued, TaskAnswered, NothingBeforeOpen
  <2>3. handler[s][r] \notin {"updating", "removing"}
    BY <2>1, <1>a DEF ClosingNeverContinued
  <2>4. \A q \in Reviews : task'[s][q] = IF q = r THEN "requesting" ELSE task[s][q]
    BY <2>1, <1>a DEF TypeOK
  <2>5. DueOf(r) /\ ~DueOf(r)' /\ \A q \in Reviews \ {r} : DueOf(q)' <=> DueOf(q)
    BY <2>1, <2>2, <2>3, <2>4, <1>b
  <2> QED
    BY <2>1, <2>2, <2>5, <1>7
<1>10. ASSUME NEW k \in Tasks, AskReview(s, k) PROVE Simulated
  <2>1. /\ asked + 1 \in Reviews /\ task[s][k] = "requesting"
        /\ ledger' = [ledger EXCEPT ![s][asked + 1] = "pending"]
        /\ task' = [task EXCEPT ![s][k] = "publishing"]
        /\ UNCHANGED <<live, stored, handler, continued, crashes>>
    BY <1>10, <1>a, BoundsAssumption DEF AskReview, SetLedger, Reviews, TypeOK
  <2>2. s \in live /\ ledger[s][asked + 1] = "absent"
    BY <2>1, <1>a, BoundsAssumption DEF NothingBeforeAsked, NothingBeforeOpen, TypeOK, Reviews
  <2>3. /\ ledger'[s] = [ledger[s] EXCEPT ![asked + 1] = "pending"]
        /\ ledger[s] \in [Reviews -> LedgerStates]
        /\ \A q \in Reviews : \/ task'[s][q] = task[s][q]
                              \/ task[s][q] = "requesting" /\ task'[s][q] = "publishing"
    BY <2>1, <1>a DEF TypeOK
  <2>4. \A q \in Reviews : DueOf(q)' <=> DueOf(q)
    BY <2>1, <2>2, <2>3, <1>b
  <2>5. Due' = Due
    BY <2>4, DueMember, DueMemberNext
  <2>6. Seen[asked + 1] = "absent" /\ Seen' = [Seen EXCEPT ![asked + 1] = "pending"]
    BY <2>1, <2>2, <2>3, <1>b
  <2> QED
    BY <2>1, <2>5, <2>6, <1>d
<1>11. ASSUME Stop(s) PROVE Simulated
  <2>1. PICK k \in Tasks :
          /\ task[s][k] \in Active
          /\ task' = [task EXCEPT ![s][k] =
                        IF task[s][k] = "created" \/ (task[s][k] = "announcing" /\ k \in Reviews)
                          THEN "over" ELSE "cancelled"]
          /\ UNCHANGED <<live, ledger, stored, handler, continued, crashes>>
    BY <1>11 DEF Stop
  <2>2. \A q \in Tasks : q # k => task'[s][q] = task[s][q]
    BY <2>1, <1>a DEF TypeOK
  <2>3. task'[s][k] \in {"over", "cancelled"} /\ task[s][k] # "none"
    BY <2>1, <1>a DEF TypeOK, Active
  <2>4. CASE k \in Reviews
    <3>1. handler[s][k] \notin {"updating", "removing"}
      BY <2>3, <2>4, <1>a DEF ClosingNeverContinued
    <3>2. ~DueOf(k)' /\ \A q \in Reviews \ {k} : DueOf(q)' <=> DueOf(q)
      BY <2>1, <2>2, <2>3, <2>4, <3>1, <1>a, <1>b
    <3> QED
      BY <2>1, <2>4, <3>2, <1>5
  <2>5. CASE k \notin Reviews
    <3>1. \A q \in Reviews : DueOf(q)' <=> DueOf(q)
      BY <2>1, <2>2, <2>5, <1>a, <1>b
    <3> QED
      BY <2>1, <3>1, <1>b, <1>e
  <2> QED
    BY <2>4, <2>5
\* The other steps of a task keep it on its side of the request.
<1>12. ASSUME \/ \E t \in Turns : SendTurn(s, t) \/ BeginTurn(s, t)
              \/ \E k \in Tasks : Announce(s, k) \/ PublishFinal(s, k) \/ Fail(s, k) \/ Finish(s, k)
       PROVE  Simulated
  <2>1. UNCHANGED <<live, ledger, stored, handler, continued, crashes>>
    BY <1>12 DEF SendTurn, BeginTurn, Announce, PublishFinal, Fail, Finish
  <2>2. \A q \in Reviews : \/ task'[s][q] = task[s][q]
                           \/ task[s][q] = "created" /\ task'[s][q] = "announcing"
                           \/ {task[s][q], task'[s][q]} \cap {"created", "announcing"} = {}
    <3>1. CASE \E t \in Turns : SendTurn(s, t) \/ BeginTurn(s, t)
      <4>1. PICK t \in Turns, v \in TaskStates : task' = [task EXCEPT ![s][t] = v]
        BY <3>1 DEF SendTurn, BeginTurn, TaskStates
      <4>2. t \in Tasks /\ t \notin Reviews
        BY TurnsAssumption DEF Tasks
      <4> QED
        BY <4>1, <4>2, <1>a DEF TypeOK
    <3>2. CASE \E k \in Tasks : Announce(s, k) \/ PublishFinal(s, k) \/ Fail(s, k) \/ Finish(s, k)
      <4>1. PICK k \in Tasks, v \in TaskStates :
              /\ task' = [task EXCEPT ![s][k] = v]
              /\ \/ task[s][k] = "created" /\ v = "announcing"
                 \/ {task[s][k], v} \cap {"created", "announcing"} = {}
        BY <3>2 DEF Announce, PublishFinal, Fail, Finish, TaskStates
      <4> QED
        BY <4>1, <1>a DEF TypeOK
    <3> QED
      BY <1>12, <3>1, <3>2
  <2>3. \A q \in Reviews : DueOf(q)' <=> DueOf(q)
    BY <2>1, <2>2, <1>b
  <2> QED
    BY <2>1, <2>3, <1>b, <1>e
<1>13. ASSUME UNCHANGED <<live, ledger, stored, handler, task, continued, crashes>>
       PROVE  Simulated
  <2>1. \A q \in Reviews : DueOf(q)' <=> DueOf(q)
    BY <1>13, <1>b
  <2> QED
    BY <1>13, <2>1, <1>b, <1>e
<1>14. ASSUME Crash PROVE Simulated
  <2>1. /\ live' = {} /\ stored' = stored /\ continued' = continued /\ crashes' = crashes + 1
        /\ \A q \in Reviews : ledger'[s][q] = "absent"
    BY <1>14, <1>a DEF Crash
  <2>2. crashes + 1 \in Runs /\ crashes + 1 > crashes
    BY <1>14, <1>a, BoundsAssumption DEF Crash, TypeOK, Runs
  <2>3. continued'[crashes'] = [r \in Reviews |-> 0]
    BY <2>1, <2>2, <1>a DEF NothingContinuedLater, TypeOK
  <2>4. Seen' = stored /\ Due' = {}
    BY <2>1, <1>b, DueMemberNext
  <2>5. Lifecycle!Restart
    BY <2>1, <2>3, <2>4 DEF Lifecycle!Restart, Seen
  <2> QED
    BY <2>5 DEF Simulated, Lifecycle!LifecycleNext
<1>15. ASSUME Reconnect(s) PROVE Simulated
  BY <1>15, <1>13 DEF Reconnect
<1> HIDE DEF Seen, DueOf
<1>16. Simulated
  <2>1. ASSUME UserNext(s) PROVE Simulated
    BY <2>1, <1>1, <1>3, <1>11, <1>12, <1>15 DEF UserNext
  <2>2. ASSUME NEW r \in Reviews, SubmissionNext(s, r) PROVE Simulated
    BY <2>2, <1>2, <1>4, <1>6, <1>8 DEF SubmissionNext
  <2>3. ASSUME NEW k \in Tasks, TaskNext(s, k) PROVE Simulated
    BY <2>3, <1>9, <1>10, <1>12 DEF TaskNext
  <2>4. ASSUME UNCHANGED vars PROVE Simulated
    BY <2>4, <1>13 DEF vars
  <2>5. \/ UserNext(s) \/ (\E r \in Reviews : SubmissionNext(s, r))
        \/ (\E k \in Tasks : TaskNext(s, k)) \/ Crash \/ UNCHANGED vars
    BY <1>a DEF Next
  <2> QED
    BY <2>1, <2>2, <2>3, <2>4, <2>5, <1>14
<1> QED
  BY <1>16 DEF Simulated

(* The one session of a thread implements the review lifecycle: every step *)
(* asks, closes, continues, gives up or saves one review as its            *)
(* specification allows, a restart goes back to what was saved, and the    *)
(* other steps change nothing it speaks of.                                *)
THEOREM LifecycleImplemented ==
  ASSUME OneSession, Sessions # {} PROVE Spec => ImplementsLifecycle
<1>1. Init => Lifecycle!LifecycleInit
  <2> SUFFICES ASSUME Init PROVE Lifecycle!LifecycleInit
    OBVIOUS
  <2>1. /\ TheSession \in Sessions /\ TheSession \notin live /\ crashes = 0 /\ 0 \in Runs
        /\ stored = [r \in Reviews |-> "absent"]
        /\ continued[0] = [r \in Reviews |-> 0]
        /\ \A r \in Reviews : ledger[TheSession][r] # "answered"
    BY BoundsAssumption DEF Init, TheSession, Runs
  <2>2. Due = {}
    BY <2>1 DEF Due
  <2> QED
    BY <2>1, <2>2 DEF Lifecycle!LifecycleInit
<1>2. ContinuedInv /\ [Next]_vars
        => [Lifecycle!LifecycleNext]_(Lifecycle!lifecycleVars)
  BY LifecycleStep DEF Lifecycle!lifecycleVars, SameLifecycle, Seen
<1>3. Spec => Lifecycle!LifecycleInit /\ [][Lifecycle!LifecycleNext]_(Lifecycle!lifecycleVars)
  BY <1>1, <1>2, ContinuedInvariant, PTL DEF Spec
<1> QED
  BY <1>3 DEF ImplementsLifecycle, Lifecycle!LifecycleSpec
=============================================================================

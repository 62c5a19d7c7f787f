---------------------------- MODULE HitlWorkflow -----------------------------
(***************************************************************************)
(* The human-review workflow of one persisted chat thread:                 *)
(* chat/hitl.py with the transcript rule of chat/history.py and the        *)
(* reconnect handler of sessions.py.                                       *)
(*                                                                         *)
(* A thread is shown by browser sessions.  Each session keeps its own copy *)
(* of the thread (cl.chat_context), and with it of every review's ledger;  *)
(* the data layer keeps the durable one.  All handlers run on one event    *)
(* loop, so a step of this model is the code between two awaits.           *)
(*                                                                         *)
(* Reviews are numbered in the order they are asked, which is the order of *)
(* their messages in every chat context.                                   *)
(***************************************************************************)
EXTENDS Integers, FiniteSets

CONSTANTS
  Sessions,     \* browser sessions that may show the thread
  Turns,        \* user messages each session may send
  MaxReviews,   \* bound: reviews the thread asks for
  MaxCrashes,   \* bound: restarts of the server process
  Inline,       \* reviews the application answers with submit, not submit_action
  NoTask,       \* session.current_task before the first task
  Events        \* what the environment may do, a subset of EventKinds

EventKinds == {"double_send", "stop", "reconnect", "crash", "update_fails"}

Reviews == 1 .. MaxReviews
Runs == 0 .. MaxCrashes           \* runs of the server process, in order
Tasks == Turns \cup Reviews       \* a turn, or the continuation of a review

ASSUME BoundsAssumption ==
  /\ MaxReviews \in Nat
  /\ MaxCrashes \in Nat
  /\ Inline \subseteq Reviews
  /\ Events \subseteq EventKinds

\* A turn is never mistaken for a review's number or for NoTask.
ASSUME TurnsAssumption ==
  /\ Turns \cap Reviews = {}
  /\ NoTask \notin Tasks

VARIABLES
  live,       \* sessions open in the running process
  ledger,     \* ledger[s][r]: the ledger in session s's chat context
  naive,      \* naive[s]: reviews whose createdAt has no Z (hydrated messages)
  unsaved,    \* unsaved[s]: reviews whose last change is not yet durable
  stored,     \* stored[r]: the ledger in the data layer
  handler,    \* handler[s][r]: the submission that closed r in s
  task,       \* task[s][k]: the asyncio task of a turn or continuation
  current,    \* current[s]: session.current_task, what Stop cancels
  loading,    \* loading[s]: the browser shows a running task
  asked,      \* reviews asked so far
  continued,  \* history: continued[n][r]: requests of the process's run n
              \* that resumed review r's Response
  crashes     \* restarts so far, and the number of the present run

sessionVars == <<ledger, naive, unsaved, handler, task, current, loading>>
vars == <<live, ledger, naive, unsaved, stored, handler, task, current,
          loading, asked, continued, crashes>>

Closed == {"answered", "cancelled"}
LedgerStates == {"absent", "pending"} \cup Closed
HandlerStates == {"idle", "updating", "removing", "done"}
TaskStates == {"none", "created", "announcing", "blocked", "requesting",
               "publishing", "notice", "cancelled", "over"}
Active == TaskStates \ {"none", "over"}

TypeOK ==
  /\ live \subseteq Sessions
  /\ ledger \in [Sessions -> [Reviews -> LedgerStates]]
  /\ naive \in [Sessions -> SUBSET Reviews]
  /\ unsaved \in [Sessions -> SUBSET Reviews]
  /\ stored \in [Reviews -> LedgerStates]
  /\ handler \in [Sessions -> [Reviews -> HandlerStates]]
  /\ task \in [Sessions -> [Tasks -> TaskStates]]
  /\ current \in [Sessions -> Tasks \cup {NoTask}]
  /\ loading \in [Sessions -> BOOLEAN]
  /\ asked \in 0 .. MaxReviews
  /\ continued \in [Runs -> [Reviews -> Nat]]
  /\ crashes \in 0 .. MaxCrashes

-----------------------------------------------------------------------------
(* What the code reads from a session's chat context.                      *)

\* Mutated form of _current_pending: a test that forgets ledger.closed.
CurrentPendingIgnoringClosed(s, r) ==
  /\ ledger[s][r] # "absent"
  /\ \A q \in Reviews : q > r => ledger[s][q] = "absent"

\* _current_pending: the newest review decides, and only while it is open.
CurrentPending(s, r) ==
  /\ ledger[s][r] = "pending"
  /\ \A q \in Reviews : q > r => ledger[s][q] = "absent"

\* block_new_message: a turn is refused while some review is current.
Blocked(s) == \E r \in Reviews : CurrentPending(s, r)

\* response_input: the reviews whose calls and outputs a request replays.
Replayed(s) == {r \in Reviews : ledger[s][r] = "answered"}

-----------------------------------------------------------------------------
Init ==
  /\ live = {}
  /\ ledger = [s \in Sessions |-> [r \in Reviews |-> "absent"]]
  /\ naive = [s \in Sessions |-> {}]
  /\ unsaved = [s \in Sessions |-> {}]
  /\ stored = [r \in Reviews |-> "absent"]
  /\ handler = [s \in Sessions |-> [r \in Reviews |-> "idle"]]
  /\ task = [s \in Sessions |-> [k \in Tasks |-> "none"]]
  /\ current = [s \in Sessions |-> NoTask]
  /\ loading = [s \in Sessions |-> FALSE]
  /\ asked = 0
  /\ continued = [n \in Runs |-> [r \in Reviews |-> 0]]
  /\ crashes = 0

(* A browser opens the thread: Chainlit restores its messages from the     *)
(* data layer, which serializes their timestamps without Z.                *)
Open(s) ==
  /\ s \notin live
  /\ live' = live \cup {s}
  /\ ledger' = [ledger EXCEPT ![s] = stored]
  /\ naive' = [naive EXCEPT ![s] = {r \in Reviews : stored[r] # "absent"}]
  /\ UNCHANGED <<unsaved, stored, handler, task, current, loading, asked,
                 continued, crashes>>

(* The data layer completes a write of message.send or message.update.  A  *)
(* timestamp without Z is not parsed and the write is dropped, while the   *)
(* browser goes on (README.md:399-402).                                    *)
Save(s, r) ==
  /\ r \in unsaved[s]
  /\ unsaved' = [unsaved EXCEPT ![s] = @ \ {r}]
  /\ stored' = IF r \in naive[s] THEN stored
               ELSE [stored EXCEPT ![r] = ledger[s][r]]
  /\ UNCHANGED <<live, ledger, naive, handler, task, current, loading, asked,
                 continued, crashes>>

-----------------------------------------------------------------------------
(* Submissions: submit_action and submit.                                  *)

\* _set_ledger on a message that is about to be sent or updated.
SetLedger(s, r, state) ==
  /\ ledger' = [ledger EXCEPT ![s][r] = state]
  /\ unsaved' = [unsaved EXCEPT ![s] = @ \cup {r}]

\* _normalize_chainlit_created_at: the timestamp ends in Z from now on.
NormalizeCreatedAt(s, r) == naive' = [naive EXCEPT ![s] = @ \ {r}]

\* Mutated form of _close: the timestamp of a restored message is kept.
CloseKeepingTimestamp(s, r, outcome) == SetLedger(s, r, outcome) /\ UNCHANGED naive

\* Mutated form of _close: an answered ledger that is cancelled too, which the
\* ledger's validator refuses (lines 57-60).
CloseWithBoth(s, r, outcome) ==
  SetLedger(s, r, "answered and cancelled") /\ NormalizeCreatedAt(s, r)

\* _close up to its first await: content, ledger and timestamp are set.
Close(s, r, outcome) == SetLedger(s, r, outcome) /\ NormalizeCreatedAt(s, r)

(* A submission that names the current review, and whose outputs are valid *)
(* when it answers, closes it.  Any other is refused and changes nothing.  *)
Submit(s, r, outcome) ==
  /\ s \in live
  /\ CurrentPending(s, r)
  /\ outcome = "cancelled" => r \notin Inline
  /\ Close(s, r, outcome)
  /\ handler' = [handler EXCEPT ![s][r] = "updating"]
  /\ UNCHANGED <<live, stored, task, current, loading, asked, continued, crashes>>

\* await message.update() returns and the control's removal starts.
MessageUpdated(s, r) ==
  /\ handler[s][r] = "updating"
  /\ handler' = [handler EXCEPT ![s][r] = "removing"]
  /\ UNCHANGED <<live, ledger, naive, unsaved, stored, task, current, loading,
                 asked, continued, crashes>>

\* message.update() raises: the action fails and nothing continues.
UpdateFails(s, r) ==
  /\ "update_fails" \in Events
  /\ handler[s][r] = "updating"
  /\ handler' = [handler EXCEPT ![s][r] = "done"]
  /\ UNCHANGED <<live, ledger, naive, unsaved, stored, task, current, loading,
                 asked, continued, crashes>>

\* Mutated form of the dispatch: a cancelled review continues as well.
ContinuesAlways(s, r) == TRUE

\* Mutated form of the dispatch: the pending review is looked up once more
\* after the awaits.
ContinuesIfPending(s, r) == CurrentPending(s, r)

\* submit_action lines 226-231: only an answered review continues.
Continues(s, r) == ledger[s][r] = "answered"

(* control.remove() returns, or fails and is logged (lines 314-317); the   *)
(* continuation becomes the session's task, or runs on in submit.          *)
ControlRemoved(s, r) ==
  /\ handler[s][r] = "removing"
  /\ handler' = [handler EXCEPT ![s][r] = "done"]
  /\ IF ~Continues(s, r)
       THEN UNCHANGED <<task, current, continued>>
       ELSE IF r \in Inline
         THEN /\ task' = [task EXCEPT ![s][r] = "requesting"]
              /\ continued' = [continued EXCEPT ![crashes][r] = @ + 1]
              /\ UNCHANGED current
         ELSE /\ task' = [task EXCEPT ![s][r] = "created"]
              /\ current' = [current EXCEPT ![s] = r]
              /\ UNCHANGED continued
  /\ UNCHANGED <<live, ledger, naive, unsaved, stored, loading, asked, crashes>>

-----------------------------------------------------------------------------
(* Tasks: Chainlit's process_message for a turn, _run for a continuation.  *)

(* The browser offers its composer while it shows no running task; two     *)
(* messages before the first task_start arrives are an event of their own. *)
SendTurn(s, t) ==
  /\ s \in live
  /\ ~loading[s]
  /\ "double_send" \in Events \/ \A u \in Turns : task[s][u] # "created"
  /\ task[s][t] = "none"
  /\ task' = [task EXCEPT ![s][t] = "created"]
  /\ current' = [current EXCEPT ![s] = t]
  /\ UNCHANGED <<live, ledger, naive, unsaved, stored, handler, loading, asked,
                 continued, crashes>>

\* The task's first step: task_start is emitted and awaited.
Announce(s, k) ==
  /\ task[s][k] = "created"
  /\ task' = [task EXCEPT ![s][k] = "announcing"]
  /\ loading' = [loading EXCEPT ![s] = TRUE]
  /\ UNCHANGED <<live, ledger, naive, unsaved, stored, handler, current, asked,
                 continued, crashes>>

(* The application's on_message: block_new_message refuses the turn, or    *)
(* the API request built with response_input starts.                       *)
BeginTurn(s, t) ==
  /\ task[s][t] = "announcing"
  /\ task' = [task EXCEPT ![s][t] = IF Blocked(s) THEN "blocked" ELSE "requesting"]
  /\ UNCHANGED <<live, ledger, naive, unsaved, stored, handler, current, loading,
                 asked, continued, crashes>>

\* _continue: the paused Response is resumed with the recorded outputs.
BeginContinuation(s, r) ==
  /\ task[s][r] = "announcing"
  /\ task' = [task EXCEPT ![s][r] = "requesting"]
  /\ continued' = [continued EXCEPT ![crashes][r] = @ + 1]
  /\ UNCHANGED <<live, ledger, naive, unsaved, stored, handler, current, loading,
                 asked, crashes>>

(* publish receives a Response with review calls: _send_review puts a new  *)
(* message with a pending ledger into the chat context and awaits send.    *)
AskReview(s, k) ==
  /\ task[s][k] = "requesting"
  /\ asked < MaxReviews
  /\ asked' = asked + 1
  /\ SetLedger(s, asked + 1, "pending")
  /\ task' = [task EXCEPT ![s][k] = "publishing"]
  /\ UNCHANGED <<live, naive, stored, handler, current, loading, continued, crashes>>

\* publish receives any other Response and awaits publish_final.
PublishFinal(s, k) ==
  /\ task[s][k] = "requesting"
  /\ task' = [task EXCEPT ![s][k] = "publishing"]
  /\ UNCHANGED <<live, ledger, naive, unsaved, stored, handler, current, loading,
                 asked, continued, crashes>>

(* The request fails, raise_for_response raises or a review comes with     *)
(* other calls: the failure is reported in the chat.                       *)
Fail(s, k) ==
  /\ task[s][k] = "requesting"
  /\ task' = [task EXCEPT ![s][k] = "notice"]
  /\ UNCHANGED <<live, ledger, naive, unsaved, stored, handler, current, loading,
                 asked, continued, crashes>>

\* A task that emitted task_start emits task_end when it ends.
Announced(k) == k \notin Inline

\* Mutated form of the finally clause: task_end is emitted on success only.
FinishOnSuccessOnly(s, k) ==
  /\ task[s][k] \in {"blocked", "publishing", "notice", "cancelled"}
  /\ task' = [task EXCEPT ![s][k] = "over"]
  /\ loading' = IF task[s][k] \in {"notice", "cancelled"} THEN loading
                ELSE [loading EXCEPT ![s] = FALSE]
  /\ UNCHANGED <<live, ledger, naive, unsaved, stored, handler, current, asked,
                 continued, crashes>>

\* The task's last await returns, or raises CancelledError, and finally runs.
Finish(s, k) ==
  /\ task[s][k] \in {"blocked", "publishing", "notice", "cancelled"}
  /\ task' = [task EXCEPT ![s][k] = "over"]
  /\ loading' = IF Announced(k) THEN [loading EXCEPT ![s] = FALSE] ELSE loading
  /\ UNCHANGED <<live, ledger, naive, unsaved, stored, handler, current, asked,
                 continued, crashes>>

-----------------------------------------------------------------------------
(* The environment: Stop, a network drop, a restart.                       *)

(* Chainlit's Stop cancels current_task.  A task that has not begun never  *)
(* runs, and _run awaits task_start outside its try (line 331): cancelled  *)
(* there it ends without task_end.                                         *)
Stop(s) ==
  /\ "stop" \in Events
  /\ s \in live
  /\ loading[s]
  /\ \E k \in Tasks :
       /\ current[s] = k
       /\ task[s][k] \in Active
       /\ task' = [task EXCEPT ![s][k] =
                     IF \/ @ = "created"
                        \/ @ = "announcing" /\ k \in Reviews
                       THEN "over" ELSE "cancelled"]
  /\ UNCHANGED <<live, ledger, naive, unsaved, stored, handler, current, loading,
                 asked, continued, crashes>>

(* The browser reconnects with its session ID: _connection_successful      *)
(* keeps the restored session and emits task_end (sessions.py:33-34).      *)
Reconnect(s) ==
  /\ "reconnect" \in Events
  /\ s \in live
  /\ loading' = [loading EXCEPT ![s] = FALSE]
  /\ UNCHANGED <<live, ledger, naive, unsaved, stored, handler, task, current,
                 asked, continued, crashes>>

\* The process stops: sessions, tasks and writes in flight are lost.
Crash ==
  /\ "crash" \in Events
  /\ crashes < MaxCrashes
  /\ crashes' = crashes + 1
  /\ live' = {}
  /\ ledger' = [s \in Sessions |-> [r \in Reviews |-> "absent"]]
  /\ naive' = [s \in Sessions |-> {}]
  /\ unsaved' = [s \in Sessions |-> {}]
  /\ handler' = [s \in Sessions |-> [r \in Reviews |-> "idle"]]
  /\ task' = [s \in Sessions |-> [k \in Tasks |-> "none"]]
  /\ current' = [s \in Sessions |-> NoTask]
  /\ loading' = [s \in Sessions |-> FALSE]
  /\ UNCHANGED <<stored, asked, continued>>

-----------------------------------------------------------------------------
UserNext(s) ==
  \/ Open(s)
  \/ \E t \in Turns : SendTurn(s, t)
  \/ \E r \in Reviews, outcome \in Closed : Submit(s, r, outcome)
  \/ Stop(s)
  \/ Reconnect(s)

SubmissionNext(s, r) ==
  Save(s, r) \/ MessageUpdated(s, r) \/ UpdateFails(s, r) \/ ControlRemoved(s, r)

TaskNext(s, k) ==
  \/ Announce(s, k)
  \/ k \in Turns /\ BeginTurn(s, k)
  \/ k \in Reviews /\ BeginContinuation(s, k)
  \/ AskReview(s, k)
  \/ PublishFinal(s, k)
  \/ Fail(s, k)
  \/ Finish(s, k)

Next ==
  \/ \E s \in Sessions : UserNext(s)
  \/ \E s \in Sessions, r \in Reviews : SubmissionNext(s, r)
  \/ \E s \in Sessions, k \in Tasks : TaskNext(s, k)
  \/ Crash

Spec == Init /\ [][Next]_vars

(* The event loop runs what is ready and every awaited call returns: the   *)
(* application's client and data layer answer or time out.  Nothing is     *)
(* assumed of the user, the network or the process.                        *)
Fairness ==
  /\ \A s \in Sessions, r \in Reviews : WF_vars(SubmissionNext(s, r))
  /\ \A s \in Sessions, k \in Tasks : WF_vars(TaskNext(s, k))

FairSpec == Spec /\ Fairness
-----------------------------------------------------------------------------
(* Properties.                                                             *)

(* "Callers close the review before their first await, so a duplicate      *)
(* submission finds it closed" (hitl.py:264-265): whatever is submitted    *)
(* again, in any order, a review resumes its Response at most once in a    *)
(* run of the process.  What a restart loses may be answered again; that   *)
(* nothing else is continued after it says ImplementsLifecycle.            *)
AtMostOneContinuation == \A n \in Runs, r \in Reviews : continued[n][r] <= 1

(* "A review records its answers before its continuation runs, so a        *)
(* transcript built meanwhile includes it" (hitl.py:178-179): while a      *)
(* continuation runs, its session's transcript replays its review.         *)
TranscriptIncludesReview ==
  \A s \in Sessions, r \in Reviews :
    task[s][r] \in {"requesting", "publishing"} => r \in Replayed(s)

(* A review the data layer holds as closed is closed, the same way, in the *)
(* chat context of the session that shows the thread: no order of a        *)
(* submission, its background write, a restart and a reload lets it be     *)
(* answered again.                                                         *)
StoredCloseIsKnown ==
  \A r \in Reviews : stored[r] \in Closed =>
    \A s \in live : ledger[s][r] = stored[r]

(* What was recorded of a review never changes: neither the durable ledger *)
(* nor a session's copy leaves a closed state or switches to the other.    *)
OutcomeStep ==
  /\ \A r \in Reviews : stored[r] \in Closed => stored'[r] = stored[r]
  /\ \A s \in live \cap live', r \in Reviews :
       ledger[s][r] \in Closed => ledger'[s][r] = ledger[s][r]
OutcomeIsFinal == [][OutcomeStep]_vars

(* The browser shows a running task only while one runs: no way a task     *)
(* ends, failures and Stop included, forgets task_end.  The one exception  *)
(* is the code's own: a continuation that Stop cancels in task_start,      *)
(* before its try (line 331).                                              *)
SpinnerHasTask ==
  \A s \in Sessions : loading[s] =>
    \/ \E k \in Tasks : task[s][k] \in Active
    \/ \E r \in Reviews : task[s][r] = "over" /\ continued[crashes][r] = 0

(* The ledger a session closed reaches the data layer, a restored review's *)
(* included, unless the process stops first: "without this fix the UI can  *)
(* finish while the durable ledger remains pending" (README.md:399-402).   *)
CloseBecomesDurable ==
  \A s \in Sessions, r \in Reviews :
    ledger[s][r] \in Closed ~> (stored[r] \in Closed \/ s \notin live)

(* An accepted answer resumes the paused Response unless Stop cancels its  *)
(* task or the process stops first (README.md:388-390), whatever else the  *)
(* session does meanwhile.                                                 *)
AnswerContinues ==
  \A s \in Sessions, r \in Reviews :
    (handler[s][r] = "updating" /\ ledger[s][r] = "answered")
      ~> \/ continued[crashes][r] > 0
         \/ task[s][r] \in {"cancelled", "over"}
         \/ s \notin live

(* The one session of a thread implements the review lifecycle, through    *)
(* restarts as well: a thread that nobody shows is what is stored of it,   *)
(* and a continuation is due from the submission of the answer until its   *)
(* request starts.  So no restart, reload or repeated submission continues *)
(* a review whose close was saved, or one without a recorded answer.       *)
TheSession == CHOOSE s \in Sessions : TRUE
Due == {r \in Reviews :
          /\ ledger[TheSession][r] = "answered"
          /\ \/ handler[TheSession][r] \in {"updating", "removing"}
             \/ task[TheSession][r] \in {"created", "announcing"}}
Lifecycle == INSTANCE ReviewLifecycle WITH
  status <- IF TheSession \in live THEN ledger[TheSession] ELSE stored,
  saved <- stored, due <- Due, continued <- continued[crashes]
ImplementsLifecycle == Lifecycle!LifecycleSpec

(* "Reject a new user turn while the current thread awaits human input"    *)
(* (hitl.py:196): a turn's request starts only when no review is open.     *)
TurnStep ==
  \A s \in Sessions, t \in Turns :
    task[s][t] = "announcing" /\ task'[s][t] = "requesting"
      => \A r \in Reviews : ledger[s][r] # "pending"
TurnsAwaitReviews == [][TurnStep]_vars

(* "The continuation then runs as the session's task, like a chat message: *)
(* Chainlit shows it running and Stop cancels it" (hitl.py:211-213).       *)
ContinuationIsSessionTask ==
  \A s \in Sessions, r \in Reviews :
    task[s][r] \in {"requesting", "publishing"} => loading[s] /\ current[s] = r
=============================================================================

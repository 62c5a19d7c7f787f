--------------------------- MODULE ReviewLifecycle ---------------------------
(***************************************************************************)
(* What chat/hitl.py promises of one thread's human reviews, without       *)
(* sessions, tasks and awaits: a review is asked, then closed once by an   *)
(* answer or by a cancellation; an answer makes one continuation due, and  *)
(* that continuation advances the paused Response by one transition        *)
(* (hitl.py:29-39, 206-215).  A restart of the process takes each review   *)
(* back to what was saved of it, and with it what was due.                 *)
(***************************************************************************)
EXTENDS Naturals

CONSTANT Reviews        \* the reviews the thread may ever ask

VARIABLES status,       \* status[r]: the review's ledger
          saved,        \* saved[r]: the ledger a restart goes back to
          due,          \* answered reviews whose continuation is to come
          continued     \* continued[r]: requests of this run of the process
                        \* that resumed its Response

Status == {"absent", "pending", "answered", "cancelled"}

lifecycleVars == <<status, saved, due, continued>>

LifecycleInit ==
  /\ status = [r \in Reviews |-> "absent"]
  /\ saved = [r \in Reviews |-> "absent"]
  /\ due = {}
  /\ continued = [r \in Reviews |-> 0]

Ask(r) ==
  /\ status[r] = "absent"
  /\ status' = [status EXCEPT ![r] = "pending"]
  /\ UNCHANGED <<saved, due, continued>>

AnswerReview(r) ==
  /\ status[r] = "pending"
  /\ status' = [status EXCEPT ![r] = "answered"]
  /\ due' = due \cup {r}
  /\ UNCHANGED <<saved, continued>>

CancelReview(r) ==
  /\ status[r] = "pending"
  /\ status' = [status EXCEPT ![r] = "cancelled"]
  /\ UNCHANGED <<saved, due, continued>>

ContinueReview(r) ==
  /\ r \in due
  /\ status[r] = "answered"
  /\ continued' = [continued EXCEPT ![r] = @ + 1]
  /\ due' = due \ {r}
  /\ UNCHANGED <<status, saved>>

\* The update of the answered message fails, or Stop cancels the continuation
\* before its request: it is not made up for.
Abandon(r) ==
  /\ r \in due
  /\ due' = due \ {r}
  /\ UNCHANGED <<status, saved, continued>>

SaveReview(r) ==
  /\ saved' = [saved EXCEPT ![r] = status[r]]
  /\ UNCHANGED <<status, due, continued>>

Restart ==
  /\ status' = saved
  /\ due' = {}
  /\ continued' = [r \in Reviews |-> 0]
  /\ UNCHANGED saved

LifecycleNext ==
  \/ \E r \in Reviews :
       \/ Ask(r) \/ AnswerReview(r) \/ CancelReview(r)
       \/ ContinueReview(r) \/ Abandon(r) \/ SaveReview(r)
  \/ Restart

LifecycleSpec == LifecycleInit /\ [][LifecycleNext]_lifecycleVars
=============================================================================

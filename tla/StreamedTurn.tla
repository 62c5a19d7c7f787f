---------------------------- MODULE StreamedTurn ----------------------------
(***************************************************************************)
(* One chat turn that renders a streamed Response: MessageStream of        *)
(* chat/streaming.py for the answer's text, and CommentarySteps or         *)
(* CommentaryTaskList of openai/responses.py for its commentary, used as   *)
(* the README shows:                                                       *)
(*                                                                         *)
(*   try:                                                                  *)
(*     async with MessageStream(message) as stream:                        *)
(*       async for event in response: ... stream_token, flush or add ...   *)
(*     await commentary.complete()                                         *)
(*   except: await commentary.stop(); raise                                *)
(*                                                                         *)
(* Stop cancels the turn, and a send fails, at any await, in the clean-up  *)
(* as well.  A step is what runs between two awaits.  Tokens are numbered  *)
(* in the order in which they arrive.                                      *)
(***************************************************************************)
EXTENDS Naturals, Sequences

CONSTANTS
  Renderers,   \* the commentary renderers to look at: "steps", "tasks"
  MaxTokens,   \* bound: tokens of the Response
  MaxAdds,     \* bound: commentary texts of the Response
  MaxAborts    \* bound: how often Stop or a failure hits the turn

ASSUME BoundsAssumption ==
  /\ Renderers \subseteq {"steps", "tasks"}
  /\ MaxTokens \in Nat /\ MaxAdds \in Nat /\ MaxAborts \in Nat

VARIABLES
  pc,        \* what the turn awaits
  raised,    \* the turn unwinds: CancelledError or a failure is in flight
  aborts,    \* how often it was hit
  early,     \* history: it was hit before it reached complete
  received,  \* tokens that stream_token was called with
  tokens,    \* MessageStream._tokens
  due,       \* monotonic() has passed _next_flush
  content,   \* message.content
  shown,     \* the text that reached the browser
  renderer,  \* the renderer of this turn
  active,    \* it has an _active_step or _active_task
  display,   \* the step or task list as the server holds it
  screen,    \* the step or task list as the browser shows it
  dropped,   \* history: the turn was hit before its token was kept
  cut        \* history: complete or stop was hit, and nothing after returned

stream == <<received, tokens, due, content, shown, dropped>>
commentary == <<renderer, active, display, screen, cut>>
hits == <<raised, aborts, early>>
vars == <<pc, hits, stream, commentary>>

\* A step's history, or a task list's tasks, and the state of the whole.
Displays == [entries : 0 .. MaxAdds, state : {"none", "running", "done", "failed"}]

TypeOK ==
  /\ pc \in {"events", "yield", "sending", "adding", "leaving", "complete",
             "completing", "stop", "stopping", "over"}
  /\ raised \in BOOLEAN
  /\ aborts \in 0 .. MaxAborts
  /\ early \in BOOLEAN
  /\ received \in 0 .. MaxTokens
  /\ tokens \in Seq(1 .. MaxTokens)
  /\ due \in BOOLEAN
  /\ content \in Seq(1 .. MaxTokens)
  /\ shown \in Seq(1 .. MaxTokens)
  /\ renderer \in Renderers
  /\ active \in BOOLEAN
  /\ display \in Displays
  /\ screen \in Displays
  /\ dropped \in BOOLEAN
  /\ cut \in BOOLEAN

Nothing == [entries |-> 0, state |-> "none"]

Init ==
  /\ pc = "events"
  /\ raised = FALSE
  /\ aborts = 0
  /\ early = FALSE
  /\ received = 0
  /\ tokens = <<>>
  /\ due = TRUE
  /\ content = <<>>
  /\ shown = <<>>
  /\ renderer \in Renderers
  /\ active = FALSE
  /\ display = Nothing
  /\ screen = Nothing
  /\ dropped = FALSE
  /\ cut = FALSE

-----------------------------------------------------------------------------
(* MessageStream.                                                          *)

\* stream_token yields first.
StreamToken ==
  /\ pc = "events"
  /\ received < MaxTokens
  /\ received' = received + 1
  /\ pc' = "yield"
  /\ UNCHANGED <<hits, tokens, due, content, shown, dropped, commentary>>

\* flush with a batch: it is taken, and message.stream_token appends it to
\* the content before it awaits the browser's event.
Flush(batch, sending) ==
  /\ content' = content \o batch
  /\ tokens' = <<>>
  /\ pc' = sending

\* Mutated form of Yielded: the token of the call before is kept.
YieldedStale ==
  /\ pc = "yield"
  /\ tokens' = Append(tokens, received - 1)
  /\ pc' = "events"
  /\ UNCHANGED <<hits, received, due, content, shown, dropped, commentary>>

\* The token is kept; it is sent with its batch when 50 ms have passed.
Yielded ==
  /\ pc = "yield"
  /\ IF due
       THEN Flush(Append(tokens, received), "sending")
       ELSE /\ tokens' = Append(tokens, received)
            /\ pc' = "events"
            /\ UNCHANGED content
  /\ UNCHANGED <<hits, received, due, shown, dropped, commentary>>

\* The application's flush at a text boundary; without a batch it does nothing.
Boundary ==
  /\ pc = "events"
  /\ tokens # <<>>
  /\ Flush(tokens, "sending")
  /\ UNCHANGED <<hits, received, due, shown, dropped, commentary>>

\* The event was sent: _next_flush is 50 ms away.
Sent ==
  /\ pc = "sending"
  /\ shown' = content
  /\ due' = FALSE
  /\ pc' = "events"
  /\ UNCHANGED <<hits, received, tokens, content, dropped, commentary>>

\* 50 ms pass.
Elapse ==
  /\ ~due
  /\ due' = TRUE
  /\ UNCHANGED <<pc, hits, received, tokens, content, shown, dropped, commentary>>

\* What follows the async with block.
AfterBlock(failed) == IF failed THEN "stop" ELSE "complete"

\* Mutated form of Leave: the rest is flushed only when nothing was raised.
LeaveOnSuccess(failed) ==
  IF tokens = <<>> \/ failed
    THEN pc' = AfterBlock(failed) /\ UNCHANGED <<tokens, content>>
    ELSE Flush(tokens, "leaving")

\* __aexit__ flushes what is left.
Leave(failed) ==
  IF tokens = <<>>
    THEN pc' = AfterBlock(failed) /\ UNCHANGED <<tokens, content>>
    ELSE Flush(tokens, "leaving")

\* The Response ends.
EndOfEvents ==
  /\ pc = "events"
  /\ Leave(FALSE)
  /\ UNCHANGED <<hits, received, due, shown, dropped, commentary>>

\* __aexit__ returns.
Left ==
  /\ pc = "leaving"
  /\ shown' = content
  /\ due' = FALSE
  /\ pc' = AfterBlock(raised)
  /\ UNCHANGED <<hits, received, tokens, content, dropped, commentary>>

-----------------------------------------------------------------------------
(* Commentary.                                                             *)

\* A new status is appended: the step's output and label, or a running task
\* after the one before it is done.
NextEntry(d) == [entries |-> d.entries + 1, state |-> "running"]

\* add up to the send or update that it awaits.
Add ==
  /\ pc = "events"
  /\ display.entries < MaxAdds
  /\ display' = NextEntry(display)
  /\ active' = TRUE
  /\ pc' = "adding"
  /\ UNCHANGED <<hits, stream, renderer, screen, cut>>

Added ==
  /\ pc = "adding"
  /\ screen' = display
  /\ pc' = "events"
  /\ UNCHANGED <<hits, stream, renderer, active, display, cut>>

\* Mutated form of Forgets: a step is forgotten before its update, too.
ForgetsAlways == TRUE

\* CommentaryTaskList forgets its task before it sends; CommentarySteps its
\* step when the update has returned.
ForgetsFirst == renderer = "tasks"

\* complete and stop up to the update or send that they await.
Finish(state, awaiting) ==
  /\ display' = [display EXCEPT !.state = state]
  /\ active' = (active /\ ~ForgetsFirst)
  /\ pc' = awaiting

\* complete: nothing to do without a step, or without a task list.
Complete ==
  /\ pc = "complete"
  /\ IF IF renderer = "steps" THEN active ELSE display # Nothing
       THEN Finish("done", "completing")
       ELSE pc' = "over" /\ UNCHANGED <<active, display>>
  /\ UNCHANGED <<hits, stream, renderer, screen, cut>>

\* Mutated form of StopCommentary: a task list ends as if it had succeeded.
StopAsDone ==
  /\ pc = "stop"
  /\ IF active THEN Finish(IF renderer = "tasks" THEN "done" ELSE "failed", "stopping")
               ELSE pc' = "over" /\ UNCHANGED <<active, display>>
  /\ UNCHANGED <<hits, stream, renderer, screen, cut>>

\* Mutated form of StopCommentary: the failed task list is not sent.
StopUnsent ==
  /\ pc = "stop"
  /\ IF active THEN Finish("failed", IF renderer = "tasks" THEN "over" ELSE "stopping")
               ELSE pc' = "over" /\ UNCHANGED <<active, display>>
  /\ UNCHANGED <<hits, stream, renderer, screen, cut>>

\* stop: nothing to do without an active step or task.
StopCommentary ==
  /\ pc = "stop"
  /\ IF active THEN Finish("failed", "stopping")
               ELSE pc' = "over" /\ UNCHANGED <<active, display>>
  /\ UNCHANGED <<hits, stream, renderer, screen, cut>>

\* complete or stop returns.  The browser ignores the update of a step that
\* it never received.
Finished ==
  /\ pc \in {"completing", "stopping"}
  /\ screen' = IF renderer = "steps" /\ screen = Nothing THEN screen ELSE display
  /\ active' = FALSE
  /\ cut' = FALSE
  /\ pc' = "over"
  /\ UNCHANGED <<hits, stream, renderer, display>>

-----------------------------------------------------------------------------
\* Where a hit comes before complete.
BeforeComplete == {"events", "yield", "sending", "adding", "leaving"}

\* Stop, or a failing send or event, hits the turn: what was being sent has
\* reached the browser or has not.
Abort ==
  /\ pc \notin {"complete", "stop", "over"}
  /\ aborts < MaxAborts
  /\ aborts' = aborts + 1
  /\ raised' = TRUE
  /\ early' = (early \/ pc \in BeforeComplete)
  /\ shown' \in IF pc \in {"sending", "leaving"} THEN {shown, content} ELSE {shown}
  /\ screen' \in IF pc \in {"adding", "completing", "stopping"} THEN {screen, display}
                                                                ELSE {screen}
  /\ dropped' = (dropped \/ pc = "yield")
  /\ cut' = (pc = "stopping")
  /\ CASE pc \in {"events", "yield", "sending", "adding"} -> Leave(TRUE)
       [] pc \in {"leaving", "completing"} -> pc' = "stop" /\ UNCHANGED <<tokens, content>>
       [] pc = "stopping" -> pc' = "over" /\ UNCHANGED <<tokens, content>>
  /\ UNCHANGED <<received, due, renderer, active, display>>

-----------------------------------------------------------------------------
Render ==
  \/ StreamToken \/ Yielded \/ Boundary \/ Sent \/ EndOfEvents \/ Left
  \/ Add \/ Added \/ Complete \/ StopCommentary \/ Finished

Next == Render \/ Elapse \/ Abort

Spec == Init /\ [][Next]_vars
-----------------------------------------------------------------------------
(* Properties.                                                             *)

\* How many of the received tokens were kept: all, but for one at its yield.
Kept == IF pc = "yield" \/ dropped THEN received - 1 ELSE received

(* Batching neither loses, repeats nor reorders text: content and batch    *)
(* are the tokens kept, in the order they arrived.  "Leaving the async     *)
(* with block sends the batch not yet shown, so Stop and failures keep     *)
(* every token received" (lines 15-16): after the block no batch is left   *)
(* behind, and without a hit the browser shows it all.                     *)
Outside == pc \in {"complete", "completing", "stop", "stopping", "over"}
TextInOrder ==
  /\ content \o tokens = [i \in 1 .. Kept |-> i]
  /\ Outside => tokens = <<>> /\ (~raised => shown = content)

(* "Stopping marks the active display as failed and preserves its          *)
(* history" (README.md:198-199): once complete or stop returned, a step    *)
(* shows its whole history and no longer runs, wherever Stop hit before.   *)
EndsOnScreen ==
  pc = "over" /\ ~cut /\ screen # Nothing =>
    screen = display /\ screen.state # "running"
StepsEndOnScreen == renderer = "steps" => EndsOnScreen

\* A step whose send was hit before the browser received it.
UnseenStep == renderer = "steps" /\ raised /\ screen = Nothing

\* The browser shows the step or task list, with this state.
Shows(state) == screen = [display EXCEPT !.state = state]

(* "Stopping marks the active display as failed" (README.md:198-199), in   *)
(* the browser, for steps and task lists.  A turn hit before it reached    *)
(* complete never shows success, not even for a moment.  Once complete or  *)
(* stop returned, an undisturbed turn with commentary shows done, and one  *)
(* that was hit before complete shows failed; so does a step that was hit  *)
(* in complete's own update, which a task list does not (EndsOnScreen).    *)
(* Only a step the browser never received stays unseen.                    *)
OutcomeShown ==
  /\ early => screen.state # "done"
  /\ pc = "over" /\ ~cut /\ display # Nothing =>
       /\ ~raised => Shows("done")
       /\ early \/ (raised /\ renderer = "steps") => Shows("failed") \/ UnseenStep
=============================================================================

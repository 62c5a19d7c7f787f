# Verification of chainlit-utils

TLA+ models of `chainlit_utils`, the TLC configurations that check them and the
TLAPS proofs about them. The package extends the Chainlit chat framework:
durable human reviews of paused OpenAI Responses, streamed answers, delegated
OAuth tokens, a versioned PostgreSQL schema, audio, files, MCP tools.

Everything in a chat server process runs on one asyncio event loop, so a model's
step is the code between two awaits; between processes (database, identity
provider, browser) a step is one statement, request or event. Line numbers are
those of `src/src/chainlit_utils/…` unless another path is given.

## 1. Inventory

| Component | State it keeps | Operations | What is hard | What must hold |
|---|---|---|---|---|
| **Human-review workflow** `chat/hitl.py` | a ledger in the metadata of a message, in each session's `cl.chat_context` and in the data layer; `session.current_task` | `publish`, `block_new_message`, `submit_action`, `submit`, `response_input`, `_close`, `_continue`, `_run` | duplicate submissions during awaits, two browser sessions, Stop, reconnect, a dropped write, restarts, turns beside a continuation | one continuation per review, an outcome is final and durable, the transcript contains it, the spinner follows the tasks |
| Review callbacks `chat/human_review.py` | none | `props`, `prompt`, `validate_outputs`, `receipt` | which answers are accepted | only answers that the form offers are recorded |
| Review form `public/elements/HumanReview.jsx` | `responses`, `submitting`, `error` | `send`, `setResponse` | a connection lost between submission and reply, a retry, a reply after the form is removed | a submission that recorded nothing shows an error, what the form offers is accepted |
| Chat history `chat/history.py`, `settings.py` | metadata flags | `is_model_context`, `text_only_chat_messages`, `mark_*` | flags lost on restore, a blocked message that is edited | UI-only, failed and blocked messages never reach the model |
| **Session reconnection** `sessions.py` | none | `_connection_successful` | a reconnect while tasks run | the restored session is kept |
| **Message stream** `chat/streaming.py` | batch, next flush | `stream_token`, `flush`, `__aexit__` | Stop at any await, failing sends | no kept token is lost or reordered |
| **Responses rendering** `openai/responses.py` | active step or task, task list | `add`, `complete`, `stop`; projections | clean-up that is interrupted | what ended is shown as ended |
| **Speech button** `public/elements/SpeechButton.jsx` | cached clips, `stopped`, `current`, label | `load`, `play`, `stop`, `toggle` | Stop, leaving and failures while loading or between parts | one part at a time, in order, silence after Stop |
| **Audio** `openai/audio.py`, `public/dictation.js` | recorded chunks | `read_aloud`, `start/add/end_dictation`, `speech_parts` | chunks are tasks of their own | parts end where the browser thinks, recordings do not mix |
| **OAuth grants** `sso/tokens.py` | one encrypted row per browser login | `initialize`, `save`, `access_token`, `delete` | several workers, rotation, logout during a refresh | one refresh per expiry, nothing lost, nothing left after a logout |
| **OAuth routes** `sso/chainlit.py` | cookies, the request's token | `authorize`, `callback`, `logout`, `credential` | a second login that replaces the first | the previous grant is deleted, the current one revoked |
| OIDC client `sso/oidc.py` | provider metadata | checks of metadata | – | – |
| **Schema migrations** `db/schema.py`, `db/migrations/*.sql` | history table, advisory lock | `apply_migrations` | containers that start together, rollouts with two releases, lost connections | each script runs once, history and schema agree |
| MCP tools `mcp.py` | session and tools in `user_session`, API keys per URL | `server`, `connect`, `disconnect`, `response_tools`, `execute` | connections that overlap, or end while tools are listed or called | a call goes to a session that listed the tool, a disconnect forgets its own tools and no others |
| File inputs `openai/files.py` | file IDs in message metadata | `with_response_file_parts` | an upload that fails part way; metadata read before and written after it; edits and restarts | a request carries each file of its message once, in its own item |
| Chat settings `chat/settings.py` | none | `settings_widgets`, `serialize_settings` | equal values of different types, values saved by another release | what is serialized restores the selection |
| Function tools `openai/tools.py` | none | selection and formatting of calls | – | a continuation has one output per call |
| Public files, auth, CI | – | start-up copies, a lookup, workflows | – | – |

How they interact: a turn (Chainlit's `on_message`) calls `block_new_message`,
builds its input with `response_input` (which filters by `history.is_model_context`),
streams through `MessageStream` and a commentary renderer, calls tools through
`mcp.execute`, and hands the Response to `publish`. `publish` stores a review
whose form is `HumanReview.jsx`; the form calls `submit_action`, which closes
the ledger and runs a continuation as the session's task, which ends in
`publish` again. Requests get their bearer token from `ChainlitOAuth.credential`,
which reads the grant store. All durable state is in the database whose schema
`db/schema.py` maintains. Stop, reconnects and task bookkeeping are Chainlit's.

## 2. Modules

| Module | Models | Kind |
|---|---|---|
| `ReviewLifecycle` | what `hitl.py` promises of a review: asked, closed once, continued once if answered; a restart takes it back to what was saved | abstract specification |
| `HitlWorkflow` | `hitl.py`, the transcript rule of `history.py`, `sessions.py`, and Chainlit's tasks around them | detailed specification; implements `ReviewLifecycle` |
| `HitlWorkflowProofs` | | proofs |
| `AtomicMigrations` | what a call of `apply_migrations` promises: each pending version in one step, decided by the database as it is | abstract specification |
| `SchemaMigrations`, `SchemaMigrationsProofs` | `apply_migrations`, statement by statement | specification, implements `AtomicMigrations`, and proofs |
| `AtomicGrants` | what `sso/tokens.py` promises of a login's grant: one value, refreshed in one step | abstract specification |
| `OAuthGrants`, `OAuthGrantsProofs` | `sso/tokens.py` with the callback and logout of `sso/chainlit.py`, and an identity provider | specification, implements `AtomicGrants`, and proofs |
| `SpeechPlayer`, `SpeechPlayerProofs` | `SpeechButton.jsx` with `read_aloud` of `audio.py`, and the events of audio elements | specification and proofs |
| `StreamedTurn` | `MessageStream` and the two commentary renderers in one turn | specification |
| `Dictation`, `DictationProofs` | the dictation callbacks of `audio.py`, `dictation.js`, and the event loop's tasks | specification and proofs |
| `McpSession` | `McpTools` of `mcp.py`, the calls and outputs of `openai/tools.py`, Chainlit's connections | specification |
| `ChatTurnProofs` | | proofs about `McpSession`, `StreamedTurn` and the composition `MCChatTurn` |
| `TurnInput`, `TurnInputProofs` | `response_input` and `block_new_message` of `hitl.py`, `history.py`, `openai/files.py`, in turns that are sent, edited, stopped and resumed | specification and proofs |
| `ReviewForm` | `HumanReview.jsx`, `human_review.py`, and the part of `submit_action` that meets a submission | specification |
| `SavedSettings` | `chat/settings.py` for one setting across sessions and releases | specification |
| `PageFormsProofs` | | proofs about `ReviewForm`, `SavedSettings` and the composition `MCPageControls` |
| `MCPageControls` | `SpeechPlayer`, `Dictation`, `ReviewForm` and `SavedSettings` in one run | instance |
| `MCChatTurn` | `TurnInput`, `McpSession` and `StreamedTurn` in one run | instance |
| other `MC*` | bounds, symmetry and model values for TLC | instances |

`MCPageControls` and `MCChatTurn` join modules that share no state: the speech
button knows nothing of the recorder, and a turn awaits its input before its
stream and its tools. Interleaving them would only multiply the states, so a
behaviour exercises one of them (`control`, `stage`) and leaves the others as
they are at first. Where components do share state they are in one module:
the tasks, reviews and reconnects in `HitlWorkflow`, messages with their marks
and file IDs in `TurnInput`, the form with the server's reply in `ReviewForm`.

### HitlWorkflow

| Model | Code |
|---|---|
| `ledger[s][r]` | the `HitlLedger` in session `s`'s `cl.chat_context`: `outputs` set is `"answered"`, `cancelled` is `"cancelled"` |
| `stored[r]`, `unsaved[s]`, `Save` | the data layer's row and writes that Chainlit completes after `send`/`update` returned. Changes of one review coalesce: the write that lands carries the latest ledger |
| `naive[s]` | reviews restored from the data layer, whose `createdAt` has no `Z`; Chainlit cannot parse it and drops the write (`src/README.md:399-402`), which `_normalize_chainlit_created_at` prevents |
| `handler[s][r]` | how far `_close` is: awaiting `message.update`, then `control.remove` |
| `task`, `current`, `loading` | the asyncio tasks of turns and continuations, `session.current_task`, and what `task_start`/`task_end` told the browser |
| `continued[n][r]` | history: requests that resumed the Response of `r` in run `n` of the process, which the `n`-th restart began |
| `Due` | answered reviews whose continuation is to come: the submission is in `_close`, or the task has not sent its request |
| `CurrentPending` | `_current_pending`: the newest review decides |
| `Submit`, `MessageUpdated`, `UpdateFails`, `ControlRemoved` | `submit_action` and `_close`, cut at the awaits. A refused submission changes nothing and is a stutter |
| `Inline` | reviews that the application answers with `submit`: the continuation runs in the caller, without a task, and a cancellation is not possible |
| `Announce`, `BeginContinuation`, `AskReview`, `PublishFinal`, `Fail`, `Finish` | `_run`, `_continue`, `publish`, `_send_review` |
| `SendTurn`, `BeginTurn` | a user message and `block_new_message` in it |
| `Stop`, `Reconnect`, `Crash`, `Open` | Chainlit's Stop, `_connection_successful`, the end of the process, a thread opened from the data layer |

`Events` selects what the environment does in a run. `"double_send"` is a second
message sent before the browser received the first one's `task_start`. `Stop`
distinguishes where it hits: a task that has not begun never runs, and a
continuation cancelled inside `task_start` (line 331, outside the `try`) ends
without `task_end`.

Abstracted: texts and elements, the answer's validation (an invalid one is
refused and changes nothing), the notices that failures send.

### SchemaMigrations

`pc` is the statement a process awaits; `lock` the advisory lock, `history` the
committed rows, `schema` and `ran` which script's effects the database holds and
how often each ran, `seen` the rows a process fetched. `Commit` makes script and
row take effect together (one transaction, 94-105). `LoseConnection` rolls back,
releases the lock, and the process starts again. Releases are bundles of
versions and checksums, so that old, newer and altered releases meet. The SQL is
opaque: a script ran or did not. `StatementFails` is an error of any statement after
the lock. `ImplementsAtomic` maps `history`, `schema`, `ran`, `bundle` to
themselves and `outcome` to `result`: `Commit` is `Apply`, the unknown and
changed versions are `RefuseUnknown` and `RefuseChanged` at the moment they are
found, and a lost connection only takes the result back. `load_migrations` and the quoting of table names
are not modelled.

### OAuthGrants

A grant is named by the refresh that issued its tokens; `valid` is the refresh
token the provider accepts, which rotates or stays as the provider likes.
`Select`, `SelectForUpdate`, `Refresh`, `Commit` are the statements and requests
of `access_token`; `rowLock` is the lock of `FOR UPDATE`, for which a request
waits at most 10 s (`LockTimeout`) and a `DELETE` without limit. `Abort` ends a
request anywhere (Stop, timeout, dying worker): its transaction rolls back. When
that happens between rotation and commit, the stored refresh token is spent; the
code cannot avoid it, and `lost` names those logins so that the properties can
except them. `MaxRefreshes` bounds refreshes per login. `MCOAuthGrants` follows
one login: the second only takes its place through `callback`, once it is complete.

`ImplementsAtomicGrants` sees a login's grant as one value, `Held`: what the
request that awaits its `UPDATE` has in hand, and otherwise the row. The provider's
answer is `RefreshGrant`, which replaces the value there and then; the `UPDATE`'s
commit is `Settle`, an `Abort` before it `Lose`, which brings back the row
(`Before`). The `DELETE`s are `Discard` and `Remove`, which `AtomicGrants` only
allows between refreshes.

### SpeechPlayer

`loop` is what `toggle` awaits, `queue` its chain of plays (head first), `begun`
the plays that were called, `audio` and `pauseDue` the media elements with the
pause events that are due. `Parts` is the number of parts `speech_parts` makes;
`More` and `Readable` are `_speak`'s result and its range check. Assumed of the
browser: the pause event is delivered before the user can click the button that
has just become "Read aloud" again.

### StreamedTurn

The turn runs as `src/README.md:158-162` shows, with the commentary renderer
completed after it and stopped when it fails. `tokens`, `content`, `shown` are
the batch, the message and the browser's text as token numbers; `display` and
`screen` the step or task list as the server holds it and as the browser shows
it. `Abort` is a cancellation or a failing send at any await, in the clean-up as
well. What was being sent then arrived or did not; `early` remembers that a hit came
before `complete`, after which the turn can only end as failed. The clock is reduced
to `due`.

### Dictation

| Model | Code |
|---|---|
| `ready` | the event loop's ready tasks in order. An event of the recorder is a task; the task of a chunk only schedules another, in which the callback runs (the comment at `audio.py:53-54`) |
| `StartDictation`, `AddDictationChunk`, `TakeRecording` | `start_dictation`, `add_dictation_chunk`, `end_dictation` up to the transcription |
| `RunEnd`, `SuspendEnd`, `ResumeEnd`, `RunTake` | Chainlit's audio_end handler awaits `task_start` before the callback; that await returns at once or suspends |
| `Transcribed` | `_transcribe` with its two notices, and the text that `dictation.js` puts into the input if the page shows one (`inputShown`) |
| `hurried`, `mixed` | history: recordings whose end ran without a suspension, and recordings that began before the one before was over |

### McpSession

`link[c]`, `listing[c]` and `stored` are a connection as Chainlit sees it, how
far `connect` is in it, and the `_ConnectedServer` in the user session. A
replacement may be opened before the old connection is disconnected, so
`connect` and `disconnect` interleave at the await of `list_tools`. The turn asks
the model with `response_tools` (`AskModel`), executes the calls one after the
other (`Execute`, `CallTool`, `ToolReturns`, cut at the awaits of the step and of
`call_tool`), and continues when every call has its output. An unknown tool, bad
arguments or a failing session end the turn. A tool is a name; its description,
schema and result are left out, as are the credentials of `server`.

### TurnInput

| Model | Code |
|---|---|
| `chat` | `cl.chat_context`: the messages in order with `is_error` and the exclusion mark; a review is `open`, `answered` or `cancelled` |
| `elements`, `fileIds`, `saved` | the attachments of a message object, its `FILE_IDS_METADATA_KEY`, and what of its metadata is in the data layer |
| `turn[t]` | the turn's progress: `begun`, `uploading`, `saving` (in `message.update`), `asked` (the request is sent with `items`), `reporting`, `over`; `flag` is the exclusion mark in the metadata that was read before the uploads |
| `items` | the request's input, one item per message of the chat; a message that is left out is an `Omitted` item, which keeps the positions and is not sent |
| `Block`, `Build`, `Upload`, `SaveFileIds`, `FileIdsSaved` | `block_new_message`, then `with_response_file_parts(hitl.response_input(), message)` as the README shows, cut at the awaits |
| `ResponseInput`, `IsModelContext`, `WithFileParts` | functions of the same names |
| `CloseReview`, `Continue` | `submit_action` and its continuation, in outline; `HitlWorkflow` has the details |
| `EditMessage`, `StopTurn`, `Reconnected`, `Restart`, `SaveMetadata` | Chainlit: an edit removes the messages that follow and starts a turn with the same message object; Stop sends its notice; after a reconnect the user may send beside a running turn; a restart keeps what was saved |

`refused`, `everRefused`, `forgotten`, `unmarked` and `overwritten` are history:
messages that were blocked, messages whose files or marks a restart lost before
they were saved, and blocked messages whose mark `SaveFileIds` took away
(finding 6). The properties except those, by name.

### ReviewForm

`responses`, `submitting`, `error` are the React state; `flights` and `replies`
the submissions and replies under way, unordered. `CallRejects` is a connection
lost at any time: the submission may have been handled, or may be later, and
the form lets the user submit again. The texts tell apart the words they consist
of and whether blanks surround them, because both sides trim. `Refuse` and
`Close` are `submit_action` with `validate_outputs`; a `Close` whose
`message.update` raises replies with a failure and leaves the form.

### SavedSettings

A value is its Python type and what it equals by, so that 1, 1.0 and `True` are
three values. `HasWidget`, `InitialOf` are `_widget_for_property`; `Serialized`
is `serialize_settings`; `OpenSettings`, `SelectValue`, `SaveSettings`, `Deploy`
are the application's use of them: widgets at the start of a session, a
selection, its saved text, and a release that changes the setting's kind,
default, range or options. Only `bool`, `int`, `float` and `str` values occur, as
in the widgets; labels, descriptions and the limit of the whole text's length
are left out.

## 3. Runs

| Run | Question | Result |
|---|---|---|
| `hitl-reload` | Stop, a restart and reopening from the database: is a recorded outcome ever undone, does it reach the database, does an accepted answer resume its Response? | holds, 238 000 states |
| `hitl-one-tab` | two reviews, the second through `submit`, with Stop, a restart, reconnects, double sends and failing updates: resumed at most once in each run of the process, in its own transcript, spinner follows tasks, implements `ReviewLifecycle` | holds, 280 000 states |
| `schema` | three processes of any of four releases, one lost connection and failing statements anywhere: history and scripts agree, everyone ends, implements `AtomicMigrations` | holds, 95 000 states |
| `oauth-grants` | two workers, rotation, expiry, aborts, a relogin, logout, and whether it ends: implements `AtomicGrants` | holds, 72 000 states |
| `page-controls` | speech: read, stop, leave, replay and fail at any moment; dictation: recordings that follow each other at once; review form: lost connections, retries, every choice; settings: every value through save and restore, releases in between | holds, 24 000 states |
| `chat-turn` | input: uploads, edits, blocked messages, Stop, failures, one reconnect or restart; tools: two connections while calls are executed; stream: text and commentary with three hits anywhere | holds, 1 772 000 states |
| `hitl-two-tabs` | the same thread in two browser sessions | **violated** (finding 1) |
| `hitl-overlapping-turns` | does a turn start only when no review is open? | **violated** (finding 2) |
| `hitl-late-task-end` | is a continuation shown as running, and stoppable? | **violated** (finding 3) |
| `task-list-left-running` | does `stop` end the task list on screen? | **violated** (finding 4) |
| `edited-after-block` | does the request of an edited message contain it? | **violated** (finding 5) |
| `stale-mark` | does a blocked message stay marked until it is edited? | **violated** (finding 6) |

What the properties of the two composed runs say:

- `PartsInOrder`, `StoppedIsSilent`, `ReadingEnds`: one part sounds at a time, in
  order and to its end, and only parts that exist and are not cached are asked
  for; nothing sounds after Stop or when the button says "Read aloud"; every
  reading ends.
- `TranscriptOfRecording`, `RecordingAnswered`: a transcript is made of its own
  recording's chunks, in order, and of all of them when the end suspended once;
  an ended recording is answered. Recordings that overlap in the event loop
  (`mixed`) are excepted, since the code keeps one list per session.
- `NothingFailsSilently`, `OfferedAnswersAccepted`: a form at rest without an
  error has closed its review; what the form offers is never refused.
- `AppliedAsSelected`, `SelectionRestored`: defaults left out of the saved text
  come back with the right type, and a widget starts from the saved selection or
  from a value of its own.
- `RequestCarriesFiles`, `OnlyConversation`: which files and which messages a
  request has, after failures, edits, blocks and a restart.
- `CalledSessionListedTool`, `ForgottenOnDisconnect`: see the inventory.
- `TextInOrder`, `StepsEndOnScreen`, `OutcomeShown`: no kept token is lost or
  reordered, not even at the end of the block; a step that ended is shown as ended,
  with its whole history; and the browser shows the outcome, of steps and of task
  lists: a turn hit before `complete` never shows success, not even for a moment,
  and ends as failed, an undisturbed one ends as done. Excepted are a step that
  never reached the browser, a turn whose `stop` was hit (`cut`), and a task list
  hit in the send of `complete` itself, which is finding 4.

Each property has a mutant of a mapped definition (a dropped guard, a missing
reset, a swapped order; marked "Mutated form" in the modules) that violates it.

**Bounds.** Two turns and two reviews in one session are enough for a review that
is asked beside a continuation and for one that is asked by a continuation; every
hazard found needs at most that. One restart
between any two steps covers each pair of durable states once, since nothing but
`stored`, `asked` and the history variables survives it. Two sessions suffice to
disagree. Three processes let one hold the lock while two wait with different
views; two versions give "before", "between" and "after". Two requests are the
smallest number that can refresh twice, and one login refreshed twice shows a
rotated and an older grant; the second login makes no requests, because rows of
two logins meet only in `ReplacePrevious`. Four parts let the reader be two ahead
of the player. Two recordings of two chunks
are the fewest that can mix and reorder (`MaxRecordings`, `MaxChunks`). In
`chat-turn` three turns (`MaxTurns`) cover sent, blocked and edited; a message
has no files or two (`MaxFiles`), so that an upload can fail after another;
one reconnect or restart (`MaxDisruptions`) comes between any two steps (two in
`stale-mark`), and `SaveMetadata` is left out after the last one because only a restart reads what
was saved; two connections and two calls are a replacement and a batch.
The form is submitted twice at most (`MaxSubmits`): a retry while the first
submission, or its reply, is still under way. Numbers up to two (`MaxHalf` counts halves)
contain a default, another whole number and fractions. `hitl-reload` has two reviews and
neither reconnects nor failing updates, because it checks liveness on the whole
graph and an answer whose update fails continues nothing; what
it checks of safety is proved for every set of events (section 5).

**Deadlock** checking is off: every system here may come to rest (no more
turns, all processes ended, the page closed).

**Fairness.** `HitlWorkflow`: weak fairness of each submission's and each task's
steps: the event loop runs what is ready, and awaited calls return or raise. No
fairness for users, Stop, reconnects, crashes. `SchemaMigrations`: weak fairness
of a process's statements and strong fairness of the lock, which PostgreSQL
grants to waiters in turn. `OAuthGrants`: requests proceed (each call has a time
limit, and `Abort` may end it), and a `DELETE` that waits for a row gets it
in turn, hence strong fairness for logouts. `SpeechPlayer`: calls return or fail,
a playing audio ends or is paused. `Dictation`: the event loop runs what is
ready, and `task_start` and the transcription return or raise; nothing is assumed
of the user. The other modules have no liveness property.

## 4. Findings

1. `_current_pending` (257) reads the submitting session's own chat context.
   A thread open in two sessions is answered in both and resumed twice; the
   statement at 264-265 holds within one session.
2. `_current_pending` (260) looks at the newest review only. When turns overlap,
   an older review may still be open when the newest is closed; the next turn
   passes `block_new_message` although its docstring (196) rejects it, and the
   older review cannot be answered any more.
3. The continuation is announced (236) while the turn that asked its review may
   still run; that turn's `task_end` then hides it, and Stop with it, contrary to
   211-213.
4. `CommentaryTaskList.complete` forgets the active task before its awaited
   `send` (`openai/responses.py:39-42`). If Stop hits that send, `stop` finds
   nothing to do and the browser shows a running list for good.
   `CommentarySteps` is ordered the other way round and passes the same check.
5. `block_new_message` marks the user's message as excluded (199) and nothing
   clears the mark. When the review is closed and the user edits that message,
   the turn passes the block and its request lacks the message; its files go to
   an earlier user item or to one of their own.

6. `_message_file_ids` reads `message.metadata` before it uploads and writes that
   copy back with the file IDs (`openai/files.py:114`). After a reconnect the user
   may edit the message while its turn still uploads; when another turn has
   published a review by then, the edited message is blocked and marked
   (`history.py:16-21`), and the write of the first turn removes the mark, so that
   later requests contain the blocked message. The proof attempt for
   `OnlyConversation` found this: it takes two reconnects, one more than
   `chat-turn` has.

Met without a run of their own:

- `mcp.py:111-115`: when a connection is disconnected while `list_tools` is
  awaited and its answer has arrived, `connect` stores the session afterwards,
  and nothing forgets it before the next `connect`. `execute` then fails.
- `streaming.py:33` drops the token passed in when Stop hits its yield:
  `TextInOrder` says that this is the only token that can be lost.
- `human_review.py:26`: a choice with blanks around it is offered, but both sides
  trim the answer, so it is always refused; `OfferedAnswersAccepted` excepts it.
- `settings.py:118-119`: an integer without a range has a number input that lets
  a fraction through, which is saved and not restored; `SelectionRestored`
  excepts it.
- `audio.py:65`: a recording whose end runs without a suspension is transcribed
  without the chunks whose callbacks are still scheduled, and these join the
  next recording unless `start_dictation` comes first.

## 5. Proofs

TLAPS proves the following for every value of the constants that satisfies the
`ASSUME`s of the modules, which say that bounds are natural numbers and that a
"none" is not one of the values; `SavedSettingsAssumption` also says which
releases are valid. Each safety property is proved from an inductive invariant
whose conjuncts are named in the proof module; TLC checked those on the bounds
of the runs before they were proved. Every proof has one lemma or step per action.

**HitlWorkflowProofs.**
- `TypeCorrect`, `TranscriptComplete`: no further assumption, any number of
  sessions, all events. The transcript property is not inductive: nothing in it
  says that a task of a review exists only for an answered one. `SessionInv`
  adds that (`TaskAnswered`: an answered submission precedes the task), that
  nothing is recorded of reviews not asked yet (`NothingBeforeAsked`), and
  nothing in closed sessions (`NothingBeforeOpen`).
- `StoredCloseSafe`, `OutcomeFinal`: under `OneSession` (the thread is shown by
  one session at a time; finding 1 shows that they need it), with any restarts.
  `StoredInv` is `SessionInv` with the property: a write carries what the session
  holds, a reopened session holds what was written, and only a pending review
  changes.
- `ResumedOnce`, `LifecycleImplemented`: under `OneSession`, with any restarts and
  events. After a restart that lost an unsaved close the review is open again, by
  design, and may be answered again, so what holds is "once in each run of the
  process". `ContinuedInv` says that the present run never continued a review
  that is open, whose submission is under way, or whose task has not passed
  `task_start`, so each route to a request is taken once; nothing was continued
  before the thread is open in this run (`NothingContinuedBeforeOpen`) nor in
  runs to come (`NothingContinuedLater`).
  `LifecycleImplemented` maps the ledger of the one session, or what is stored
  while the thread is not open, to `status`; `stored` to `saved`, `Due` to `due`
  and the present run's `continued`: `AskReview` is `Ask`, `Submit` is
  `AnswerReview` or `CancelReview`, `BeginContinuation` and the inline branch of
  `ControlRemoved` are `ContinueReview`, a failing update or a Stop before the
  request is `Abandon`, `Save` is `SaveReview`, `Crash` is `Restart`; everything
  else stutters.
- `SpinnerTrue`: under the same assumption. That some task runs while the
  spinner is shown is not inductive, because that task may be one that never told
  the browser anything and ends silently. `SpinnerInv` asks for one that has
  announced itself (`LoadingIsShown`), and adds that inline reviews never do
  (`InlineUnannounced`).

**SchemaMigrationsProofs.** `TypeCorrect`, `HistoryExact`, `DecisionsCurrent`,
`StaysReady`, and `OldReleaseHarmless` (the refinement says it too), with no
assumption beyond the constants' types. `MigrationInv` adds to the properties that a process
past `pg_advisory_lock` holds the lock (`LockHeld`), what it has passed is
recorded with its checksums (`PassedRecorded`, `NothingPassed`), the history it
decides on contains only its own versions (`HistoryKnown`), and a script in an
open transaction has no row yet (`TransactionPending`). The step lemma is split
per process (`OwnInv`): a process's own step, and another's step, which changes
the history only while it holds the lock. `AtomicImplemented` is the refinement of
`AtomicMigrations`: `DecisionsCurrent` makes what a process read as good as the
database, a transaction touches the database only at its commit, and a process
that has not ended has no result (`StillRunning`).

**OAuthGrantsProofs.** `TypeCorrect`, `AlwaysRefreshedOnce`, `AlwaysCurrent`,
`AlwaysRevokesCurrent`, `AlwaysDeleted`, for any number of logins, workers and
refreshes, with aborts. What is stored is the newest grant only while nobody
refreshes it, so `IInv` follows a request through the row lock: past
`SELECT … FOR UPDATE` it holds the lock and has the row's grant
(`RequestsHold`), a login begins with its first grant (`LoginsBegin`), a request
that refreshed holds what was issued last, and otherwise the row does
(`RefreshesStored`, `NewestKept`), every older grant was refreshed
(`OlderRefreshed`), and a logout deleted the newest (`NewestDeleted`,
`DeletedStaysDeleted`). Logins whose refreshed grant an abort dropped are `lost`
and excepted. `GrantsAreAtomic` is the refinement of `AtomicGrants`, which excepts
nothing: a lost refresh is one of its steps. `AtomicInv` adds to `IInv` that the
token a request refreshes cannot be used any more (`RefreshesNeeded`; only a
refresh makes one usable, and its request would hold the row), that the row an
`UPDATE` replaces is still there (`UpdatesStored`), and that a logout revokes what
it removed (`RevokesRemoved`). There is one lemma per step that changes the value.

**ChatTurnProofs.**
- `McpSession`: `McpTypeCorrect`, `AlwaysListed`, `AlwaysForgotten`. `McpInv`:
  the session looked up for a call listed it, and stays a connection whatever
  becomes of it (`CallsListed`); what `connect` lists and stores is an opened
  connection of our name (`StoresOurs`).
- `StreamedTurn`: `AlwaysInOrder`, `AlwaysEndOnScreen`, `AlwaysTellsOutcome`, for
  Responses of any length and any number of hits. `StreamInv`: an unwinding turn
  is in its clean-up (`PhasesRaise`); content and batch together are the kept
  tokens in order (`TextSplit`), and the browser is behind only by what is being
  sent (`TextShown`); what was begun is shown unless its send was hit, and a step
  stays active until the update of its end has returned (`DisplayBegins`,
  `DisplayEnds`); after an early hit nothing is done, neither at the server nor in
  the browser, and what was begun is active until `stop` (`EarlyHits`).
- `MCChatTurn`: `TurnTypeCorrect` and `TurnCorrect`. A behaviour of the composed run
  is one of each part's specification (`TurnImplementsParts`), so the parts'
  theorems, `TurnInputProofs` among them, hold of the run.

**TurnInputProofs.** `AlwaysCarriesFiles` and `AlwaysConversation`, for any
number of turns, files, reconnects and restarts. A turn reads the message at one
step and the chat at another, with edits, blocks and restarts between, so
`InputInv` says of messages: the files of each are attached to it, or their IDs
are saved, or a restart lost them (`FilesKept`); the marks of user messages come
from blocks (`EntriesTell`), and a block leaves one unless it was lost
(`BlockedMarked`). And of turns: they are about sent messages (`TurnsOfSent`);
what they uploaded is the beginning of their message's files, and the latest user
item of their input is their own message's, with the exceptions of
`RequestCarriesFiles` (`TurnsProgress`). That a bounded set of positions has a
last one, for the latest user item, comes from the well-foundedness of `<`.

**PageFormsProofs.**
- `ReviewForm`: `FormTypeCorrect`, `NeverSilent`, `AlwaysAccepted`. `FormInv`:
  what the form holds and what is under way was offered, trimmed
  (`ResponsesOffered`, `FlightsOffered`), the form awaits a reply exactly while it
  is submitting, and an ok reply means a closed review (`RepliesTell`).
- `SavedSettings`: `AlwaysApplied`, `AlwaysRestored`, for any texts, numbers and
  valid releases. `SettingsInv` says that the saved value is what serializing the
  selection left; the rest is lemmas on how `_widget_for_property` and the
  default's type convert each kind of value.
- `MCPageControls`: `PageTypeCorrect` and `PageCorrect`, in the same way from the
  theorems of the four controls (`PageImplementsControls`).

**SpeechPlayerProofs.** `AlwaysSilent`, `AlwaysInOrder`, for any number of parts.
`SpeechInv`: the chain holds successive parts up to the last one chained
(`ChainInOrder`), only its head is called and sounds or is about to report its
pause (`HeadSounds`), the label follows the loop (`LabelsLoop`), and what has
begun and what is chained add up, while what is asked for is neither cached nor
beyond the last part (`ReadingCounts`).

**DictationProofs.** `AlwaysOwnTranscript`, for any recordings and chunks.
`DictationInv`: a recording is recorded, queued for one step, waiting or taken,
and only one of them (`OnePlace`); an earlier recording is over unless the two
mixed (`OverBefore`); of the one that started last, each chunk is in the list or
in a task queued where it will join the list in turn, before the task that takes
it (`Collecting`, `InQueue`); and what was taken was taken in order
(`TakenInOrder`).

Proving changed the models in a few places. `OnlyConversation` was false beyond
the bounds of its run (finding 6); it now excepts `overwritten`, and
`BlockedStaysMarked` states what the code's comment says. `OAuthGrants`,
`Dictation` and `TurnInput` type more of their state. An input keeps `Omitted`
items, and a message removed from a sequence is removed at its position
(`RemoveFirst`), because a filtered sequence is a recursion that the provers
cannot follow. Assumptions that the models used silently are stated
(`NullsAssumption`, `SavedSettingsAssumption`). `SchemaMigrations` lets every
statement after the lock fail, not only those of a transaction, since the atomic
specification made the others conspicuous; and `HitlWorkflow` counts
continuations per run of the process, which is what a restart leaves true.

Only model-checked: liveness (`CloseBecomesDurable`, `AnswerContinues`,
`EveryProcessEnds`, `LogoutEnds`, `ReadingEnds`, `RecordingAnswered`), which is
out of the prover's reach. Every other property of the passing runs is a theorem.

## 6. Not modelled

- `sso/oidc.py`, `auth.py`, `public_files.py` and the CI workflows: no state that
  changes after start-up.
- The projections in `openai/responses.py`, the items of `openai/tools.py`,
  `speech_parts`, prompts, receipts, labels and markup: formatting.
- Encryption and cookies of the SSO modules, PKCE and the authorization redirect,
  credentials of MCP connections: library calls.
- The SQL scripts are opaque.
- The length limit of saved settings, which concerns the whole text.

Two hazards have no property because the code makes no promise about them: a
refresh token spent by a request that dies before its commit, and a grant left
behind when the delete of its predecessor fails (see `PROJECT.json`).

## 7. Plan

The modules were built in the order of section 2: the review workflow first,
because it is the package's own protocol and has most of the hazards; then the
shared database and the grants; then the controls and the parts of a turn; then
the abstract specifications of the database and the grants, and their refinement.
Every safety and action property and every refinement of the passing runs is a
theorem now. What would come next:

1. Two sessions of one thread: what still holds of a review's lifecycle when each
   session has its own copy of the ledger (finding 1), once the code decides what
   it means to promise there.
2. The parts of `sso/chainlit.py` and `mcp.py` that attach credentials to
   connections, of which the models only have the requests.

## 8. Running

    tlc -workers 2 -config MCSchema.cfg MCSchemaMigrations
    tlapm HitlWorkflowProofs.tla

A configuration and the module it belongs to are listed under `runs` in
`PROJECT.json`, which also maps each definition to the source lines it models
and lists the hazards with the properties that cover them.

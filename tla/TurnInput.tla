----------------------------- MODULE TurnInput -----------------------------
(***************************************************************************)
(* What a turn sends to the model: the transcript that response_input of   *)
(* chat/hitl.py projects from Chainlit's messages (chat/history.py), and   *)
(* the attachments that openai/files.py uploads and adds to it.  A turn is *)
(* the application's on_message:                                           *)
(*                                                                         *)
(*   if await hitl.block_new_message(message): return                      *)
(*   items = await with_response_file_parts(hitl.response_input(), message)*)
(*   ... stream the Response, publish it ...                               *)
(*                                                                         *)
(* External: an edit removes the messages that follow and starts a turn    *)
(* with the same message object; Stop sends its notice; an exception is    *)
(* reported by the application or by Chainlit, as a message with an error  *)
(* flag; after a reconnect the user may send although a turn still runs; a *)
(* restart keeps what was saved, of a user message neither its elements    *)
(* nor a metadata write that had not landed, and of a failed message not   *)
(* the flag, and the resumed session may have another chat profile.        *)
(***************************************************************************)
EXTENDS Naturals, Sequences

CONSTANTS
  MaxTurns,       \* bound: turns, sent or edited
  MaxFiles,       \* files of a message that has any
  MaxDisruptions  \* bound: reconnects and restarts

ASSUME TurnInputAssumption ==
  /\ MaxTurns \in Nat /\ MaxFiles \in Nat /\ MaxDisruptions \in Nat

TurnId == 1 .. MaxTurns   \* a user message is named by the turn that sent it
FileId == TurnId \X (1 .. MaxFiles)

VARIABLES
  chat,        \* cl.chat_context: the messages in order
  elements,    \* elements[m]: how many attachments the message object has
  fileIds,     \* fileIds[m]: FILE_IDS_METADATA_KEY
  uploads,     \* the session's chat profile accepts attachments
  saved,       \* saved[m]: the metadata in the data layer
  turn,        \* turn[t]: a turn's progress
  busy,        \* the browser shows a running task
  continuing,  \* a continuation of an answered review runs
  disruptions, \* reconnects and restarts so far
  attached,    \* history: how many files the user attached to m
  refused,     \* history: messages that were blocked and not edited since
  everRefused, \* history: messages that were ever blocked
  forgotten,   \* history: messages whose files a restart lost
  unmarked,    \* history: blocked messages whose mark a restart lost
  overwritten  \* history: blocked messages whose mark an older write removed

memory == <<chat, elements, fileIds, uploads>>
past == <<attached, refused, everRefused, forgotten, unmarked, overwritten>>
inputVars == <<memory, saved, turn, busy, continuing, disruptions, past>>

Kinds == {"user", "answer", "failed", "notice", "stop", "open", "answered", "cancelled"}
Entry == [kind : Kinds, of : 0 .. MaxTurns, error : BOOLEAN, excluded : BOOLEAN]
Item == [kind : Kinds \cup {"omitted"}, of : 0 .. MaxTurns, files : Seq(FileId)]
States == {"none", "begun", "uploading", "saving", "asked", "reporting", "over"}

InputTypeOK ==
  /\ chat \in Seq(Entry)
  /\ elements \in [TurnId -> 0 .. MaxFiles]
  /\ fileIds \in [TurnId -> Seq(FileId)]
  /\ uploads \in BOOLEAN
  /\ saved \in [TurnId -> [ids : Seq(FileId), excluded : BOOLEAN]]
  /\ turn \in [TurnId -> [state : States, of : 0 .. MaxTurns, flag : BOOLEAN,
                         ids : Seq(FileId), items : Seq(Item), late : BOOLEAN]]
  /\ busy \in BOOLEAN /\ continuing \in BOOLEAN
  /\ disruptions \in 0 .. MaxDisruptions
  /\ attached \in [TurnId -> 0 .. MaxFiles]
  /\ refused \subseteq everRefused /\ everRefused \subseteq TurnId
  /\ forgotten \subseteq TurnId /\ unmarked \subseteq TurnId /\ overwritten \subseteq TurnId

NoTurn == [state |-> "none", of |-> 0, flag |-> FALSE, ids |-> <<>>, items |-> <<>>,
           late |-> FALSE]
Over == [NoTurn EXCEPT !.state = "over"]

InputInit ==
  /\ chat = <<>>
  /\ elements = [m \in TurnId |-> 0]
  /\ fileIds = [m \in TurnId |-> <<>>]
  /\ uploads \in BOOLEAN
  /\ saved = [m \in TurnId |-> [ids |-> <<>>, excluded |-> FALSE]]
  /\ turn = [t \in TurnId |-> NoTurn]
  /\ busy = FALSE
  /\ continuing = FALSE
  /\ disruptions = 0
  /\ attached = [m \in TurnId |-> 0]
  /\ refused = {}
  /\ everRefused = {}
  /\ forgotten = {}
  /\ unmarked = {}
  /\ overwritten = {}

-----------------------------------------------------------------------------
(* The transcript.                                                         *)

\* A message; send_ui_message and reviews mark theirs as excluded, and
\* Chainlit's ErrorMessage has the error flag.
NewEntry(kind, of) ==
  [kind |-> kind, of |-> of, error |-> kind = "failed",
   excluded |-> kind \in {"notice", "open"}]

UserEntry(m) == {i \in DOMAIN chat : chat[i].kind = "user" /\ chat[i].of = m}
IsReview(entry) == entry.kind \in {"open", "answered", "cancelled"}

\* _current_pending: the newest review decides.
PendingReviews ==
  {i \in DOMAIN chat :
     chat[i].kind = "open" /\ \A j \in DOMAIN chat : j > i => ~IsReview(chat[j])}

\* Mutated form of IsModelContext: the Stop notice is an answer.
IsModelContextStopToo(entry) == ~entry.error /\ ~entry.excluded

\* is_model_context.
IsModelContext(entry) == ~entry.error /\ ~entry.excluded /\ entry.kind # "stop"

\* What a message that is left out adds to the input.
Omitted == [kind |-> "omitted", of |-> 0, files |-> <<>>]

\* response_input: messages of the context, and answered reviews in place.
ResponseInput ==
  LET Kept(entry) == IF IsReview(entry) THEN entry.kind = "answered"
                                        ELSE IsModelContext(entry)
  IN [i \in DOMAIN chat |->
        IF Kept(chat[i]) THEN [kind |-> chat[i].kind, of |-> chat[i].of, files |-> <<>>]
                         ELSE Omitted]

UserItems(items) == {i \in DOMAIN items : items[i].kind = "user"}
IsLastUser(items, i) == i \in UserItems(items) /\ \A j \in UserItems(items) : j <= i

\* with_response_file_parts: the latest user item gets the parts, or a new one.
WithFileParts(items, ids) ==
  IF ids = <<>> THEN items
  ELSE IF UserItems(items) = {}
    THEN Append(items, [kind |-> "user", of |-> 0, files |-> ids])
  ELSE [i \in DOMAIN items |->
          IF IsLastUser(items, i) THEN [items[i] EXCEPT !.files = @ \o ids] ELSE items[i]]

-----------------------------------------------------------------------------
(* The user and Chainlit.                                                  *)

FreeTurn(t) == turn[t].state = "none" /\ \A s \in 1 .. t - 1 : turn[s].state # "none"

Start(t, m) ==
  /\ turn' = [turn EXCEPT ![t] = [NoTurn EXCEPT !.state = "begun", !.of = m]]
  /\ busy' = TRUE

SendMessage(t, files) ==
  /\ FreeTurn(t) /\ ~busy
  /\ Start(t, t)
  /\ chat' = Append(chat, NewEntry("user", t))
  /\ elements' = [elements EXCEPT ![t] = files]
  /\ attached' = [attached EXCEPT ![t] = files]
  /\ UNCHANGED <<fileIds, uploads, saved, continuing, disruptions, refused, everRefused, forgotten,
                 unmarked, overwritten>>

EditMessage(t, m) ==
  /\ FreeTurn(t) /\ ~busy
  /\ \E i \in UserEntry(m) : chat' = SubSeq(chat, 1, i)
  /\ Start(t, m)
  /\ refused' = refused \ {m}
  /\ UNCHANGED <<elements, fileIds, uploads, saved, continuing, disruptions, attached, everRefused,
                 forgotten, unmarked, overwritten>>

Reconnected ==
  /\ busy /\ disruptions < MaxDisruptions
  /\ busy' = FALSE
  /\ disruptions' = disruptions + 1
  /\ UNCHANGED <<memory, saved, turn, continuing, past>>

\* The write of an update lands in the data layer, which matters only to a
\* restart.
SaveMetadata(m) ==
  disruptions < MaxDisruptions /\ \E i \in UserEntry(m) :
    /\ saved' = [saved EXCEPT ![m] = [ids |-> fileIds[m], excluded |-> chat[i].excluded]]
    /\ UNCHANGED <<memory, turn, busy, continuing, disruptions, past>>

\* Mutated form of Restored: failed messages are not marked.
RestoredUnmarked(entry) ==
  [entry EXCEPT !.error = FALSE,
                !.excluded = IF entry.kind = "user" THEN saved[entry.of].excluded ELSE @]

\* A message of the reopened thread after mark_persisted_errors_excluded.
Restored(entry) ==
  [entry EXCEPT !.error = FALSE,
                !.excluded = IF entry.kind = "user" THEN saved[entry.of].excluded
                                                    ELSE @ \/ entry.error]

Restart ==
  /\ disruptions < MaxDisruptions
  /\ disruptions' = disruptions + 1
  /\ chat' = [i \in DOMAIN chat |-> Restored(chat[i])]
  /\ elements' = [m \in TurnId |-> 0]
  /\ fileIds' = [m \in TurnId |-> saved[m].ids]
  /\ uploads' \in BOOLEAN
  /\ turn' = [t \in TurnId |-> IF turn[t].state = "none" THEN NoTurn
                               ELSE Over]
  /\ busy' = FALSE
  /\ continuing' = FALSE
  /\ forgotten' = {m \in TurnId : attached[m] > 0 /\ saved[m].ids = <<>>}
  /\ unmarked' = unmarked \cup {m \in refused : ~saved[m].excluded}
  /\ UNCHANGED <<saved, attached, refused, everRefused, overwritten>>

-----------------------------------------------------------------------------
(* The turn.                                                               *)

\* mark_model_context_excluded.
MarkExcluded(m) ==
  chat' = [i \in DOMAIN chat |->
             IF i \in UserEntry(m) THEN [chat[i] EXCEPT !.excluded = TRUE] ELSE chat[i]]

\* block_new_message up to its notice, while a review is pending.
Block(t) ==
  LET m == turn[t].of IN
  /\ turn[t].state = "begun"
  /\ PendingReviews # {}
  /\ MarkExcluded(m)
  /\ turn' = [turn EXCEPT ![t] = [Over EXCEPT !.state = "reporting"]]
  /\ refused' = refused \cup {m}
  /\ everRefused' = everRefused \cup {m}
  /\ unmarked' = unmarked \ {m}
  /\ overwritten' = overwritten \ {m}
  /\ UNCHANGED <<elements, fileIds, uploads, saved, busy, continuing, disruptions, attached,
                 forgotten>>

\* The turn with its input; message.metadata is read before the uploads.
Built(t, state, ids) ==
  LET m == turn[t].of IN
  [turn[t] EXCEPT !.state = state,
                  !.flag = \E i \in UserEntry(m) : chat[i].excluded,
                  !.items = WithFileParts(ResponseInput, ids),
                  !.late = \E i \in DOMAIN chat : /\ chat[i].kind = "user"
                                                  /\ \A j \in UserEntry(m) : j < i]

\* The input is built: without attachments, with the IDs that are saved, or
\* with uploads to make, which the profile may refuse.
Build(t) ==
  LET m == turn[t].of IN
  /\ turn[t].state = "begun"
  /\ PendingReviews = {}
  /\ turn' = [turn EXCEPT ![t] =
       IF elements[m] = 0 /\ fileIds[m] = <<>> THEN Built(t, "asked", <<>>)
       ELSE IF ~uploads THEN [Over EXCEPT !.state = "reporting"]
       ELSE IF fileIds[m] # <<>> THEN Built(t, "asked", fileIds[m])
       ELSE Built(t, "uploading", <<>>)]
  /\ UNCHANGED <<memory, saved, busy, continuing, disruptions, past>>

\* One more file is uploaded.
Upload(t) ==
  LET m == turn[t].of IN
  /\ turn[t].state = "uploading" /\ Len(turn[t].ids) < elements[m]
  /\ turn' = [turn EXCEPT ![t].ids = Append(@, <<m, Len(@) + 1>>)]
  /\ UNCHANGED <<memory, saved, busy, continuing, disruptions, past>>

\* Mutated form of SaveFileIds: each upload is saved as it returns.
SaveFileIdsEarly(t) ==
  LET m == turn[t].of IN
  /\ turn[t].state = "uploading" /\ turn[t].ids # <<>>
  /\ fileIds' = [fileIds EXCEPT ![m] = turn[t].ids]
  /\ turn' = [turn EXCEPT ![t].state =
                IF Len(turn[t].ids) = elements[m] THEN "saving" ELSE @]
  /\ UNCHANGED <<chat, elements, uploads, saved, busy, continuing, disruptions, past>>

\* All are: the metadata read before the uploads is written back with the IDs.
SaveFileIds(t) ==
  LET m == turn[t].of IN
  /\ turn[t].state = "uploading" /\ Len(turn[t].ids) = elements[m]
  /\ fileIds' = [fileIds EXCEPT ![m] = turn[t].ids]
  /\ chat' = [i \in DOMAIN chat |->
                IF i \in UserEntry(m) THEN [chat[i] EXCEPT !.excluded = turn[t].flag]
                                      ELSE chat[i]]
  /\ turn' = [turn EXCEPT ![t].state = "saving"]
  /\ overwritten' = IF m \in refused /\ ~turn[t].flag THEN overwritten \cup {m} ELSE overwritten
  /\ UNCHANGED <<elements, uploads, saved, busy, continuing, disruptions, attached, refused,
                 everRefused, forgotten, unmarked>>

\* message.update returns.
FileIdsSaved(t) ==
  /\ turn[t].state = "saving"
  /\ turn' = [turn EXCEPT ![t].state = "asked",
                          ![t].items = WithFileParts(@, turn[t].ids)]
  /\ UNCHANGED <<memory, saved, busy, continuing, disruptions, past>>

EndsWith(t, kind) ==
  /\ chat' = Append(chat, NewEntry(kind, 0))
  /\ turn' = [turn EXCEPT ![t] = Over]
  /\ busy' = FALSE
  /\ UNCHANGED <<elements, fileIds, uploads, saved, continuing, disruptions, past>>

\* The Response is published: an answer or a review.
Publish(t) == turn[t].state = "asked" /\ \E kind \in {"answer", "open"} : EndsWith(t, kind)

\* An upload, the update or the request raises.
Raise(t) ==
  /\ turn[t].state \in {"uploading", "saving", "asked"}
  /\ turn' = [turn EXCEPT ![t] = [Over EXCEPT !.state = "reporting"]]
  /\ UNCHANGED <<memory, saved, busy, continuing, disruptions, past>>

\* The notice of a blocked turn, or the report of a failed one.
Report(t) ==
  /\ turn[t].state = "reporting"
  /\ \E kind \in {"notice", "failed"} : EndsWith(t, kind)

StopTurn(t) ==
  /\ busy
  /\ turn[t].state \in {"begun", "uploading", "saving", "asked", "reporting"}
  /\ EndsWith(t, "stop")

-----------------------------------------------------------------------------
(* The pending review.                                                     *)

CloseReview(kind) ==
  /\ \E i \in PendingReviews : chat' = [chat EXCEPT ![i].kind = kind]
  /\ continuing' = (continuing \/ kind = "answered")
  /\ busy' = (busy \/ kind = "answered")
  /\ UNCHANGED <<elements, fileIds, uploads, saved, turn, disruptions, past>>

\* The continuation answers, fails with a notice, or is stopped; one that asks
\* again is in HitlWorkflow.
Continue ==
  /\ continuing
  /\ \E kind \in {"answer", "notice", "stop"} :
       /\ kind = "stop" => busy
       /\ chat' = Append(chat, NewEntry(kind, 0))
  /\ continuing' = FALSE
  /\ busy' = FALSE
  /\ UNCHANGED <<elements, fileIds, uploads, saved, turn, disruptions, past>>

TurnStep(t) ==
  \/ \E files \in {0, MaxFiles} : SendMessage(t, files)
  \/ \E m \in TurnId : EditMessage(t, m)
  \/ Block(t) \/ Build(t) \/ Upload(t) \/ SaveFileIds(t) \/ FileIdsSaved(t)
  \/ Publish(t) \/ Raise(t) \/ Report(t) \/ StopTurn(t)

InputNext ==
  \/ \E t \in TurnId : TurnStep(t)
  \/ \E m \in TurnId : SaveMetadata(m)
  \/ \E kind \in {"answered", "cancelled"} : CloseReview(kind)
  \/ Continue \/ Reconnected \/ Restart

InputSpec == InputInit /\ [][InputNext]_inputVars
-----------------------------------------------------------------------------
(* Properties.                                                             *)

FilesOf(m) == [i \in 1 .. attached[m] |-> <<m, i>>]

Carriers(items) == {i \in DOMAIN items : items[i].files # <<>>}

\* The item with files, if there are any: its own one, with the exceptions below.
CarriesFiles(t) ==
  LET m == turn[t].of
      items == turn[t].items
  IN  IF m \in forgotten \/ attached[m] = 0 THEN Carriers(items) = {}
      ELSE \E i \in DOMAIN items :
             /\ Carriers(items) = {i} /\ items[i].files = FilesOf(m)
             /\ m \notin everRefused /\ ~turn[t].late => items[i].of = m

(* "It saves the file IDs in the message metadata, so an edited message    *)
(* sends the same files again, including after its thread resumes"         *)
(* (README.md:227-229): a request carries every file of its message once   *)
(* and in order, however often uploads failed or the message was edited,   *)
(* unless a restart came before the IDs were saved; and they are parts of  *)
(* the message's own item, unless it was blocked once or the user sent     *)
(* another one before the turn began.                                      *)
RequestCarriesFiles ==
  \A t \in TurnId : turn[t].state = "asked" => CarriesFiles(t)

(* "UI-only and failed messages, including Chainlit's Stop notice, are     *)
(* omitted" (history.py:48), nor is an open or cancelled review sent or a  *)
(* message that was rejected meanwhile: before and after a restart, unless *)
(* its mark was lost with a restart or to an older write.                  *)
OnlyConversationStep ==
  \A t \in TurnId : turn[t].state = "begun" =>
    \A i \in DOMAIN turn'[t].items :
      LET item == turn'[t].items[i] IN
      /\ item = Omitted \/ item.kind \in {"user", "answer", "answered"}
      /\ item.of \in refused => item.of \in unmarked \cup overwritten
OnlyConversation == [][OnlyConversationStep]_inputVars

(* A blocked message is marked to "keep a UI-only message out of           *)
(* subsequent model requests" (history.py:17): until it is edited or a     *)
(* restart loses the mark, nothing else takes it away.                     *)
BlockedStaysMarked ==
  \A m \in refused \ unmarked : \A i \in UserEntry(m) : chat[i].excluded

(* "Answer or cancel the pending review before starting another request"   *)
(* (hitl.py:202): a message of the chat whose turn reaches the model is    *)
(* in its input, also when it was blocked and then edited.                 *)
EditedMessageIsSent ==
  \A t \in TurnId : turn[t].state = "asked" /\ UserEntry(turn[t].of) # {} =>
    \E i \in DOMAIN turn[t].items : turn[t].items[i].of = turn[t].of
=============================================================================

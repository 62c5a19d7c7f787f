------------------------------ MODULE Dictation ------------------------------
(***************************************************************************)
(* Dictation: start_dictation, add_dictation_chunk and end_dictation of    *)
(* openai/audio.py, called by Chainlit as the README registers them, and   *)
(* dictation.js, which puts the text into the chat input.                  *)
(*                                                                         *)
(* The event loop runs its ready tasks in order.  Each event of the        *)
(* browser is a task; a chunk's task only schedules another one, in which  *)
(* the callback runs; the end of a recording first awaits the emitter's    *)
(* task_start, which returns at once or is resumed later.                  *)
(***************************************************************************)
EXTENDS Naturals, Sequences, SequencesExt

CONSTANTS
  MaxRecordings,  \* bound: recordings of the session
  MaxChunks       \* bound: chunks of a recording

ASSUME DictationAssumption == MaxRecordings \in Nat /\ MaxChunks \in Nat

Recording == 1 .. MaxRecordings
Chunk == Recording \X (1 .. MaxChunks)

\* A recording that was not taken yet: a chunk of no recording.
NotTaken == <<<<0, 0>>>>

VARIABLES
  recorder,    \* the browser's recorder: off, starting or on
  recording,   \* the recording it makes or made last
  said,        \* said[r]: chunks recorded of r
  inputShown,  \* the page has a chat input
  ready,       \* the event loop's ready tasks
  waiting,     \* recordings whose end awaits task_start
  buffer,      \* DICTATION_CHUNKS_KEY of the user session
  taken,       \* history: the chunks that were sent to be transcribed
  outcome,     \* what became of a recording
  hurried,     \* history: recordings whose end was not suspended
  mixed        \* history: recordings one of which began before the other was over

browser == <<recorder, recording, said, inputShown>>
server == <<ready, waiting, buffer, taken, outcome, hurried, mixed>>
dictationVars == <<browser, server>>

Task == [kind : {"start", "end", "take"}, of : Recording]
          \cup [kind : {"chunk", "add"}, of : Chunk]

DictationTypeOK ==
  /\ recorder \in {"off", "starting", "on"}
  /\ recording \in 0 .. MaxRecordings
  /\ said \in [Recording -> 0 .. MaxChunks]
  /\ inputShown \in BOOLEAN
  /\ ready \in Seq(Task)
  /\ waiting \subseteq Recording
  /\ buffer \in Seq(Chunk)
  /\ taken \in [Recording -> Seq(Chunk) \cup {NotTaken}]
  /\ outcome \in [Recording -> {"none", "asked", "text", "discarded", "notice"}]
  /\ hurried \subseteq Recording
  /\ mixed \subseteq Recording

DictationInit ==
  /\ recorder = "off"
  /\ recording = 0
  /\ said = [r \in Recording |-> 0]
  /\ inputShown = TRUE
  /\ ready = <<>>
  /\ waiting = {}
  /\ buffer = <<>>
  /\ taken = [r \in Recording |-> NotTaken]
  /\ outcome = [r \in Recording |-> "none"]
  /\ hurried = {}
  /\ mixed = {}

-----------------------------------------------------------------------------
(* The browser.                                                            *)

Arrives(tasks, kind, of) == Append(tasks, [kind |-> kind, of |-> of])

Record ==
  /\ recorder = "off" /\ recording < MaxRecordings
  /\ recorder' = "starting"
  /\ recording' = recording + 1
  /\ ready' = Arrives(ready, "start", recording + 1)
  /\ UNCHANGED <<said, inputShown, waiting, buffer, taken, outcome, hurried, mixed>>

Speak ==
  /\ recorder = "on" /\ said[recording] < MaxChunks
  /\ said' = [said EXCEPT ![recording] = @ + 1]
  /\ ready' = Arrives(ready, "chunk", <<recording, said[recording] + 1>>)
  /\ UNCHANGED <<recorder, recording, inputShown, waiting, buffer, taken, outcome,
                 hurried, mixed>>

StopRecording ==
  /\ recorder = "on"
  /\ recorder' = "off"
  /\ ready' = Arrives(ready, "end", recording)
  /\ UNCHANGED <<recording, said, inputShown, waiting, buffer, taken, outcome,
                 hurried, mixed>>

\* The user goes to a page without a chat input, or returns.
Navigate ==
  /\ inputShown' = ~inputShown
  /\ UNCHANGED <<recorder, recording, said, server>>

-----------------------------------------------------------------------------
(* The callbacks.                                                          *)

\* Recording r was taken, and none of its chunks is still to be collected.
Over(r) ==
  /\ taken[r] # NotTaken
  /\ \A i \in DOMAIN ready :
       LET task == ready[i] IN task.kind \in {"chunk", "add"} => task.of[1] # r

\* Mutated form of StartDictation: the list is kept.
StartKeeping(r) ==
  /\ recorder' = "on"
  /\ UNCHANGED <<buffer, mixed>>

\* start_dictation; the browser records once the callback returned.
StartDictation(r) ==
  /\ buffer' = <<>>
  /\ recorder' = "on"
  /\ LET before == {q \in 1 .. r - 1 : ~Over(q)}
     IN mixed' = IF before = {} THEN mixed ELSE mixed \cup before \cup {r}

\* add_dictation_chunk.
AddDictationChunk(c) == buffer' = Append(buffer, c)

\* end_dictation up to the transcription, which an empty recording skips.
TakeRecording(r) ==
  /\ taken' = [taken EXCEPT ![r] = buffer]
  /\ buffer' = <<>>
  /\ outcome' = [outcome EXCEPT ![r] = IF buffer = <<>> THEN "notice" ELSE "asked"]

-----------------------------------------------------------------------------
(* The event loop.                                                         *)

Runs(kind) == ready # <<>> /\ Head(ready).kind = kind

RunStart ==
  /\ Runs("start")
  /\ StartDictation(Head(ready).of)
  /\ ready' = Tail(ready)
  /\ UNCHANGED <<recording, said, inputShown, waiting, taken, outcome, hurried>>

RunChunk ==
  /\ Runs("chunk")
  /\ ready' = Arrives(Tail(ready), "add", Head(ready).of)
  /\ UNCHANGED <<browser, waiting, buffer, taken, outcome, hurried, mixed>>

RunAdd ==
  /\ Runs("add")
  /\ AddDictationChunk(Head(ready).of)
  /\ ready' = Tail(ready)
  /\ UNCHANGED <<browser, waiting, taken, outcome, hurried, mixed>>

\* task_start returns without a suspension.
RunEnd ==
  /\ Runs("end")
  /\ TakeRecording(Head(ready).of)
  /\ hurried' = hurried \cup {Head(ready).of}
  /\ ready' = Tail(ready)
  /\ UNCHANGED <<browser, waiting, mixed>>

\* task_start is suspended ...
SuspendEnd ==
  /\ Runs("end")
  /\ waiting' = waiting \cup {Head(ready).of}
  /\ ready' = Tail(ready)
  /\ UNCHANGED <<browser, buffer, taken, outcome, hurried, mixed>>

\* ... and returns.
ResumeEnd(r) ==
  /\ r \in waiting
  /\ waiting' = waiting \ {r}
  /\ ready' = Arrives(ready, "take", r)
  /\ UNCHANGED <<browser, buffer, taken, outcome, hurried, mixed>>

RunTake ==
  /\ Runs("take")
  /\ TakeRecording(Head(ready).of)
  /\ ready' = Tail(ready)
  /\ UNCHANGED <<browser, waiting, hurried, mixed>>

\* Mutated form of Transcribed: an empty or failed transcription is not reported.
TranscribedOrNothing(r) ==
  /\ outcome[r] = "asked"
  /\ \E result \in {IF inputShown THEN "text" ELSE "discarded", "none"} :
       outcome' = [outcome EXCEPT ![r] = result]
  /\ UNCHANGED <<browser, ready, waiting, buffer, taken, hurried, mixed>>

\* The transcription returns text, which dictation.js puts into the input if
\* there is one, or it is empty or fails, which is reported.
Transcribed(r) ==
  /\ outcome[r] = "asked"
  /\ \E result \in {IF inputShown THEN "text" ELSE "discarded", "notice"} :
       outcome' = [outcome EXCEPT ![r] = result]
  /\ UNCHANGED <<browser, ready, waiting, buffer, taken, hurried, mixed>>

RunTask == RunStart \/ RunChunk \/ RunAdd \/ RunEnd \/ SuspendEnd \/ RunTake

DictationNext ==
  \/ Record \/ Speak \/ StopRecording \/ Navigate
  \/ RunTask
  \/ \E r \in Recording : ResumeEnd(r) \/ Transcribed(r)

(* The event loop runs what is ready, and awaited calls return or fail.    *)
DictationFairness ==
  /\ WF_dictationVars(RunTask)
  /\ \A r \in Recording : WF_dictationVars(ResumeEnd(r)) /\ WF_dictationVars(Transcribed(r))

DictationSpec == DictationInit /\ [][DictationNext]_dictationVars /\ DictationFairness
-----------------------------------------------------------------------------
(* Properties.                                                             *)

Said(r) == [i \in 1 .. said[r] |-> <<r, i>>]

(* "keeps the recording in arrival order" (lines 53-54), although every    *)
(* chunk is a task of its own: what is transcribed are the recording's     *)
(* own chunks in order, and all of them when the end was suspended once.   *)
(* Only a recording that began before the one before it was over (taken,   *)
(* and with no chunk's task left) may be mixed with it.                     *)
TranscriptOfRecording ==
  \A r \in Recording : taken[r] # NotTaken /\ r \notin mixed =>
    /\ IsPrefix(taken[r], Said(r))
    /\ r \notin hurried => taken[r] = Said(r)

(* A recording that has ended yields text in the input or a notice that    *)
(* says why not, unless the user has left the page with the input.         *)
RecordingAnswered ==
  \A r \in Recording :
    r <= recording /\ (r < recording \/ recorder = "off")
      ~> outcome[r] \in {"text", "discarded", "notice"}
=============================================================================

--------------------------- MODULE DictationProofs ---------------------------
(***************************************************************************)
(* Proofs about Dictation for any number of recordings and chunks.         *)
(***************************************************************************)
EXTENDS Dictation, SequenceTheorems, TLAPS

-----------------------------------------------------------------------------
(* The inductive invariant.                                                *)

Data(t) == t.kind \in {"chunk", "add"}
Control(t) == t.kind \in {"start", "end", "take"}

\* A recording is at one place at a time: recorded, with a task that starts,
\* ends or takes it, awaiting task_start, or taken.
OneTask ==
  \A i, j \in 1 .. Len(ready) :
    Control(ready[i]) /\ Control(ready[j]) /\ ready[i].of = ready[j].of => i = j
Placed(task) ==
  /\ task.of <= recording /\ task.of \notin waiting /\ taken[task.of] = NotTaken
  /\ task.kind = "start" <=> recorder = "starting" /\ task.of = recording
  /\ ~ (recorder = "on" /\ task.of = recording)
OnePlace ==
  /\ OneTask
  /\ \A i \in 1 .. Len(ready) : Control(ready[i]) => Placed(ready[i])
  /\ \A r \in waiting :
       r <= recording /\ taken[r] = NotTaken /\ (r = recording => recorder = "off")
  /\ recorder # "off" => recording \in Recording /\ taken[recording] = NotTaken

\* Nothing is said of a recording before it has started.
Started == IF recorder = "starting" THEN recording - 1 ELSE recording
SaidOnceStarted ==
  /\ \A r \in Recording : r > recording => taken[r] = NotTaken
  /\ \A r \in Recording : r > Started => said[r] = 0
  /\ \A i \in 1 .. Len(ready) : Data(ready[i]) => ready[i].of[1] <= Started

\* A recording before the one that started last is over, unless they are mixed.
OverBefore ==
  \A r \in Recording :
    r < Started /\ (r \notin mixed \/ Started \notin mixed) => Over(r)

\* The tasks of recording c's chunks from the n-th to the m-th: those that were
\* scheduled last come first, each kind in order, and before the end's tasks.
InQueue(q, c, n, m) ==
  /\ n <= m
  /\ \A i \in 1 .. Len(q) : Data(q[i]) =>
       q[i].of[1] = c /\ n < q[i].of[2] /\ q[i].of[2] <= m
  /\ \A k \in n + 1 .. m : \E i \in 1 .. Len(q) : Data(q[i]) /\ q[i].of[2] = k
  /\ \A i, j \in 1 .. Len(q) : i < j /\ Data(q[i]) /\ q[i].kind = q[j].kind =>
       q[i].of[2] < q[j].of[2]
  /\ \A i, j \in 1 .. Len(q) : q[i].kind = "add" /\ q[j].kind = "chunk" =>
       q[i].of[2] < q[j].of[2]
  /\ \A i, j \in 1 .. Len(q) : q[j].kind = "end" /\ q[j].of = c /\ q[i].kind = "chunk" => i < j
  /\ \A i, j \in 1 .. Len(q) : q[j].kind = "take" /\ q[j].of = c /\ Data(q[i]) =>
       q[i].kind = "add" /\ i < j

\* Unless it is mixed, the recording that started last is split between the
\* list and the queue until it is taken.
Collecting ==
  Started \in Recording /\ Started \notin mixed /\ taken[Started] = NotTaken =>
    /\ \A i \in 1 .. Len(buffer) : buffer[i] = <<Started, i>>
    /\ InQueue(ready, Started, Len(buffer), said[Started])
    /\ Started \in waiting => \A i \in 1 .. Len(ready) : ready[i].kind # "chunk"

\* What was taken of a recording is a beginning of it, or all of it.
TakenInOrder ==
  \A r \in Recording : taken[r] # NotTaken /\ r \notin mixed =>
    /\ Len(taken[r]) <= said[r]
    /\ \A i \in 1 .. Len(taken[r]) : taken[r][i] = <<r, i>>
    /\ r \notin hurried => Len(taken[r]) = said[r]

DictationInv ==
  /\ DictationTypeOK
  /\ OnePlace
  /\ SaidOnceStarted
  /\ OverBefore
  /\ Collecting
  /\ TakenInOrder

-----------------------------------------------------------------------------
(* The queue.                                                              *)

(* What a task is of.                                                      *)
LEMMA TaskOf ==
  ASSUME NEW t \in Task
  PROVE  /\ Data(t) => t.of \in Chunk /\ t.of = <<t.of[1], t.of[2]>>
                       /\ t.of[1] \in Recording /\ t.of[2] \in 1 .. MaxChunks
         /\ Control(t) => t.of \in Recording
         /\ Data(t) \/ Control(t)
         /\ Data(t) => ~ Control(t)
<1>1. CASE t \in [kind : {"start", "end", "take"}, of : Recording]
  BY <1>1 DEF Data, Control
<1>2. CASE t \in [kind : {"chunk", "add"}, of : Chunk]
  BY <1>2 DEF Data, Control, Chunk
<1> QED
  BY <1>1, <1>2 DEF Task

(* A task of each kind.                                                    *)
LEMMA NewTask ==
  /\ \A kind \in {"start", "end", "take"}, r \in Recording : [kind |-> kind, of |-> r] \in Task
  /\ \A kind \in {"chunk", "add"}, c \in Chunk : [kind |-> kind, of |-> c] \in Task
  BY DEF Task

(* The first task runs.                                                    *)
LEMMA QueueTail ==
  ASSUME NEW q \in Seq(Task), q # <<>>
  PROVE  /\ Tail(q) \in Seq(Task) /\ Len(Tail(q)) = Len(q) - 1 /\ Len(q) \in Nat \ {0}
         /\ \A i \in 1 .. Len(q) - 1 : Tail(q)[i] = q[i + 1]
         /\ q[1] = Head(q) /\ \A i \in 1 .. Len(q) : q[i] \in Task
  OBVIOUS

(* A task arrives.                                                         *)
LEMMA QueueAppend ==
  ASSUME NEW q \in Seq(Task), NEW t \in Task
  PROVE  /\ Append(q, t) \in Seq(Task) /\ Len(Append(q, t)) = Len(q) + 1 /\ Len(q) \in Nat
         /\ \A i \in 1 .. Len(q) : Append(q, t)[i] = q[i]
         /\ Append(q, t)[Len(q) + 1] = t
         /\ \A i \in 1 .. Len(q) : q[i] \in Task
  OBVIOUS

-----------------------------------------------------------------------------
(* The steps, one case per event of the browser or task of the loop.       *)

\* The queue after a step: unchanged, without its first task, with one more task,
\* or with another task instead of the first.
Stays == ready' = ready
Drops == /\ Len(ready) \in Nat \ {0} /\ Len(ready') = Len(ready) - 1
         /\ \A i \in 1 .. Len(ready') : i + 1 \in 1 .. Len(ready) /\ ready'[i] = ready[i + 1]
Gains(t) == /\ Len(ready) \in Nat /\ Len(ready') = Len(ready) + 1
            /\ \A i \in 1 .. Len(ready') :
                 ready'[i] = IF i = Len(ready') THEN t ELSE ready[i]
Turns(t) == /\ Len(ready) \in Nat \ {0} /\ Len(ready') = Len(ready)
            /\ \A i \in 1 .. Len(ready') :
                 ready'[i] = IF i = Len(ready') THEN t ELSE ready[i + 1]

(* Tasks arrive at the end of the queue.                                   *)
LEMMA Arrival ==
  ASSUME ready \in Seq(Task), NEW t \in Task, ready' = Append(ready, t)
  PROVE  Gains(t) /\ ready' \in Seq(Task)
<1>1. /\ Len(ready') = Len(ready) + 1 /\ Len(ready) \in Nat /\ ready' \in Seq(Task)
      /\ \A i \in 1 .. Len(ready) : ready'[i] = ready[i]
      /\ ready'[Len(ready) + 1] = t
  BY QueueAppend
<1> QED
  BY <1>1 DEF Gains

(* The first task leaves the queue when it runs.                           *)
LEMMA Departure ==
  ASSUME ready \in Seq(Task), ready # <<>>, ready' = Tail(ready)
  PROVE  Drops /\ ready' \in Seq(Task) /\ Head(ready) = ready[1] /\ ready[1] \in Task
<1>1. /\ Len(ready') = Len(ready) - 1 /\ Len(ready) \in Nat \ {0} /\ ready' \in Seq(Task)
      /\ \A i \in 1 .. Len(ready) - 1 : ready'[i] = ready[i + 1]
      /\ Head(ready) = ready[1] /\ ready[1] \in Task
  BY QueueTail
<1> QED
  BY <1>1 DEF Drops

(* A chunk's task schedules another one.                                   *)
LEMMA Turnover ==
  ASSUME ready \in Seq(Task), ready # <<>>, NEW t \in Task, ready' = Append(Tail(ready), t)
  PROVE  Turns(t) /\ ready' \in Seq(Task)
<1>1. /\ Tail(ready) \in Seq(Task) /\ Len(Tail(ready)) = Len(ready) - 1
      /\ Len(ready) \in Nat \ {0}
      /\ \A i \in 1 .. Len(ready) - 1 : Tail(ready)[i] = ready[i + 1]
  BY QueueTail
<1>2. /\ Len(ready') = Len(ready) /\ ready' \in Seq(Task)
      /\ \A i \in 1 .. Len(ready) - 1 : ready'[i] = ready[i + 1]
      /\ ready'[Len(ready)] = t
  <2> DEFINE rest == Tail(ready)
  <2>1. /\ rest \in Seq(Task) /\ Len(rest) = Len(ready) - 1
        /\ \A i \in 1 .. Len(ready) - 1 : rest[i] = ready[i + 1]
        /\ ready' = Append(rest, t)
    BY <1>1
  <2> HIDE DEF rest
  <2>2. /\ Len(ready') = Len(rest) + 1 /\ ready' \in Seq(Task)
        /\ \A i \in 1 .. Len(rest) : ready'[i] = rest[i]
        /\ ready'[Len(rest) + 1] = t
    BY <2>1, QueueAppend
  <2> QED
    BY <1>1, <2>1, <2>2
<1>3. ASSUME NEW i \in 1 .. Len(ready')
      PROVE  ready'[i] = IF i = Len(ready') THEN t ELSE ready[i + 1]
  <2>1. CASE i = Len(ready')
    <3>1. ready'[Len(ready)] = t
      BY <1>2
    <3>2. i = Len(ready)
      BY <1>2, <2>1
    <3>3. ready'[i] = t
      BY <3>1, <3>2
    <3> QED
      BY <2>1, <3>3
  <2>2. CASE i # Len(ready')
    <3> DEFINE n == Len(ready)
    <3>a. Len(ready') = n /\ n \in Nat
      BY <1>1, <1>2
    <3> HIDE DEF n
    <3>b. i \in 1 .. n - 1
      BY <2>2, <3>a
    <3>1. i \in 1 .. Len(ready) - 1
      BY <3>b DEF n
    <3>2. ready'[i] = ready[i + 1]
      BY <1>2, <3>1
    <3> QED
      BY <2>2, <3>2
  <2> QED
    BY <2>1, <2>2
<1> QED
  BY <1>1, <1>2, <1>3 DEF Turns

(* What a step of the browser or of the event loop does to the queue and   *)
(* the rest of the state: one alternative per action.                      *)
Recorded ==
  /\ recorder = "off" /\ recording + 1 \in Recording
  /\ recorder' = "starting" /\ recording' = recording + 1
  /\ Gains([kind |-> "start", of |-> recording + 1])
  /\ UNCHANGED <<said, waiting, buffer, taken, hurried, mixed>>
Spoken ==
  /\ recorder = "on" /\ recording \in Recording
  /\ said[recording] + 1 \in 1 .. MaxChunks
  /\ said' = [said EXCEPT ![recording] = @ + 1]
  /\ Gains([kind |-> "chunk", of |-> <<recording, said[recording] + 1>>])
  /\ UNCHANGED <<recorder, recording, waiting, buffer, taken, hurried, mixed>>
Stopped ==
  /\ recorder = "on" /\ recording \in Recording
  /\ recorder' = "off"
  /\ Gains([kind |-> "end", of |-> recording])
  /\ UNCHANGED <<recording, said, waiting, buffer, taken, hurried, mixed>>
HeadIs(kind) == ready[1] \in Task /\ ready[1].kind = kind
Begun ==
  /\ HeadIs("start") /\ Drops
  /\ StartDictation(ready[1].of)
  /\ UNCHANGED <<recording, said, waiting, taken, hurried>>
Scheduled ==
  /\ HeadIs("chunk") /\ Turns([kind |-> "add", of |-> ready[1].of])
  /\ UNCHANGED <<recorder, recording, said, waiting, buffer, taken, hurried, mixed>>
Added ==
  /\ HeadIs("add") /\ Drops
  /\ buffer' = Append(buffer, ready[1].of)
  /\ UNCHANGED <<recorder, recording, said, waiting, taken, hurried, mixed>>
Ended ==
  /\ HeadIs("end") /\ Drops
  /\ taken' = [taken EXCEPT ![ready[1].of] = buffer] /\ buffer' = <<>>
  /\ hurried' = hurried \cup {ready[1].of}
  /\ UNCHANGED <<recorder, recording, said, waiting, mixed>>
Suspended ==
  /\ HeadIs("end") /\ Drops
  /\ waiting' = waiting \cup {ready[1].of}
  /\ UNCHANGED <<recorder, recording, said, buffer, taken, hurried, mixed>>
Resumed(r) ==
  /\ r \in waiting /\ waiting' = waiting \ {r}
  /\ Gains([kind |-> "take", of |-> r])
  /\ UNCHANGED <<recorder, recording, said, buffer, taken, hurried, mixed>>
Taken ==
  /\ HeadIs("take") /\ Drops
  /\ taken' = [taken EXCEPT ![ready[1].of] = buffer] /\ buffer' = <<>>
  /\ UNCHANGED <<recorder, recording, said, waiting, hurried, mixed>>
Kept ==
  UNCHANGED <<recorder, recording, said, ready, waiting, buffer, taken, hurried, mixed>>

(* Every step is one of these, and keeps the types.                        *)
LEMMA Steps ==
  ASSUME DictationInv, [DictationNext]_dictationVars
  PROVE  /\ \/ Recorded \/ Spoken \/ Stopped \/ Begun \/ Scheduled \/ Added \/ Ended
            \/ Suspended \/ (\E r \in Recording : Resumed(r)) \/ Taken \/ Kept
         /\ DictationTypeOK'
<1> DEFINE Goal == /\ \/ Recorded \/ Spoken \/ Stopped \/ Begun \/ Scheduled \/ Added \/ Ended
                      \/ Suspended \/ (\E r \in Recording : Resumed(r)) \/ Taken \/ Kept
                   /\ DictationTypeOK'
<1>a. /\ MaxRecordings \in Nat /\ MaxChunks \in Nat
      /\ recorder \in {"off", "starting", "on"} /\ recording \in 0 .. MaxRecordings
      /\ said \in [Recording -> 0 .. MaxChunks] /\ inputShown \in BOOLEAN
      /\ ready \in Seq(Task) /\ waiting \subseteq Recording /\ buffer \in Seq(Chunk)
      /\ taken \in [Recording -> Seq(Chunk) \cup {NotTaken}]
      /\ outcome \in [Recording -> {"none", "asked", "text", "discarded", "notice"}]
      /\ hurried \subseteq Recording /\ mixed \subseteq Recording
  BY DictationAssumption DEF DictationInv, DictationTypeOK
<1>b. recorder # "off" => recording \in Recording
  BY DEF DictationInv, OnePlace
<1> USE DEF browser, server, DictationTypeOK
<1>1. CASE Record
  <2>1. recording + 1 \in Recording
    BY <1>1, <1>a DEF Record, Recording
  <2>2. Gains([kind |-> "start", of |-> recording + 1]) /\ ready' \in Seq(Task)
    BY <1>1, <1>a, <2>1, NewTask, Arrival DEF Record, Arrives
  <2>3. recording' \in 0 .. MaxRecordings
    BY <1>1, <1>a DEF Record
  <2> QED
    BY <1>1, <1>a, <2>1, <2>2, <2>3 DEF Record, Recorded
<1>2. CASE Speak
  <2>1. recording \in Recording /\ said[recording] + 1 \in 1 .. MaxChunks
    BY <1>2, <1>a, <1>b DEF Speak
  <2>2. /\ Gains([kind |-> "chunk", of |-> <<recording, said[recording] + 1>>])
        /\ ready' \in Seq(Task)
    BY <1>2, <1>a, <2>1, NewTask, Arrival DEF Speak, Arrives, Chunk
  <2>3. said' \in [Recording -> 0 .. MaxChunks]
    BY <1>2, <1>a, <2>1 DEF Speak
  <2> QED
    BY <1>2, <1>a, <2>1, <2>2, <2>3 DEF Speak, Spoken
<1>3. CASE StopRecording
  <2>1. recording \in Recording
    BY <1>3, <1>b DEF StopRecording
  <2>2. Gains([kind |-> "end", of |-> recording]) /\ ready' \in Seq(Task)
    BY <1>3, <1>a, <2>1, NewTask, Arrival DEF StopRecording, Arrives
  <2> QED
    BY <1>3, <1>a, <2>1, <2>2 DEF StopRecording, Stopped
<1>4. CASE Navigate
  BY <1>4, <1>a DEF Navigate, Kept
<1>5. CASE RunStart
  <2>1. Drops /\ HeadIs("start") /\ Head(ready) = ready[1] /\ ready' \in Seq(Task)
    BY <1>5, <1>a, Departure DEF RunStart, Runs, HeadIs
  <2>2. ready[1].of \in Recording
    BY <2>1, TaskOf DEF HeadIs, Control
  <2> DEFINE r == ready[1].of
             before == {q \in 1 .. r - 1 : ~Over(q)}
  <2>4. /\ mixed' = IF before = {} THEN mixed ELSE mixed \cup before \cup {r}
        /\ buffer' = <<>> /\ recorder' = "on"
    BY <1>5, <2>1 DEF RunStart, StartDictation
  <2>5. before \subseteq Recording
    BY <1>a, <2>2 DEF Recording
  <2>3. mixed' \subseteq Recording /\ buffer' = <<>> /\ recorder' = "on"
    <3> HIDE DEF before, r
    <3> QED
      BY <1>a, <2>2, <2>4, <2>5 DEF r
  <2> QED
    BY <1>5, <1>a, <2>1, <2>3 DEF RunStart, Begun
<1>6. CASE RunChunk
  <2>1. HeadIs("chunk") /\ Head(ready) = ready[1] /\ ready # <<>>
    BY <1>6, <1>a, QueueTail DEF RunChunk, Runs, HeadIs
  <2>2. [kind |-> "add", of |-> ready[1].of] \in Task
    BY <2>1, TaskOf, NewTask DEF HeadIs, Data
  <2>3. Turns([kind |-> "add", of |-> ready[1].of]) /\ ready' \in Seq(Task)
    BY <1>6, <1>a, <2>1, <2>2, Turnover DEF RunChunk, Arrives
  <2> QED
    BY <1>6, <1>a, <2>1, <2>3 DEF RunChunk, Scheduled
<1>7. CASE RunAdd
  <2>1. Drops /\ HeadIs("add") /\ Head(ready) = ready[1] /\ ready' \in Seq(Task)
    BY <1>7, <1>a, Departure DEF RunAdd, Runs, HeadIs
  <2>2. ready[1].of \in Chunk
    BY <2>1, TaskOf DEF HeadIs, Data
  <2>3. buffer' \in Seq(Chunk)
    BY <1>7, <1>a, <2>1, <2>2 DEF RunAdd, AddDictationChunk
  <2> QED
    BY <1>7, <1>a, <2>1, <2>3 DEF RunAdd, AddDictationChunk, Added
<1>8. ASSUME NEW r \in Recording, TakeRecording(r)
      PROVE  /\ taken' \in [Recording -> Seq(Chunk) \cup {NotTaken}] /\ buffer' \in Seq(Chunk)
             /\ outcome' \in [Recording -> {"none", "asked", "text", "discarded", "notice"}]
  <2>1. buffer' = <<>> /\ <<>> \in Seq(Chunk)
    BY <1>8 DEF TakeRecording
  <2>2. taken' = [taken EXCEPT ![r] = buffer]
    BY <1>8 DEF TakeRecording
  <2>3. \E v \in {"notice", "asked"} : outcome' = [outcome EXCEPT ![r] = v]
    BY <1>8 DEF TakeRecording
  <2> QED
    BY <1>a, <2>1, <2>2, <2>3
<1>9. CASE RunEnd
  <2>1. Drops /\ HeadIs("end") /\ Head(ready) = ready[1] /\ ready' \in Seq(Task)
    BY <1>9, <1>a, Departure DEF RunEnd, Runs, HeadIs
  <2>2. ready[1].of \in Recording
    BY <2>1, TaskOf DEF HeadIs, Control
  <2> QED
    BY <1>8, <1>9, <1>a, <2>1, <2>2 DEF RunEnd, TakeRecording, Ended
<1>10. CASE SuspendEnd
  <2>1. Drops /\ HeadIs("end") /\ Head(ready) = ready[1] /\ ready' \in Seq(Task)
    BY <1>10, <1>a, Departure DEF SuspendEnd, Runs, HeadIs
  <2>2. ready[1].of \in Recording
    BY <2>1, TaskOf DEF HeadIs, Control
  <2> QED
    BY <1>10, <1>a, <2>1, <2>2 DEF SuspendEnd, Suspended
<1>11. ASSUME NEW r \in Recording, ResumeEnd(r) PROVE Goal
  <2>1. Gains([kind |-> "take", of |-> r]) /\ ready' \in Seq(Task)
    BY <1>11, <1>a, NewTask, Arrival DEF ResumeEnd, Arrives
  <2>2. Resumed(r)
    BY <1>11, <2>1 DEF ResumeEnd, Resumed
  <2>3. DictationTypeOK'
    BY <1>11, <1>a, <2>1 DEF ResumeEnd
  <2> QED
    BY <2>2, <2>3
<1>12. CASE RunTake
  <2>1. Drops /\ HeadIs("take") /\ Head(ready) = ready[1] /\ ready' \in Seq(Task)
    BY <1>12, <1>a, Departure DEF RunTake, Runs, HeadIs
  <2>2. ready[1].of \in Recording
    BY <2>1, TaskOf DEF HeadIs, Control
  <2> QED
    BY <1>8, <1>12, <1>a, <2>1, <2>2 DEF RunTake, TakeRecording, Taken
<1>13. ASSUME NEW r \in Recording, Transcribed(r) PROVE Goal
  <2>1. \E v \in {"text", "discarded", "notice"} : outcome' = [outcome EXCEPT ![r] = v]
    BY <1>13 DEF Transcribed
  <2>2. outcome' \in [Recording -> {"none", "asked", "text", "discarded", "notice"}]
    BY <1>a, <2>1
  <2> QED
    BY <1>13, <1>a, <2>2 DEF Transcribed, Kept
<1>14. CASE UNCHANGED dictationVars
  BY <1>14, <1>a DEF dictationVars, Kept
<1> HIDE DEF browser, server, DictationTypeOK
<1> QED
  BY <1>1, <1>2, <1>3, <1>4, <1>5, <1>6, <1>7, <1>9, <1>10, <1>11, <1>12, <1>13, <1>14
     DEF DictationNext, RunTask

-----------------------------------------------------------------------------
(* The invariant holds before and after a step.                            *)

(* The types in the form in which the proofs use them.                     *)
LEMMA Types ==
  ASSUME DictationTypeOK
  PROVE  /\ MaxRecordings \in Nat /\ MaxChunks \in Nat
         /\ recorder \in {"off", "starting", "on"} /\ recording \in 0 .. MaxRecordings
         /\ said \in [Recording -> 0 .. MaxChunks]
         /\ waiting \subseteq Recording /\ buffer \in Seq(Chunk) /\ Len(buffer) \in Nat
         /\ taken \in [Recording -> Seq(Chunk) \cup {NotTaken}]
         /\ Len(ready) \in Nat /\ \A i \in 1 .. Len(ready) : ready[i] \in Task
         /\ Started \in Int
  BY DictationAssumption DEF DictationTypeOK, Started

(* What was recorded is never taken for not taken.                         *)
LEMMA TakenDiffers ==
  ASSUME NEW s \in Seq(Chunk) PROVE s # NotTaken
<1> SUFFICES ASSUME s = NotTaken PROVE FALSE
  OBVIOUS
<1>1. Len(s) = 1 /\ s[1] = <<0, 0>>
  BY DEF NotTaken
<1>2. s[1] \in Chunk
  BY <1>1
<1>3. s[1][1] \in Recording
  BY <1>2 DEF Chunk
<1> QED
  BY <1>1, <1>3, DictationAssumption DEF Recording

(* A task that leaves was its recording's only one, and so is one that     *)
(* arrives if the recording had none.                                      *)
LEMMA OneTaskStep ==
  ASSUME OneTask
  PROVE  /\ Drops => /\ OneTask'
                     /\ \A i \in 1 .. Len(ready') :
                          Control(ready[1]) /\ Control(ready'[i]) => ready'[i].of # ready[1].of
         /\ \A t : /\ Gains(t)
                   /\ \A i \in 1 .. Len(ready) :
                        Control(t) /\ Control(ready[i]) => ready[i].of # t.of
                   => OneTask'
         /\ \A t : Turns(t) /\ ~ Control(t) => OneTask'
<1>1. ASSUME Drops
      PROVE  /\ OneTask'
             /\ \A i \in 1 .. Len(ready') :
                  Control(ready[1]) /\ Control(ready'[i]) => ready'[i].of # ready[1].of
  <2>1. ASSUME NEW i \in 1 .. Len(ready'), NEW j \in 1 .. Len(ready'), Control(ready'[i]),
               Control(ready'[j]), ready'[i].of = ready'[j].of
        PROVE  i = j
    <3>1. /\ i + 1 \in 1 .. Len(ready) /\ ready'[i] = ready[i + 1]
          /\ j + 1 \in 1 .. Len(ready) /\ ready'[j] = ready[j + 1]
      BY <1>1 DEF Drops
    <3>2. i + 1 = j + 1
      BY <2>1, <3>1 DEF OneTask
    <3> QED
      BY <1>1, <3>2 DEF Drops
  <2>2. ASSUME NEW i \in 1 .. Len(ready'), Control(ready[1]), Control(ready'[i])
        PROVE  ready'[i].of # ready[1].of
    <3>1. i + 1 \in 1 .. Len(ready) /\ ready'[i] = ready[i + 1] /\ 1 \in 1 .. Len(ready)
      BY <1>1 DEF Drops
    <3>2. i + 1 # 1
      OBVIOUS
    <3> QED
      BY <2>2, <3>1, <3>2 DEF OneTask
  <2>3. OneTask'
    BY <2>1 DEF OneTask, Control
  <2> QED
    BY <2>2, <2>3
<1>2. ASSUME NEW t, Gains(t),
             \A i \in 1 .. Len(ready) : Control(t) /\ Control(ready[i]) => ready[i].of # t.of,
             NEW i \in 1 .. Len(ready'), NEW j \in 1 .. Len(ready'), Control(ready'[i]),
             Control(ready'[j]), ready'[i].of = ready'[j].of
      PROVE  i = j
  <2>1. /\ Len(ready) \in Nat /\ Len(ready') = Len(ready) + 1
        /\ ready'[i] = IF i = Len(ready') THEN t ELSE ready[i]
        /\ ready'[j] = IF j = Len(ready') THEN t ELSE ready[j]
    BY <1>2 DEF Gains
  <2>2. CASE i = Len(ready')
    BY <1>2, <2>1, <2>2
  <2>3. CASE j = Len(ready')
    BY <1>2, <2>1, <2>3
  <2>4. CASE i # Len(ready') /\ j # Len(ready')
    BY <1>2, <2>1, <2>4 DEF OneTask
  <2> QED
    BY <2>2, <2>3, <2>4
<1>3. ASSUME NEW t, Turns(t), ~ Control(t),
             NEW i \in 1 .. Len(ready'), NEW j \in 1 .. Len(ready'), Control(ready'[i]),
             Control(ready'[j]), ready'[i].of = ready'[j].of
      PROVE  i = j
  <2>1. /\ Len(ready) \in Nat /\ Len(ready') = Len(ready)
        /\ ready'[i] = IF i = Len(ready') THEN t ELSE ready[i + 1]
        /\ ready'[j] = IF j = Len(ready') THEN t ELSE ready[j + 1]
    BY <1>3 DEF Turns
  <2>2. i # Len(ready') /\ j # Len(ready')
    BY <1>3, <2>1
  <2>3. i + 1 \in 1 .. Len(ready) /\ j + 1 \in 1 .. Len(ready)
    BY <2>1, <2>2
  <2>4. i + 1 = j + 1
    BY <1>3, <2>1, <2>2, <2>3 DEF OneTask
  <2> QED
    BY <2>1, <2>4
<1> QED
  BY <1>1, <1>2, <1>3 DEF OneTask, Control

(* The places of the recordings.                                           *)
LEMMA PlacesStep ==
  ASSUME DictationInv, DictationTypeOK',
         \/ Recorded \/ Spoken \/ Stopped \/ Begun \/ Scheduled \/ Added \/ Ended
         \/ Suspended \/ (\E r \in Recording : Resumed(r)) \/ Taken \/ Kept
  PROVE  OnePlace'
<1>a. /\ MaxRecordings \in Nat
      /\ recorder \in {"off", "starting", "on"} /\ recording \in 0 .. MaxRecordings
      /\ waiting \subseteq Recording
      /\ taken \in [Recording -> Seq(Chunk) \cup {NotTaken}]
      /\ Len(ready) \in Nat
  BY Types DEF DictationInv
<1>b. /\ OneTask
      /\ \A i \in 1 .. Len(ready) : Control(ready[i]) => Placed(ready[i])
      /\ \A r \in waiting :
           r <= recording /\ taken[r] = NotTaken /\ (r = recording => recorder = "off")
      /\ recorder # "off" => recording \in Recording /\ taken[recording] = NotTaken
      /\ \A r \in Recording : r > recording => taken[r] = NotTaken
  BY DEF DictationInv, OnePlace, SaidOnceStarted
<1>c. \A i \in 1 .. Len(ready) : Control(ready[i]) => ready[i].of \in Recording
  BY Types, TaskOf DEF DictationInv
<1>d. Recording = 1 .. MaxRecordings
  BY DEF Recording
<1>1. CASE Recorded
  <2> DEFINE t == [kind |-> "start", of |-> recording + 1]
  <2>1. /\ recorder = "off" /\ recording + 1 \in Recording /\ recorder' = "starting"
        /\ recording' = recording + 1 /\ Gains(t) /\ waiting' = waiting /\ taken' = taken
    BY <1>1 DEF Recorded
  <2>2. \A i \in 1 .. Len(ready) : Control(ready[i]) => ready[i].of # t.of
    BY <1>a, <1>b, <1>c, <1>d DEF Placed
  <2>3. OneTask'
    BY <1>b, <2>1, <2>2, OneTaskStep
  <2>4. ASSUME NEW i \in 1 .. Len(ready'), Control(ready'[i]) PROVE Placed(ready[i])'
    <3>1. /\ Len(ready') = Len(ready) + 1
          /\ ready'[i] = IF i = Len(ready') THEN t ELSE ready[i]
      BY <2>1 DEF Gains
    <3>2. CASE i = Len(ready')
      BY <1>a, <1>b, <1>d, <2>1, <3>1, <3>2 DEF Placed
    <3>3. CASE i # Len(ready')
      <4>1. Placed(ready[i]) /\ ready'[i] = ready[i] /\ ready[i].of \in Recording
        BY <1>a, <1>b, <1>c, <2>4, <3>1, <3>3
      <4> QED
        BY <1>a, <1>d, <2>1, <4>1 DEF Placed
    <3> QED
      BY <3>2, <3>3
  <2>5. /\ \A r \in waiting' :
             r <= recording' /\ taken'[r] = NotTaken /\ (r = recording' => recorder' = "off")
        /\ recorder' # "off" => recording' \in Recording /\ taken'[recording'] = NotTaken
    BY <1>a, <1>b, <1>d, <2>1
  <2> QED
    BY <2>3, <2>4, <2>5 DEF OnePlace, Control
<1>2. CASE Spoken
  <2> DEFINE t == [kind |-> "chunk", of |-> <<recording, said[recording] + 1>>]
  <2>1. Gains(t) /\ UNCHANGED <<recorder, recording, waiting, taken>>
    BY <1>2 DEF Spoken
  <2>2. ~ Control(t)
    BY DEF Control
  <2>3. OneTask'
    BY <1>b, <2>1, <2>2, OneTaskStep
  <2>4. ASSUME NEW i \in 1 .. Len(ready'), Control(ready'[i]) PROVE Placed(ready[i])'
    <3>1. /\ Len(ready') = Len(ready) + 1
          /\ ready'[i] = IF i = Len(ready') THEN t ELSE ready[i]
      BY <2>1 DEF Gains
    <3>2. i \in 1 .. Len(ready) /\ ready'[i] = ready[i]
      BY <1>a, <2>2, <2>4, <3>1
    <3> QED
      BY <1>b, <2>1, <2>4, <3>2 DEF Placed
  <2> QED
    BY <1>b, <2>1, <2>3, <2>4 DEF OnePlace, Control
<1>3. CASE Stopped
  <2> DEFINE t == [kind |-> "end", of |-> recording]
  <2>1. /\ recorder = "on" /\ recorder' = "off" /\ Gains(t)
        /\ UNCHANGED <<recording, waiting, taken>>
    BY <1>3 DEF Stopped
  <2>2. \A i \in 1 .. Len(ready) : Control(ready[i]) => ready[i].of # t.of
    BY <1>b, <2>1 DEF Placed
  <2>3. OneTask'
    BY <1>b, <2>1, <2>2, OneTaskStep
  <2>4. ASSUME NEW i \in 1 .. Len(ready'), Control(ready'[i]) PROVE Placed(ready[i])'
    <3>1. /\ Len(ready') = Len(ready) + 1
          /\ ready'[i] = IF i = Len(ready') THEN t ELSE ready[i]
      BY <2>1 DEF Gains
    <3>2. CASE i = Len(ready')
      <4>1. recording \in Recording /\ recording \notin waiting /\ taken[recording] = NotTaken
        BY <1>b, <2>1
      <4> QED
        BY <1>a, <2>1, <3>1, <3>2, <4>1 DEF Placed
    <3>3. CASE i # Len(ready')
      <4>1. Placed(ready[i]) /\ ready'[i] = ready[i]
        BY <1>a, <1>b, <2>4, <3>1, <3>3
      <4> QED
        BY <2>1, <4>1 DEF Placed
    <3> QED
      BY <3>2, <3>3
  <2> QED
    BY <1>b, <2>1, <2>3, <2>4 DEF OnePlace, Control
<1>4. ASSUME Drops
      PROVE  /\ OneTask'
             /\ \A i \in 1 .. Len(ready') : Control(ready'[i]) =>
                  /\ Placed(ready'[i]) /\ ready'[i].of \in Recording
                  /\ Control(ready[1]) => ready'[i].of # ready[1].of
             /\ Control(ready[1]) => Placed(ready[1]) /\ ready[1].of \in Recording
  <2>1. /\ OneTask'
        /\ \A i \in 1 .. Len(ready') :
             Control(ready[1]) /\ Control(ready'[i]) => ready'[i].of # ready[1].of
    BY <1>4, <1>b, OneTaskStep
  <2>2. \A i \in 1 .. Len(ready') : i + 1 \in 1 .. Len(ready) /\ ready'[i] = ready[i + 1]
    BY <1>4 DEF Drops
  <2>3. \A i \in 1 .. Len(ready') :
          Control(ready'[i]) => Placed(ready'[i]) /\ ready'[i].of \in Recording
    BY <1>b, <1>c, <2>2
  <2>4. 1 \in 1 .. Len(ready)
    BY <1>4 DEF Drops
  <2> QED
    BY <1>b, <1>c, <2>1, <2>3, <2>4
<1>5. CASE Begun
  <2>1. /\ Control(ready[1]) /\ Drops /\ ready[1].kind = "start" /\ recorder' = "on"
        /\ UNCHANGED <<recording, waiting, taken>>
    BY <1>5 DEF Begun, HeadIs, StartDictation, Control
  <2>2. recorder = "starting" /\ ready[1].of = recording
    BY <1>4, <2>1 DEF Placed
  <2>3. ASSUME NEW i \in 1 .. Len(ready'), Control(ready'[i]) PROVE Placed(ready[i])'
    BY <1>4, <2>1, <2>2, <2>3 DEF Placed
  <2>4. \A r \in waiting : r # recording
    BY <1>b, <2>2
  <2> QED
    BY <1>4, <1>b, <2>1, <2>2, <2>3, <2>4 DEF OnePlace, Control
<1>6. CASE Scheduled
  <2> DEFINE t == [kind |-> "add", of |-> ready[1].of]
  <2>1. Turns(t) /\ UNCHANGED <<recorder, recording, waiting, taken>>
    BY <1>6 DEF Scheduled
  <2>2. ~ Control(t)
    BY DEF Control
  <2>3. OneTask'
    BY <1>b, <2>1, <2>2, OneTaskStep
  <2>4. ASSUME NEW i \in 1 .. Len(ready'), Control(ready'[i]) PROVE Placed(ready[i])'
    <3>1. /\ Len(ready') = Len(ready)
          /\ ready'[i] = IF i = Len(ready') THEN t ELSE ready[i + 1]
      BY <2>1 DEF Turns
    <3>2. i # Len(ready')
      BY <2>2, <2>4, <3>1
    <3>3. i + 1 \in 1 .. Len(ready) /\ ready'[i] = ready[i + 1]
      BY <1>a, <3>1, <3>2
    <3> QED
      BY <1>b, <2>1, <2>4, <3>3 DEF Placed
  <2> QED
    BY <1>b, <2>1, <2>3, <2>4 DEF OnePlace, Control
<1>7. CASE Added
  <2>1. Drops /\ UNCHANGED <<recorder, recording, waiting, taken>>
    BY <1>7 DEF Added
  <2>2. \A i \in 1 .. Len(ready') : Control(ready'[i]) => Placed(ready[i])'
    BY <1>4, <2>1 DEF Placed
  <2> QED
    BY <1>4, <1>b, <2>1, <2>2 DEF OnePlace, Control
<1>8. ASSUME Drops, ready[1].kind \in {"end", "take"}, UNCHANGED <<recorder, recording, waiting>>,
             taken' = [taken EXCEPT ![ready[1].of] = buffer]
      PROVE  OnePlace'
  <2>1. Control(ready[1]) /\ Placed(ready[1]) /\ ready[1].of \in Recording
    BY <1>4, <1>8 DEF Control
  <2>2. ASSUME NEW i \in 1 .. Len(ready'), Control(ready'[i]) PROVE Placed(ready[i])'
    <3>1. /\ Placed(ready'[i]) /\ ready'[i].of \in Recording /\ ready'[i].of # ready[1].of
      BY <1>4, <1>8, <2>1, <2>2
    <3>2. taken'[ready'[i].of] = taken[ready'[i].of]
      BY <1>8, <1>a, <3>1
    <3> QED
      BY <1>8, <3>1, <3>2 DEF Placed
  <2>3. \A r \in waiting : taken'[r] = taken[r]
    BY <1>8, <1>a, <2>1 DEF Placed
  <2>4. recorder # "off" => ready[1].of # recording
    BY <1>8, <1>a, <2>1 DEF Placed
  <2>5. recorder # "off" => taken'[recording] = taken[recording]
    BY <1>8, <1>a, <1>b, <2>4
  <2> QED
    BY <1>4, <1>8, <1>b, <2>2, <2>3, <2>5 DEF OnePlace, Control
<1>9. CASE Suspended
  <2>1. /\ Control(ready[1]) /\ Drops /\ ready[1].kind = "end"
        /\ waiting' = waiting \cup {ready[1].of} /\ UNCHANGED <<recorder, recording, taken>>
    BY <1>9 DEF Suspended, HeadIs, Control
  <2>2. Placed(ready[1]) /\ ready[1].of \in Recording
    BY <1>4, <2>1
  <2>3. \A i \in 1 .. Len(ready') : Control(ready'[i]) => Placed(ready[i])'
    BY <1>4, <2>1 DEF Placed
  <2>4. ready[1].of = recording => recorder = "off"
    BY <1>a, <2>1, <2>2 DEF Placed
  <2>5. \A r \in waiting' :
          r <= recording /\ taken[r] = NotTaken /\ (r = recording => recorder = "off")
    BY <1>b, <2>1, <2>2, <2>4 DEF Placed
  <2> QED
    BY <1>4, <1>b, <2>1, <2>3, <2>5 DEF OnePlace, Control
<1>10. ASSUME NEW r \in Recording, Resumed(r) PROVE OnePlace'
  <2> DEFINE t == [kind |-> "take", of |-> r]
  <2>1. /\ r \in waiting /\ waiting' = waiting \ {r} /\ Gains(t)
        /\ UNCHANGED <<recorder, recording, taken>>
    BY <1>10 DEF Resumed
  <2>2. \A i \in 1 .. Len(ready) : Control(ready[i]) => ready[i].of # t.of
    BY <1>b, <2>1 DEF Placed
  <2>3. OneTask'
    BY <1>b, <2>1, <2>2, OneTaskStep
  <2>4. ASSUME NEW i \in 1 .. Len(ready'), Control(ready'[i]) PROVE Placed(ready[i])'
    <3>1. /\ Len(ready') = Len(ready) + 1
          /\ ready'[i] = IF i = Len(ready') THEN t ELSE ready[i]
      BY <2>1 DEF Gains
    <3>2. CASE i = Len(ready')
      BY <1>b, <2>1, <3>1, <3>2 DEF Placed
    <3>3. CASE i # Len(ready')
      <4>1. Placed(ready[i]) /\ ready'[i] = ready[i]
        BY <1>a, <1>b, <2>4, <3>1, <3>3
      <4> QED
        BY <2>1, <4>1 DEF Placed
    <3> QED
      BY <3>2, <3>3
  <2> QED
    BY <1>b, <2>1, <2>3, <2>4 DEF OnePlace, Control
<1>11. CASE Kept
  BY <1>11, <1>b DEF Kept, OnePlace, OneTask, Placed, Control
<1> QED
  BY <1>1, <1>2, <1>3, <1>5, <1>6, <1>7, <1>8, <1>9, <1>10, <1>11 DEF Ended, Taken, HeadIs

(* Where the tasks of the queue come from.                                 *)
LEMMA Origin ==
  /\ Drops => \A i \in 1 .. Len(ready') : \E j \in 1 .. Len(ready) : ready'[i] = ready[j]
  /\ \A t : Gains(t) \/ Turns(t) =>
       \A i \in 1 .. Len(ready') :
         ready'[i] = t \/ \E j \in 1 .. Len(ready) : ready'[i] = ready[j]
<1>1. ASSUME Drops, NEW i \in 1 .. Len(ready')
      PROVE  \E j \in 1 .. Len(ready) : ready'[i] = ready[j]
  BY <1>1 DEF Drops
<1>2. ASSUME NEW t, Gains(t), NEW i \in 1 .. Len(ready'), i # Len(ready')
      PROVE  \E j \in 1 .. Len(ready) : ready'[i] = ready[j]
  <2>1. i \in 1 .. Len(ready) /\ ready'[i] = ready[i]
    BY <1>2 DEF Gains
  <2> QED
    BY <2>1
<1>3. ASSUME NEW t, Turns(t), NEW i \in 1 .. Len(ready'), i # Len(ready')
      PROVE  \E j \in 1 .. Len(ready) : ready'[i] = ready[j]
  <2>1. i + 1 \in 1 .. Len(ready) /\ ready'[i] = ready[i + 1]
    BY <1>3 DEF Turns
  <2> QED
    BY <2>1
<1>4. ASSUME NEW t, Gains(t) \/ Turns(t), NEW i \in 1 .. Len(ready'), i = Len(ready')
      PROVE  ready'[i] = t
  BY <1>4 DEF Gains, Turns
<1> QED
  BY <1>1, <1>2, <1>3, <1>4

(* Nothing is said before a recording has started.                         *)
LEMMA SaidStep ==
  ASSUME DictationInv, DictationTypeOK', OnePlace',
         \/ Recorded \/ Spoken \/ Stopped \/ Begun \/ Scheduled \/ Added \/ Ended
         \/ Suspended \/ (\E r \in Recording : Resumed(r)) \/ Taken \/ Kept
  PROVE  SaidOnceStarted'
<1>a. /\ MaxRecordings \in Nat
      /\ recorder \in {"off", "starting", "on"} /\ recording \in 0 .. MaxRecordings
      /\ said \in [Recording -> 0 .. MaxChunks]
      /\ taken \in [Recording -> Seq(Chunk) \cup {NotTaken}]
      /\ Len(ready) \in Nat
  BY Types DEF DictationInv
<1>b. /\ \A r \in Recording : r > recording => taken[r] = NotTaken
      /\ \A r \in Recording : r > Started => said[r] = 0
      /\ \A i \in 1 .. Len(ready) : Data(ready[i]) => ready[i].of[1] <= Started
      /\ \A i \in 1 .. Len(ready) : Control(ready[i]) => Placed(ready[i])
  BY DEF DictationInv, OnePlace, SaidOnceStarted
<1>c. \A i \in 1 .. Len(ready) :
        /\ Data(ready[i]) => ready[i].of[1] \in Recording
        /\ Control(ready[i]) => ready[i].of \in Recording
  BY Types, TaskOf DEF DictationInv
<1>d. Recording = 1 .. MaxRecordings
  BY DEF Recording
<1>1. CASE Recorded
  <2>1. Started' = Started /\ said' = said /\ taken' = taken /\ recording' = recording + 1
    BY <1>1, <1>a DEF Recorded, Started
  <2>2. \A i \in 1 .. Len(ready') : Data(ready'[i]) => ready'[i].of[1] <= Started
    BY <1>1, <1>b, Origin DEF Recorded, Data
  <2> QED
    BY <1>a, <1>b, <1>d, <2>1, <2>2 DEF SaidOnceStarted, Data
<1>2. CASE Spoken
  <2> DEFINE t == [kind |-> "chunk", of |-> <<recording, said[recording] + 1>>]
  <2>1. /\ Started' = recording /\ Started = recording /\ taken' = taken
        /\ recording' = recording /\ said' = [said EXCEPT ![recording] = @ + 1] /\ Gains(t)
    BY <1>2 DEF Spoken, Started
  <2>2. t.of[1] = recording
    OBVIOUS
  <2>3. \A i \in 1 .. Len(ready') : Data(ready'[i]) => ready'[i].of[1] <= recording
    <3> HIDE DEF t
    <3> QED
      BY <1>a, <1>b, <2>1, <2>2, Origin
  <2>4. \A r \in Recording : r > recording => said'[r] = 0
    BY <1>a, <1>b, <1>d, <2>1
  <2> QED
    BY <1>b, <2>1, <2>3, <2>4 DEF SaidOnceStarted, Data
<1>3. CASE Stopped
  <2>1. Started' = Started /\ said' = said /\ taken' = taken /\ recording' = recording
    BY <1>3 DEF Stopped, Started
  <2>2. \A i \in 1 .. Len(ready') : Data(ready'[i]) => ready'[i].of[1] <= Started
    BY <1>3, <1>b, Origin DEF Stopped, Data
  <2> QED
    BY <1>b, <2>1, <2>2 DEF SaidOnceStarted, Data
<1>4. ASSUME Drops
      PROVE  /\ \A i \in 1 .. Len(ready') : Data(ready'[i]) => ready'[i].of[1] <= Started
             /\ Control(ready[1]) => Placed(ready[1]) /\ ready[1].of \in Recording
  <2>1. 1 \in 1 .. Len(ready)
    BY <1>4 DEF Drops
  <2> QED
    BY <1>b, <1>c, <1>4, <2>1, Origin
<1>5. CASE Begun
  <2>1. /\ Drops /\ Control(ready[1]) /\ ready[1].kind = "start" /\ recorder' = "on"
        /\ UNCHANGED <<recording, said, taken>>
    BY <1>5 DEF Begun, HeadIs, StartDictation, Control
  <2>2. recorder = "starting"
    BY <1>4, <2>1 DEF Placed
  <2>3. Started = recording - 1 /\ Started' = recording
    BY <2>1, <2>2 DEF Started
  <2>4. \A i \in 1 .. Len(ready') : Data(ready'[i]) => ready'[i].of[1] \in Int
    BY <1>c, <1>d, <2>1, Origin
  <2>5. \A i \in 1 .. Len(ready') : Data(ready'[i]) => ready'[i].of[1] <= recording
    BY <1>a, <1>4, <2>1, <2>3, <2>4
  <2>6. \A r \in Recording : r > recording => said[r] = 0
    BY <1>a, <1>b, <1>d, <2>3
  <2> QED
    BY <1>b, <2>1, <2>3, <2>5, <2>6 DEF SaidOnceStarted, Data
<1>6. CASE Scheduled
  <2> DEFINE t == [kind |-> "add", of |-> ready[1].of]
  <2>1. /\ Turns(t) /\ UNCHANGED <<recorder, recording, said, taken>> /\ Data(ready[1])
        /\ Started' = Started
    BY <1>6 DEF Scheduled, HeadIs, Data, Started
  <2>2. 1 \in 1 .. Len(ready)
    BY <2>1 DEF Turns
  <2>3. t.of[1] = ready[1].of[1]
    OBVIOUS
  <2>4. \A i \in 1 .. Len(ready') : Data(ready'[i]) => ready'[i].of[1] <= Started
    <3> HIDE DEF t
    <3> QED
      BY <1>b, <2>1, <2>2, <2>3, Origin
  <2> QED
    BY <1>b, <2>1, <2>4 DEF SaidOnceStarted, Data
<1>7. CASE Added
  <2>1. Drops /\ UNCHANGED <<recorder, recording, said, taken>> /\ Started' = Started
    BY <1>7 DEF Added, Started
  <2> QED
    BY <1>b, <1>4, <2>1 DEF SaidOnceStarted, Data
<1>8. ASSUME Drops, ready[1].kind \in {"end", "take"}, UNCHANGED <<recorder, recording, said>>,
             taken' = [taken EXCEPT ![ready[1].of] = buffer]
      PROVE  SaidOnceStarted'
  <2>1. ready[1].of <= recording /\ ready[1].of \in Recording /\ Started' = Started
    BY <1>4, <1>8 DEF Control, Placed, Started
  <2>2. \A r \in Recording : r > recording => taken'[r] = taken[r]
    BY <1>8, <1>a, <1>d, <2>1
  <2> QED
    BY <1>b, <1>4, <1>8, <2>1, <2>2 DEF SaidOnceStarted, Data
<1>9. CASE Suspended
  <2>1. Drops /\ UNCHANGED <<recorder, recording, said, taken>> /\ Started' = Started
    BY <1>9 DEF Suspended, Started
  <2> QED
    BY <1>b, <1>4, <2>1 DEF SaidOnceStarted, Data
<1>10. ASSUME NEW r \in Recording, Resumed(r) PROVE SaidOnceStarted'
  <2>1. UNCHANGED <<recorder, recording, said, taken>> /\ Started' = Started
    BY <1>10 DEF Resumed, Started
  <2>2. \A i \in 1 .. Len(ready') : Data(ready'[i]) => ready'[i].of[1] <= Started
    BY <1>10, <1>b, Origin DEF Resumed, Data
  <2> QED
    BY <1>b, <2>1, <2>2 DEF SaidOnceStarted, Data
<1>11. CASE Kept
  BY <1>11, <1>b DEF Kept, SaidOnceStarted, Started, Data
<1> QED
  BY <1>1, <1>2, <1>3, <1>5, <1>6, <1>7, <1>8, <1>9, <1>10, <1>11 DEF Ended, Taken, HeadIs

(* A recording that is over has no task in the queue.                      *)
LEMMA OverIs ==
  /\ DictationTypeOK => \A r :
       Over(r) <=> /\ taken[r] # NotTaken
                   /\ \A i \in 1 .. Len(ready) : Data(ready[i]) => ready[i].of[1] # r
  /\ DictationTypeOK' => \A r :
       Over(r)' <=> /\ taken'[r] # NotTaken
                    /\ \A i \in 1 .. Len(ready') : Data(ready'[i]) => ready'[i].of[1] # r
  BY DEF DictationTypeOK, Over, Data

(* A recording that is over stays so.                                      *)
LEMMA OverStays ==
  ASSUME DictationInv, DictationTypeOK',
         \/ Recorded \/ Spoken \/ Stopped \/ Begun \/ Scheduled \/ Added \/ Ended
         \/ Suspended \/ (\E r \in Recording : Resumed(r)) \/ Taken \/ Kept,
         NEW q \in Recording, Over(q), Spoken => q < Started
  PROVE  Over(q)'
<1>a. /\ taken \in [Recording -> Seq(Chunk) \cup {NotTaken}] /\ buffer \in Seq(Chunk)
      /\ Len(ready) \in Nat
  BY Types DEF DictationInv
<1>b. /\ taken[q] # NotTaken
      /\ \A i \in 1 .. Len(ready) : Data(ready[i]) => ready[i].of[1] # q
  BY OverIs DEF DictationInv
<1>1. taken'[q] # NotTaken
  <2>1. CASE taken' = taken
    BY <1>b, <2>1
  <2>2. ASSUME NEW r, taken' = [taken EXCEPT ![r] = buffer] PROVE taken'[q] # NotTaken
    BY <1>a, <1>b, <2>2, TakenDiffers
  <2> QED
    BY <2>1, <2>2 DEF Recorded, Spoken, Stopped, Begun, Scheduled, Added, Ended, Suspended,
                      Resumed, Taken, Kept
<1>2. CASE Drops
  <2>1. \A i \in 1 .. Len(ready') : Data(ready'[i]) => ready'[i].of[1] # q
    BY <1>2, <1>b, Origin
  <2> QED
    BY <1>1, <2>1, OverIs
<1>3. ASSUME NEW t, Gains(t) \/ Turns(t), Data(t) => t.of[1] # q PROVE Over(q)'
  <2>1. \A i \in 1 .. Len(ready') : Data(ready'[i]) => ready'[i].of[1] # q
    BY <1>3, <1>b, Origin
  <2> QED
    BY <1>1, <2>1, OverIs
<1>4. CASE Spoken
  <2>1. Started = recording /\ Started \in Int
    BY <1>4, Types DEF Spoken, Started, DictationInv
  <2>2. q # recording
    BY <1>4, <2>1 DEF Recording
  <2> DEFINE t == [kind |-> "chunk", of |-> <<recording, said[recording] + 1>>]
  <2>3. Gains(t) /\ t.of[1] = recording
    BY <1>4 DEF Spoken
  <2> HIDE DEF t
  <2> QED
    BY <1>3, <2>2, <2>3
<1>5. CASE Scheduled
  <2> DEFINE t == [kind |-> "add", of |-> ready[1].of]
  <2>1. Turns(t) /\ Data(ready[1]) /\ t.of = ready[1].of
    BY <1>5 DEF Scheduled, HeadIs, Data
  <2>2. 1 \in 1 .. Len(ready)
    BY <2>1 DEF Turns
  <2> HIDE DEF t
  <2> QED
    BY <1>3, <1>b, <2>1, <2>2
<1>6. CASE Recorded \/ Stopped \/ \E r \in Recording : Resumed(r)
  BY <1>6, <1>3 DEF Recorded, Stopped, Resumed, Data
<1>7. CASE Kept
  <2>1. ready' = ready
    BY <1>7 DEF Kept
  <2> QED
    BY <1>1, <1>b, <2>1, OverIs
<1> QED
  BY <1>2, <1>4, <1>5, <1>6, <1>7 DEF Begun, Added, Ended, Suspended, Taken

(* Recordings before the one that started last stay over.                  *)
LEMMA OverStep ==
  ASSUME DictationInv, DictationTypeOK',
         \/ Recorded \/ Spoken \/ Stopped \/ Begun \/ Scheduled \/ Added \/ Ended
         \/ Suspended \/ (\E r \in Recording : Resumed(r)) \/ Taken \/ Kept
  PROVE  OverBefore'
<1>1. CASE Begun
  <2>a. /\ MaxRecordings \in Nat /\ recording \in 0 .. MaxRecordings
        /\ Len(ready) \in Nat /\ Recording = 1 .. MaxRecordings
    BY Types DEF DictationInv, Recording
  <2>1. /\ Drops /\ Control(ready[1]) /\ ready[1].kind = "start" /\ recorder' = "on"
        /\ StartDictation(ready[1].of) /\ recording' = recording
    BY <1>1 DEF Begun, HeadIs, StartDictation, Control
  <2>2. 1 \in 1 .. Len(ready)
    BY <2>1 DEF Drops
  <2>3. ready[1].of = recording /\ Started' = recording
    BY <2>1, <2>2 DEF DictationInv, OnePlace, Placed, Started
  <2> DEFINE before == {q \in 1 .. recording - 1 : ~Over(q)}
  <2>4. mixed' = IF before = {} THEN mixed ELSE mixed \cup before \cup {recording}
    BY <2>1, <2>3 DEF StartDictation
  <2>5. ASSUME NEW r \in Recording, r < recording, r \notin mixed' \/ recording \notin mixed'
        PROVE  Over(r)
    <3>1. r \in 1 .. recording - 1
      BY <2>a, <2>5
    <3>2. r \notin before
      BY <2>4, <2>5
    <3> QED
      BY <3>1, <3>2
  <2>6. ASSUME NEW r \in Recording, r < recording, r \notin mixed' \/ recording \notin mixed'
        PROVE  Over(r)'
    <3>1. ~ Spoken \/ r < Started
      BY <2>1, <2>6 DEF Spoken, Started
    <3> QED
      BY <2>5, <2>6, <3>1, <1>1, OverStays
  <2> QED
    BY <2>3, <2>6 DEF OverBefore
<1>2. CASE ~ Begun
  <2>a. recording \in Int
    BY Types DEF DictationInv
  <2>b. ASSUME Recorded PROVE Started' = Started
    BY <2>a, <2>b DEF Recorded, Started
  <2>c. ASSUME ~ Recorded PROVE Started' = Started /\ mixed' = mixed
    BY <1>2, <2>c DEF Spoken, Stopped, Scheduled, Added, Ended, Suspended, Resumed, Taken, Kept,
                      Started
  <2>1. Started' = Started /\ mixed' = mixed
    BY <2>b, <2>c DEF Recorded
  <2>2. ASSUME NEW r \in Recording, r < Started, r \notin mixed \/ Started \notin mixed
        PROVE  Over(r)'
    <3>1. Over(r)
      BY <2>2 DEF DictationInv, OverBefore
    <3> QED
      BY <2>2, <3>1, OverStays
  <2> QED
    BY <2>1, <2>2 DEF OverBefore
<1> QED
  BY <1>1, <1>2

(* Only the recording that started last is still to be ended or taken,     *)
(* unless it is mixed: the earlier ones are over.                          *)
LEMMA OnlyLast ==
  ASSUME DictationInv, NEW r \in Recording, taken[r] = NotTaken, r <= recording,
         r # recording \/ recorder # "starting",
         r \notin mixed \/ Started \notin mixed
  PROVE  r = Started
<1>a. /\ MaxRecordings \in Nat /\ recorder \in {"off", "starting", "on"}
      /\ recording \in 0 .. MaxRecordings /\ Recording = 1 .. MaxRecordings
  BY Types DEF DictationInv, Recording
<1>1. r <= Started /\ Started \in Int /\ r \in Int
  BY <1>a DEF Started
<1>2. ~ (r < Started)
  BY DEF DictationInv, OverBefore, Over
<1> QED
  BY <1>1, <1>2

(* A task that is not a chunk's leaves the queue.                          *)
LEMMA QueueShrinks ==
  ASSUME Drops, NEW c, NEW n, NEW m, InQueue(ready, c, n, m), ~ Data(ready[1])
  PROVE  InQueue(ready', c, n, m)
<1> DEFINE q == ready'
<1>1. /\ \A i \in 1 .. Len(q) : i + 1 \in 1 .. Len(ready) /\ q[i] = ready[i + 1]
      /\ Len(ready) \in Nat \ {0} /\ Len(q) = Len(ready) - 1
  BY DEF Drops
<1> HIDE DEF q
<1>2. /\ n <= m
      /\ \A i \in 1 .. Len(q) : Data(q[i]) =>
           q[i].of[1] = c /\ n < q[i].of[2] /\ q[i].of[2] <= m
  BY <1>1 DEF InQueue
<1>3. ASSUME NEW k \in n + 1 .. m
      PROVE  \E i \in 1 .. Len(q) : Data(q[i]) /\ q[i].of[2] = k
  <2>1. PICK i \in 1 .. Len(ready) : Data(ready[i]) /\ ready[i].of[2] = k
    BY <1>3 DEF InQueue
  <2>2. i # 1
    BY <2>1
  <2>3. i - 1 \in 1 .. Len(q) /\ (i - 1) + 1 = i
    BY <1>1, <2>2
  <2>4. q[i - 1] = ready[i]
    BY <1>1, <2>3
  <2> QED
    BY <2>1, <2>3, <2>4
<1>4. ASSUME NEW i \in 1 .. Len(q), NEW j \in 1 .. Len(q)
      PROVE  /\ i < j /\ Data(q[i]) /\ q[i].kind = q[j].kind => q[i].of[2] < q[j].of[2]
             /\ q[i].kind = "add" /\ q[j].kind = "chunk" => q[i].of[2] < q[j].of[2]
             /\ q[j].kind = "end" /\ q[j].of = c /\ q[i].kind = "chunk" => i < j
             /\ q[j].kind = "take" /\ q[j].of = c /\ Data(q[i]) => q[i].kind = "add" /\ i < j
  <2>1. /\ i + 1 \in 1 .. Len(ready) /\ q[i] = ready[i + 1]
        /\ j + 1 \in 1 .. Len(ready) /\ q[j] = ready[j + 1]
        /\ i < j <=> i + 1 < j + 1
    BY <1>1
  <2> DEFINE a == i + 1
             b == j + 1
  <2>2. /\ a \in 1 .. Len(ready) /\ q[i] = ready[a] /\ b \in 1 .. Len(ready) /\ q[j] = ready[b]
        /\ i < j <=> a < b
    BY <2>1
  <2> HIDE DEF a, b
  <2> QED
    BY <2>2 DEF InQueue
<1>5. InQueue(q, c, n, m)
  BY <1>2, <1>3, <1>4 DEF InQueue
<1> QED
  BY <1>5 DEF q

(* A task of another kind arrives; one that takes the recording does so    *)
(* when no chunk's task is left to run.                                    *)
LEMMA QueueGrows ==
  ASSUME NEW t, Gains(t), NEW c, NEW n, NEW m, InQueue(ready, c, n, m), ~ Data(t),
         t.kind = "take" /\ t.of = c =>
           \A i \in 1 .. Len(ready) : Data(ready[i]) => ready[i].kind = "add"
  PROVE  InQueue(ready', c, n, m)
<1> DEFINE q == ready'
<1>1. /\ Len(ready) \in Nat /\ Len(q) = Len(ready) + 1
      /\ \A i \in 1 .. Len(q) : q[i] = IF i = Len(q) THEN t ELSE ready[i]
  BY DEF Gains
<1> HIDE DEF q
<1>a. /\ \A i \in 1 .. Len(q) : i # Len(q) => i \in 1 .. Len(ready) /\ q[i] = ready[i]
      /\ q[Len(q)] = t
  BY <1>1
<1>2. /\ n <= m
      /\ \A i \in 1 .. Len(q) : Data(q[i]) =>
           q[i].of[1] = c /\ n < q[i].of[2] /\ q[i].of[2] <= m
  BY <1>a DEF InQueue
<1>3. ASSUME NEW k \in n + 1 .. m
      PROVE  \E i \in 1 .. Len(q) : Data(q[i]) /\ q[i].of[2] = k
  <2>1. PICK i \in 1 .. Len(ready) : Data(ready[i]) /\ ready[i].of[2] = k
    BY <1>3 DEF InQueue
  <2>2. i \in 1 .. Len(q) /\ i # Len(q)
    BY <1>1
  <2> QED
    BY <1>a, <2>1, <2>2
<1>4. ASSUME NEW i \in 1 .. Len(q), NEW j \in 1 .. Len(q)
      PROVE  /\ i < j /\ Data(q[i]) /\ q[i].kind = q[j].kind => q[i].of[2] < q[j].of[2]
             /\ q[i].kind = "add" /\ q[j].kind = "chunk" => q[i].of[2] < q[j].of[2]
             /\ q[j].kind = "end" /\ q[j].of = c /\ q[i].kind = "chunk" => i < j
             /\ q[j].kind = "take" /\ q[j].of = c /\ Data(q[i]) => q[i].kind = "add" /\ i < j
  <2>1. CASE i # Len(q) /\ j # Len(q)
    BY <1>a, <2>1 DEF InQueue
  <2>2. CASE i = Len(q)
    BY <1>a, <2>2 DEF Data
  <2>3. CASE i # Len(q) /\ j = Len(q)
    <3>1. /\ i < j /\ q[j] = t /\ q[i] = ready[i] /\ i \in 1 .. Len(ready)
          /\ t.kind # "chunk" /\ t.kind # "add"
      BY <1>1, <1>a, <2>3 DEF Data
    <3> QED
      BY <3>1 DEF Data
  <2> QED
    BY <2>1, <2>2, <2>3
<1>5. InQueue(q, c, n, m)
  BY <1>2, <1>3, <1>4 DEF InQueue
<1> QED
  BY <1>5 DEF q

(* A chunk is recorded.                                                    *)
LEMMA QueueRecords ==
  ASSUME NEW t, Gains(t), NEW c, NEW n \in Int, NEW m \in Int, InQueue(ready, c, n, m),
         t.kind = "chunk", t.of[1] = c, t.of[2] = m + 1,
         \A i \in 1 .. Len(ready) :
           /\ Control(ready[i]) => ready[i].of # c
           /\ Data(ready[i]) => ready[i].of[2] \in Int
  PROVE  InQueue(ready', c, n, m + 1)
<1> DEFINE q == ready'
<1>1. /\ Len(ready) \in Nat /\ Len(q) = Len(ready) + 1
      /\ \A i \in 1 .. Len(q) : q[i] = IF i = Len(q) THEN t ELSE ready[i]
  BY DEF Gains
<1> HIDE DEF q
<1>a. /\ \A i \in 1 .. Len(q) : i # Len(q) => i \in 1 .. Len(ready) /\ q[i] = ready[i]
      /\ q[Len(q)] = t
  BY <1>1
<1>b. n <= m /\ \A i \in 1 .. Len(ready) : Data(ready[i]) =>
        ready[i].of[1] = c /\ n < ready[i].of[2] /\ ready[i].of[2] <= m
  BY DEF InQueue
<1>2. ASSUME NEW i \in 1 .. Len(q), Data(q[i])
      PROVE  q[i].of[1] = c /\ n < q[i].of[2] /\ q[i].of[2] <= m + 1
  <2>1. CASE i = Len(q)
    BY <1>a, <1>b, <2>1
  <2>2. CASE i # Len(q)
    <3>1. i \in 1 .. Len(ready) /\ Data(ready[i]) /\ q[i] = ready[i]
      BY <1>a, <1>2, <2>2
    <3>2. /\ ready[i].of[1] = c /\ n < ready[i].of[2] /\ ready[i].of[2] <= m
          /\ ready[i].of[2] \in Int
      BY <1>b, <3>1
    <3> QED
      BY <3>1, <3>2
  <2> QED
    BY <2>1, <2>2
<1>3. ASSUME NEW k \in n + 1 .. m + 1
      PROVE  \E i \in 1 .. Len(q) : Data(q[i]) /\ q[i].of[2] = k
  <2>1. CASE k = m + 1
    BY <1>1, <1>a, <2>1 DEF Data
  <2>2. CASE k \in n + 1 .. m
    <3>1. PICK i \in 1 .. Len(ready) : Data(ready[i]) /\ ready[i].of[2] = k
      BY <2>2 DEF InQueue
    <3>2. i \in 1 .. Len(q) /\ i # Len(q)
      BY <1>1
    <3> QED
      BY <1>a, <3>1, <3>2
  <2> QED
    BY <2>1, <2>2
<1>4. ASSUME NEW i \in 1 .. Len(q), NEW j \in 1 .. Len(q)
      PROVE  /\ i < j /\ Data(q[i]) /\ q[i].kind = q[j].kind => q[i].of[2] < q[j].of[2]
             /\ q[i].kind = "add" /\ q[j].kind = "chunk" => q[i].of[2] < q[j].of[2]
             /\ q[j].kind = "end" /\ q[j].of = c /\ q[i].kind = "chunk" => i < j
             /\ q[j].kind = "take" /\ q[j].of = c /\ Data(q[i]) => q[i].kind = "add" /\ i < j
  <2>1. CASE i # Len(q) /\ j # Len(q)
    <3>1. /\ i \in 1 .. Len(ready) /\ q[i] = ready[i]
          /\ j \in 1 .. Len(ready) /\ q[j] = ready[j]
      BY <1>a, <2>1
    <3> QED
      BY <3>1 DEF InQueue
  <2>2. CASE i = Len(q)
    <3>1. ~ (i < j) /\ q[i].kind # "add" /\ (j = i => q[j].kind = "chunk")
      BY <1>1, <1>a, <2>2
    <3>2. ~ (Control(q[j]) /\ q[j].of = c)
      BY <1>a, <2>2 DEF Control
    <3> QED
      BY <3>1, <3>2 DEF Control
  <2>3. CASE i # Len(q) /\ j = Len(q)
    <3>1. /\ q[j] = t /\ q[i] = ready[i] /\ i \in 1 .. Len(ready)
      BY <1>a, <2>3
    <3>2. Data(q[i]) => q[i].of[2] <= m /\ q[i].of[2] \in Int
      BY <1>b, <3>1
    <3>3. ASSUME Data(q[i]) PROVE q[i].of[2] < q[j].of[2]
      BY <3>1, <3>2, <3>3
    <3> QED
      BY <3>1, <3>3 DEF Data
  <2> QED
    BY <2>1, <2>2, <2>3
<1>5. InQueue(q, c, n, m + 1)
  BY <1>b, <1>2, <1>3, <1>4 DEF InQueue
<1> QED
  BY <1>5 DEF q

(* The first chunk's task schedules the callback.                          *)
LEMMA QueueTurns ==
  ASSUME NEW t, Turns(t), NEW c, NEW n \in Int, NEW m \in Int, InQueue(ready, c, n, m),
         ready[1].kind = "chunk", t.kind = "add", t.of = ready[1].of
  PROVE  InQueue(ready', c, n, m)
<1> DEFINE q == ready'
<1>1. /\ Len(ready) \in Nat \ {0} /\ Len(q) = Len(ready)
      /\ \A i \in 1 .. Len(q) : q[i] = IF i = Len(q) THEN t ELSE ready[i + 1]
  BY DEF Turns
<1> HIDE DEF q
<1>a. /\ \A i \in 1 .. Len(q) : i # Len(q) => i + 1 \in 1 .. Len(ready) /\ q[i] = ready[i + 1]
      /\ q[Len(q)] = t /\ 1 \in 1 .. Len(ready)
  BY <1>1
<1>b. /\ n <= m /\ Data(ready[1])
      /\ \A i \in 1 .. Len(ready) : Data(ready[i]) =>
           ready[i].of[1] = c /\ n < ready[i].of[2] /\ ready[i].of[2] <= m
  BY DEF InQueue, Data
<1>2. ASSUME NEW i \in 1 .. Len(q), Data(q[i])
      PROVE  q[i].of[1] = c /\ n < q[i].of[2] /\ q[i].of[2] <= m
  <2>1. CASE i = Len(q)
    BY <1>a, <1>b, <2>1
  <2>2. CASE i # Len(q)
    BY <1>a, <1>b, <1>2, <2>2
  <2> QED
    BY <2>1, <2>2
<1>3. ASSUME NEW k \in n + 1 .. m
      PROVE  \E i \in 1 .. Len(q) : Data(q[i]) /\ q[i].of[2] = k
  <2>1. PICK i \in 1 .. Len(ready) : Data(ready[i]) /\ ready[i].of[2] = k
    BY <1>3 DEF InQueue
  <2>2. CASE i = 1
    <3>1. Len(q) \in 1 .. Len(q) /\ Data(t) /\ t.of[2] = k
      BY <1>1, <2>1, <2>2 DEF Data
    <3> QED
      BY <1>a, <3>1
  <2>3. CASE i # 1
    <3>1. i - 1 \in 1 .. Len(q) /\ i - 1 # Len(q) /\ (i - 1) + 1 = i
      BY <1>1, <2>3
    <3>2. q[i - 1] = ready[i]
      BY <1>a, <3>1
    <3> QED
      BY <2>1, <3>1, <3>2
  <2> QED
    BY <2>2, <2>3
<1>4. ASSUME NEW i \in 1 .. Len(q), NEW j \in 1 .. Len(q)
      PROVE  /\ i < j /\ Data(q[i]) /\ q[i].kind = q[j].kind => q[i].of[2] < q[j].of[2]
             /\ q[i].kind = "add" /\ q[j].kind = "chunk" => q[i].of[2] < q[j].of[2]
             /\ q[j].kind = "end" /\ q[j].of = c /\ q[i].kind = "chunk" => i < j
             /\ q[j].kind = "take" /\ q[j].of = c /\ Data(q[i]) => q[i].kind = "add" /\ i < j
  <2> DEFINE a == i + 1
             b == j + 1
  <2>a. /\ i # Len(q) => a \in 1 .. Len(ready) /\ q[i] = ready[a] /\ 1 < a
        /\ j # Len(q) => b \in 1 .. Len(ready) /\ q[j] = ready[b] /\ 1 < b
        /\ i < j <=> a < b
    BY <1>a
  <2>b. (i = Len(q) => ~ (i < j)) /\ (i # Len(q) /\ j = Len(q) => i < j)
    BY <1>1
  <2> HIDE DEF a, b
  <2>1. CASE i # Len(q) /\ j # Len(q)
    BY <2>a, <2>1 DEF InQueue
  <2>2. CASE i = Len(q) /\ j # Len(q)
    <3>1. /\ q[i] = t /\ q[j] = ready[b] /\ b \in 1 .. Len(ready) /\ 1 < b /\ ~ (i < j)
          /\ 1 \in 1 .. Len(ready)
      BY <1>a, <2>a, <2>b, <2>2
    <3>2. q[j].kind = "chunk" => ready[1].of[2] < q[j].of[2]
      BY <1>b, <3>1 DEF InQueue
    <3>3. ~ (q[j].kind = "take" /\ q[j].of = c)
      BY <1>b, <3>1 DEF InQueue
    <3> QED
      BY <3>1, <3>2, <3>3
  <2>3. CASE i # Len(q) /\ j = Len(q)
    <3>1. /\ q[j] = t /\ q[i] = ready[a] /\ a \in 1 .. Len(ready) /\ 1 \in 1 .. Len(ready)
      BY <1>a, <2>a, <2>3
    <3>2. q[i].kind = "add" => q[i].of[2] < ready[1].of[2]
      BY <3>1 DEF InQueue
    <3> QED
      BY <3>1, <3>2
  <2>4. CASE i = Len(q) /\ j = Len(q)
    BY <1>a, <2>b, <2>4
  <2> QED
    BY <2>1, <2>2, <2>3, <2>4
<1>5. InQueue(q, c, n, m)
  BY <1>b, <1>2, <1>3, <1>4 DEF InQueue
<1> QED
  BY <1>5 DEF q

(* The callback of the first chunk runs: it is the chunk after those of    *)
(* the list.                                                               *)
LEMMA QueueAdds ==
  ASSUME Drops, NEW c, NEW n \in Int, NEW m \in Int, InQueue(ready, c, n, m),
         ready[1].kind = "add",
         \A i \in 1 .. Len(ready) : Data(ready[i]) => ready[i].of[2] \in Int
  PROVE  ready[1].of[2] = n + 1 /\ InQueue(ready', c, n + 1, m)
<1> DEFINE q == ready'
<1>1. /\ \A i \in 1 .. Len(q) : i + 1 \in 1 .. Len(ready) /\ q[i] = ready[i + 1]
      /\ Len(ready) \in Nat \ {0} /\ Len(q) = Len(ready) - 1 /\ 1 \in 1 .. Len(ready)
  BY DEF Drops
<1> HIDE DEF q
<1>b. /\ Data(ready[1])
      /\ \A i \in 1 .. Len(ready) : Data(ready[i]) =>
           /\ ready[i].of[1] = c /\ n < ready[i].of[2] /\ ready[i].of[2] <= m
           /\ ready[i].of[2] \in Int
  BY DEF InQueue, Data
<1>c. ASSUME NEW i \in 1 .. Len(ready), i # 1, Data(ready[i])
      PROVE  ready[1].of[2] < ready[i].of[2]
  <2>1. 1 < i /\ 1 \in 1 .. Len(ready)
    BY <1>1, <1>c
  <2> QED
    BY <1>b, <1>c, <2>1 DEF InQueue, Data
<1>d. ready[1].of[2] = n + 1
  <2>1. n + 1 \in n + 1 .. m
    BY <1>1, <1>b
  <2>2. PICK i \in 1 .. Len(ready) : Data(ready[i]) /\ ready[i].of[2] = n + 1
    BY <2>1 DEF InQueue
  <2>3. i = 1
    <3>1. ASSUME i # 1 PROVE FALSE
      <4>1. ready[1].of[2] < n + 1
        BY <1>c, <2>2, <3>1
      <4> QED
        BY <1>1, <1>b, <4>1
    <3> QED
      BY <3>1
  <2> QED
    BY <2>2, <2>3
<1>2. ASSUME NEW i \in 1 .. Len(q), Data(q[i])
      PROVE  q[i].of[1] = c /\ n + 1 < q[i].of[2] /\ q[i].of[2] <= m
  <2>1. i + 1 \in 1 .. Len(ready) /\ i + 1 # 1 /\ q[i] = ready[i + 1]
    BY <1>1
  <2> QED
    BY <1>2, <1>b, <1>c, <1>d, <2>1
<1>3. ASSUME NEW k \in n + 1 + 1 .. m
      PROVE  \E i \in 1 .. Len(q) : Data(q[i]) /\ q[i].of[2] = k
  <2>1. PICK i \in 1 .. Len(ready) : Data(ready[i]) /\ ready[i].of[2] = k
    BY <1>3 DEF InQueue
  <2>2. i # 1
    BY <1>3, <1>d, <2>1
  <2>3. i - 1 \in 1 .. Len(q) /\ (i - 1) + 1 = i
    BY <1>1, <2>2
  <2>4. q[i - 1] = ready[i]
    BY <1>1, <2>3
  <2> QED
    BY <2>1, <2>3, <2>4
<1>4. ASSUME NEW i \in 1 .. Len(q), NEW j \in 1 .. Len(q)
      PROVE  /\ i < j /\ Data(q[i]) /\ q[i].kind = q[j].kind => q[i].of[2] < q[j].of[2]
             /\ q[i].kind = "add" /\ q[j].kind = "chunk" => q[i].of[2] < q[j].of[2]
             /\ q[j].kind = "end" /\ q[j].of = c /\ q[i].kind = "chunk" => i < j
             /\ q[j].kind = "take" /\ q[j].of = c /\ Data(q[i]) => q[i].kind = "add" /\ i < j
  <2>1. /\ i + 1 \in 1 .. Len(ready) /\ q[i] = ready[i + 1]
        /\ j + 1 \in 1 .. Len(ready) /\ q[j] = ready[j + 1]
        /\ i < j <=> i + 1 < j + 1
    BY <1>1
  <2> DEFINE a == i + 1
             b == j + 1
  <2>2. /\ a \in 1 .. Len(ready) /\ q[i] = ready[a] /\ b \in 1 .. Len(ready) /\ q[j] = ready[b]
        /\ i < j <=> a < b
    BY <2>1
  <2> HIDE DEF a, b
  <2> QED
    BY <2>2 DEF InQueue
<1>5. n + 1 <= m
  BY <1>1, <1>b, <1>d
<1>6. InQueue(q, c, n + 1, m)
  BY <1>2, <1>3, <1>4, <1>5 DEF InQueue
<1> QED
  BY <1>d, <1>6 DEF q

(* The recording that started last is collected.                           *)
LEMMA CollectStep ==
  ASSUME DictationInv, DictationTypeOK', OverBefore',
         \/ Recorded \/ Spoken \/ Stopped \/ Begun \/ Scheduled \/ Added \/ Ended
         \/ Suspended \/ (\E r \in Recording : Resumed(r)) \/ Taken \/ Kept
  PROVE  Collecting'
<1>a. /\ MaxRecordings \in Nat /\ MaxChunks \in Nat
      /\ recorder \in {"off", "starting", "on"} /\ recording \in 0 .. MaxRecordings
      /\ said \in [Recording -> 0 .. MaxChunks]
      /\ waiting \subseteq Recording /\ buffer \in Seq(Chunk) /\ Len(buffer) \in Nat
      /\ taken \in [Recording -> Seq(Chunk) \cup {NotTaken}]
      /\ Len(ready) \in Nat /\ Started \in Int
  BY Types DEF DictationInv
<1>b. /\ \A i \in 1 .. Len(ready) : Control(ready[i]) => Placed(ready[i])
      /\ \A r \in waiting :
           r <= recording /\ taken[r] = NotTaken /\ (r = recording => recorder = "off")
      /\ \A r \in Recording : r > Started => said[r] = 0
      /\ \A i \in 1 .. Len(ready) : Data(ready[i]) => ready[i].of[1] <= Started
  BY DEF DictationInv, OnePlace, SaidOnceStarted
<1>c. \A i \in 1 .. Len(ready) :
        /\ Data(ready[i]) => /\ ready[i].of = <<ready[i].of[1], ready[i].of[2]>>
                             /\ ready[i].of[1] \in Recording /\ ready[i].of[2] \in Int
                             /\ ready[i].of \in Chunk
        /\ Control(ready[i]) => ready[i].of \in Recording
  BY <1>a, Types, TaskOf DEF DictationInv
<1>d. Recording = 1 .. MaxRecordings
  BY DEF Recording
<1>e. ASSUME Started \in Recording, Started \notin mixed, taken[Started] = NotTaken
      PROVE  /\ \A i \in 1 .. Len(buffer) : buffer[i] = <<Started, i>>
             /\ InQueue(ready, Started, Len(buffer), said[Started])
             /\ Started \in waiting => \A i \in 1 .. Len(ready) : ready[i].kind # "chunk"
             /\ said[Started] \in Int
  BY <1>e, <1>a DEF DictationInv, Collecting
<1>f. ASSUME Drops \/ \E t : Turns(t) PROVE 1 \in 1 .. Len(ready)
  BY <1>f DEF Drops, Turns
<1> SUFFICES ASSUME Started' \in Recording, Started' \notin mixed', taken'[Started'] = NotTaken
             PROVE  /\ \A i \in 1 .. Len(buffer') : buffer'[i] = <<Started', i>>
                    /\ InQueue(ready', Started', Len(buffer'), said'[Started'])
                    /\ Started' \in waiting' =>
                         \A i \in 1 .. Len(ready') : ready'[i].kind # "chunk"
  BY DEF Collecting, InQueue, Data
<1> DEFINE Goal == /\ \A i \in 1 .. Len(buffer') : buffer'[i] = <<Started', i>>
                   /\ InQueue(ready', Started', Len(buffer'), said'[Started'])
                   /\ Started' \in waiting' =>
                        \A i \in 1 .. Len(ready') : ready'[i].kind # "chunk"
<1>1. CASE Recorded
  <2> DEFINE t == [kind |-> "start", of |-> recording + 1]
  <2>1. Started' = Started /\ Gains(t) /\ UNCHANGED <<said, waiting, buffer, taken, mixed>>
    BY <1>1, <1>a DEF Recorded, Started
  <2>2. ~ Data(t) /\ t.kind # "take" /\ t.kind # "chunk"
    BY DEF Data
  <2> HIDE DEF t
  <2>3. InQueue(ready', Started, Len(buffer), said[Started])
    BY <1>e, <2>1, <2>2, QueueGrows
  <2>4. Started \in waiting => \A i \in 1 .. Len(ready') : ready'[i].kind # "chunk"
    BY <1>e, <2>1, <2>2, Origin
  <2> QED
    BY <1>e, <2>1, <2>3, <2>4
<1>2. CASE Spoken
  <2> DEFINE c == recording
             t == [kind |-> "chunk", of |-> <<c, said[c] + 1>>]
  <2>1. /\ Started' = c /\ Started = c /\ Gains(t) /\ UNCHANGED <<waiting, buffer, taken, mixed>>
        /\ recorder = "on" /\ said' = [said EXCEPT ![c] = @ + 1] /\ c \in Recording
    BY <1>2 DEF Spoken, Started
  <2>2. t.kind = "chunk" /\ t.of[1] = c /\ t.of[2] = said[c] + 1
    OBVIOUS
  <2>3. said'[c] = said[c] + 1
    BY <1>a, <2>1
  <2>4. c \notin waiting /\ \A i \in 1 .. Len(ready) : Control(ready[i]) => ready[i].of # c
    BY <1>b, <2>1 DEF Placed
  <2> HIDE DEF t, c
  <2>5. InQueue(ready', c, Len(buffer), said[c] + 1)
    BY <1>a, <1>c, <1>e, <2>1, <2>2, <2>4, QueueRecords
  <2> QED
    BY <1>e, <2>1, <2>3, <2>4, <2>5
<1>3. CASE Stopped
  <2> DEFINE t == [kind |-> "end", of |-> recording]
  <2>1. /\ Started' = Started /\ Gains(t) /\ UNCHANGED <<said, waiting, buffer, taken, mixed>>
    BY <1>3 DEF Stopped, Started
  <2>2. ~ Data(t) /\ t.kind # "take" /\ t.kind # "chunk"
    BY DEF Data
  <2> HIDE DEF t
  <2>3. InQueue(ready', Started, Len(buffer), said[Started])
    BY <1>e, <2>1, <2>2, QueueGrows
  <2>4. Started \in waiting => \A i \in 1 .. Len(ready') : ready'[i].kind # "chunk"
    BY <1>e, <2>1, <2>2, Origin
  <2> QED
    BY <1>e, <2>1, <2>3, <2>4
<1>4. CASE Begun
  <2>1. /\ Drops /\ Control(ready[1]) /\ ready[1].kind = "start" /\ recorder' = "on"
        /\ buffer' = <<>> /\ UNCHANGED <<recording, said, waiting, taken>>
    BY <1>4 DEF Begun, HeadIs, StartDictation, Control
  <2>2. recorder = "starting" /\ ready[1].of = recording
    BY <1>b, <1>f, <2>1 DEF Placed
  <2>3. Started' = recording /\ Started = recording - 1
    BY <2>1, <2>2 DEF Started
  <2>4. said[recording] = 0 /\ recording \in Recording
    BY <1>a, <1>b, <1>d, <2>3
  <2>5. ASSUME NEW i \in 1 .. Len(ready'), Data(ready'[i]) PROVE FALSE
    <3>1. PICK j \in 1 .. Len(ready) : ready'[i] = ready[j]
      BY <2>1, Origin
    <3>a. /\ Data(ready[j]) /\ ready[j].of[1] \in Recording
          /\ ready[j].of[1] <= Started
      BY <1>b, <1>c, <2>5, <3>1
    <3>b. PICK r \in Recording : r = ready[j].of[1]
      BY <3>a
    <3>2. r < Started'
      BY <1>a, <1>d, <2>3, <3>a, <3>b
    <3>3. Over(r)'
      BY <2>3, <2>4, <3>2 DEF OverBefore
    <3> QED
      BY <2>5, <3>1, <3>3, <3>b, OverIs
  <2>6. InQueue(ready', recording, 0, 0)
    BY <2>5 DEF InQueue, Data
  <2>7. recording \notin waiting
    BY <1>b, <2>2
  <2> QED
    BY <2>1, <2>3, <2>4, <2>6, <2>7
<1>5. CASE Scheduled
  <2> DEFINE t == [kind |-> "add", of |-> ready[1].of]
  <2>1. /\ Turns(t) /\ ready[1].kind = "chunk" /\ UNCHANGED <<said, waiting, buffer, taken, mixed>>
        /\ Started' = Started
    BY <1>5 DEF Scheduled, HeadIs, Started
  <2>2. t.kind = "add" /\ t.of = ready[1].of
    OBVIOUS
  <2> HIDE DEF t
  <2>3. InQueue(ready', Started, Len(buffer), said[Started])
    BY <1>a, <1>e, <2>1, <2>2, QueueTurns
  <2>4. Started \notin waiting
    BY <1>e, <1>f, <2>1
  <2> QED
    BY <1>e, <2>1, <2>3, <2>4
<1>6. CASE Added
  <2>1. /\ Drops /\ ready[1].kind = "add" /\ buffer' = Append(buffer, ready[1].of)
        /\ UNCHANGED <<said, waiting, taken, mixed>> /\ Started' = Started
    BY <1>6 DEF Added, HeadIs, Started
  <2>2. Data(ready[1]) /\ 1 \in 1 .. Len(ready)
    BY <1>f, <2>1 DEF Data
  <2>3. /\ InQueue(ready, Started, Len(buffer), said[Started]) /\ said[Started] \in Int
        /\ \A i \in 1 .. Len(buffer) : buffer[i] = <<Started, i>>
    BY <1>e, <2>1
  <2>a. \A i \in 1 .. Len(ready) : Data(ready[i]) => ready[i].of[2] \in Int
    BY <1>c
  <2>4. /\ ready[1].of[2] = Len(buffer) + 1
        /\ InQueue(ready', Started, Len(buffer) + 1, said[Started])
    BY <1>a, <2>a, <2>1, <2>3, QueueAdds
  <2>5. ready[1].of[1] = Started
    BY <2>2, <2>3 DEF InQueue
  <2>6. ready[1].of = <<Started, Len(buffer) + 1>> /\ ready[1].of \in Chunk
    BY <1>c, <2>2, <2>4, <2>5
  <2>7. /\ Len(buffer') = Len(buffer) + 1
        /\ \A i \in 1 .. Len(buffer') : buffer'[i] = <<Started, i>>
    <3> DEFINE x == ready[1].of
    <3>1. x \in Chunk /\ x = <<Started, Len(buffer) + 1>> /\ buffer' = Append(buffer, x)
      BY <2>1, <2>6
    <3> HIDE DEF x
    <3>2. /\ Len(buffer') = Len(buffer) + 1 /\ buffer'[Len(buffer) + 1] = x
          /\ \A i \in 1 .. Len(buffer) : buffer'[i] = buffer[i]
      BY <1>a, <3>1
    <3>3. ASSUME NEW i \in 1 .. Len(buffer') PROVE buffer'[i] = <<Started, i>>
      <4>1. i \in 1 .. Len(buffer) \/ i = Len(buffer) + 1
        BY <1>a, <3>2
      <4> QED
        BY <2>3, <3>1, <3>2, <4>1
    <3> QED
      BY <3>2, <3>3
  <2>8. Started \in waiting => \A i \in 1 .. Len(ready') : ready'[i].kind # "chunk"
    BY <1>e, <2>1, Origin
  <2> QED
    BY <2>1, <2>4, <2>7, <2>8
<1>7. ASSUME Drops, ready[1].kind \in {"end", "take"},
             UNCHANGED <<recorder, recording, waiting, mixed>>,
             taken' = [taken EXCEPT ![ready[1].of] = buffer]
      PROVE  FALSE
  <2>1. /\ ready[1].of \in Recording /\ Placed(ready[1])
    BY <1>b, <1>c, <1>f, <1>7 DEF Control
  <2>2. Started' = Started
    BY <1>7 DEF Started
  <2>3. ready[1].of = Started
    BY <1>7, <2>1, <2>2, OnlyLast DEF Placed
  <2>4. taken'[Started] = buffer
    BY <1>7, <1>a, <2>1, <2>3
  <2> QED
    BY <1>a, <2>2, <2>4, TakenDiffers
<1>8. CASE Suspended
  <2>1. /\ Drops /\ ready[1].kind = "end" /\ waiting' = waiting \cup {ready[1].of}
        /\ UNCHANGED <<recorder, recording, said, buffer, taken, mixed>> /\ Started' = Started
    BY <1>8 DEF Suspended, HeadIs, Started
  <2>2. ready[1].of \in Recording /\ Placed(ready[1]) /\ 1 \in 1 .. Len(ready) /\ ~ Data(ready[1])
    BY <1>b, <1>c, <1>f, <2>1 DEF Control, Data
  <2>3. ready[1].of = Started
    BY <2>1, <2>2, OnlyLast DEF Placed
  <2>4. InQueue(ready', Started, Len(buffer), said[Started])
    BY <1>e, <2>1, <2>2, QueueShrinks
  <2>5. \A i \in 1 .. Len(ready) : ready[i].kind # "chunk"
    BY <1>e, <2>1, <2>2, <2>3 DEF InQueue
  <2>6. \A i \in 1 .. Len(ready') : ready'[i].kind # "chunk"
    BY <2>1, <2>5, Origin
  <2> QED
    BY <1>e, <2>1, <2>4, <2>6
<1>9. ASSUME NEW r \in Recording, Resumed(r) PROVE Goal
  <2> DEFINE t == [kind |-> "take", of |-> r]
  <2>1. /\ r \in waiting /\ waiting' = waiting \ {r} /\ Gains(t)
        /\ UNCHANGED <<recorder, recording, said, buffer, taken, mixed>> /\ Started' = Started
    BY <1>9 DEF Resumed, Started
  <2>2. r = Started
    BY <1>b, <2>1, OnlyLast
  <2>3. ~ Data(t)
    BY DEF Data
  <2>4. \A i \in 1 .. Len(ready) : Data(ready[i]) => ready[i].kind = "add"
    BY <1>e, <2>1, <2>2 DEF Data
  <2> HIDE DEF t
  <2>5. InQueue(ready', Started, Len(buffer), said[Started])
    BY <1>e, <2>1, <2>3, <2>4, QueueGrows
  <2> QED
    BY <1>e, <2>1, <2>2, <2>5
<1>10. CASE Kept
  <2>1. Started' = Started /\ UNCHANGED <<said, ready, waiting, buffer, taken, mixed>>
    BY <1>10 DEF Kept, Started
  <2> QED
    BY <1>e, <2>1
<1> QED
  BY <1>1, <1>2, <1>3, <1>4, <1>5, <1>6, <1>7, <1>8, <1>9, <1>10 DEF Ended, Taken, HeadIs

(* What is taken is the recording's own.                                   *)
LEMMA TakenStep ==
  ASSUME DictationInv, DictationTypeOK',
         \/ Recorded \/ Spoken \/ Stopped \/ Begun \/ Scheduled \/ Added \/ Ended
         \/ Suspended \/ (\E r \in Recording : Resumed(r)) \/ Taken \/ Kept
  PROVE  TakenInOrder'
<1>a. /\ said \in [Recording -> 0 .. MaxChunks]
      /\ buffer \in Seq(Chunk) /\ Len(buffer) \in Nat
      /\ taken \in [Recording -> Seq(Chunk) \cup {NotTaken}]
  BY Types DEF DictationInv
<1>b. TakenInOrder
  BY DEF DictationInv
<1>1. CASE Spoken
  <2>1. /\ taken[recording] = NotTaken /\ said' = [said EXCEPT ![recording] = @ + 1]
        /\ UNCHANGED <<taken, hurried, mixed>>
    BY <1>1 DEF Spoken, DictationInv, OnePlace
  <2>2. \A r \in Recording : r # recording => said'[r] = said[r]
    BY <1>a, <2>1
  <2> QED
    BY <1>b, <2>1, <2>2 DEF TakenInOrder
<1>2. CASE Begun
  <2>1. mixed \subseteq mixed' /\ UNCHANGED <<said, taken, hurried>>
    BY <1>2 DEF Begun, StartDictation
  <2> QED
    BY <1>b, <2>1 DEF TakenInOrder
<1>3. ASSUME Drops, ready[1].kind \in {"end", "take"}, UNCHANGED <<recorder, recording, said, mixed>>,
             taken' = [taken EXCEPT ![ready[1].of] = buffer],
             hurried \subseteq hurried',
             ready[1].kind = "end" => ready[1].of \in hurried'
      PROVE  TakenInOrder'
  <2>1. 1 \in 1 .. Len(ready) /\ Control(ready[1]) /\ Placed(ready[1]) /\ ready[1] \in Task
    BY <1>3, Types DEF Drops, Control, DictationInv, OnePlace
  <2>2. PICK c \in Recording : c = ready[1].of
    BY <2>1, TaskOf
  <2>3. taken[c] = NotTaken /\ c <= recording /\ ~ (c = recording /\ recorder = "starting")
    BY <1>3, <2>1, <2>2 DEF Placed
  <2>4. taken'[c] = buffer /\ \A r \in Recording : r # c => taken'[r] = taken[r]
    BY <1>3, <1>a, <2>2
  <2>5. ASSUME c \notin mixed
        PROVE  /\ Len(buffer) <= said[c] /\ \A i \in 1 .. Len(buffer) : buffer[i] = <<c, i>>
               /\ c \notin hurried' => Len(buffer) = said[c]
    <3>1. c = Started
      BY <2>3, <2>5, OnlyLast
    <3>2. /\ \A i \in 1 .. Len(buffer) : buffer[i] = <<c, i>>
          /\ InQueue(ready, c, Len(buffer), said[c]) /\ said[c] \in Int
      BY <1>a, <2>3, <2>5, <3>1 DEF DictationInv, Collecting
    <3>3. ASSUME ready[1].kind = "take" PROVE Len(buffer) = said[c]
      <4>1. \A i \in 1 .. Len(ready) : ~ Data(ready[i])
        BY <2>1, <2>2, <3>2, <3>3 DEF InQueue
      <4>2. ~ \E k \in Len(buffer) + 1 .. said[c] : TRUE
        BY <3>2, <4>1 DEF InQueue
      <4>3. Len(buffer) <= said[c]
        BY <3>2 DEF InQueue
      <4> QED
        BY <1>a, <3>2, <4>2, <4>3
    <3>4. Len(buffer) <= said[c]
      BY <3>2 DEF InQueue
    <3> QED
      BY <1>3, <2>2, <3>2, <3>3, <3>4
  <2>6. ASSUME NEW r \in Recording, taken'[r] # NotTaken, r \notin mixed'
        PROVE  /\ Len(taken'[r]) <= said'[r]
               /\ \A i \in 1 .. Len(taken'[r]) : taken'[r][i] = <<r, i>>
               /\ r \notin hurried' => Len(taken'[r]) = said'[r]
    <3>1. CASE r = c
      BY <1>3, <2>4, <2>5, <2>6, <3>1
    <3>2. CASE r # c
      BY <1>3, <1>b, <2>4, <2>6, <3>2 DEF TakenInOrder
    <3> QED
      BY <3>1, <3>2
  <2> QED
    BY <2>6 DEF TakenInOrder
<1>4. CASE UNCHANGED <<said, taken, hurried, mixed>>
  BY <1>4, <1>b DEF TakenInOrder
<1>5. CASE Ended
  BY <1>3, <1>5 DEF Ended, HeadIs
<1>6. CASE Taken
  BY <1>3, <1>6 DEF Taken, HeadIs
<1> QED
  BY <1>1, <1>2, <1>4, <1>5, <1>6 DEF Recorded, Stopped, Scheduled, Added, Suspended, Resumed, Kept

-----------------------------------------------------------------------------
(* The theorems.                                                           *)

(* The invariant holds in every state: a chunk is in the list, or its task *)
(* is in the queue in a place that brings it there in turn.                *)
THEOREM DictationInductive == DictationSpec => []DictationInv
<1>1. DictationInit => DictationInv
  <2> SUFFICES ASSUME DictationInit PROVE DictationInv
    OBVIOUS
  <2>1. /\ ready = <<>> /\ Len(ready) = 0 /\ buffer = <<>> /\ recorder = "off" /\ recording = 0
        /\ waiting = {} /\ mixed = {} /\ Started = 0
        /\ \A r \in Recording : taken[r] = NotTaken /\ said[r] = 0
    BY DEF DictationInit, Started
  <2>2. DictationTypeOK
    BY DictationAssumption DEF DictationInit, DictationTypeOK
  <2>3. 0 \notin Recording /\ \A r \in Recording : ~ (r < 0)
    BY DictationAssumption DEF Recording
  <2>4. OnePlace
    BY <2>1 DEF OnePlace, OneTask
  <2>5. SaidOnceStarted
    BY <2>1 DEF SaidOnceStarted
  <2>6. OverBefore /\ Collecting
    BY <2>1, <2>3 DEF OverBefore, Collecting
  <2>7. TakenInOrder
    BY <2>1 DEF TakenInOrder
  <2> QED
    BY <2>2, <2>4, <2>5, <2>6, <2>7 DEF DictationInv
<1>2. DictationInv /\ [DictationNext]_dictationVars => DictationInv'
  <2> SUFFICES ASSUME DictationInv, [DictationNext]_dictationVars PROVE DictationInv'
    OBVIOUS
  <2>1. /\ \/ Recorded \/ Spoken \/ Stopped \/ Begun \/ Scheduled \/ Added \/ Ended
           \/ Suspended \/ (\E r \in Recording : Resumed(r)) \/ Taken \/ Kept
        /\ DictationTypeOK'
    BY Steps
  <2>2. OnePlace'
    BY <2>1, PlacesStep
  <2>3. SaidOnceStarted'
    BY <2>1, <2>2, SaidStep
  <2>4. OverBefore'
    BY <2>1, OverStep
  <2>5. Collecting'
    BY <2>1, <2>4, CollectStep
  <2>6. TakenInOrder'
    BY <2>1, TakenStep
  <2> QED
    BY <2>1, <2>2, <2>3, <2>4, <2>5, <2>6 DEF DictationInv
<1> QED
  BY <1>1, <1>2, PTL DEF DictationSpec

(* A transcript is made of its own recording's chunks in the order in      *)
(* which they were recorded, and of all of them when task_start suspended  *)
(* the end (audio.py lines 52-65), unless recordings overlap.              *)
THEOREM AlwaysOwnTranscript == DictationSpec => []TranscriptOfRecording
<1>1. DictationInv => TranscriptOfRecording
  <2> SUFFICES ASSUME DictationInv, NEW r \in Recording, taken[r] # NotTaken, r \notin mixed
               PROVE  /\ IsPrefix(taken[r], Said(r))
                      /\ r \notin hurried => taken[r] = Said(r)
    BY DEF TranscriptOfRecording
  <2>1. /\ taken[r] \in Seq(Chunk) /\ said[r] \in Nat /\ Len(taken[r]) \in Nat
    BY Types DEF DictationInv
  <2>2. /\ Len(taken[r]) <= said[r]
        /\ \A i \in 1 .. Len(taken[r]) : taken[r][i] = <<r, i>>
        /\ r \notin hurried => Len(taken[r]) = said[r]
    BY DEF DictationInv, TakenInOrder
  <2> DEFINE s == taken[r]
             t == Said(r)
  <2>3. /\ t \in Seq(Recording \X Nat) /\ Len(t) = said[r]
        /\ \A i \in 1 .. said[r] : t[i] = <<r, i>>
    BY <2>1 DEF Said
  <2>4. s \in Seq(Recording \X Nat)
    BY <2>1 DEF Chunk
  <2> HIDE DEF s, t
  <2>5. ASSUME NEW i \in 1 .. Len(s) PROVE s[i] = t[i]
    <3>1. s[i] = <<r, i>>
      BY <2>2 DEF s
    <3>2. i \in 1 .. said[r]
      BY <2>1, <2>2 DEF s
    <3> QED
      BY <2>3, <3>1, <3>2
  <2>6. IsPrefix(s, t)
    <3>1. Len(s) <= Len(t) /\ Len(s) \in Nat
      BY <2>1, <2>2, <2>3 DEF s
    <3>2. /\ SubSeq(s, 1, Len(s)) \in Seq(Recording \X Nat)
          /\ SubSeq(t, 1, Len(s)) \in Seq(Recording \X Nat)
          /\ Len(SubSeq(s, 1, Len(s))) = Len(s) /\ Len(SubSeq(t, 1, Len(s))) = Len(s)
          /\ \A i \in 1 .. Len(s) : /\ SubSeq(s, 1, Len(s))[i] = s[i]
                                    /\ SubSeq(t, 1, Len(s))[i] = t[i]
      BY <2>3, <2>4, <3>1
    <3>3. SubSeq(s, 1, Len(s)) = SubSeq(t, 1, Len(s))
      BY <2>5, <3>2, SeqEqual
    <3> QED
      BY <3>1, <3>3 DEF IsPrefix
  <2>7. r \notin hurried => s = t
    <3> SUFFICES ASSUME r \notin hurried PROVE s = t
      OBVIOUS
    <3>1. Len(s) = Len(t)
      BY <2>2, <2>3 DEF s
    <3> QED
      BY <2>3, <2>4, <2>5, <3>1, SeqEqual
  <2> QED
    BY <2>6, <2>7 DEF s, t
<1> QED
  BY <1>1, DictationInductive, PTL
=============================================================================

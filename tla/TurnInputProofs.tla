-------------------------- MODULE TurnInputProofs ---------------------------
(***************************************************************************)
(* Proofs about TurnInput for any number of turns, files of a message,     *)
(* reconnects and restarts.                                                *)
(***************************************************************************)
EXTENDS TurnInput, SequenceTheorems, WellFoundedInduction, TLAPS

-----------------------------------------------------------------------------
(* The inductive invariant of TurnInput.                                   *)

\* The turns that the invariant follows: each is about a message that was sent.
Running == {"begun", "uploading", "saving", "asked"}
WasSent(m) == turn[m].state # "none"
TurnsOfSent ==
  \A t \in TurnId : turn[t].state \in Running => turn[t].of \in TurnId /\ WasSent(turn[t].of)

\* What is in the chat; the mark of a user message comes from a block.
EntriesTell ==
  \A i \in 1 .. Len(chat) :
    /\ chat[i].kind = "user" =>
         /\ chat[i].of \in TurnId /\ WasSent(chat[i].of) /\ ~chat[i].error
         /\ chat[i].excluded => chat[i].of \in everRefused
    /\ chat[i].kind # "user" => chat[i].of = 0
    /\ chat[i].kind = "failed" => chat[i].error \/ chat[i].excluded
    /\ chat[i].kind = "notice" => chat[i].excluded
SomeUserEntry ==
  (\E t \in TurnId : WasSent(t)) => \E i \in 1 .. Len(chat) : chat[i].kind = "user"

\* A message that was not sent has nothing.
UnsentIsBlank ==
  \A m \in TurnId : ~WasSent(m) =>
    /\ attached[m] = 0 /\ elements[m] = 0 /\ fileIds[m] = <<>>
    /\ saved[m].ids = <<>> /\ ~saved[m].excluded
    /\ m \notin everRefused /\ m \notin forgotten

\* The files of a message are with it, or their IDs are, or they are forgotten.
FilesKept ==
  \A m \in TurnId :
    /\ fileIds[m] \in {<<>>, FilesOf(m)} /\ saved[m].ids \in {<<>>, FilesOf(m)}
    /\ elements[m] \in {0, attached[m]}
    /\ saved[m].excluded => m \in everRefused
    /\ m \in forgotten => elements[m] = 0 /\ fileIds[m] = <<>> /\ saved[m].ids = <<>>
    /\ m \notin forgotten => elements[m] = attached[m] \/ fileIds[m] = FilesOf(m)

\* The input's latest user item is the message's own, with the exceptions of
\* RequestCarriesFiles.
OwnItem(t) ==
  turn[t].of \notin everRefused /\ ~turn[t].late =>
    \E i \in DOMAIN turn[t].items :
      IsLastUser(turn[t].items, i) /\ turn[t].items[i].of = turn[t].of
NoFiles(items) == \A i \in DOMAIN items : items[i].files = <<>>

\* How far a turn is: its uploads are the first files of its message.
Uploads(t) ==
  /\ elements[turn[t].of] # 0 /\ NoFiles(turn[t].items) /\ OwnItem(t)
  /\ turn[t].flag => turn[t].of \in everRefused
  /\ Len(turn[t].ids) <= elements[turn[t].of]
  /\ \A i \in 1 .. Len(turn[t].ids) : turn[t].ids[i] = <<turn[t].of, i>>
Progress(t) ==
  /\ turn[t].state = "begun" => turn[t].ids = <<>> /\ turn[t].items = <<>>
  /\ turn[t].state \in {"uploading", "saving"} => Uploads(t)
  /\ turn[t].state = "saving" => turn[t].ids = FilesOf(turn[t].of)
  /\ turn[t].state = "asked" => CarriesFiles(t)
TurnsProgress == \A t \in TurnId : Progress(t)

\* A message that is blocked carries its mark, unless it was lost.
BlockedMarked ==
  \A m \in refused : m \notin unmarked /\ m \notin overwritten =>
    \A i \in 1 .. Len(chat) : chat[i].kind = "user" /\ chat[i].of = m => chat[i].excluded

InputInv ==
  /\ InputTypeOK
  /\ TurnsOfSent
  /\ EntriesTell
  /\ SomeUserEntry
  /\ UnsentIsBlank
  /\ FilesKept
  /\ TurnsProgress
  /\ BlockedMarked

-----------------------------------------------------------------------------
(* The parts of a step.                                                    *)

TurnRecord ==
  [state : States, of : 0 .. MaxTurns, flag : BOOLEAN, ids : Seq(FileId), items : Seq(Item),
   late : BOOLEAN]

(* The types in the form in which the proofs use them.                     *)
LEMMA InputTypes ==
  ASSUME InputTypeOK
  PROVE  /\ MaxTurns \in Nat /\ MaxFiles \in Nat /\ MaxDisruptions \in Nat
         /\ TurnId = 1 .. MaxTurns
         /\ chat \in Seq(Entry) /\ Len(chat) \in Nat /\ DOMAIN chat = 1 .. Len(chat)
         /\ \A i \in 1 .. Len(chat) : chat[i] \in Entry
         /\ elements \in [TurnId -> 0 .. MaxFiles]
         /\ fileIds \in [TurnId -> Seq(FileId)]
         /\ uploads \in BOOLEAN
         /\ saved \in [TurnId -> [ids : Seq(FileId), excluded : BOOLEAN]]
         /\ turn \in [TurnId -> TurnRecord]
         /\ busy \in BOOLEAN /\ continuing \in BOOLEAN
         /\ disruptions \in 0 .. MaxDisruptions
         /\ attached \in [TurnId -> 0 .. MaxFiles]
         /\ refused \subseteq everRefused /\ everRefused \subseteq TurnId
         /\ forgotten \subseteq TurnId /\ unmarked \subseteq TurnId
         /\ overwritten \subseteq TurnId
<1>1. chat \in Seq(Entry)
  BY DEF InputTypeOK
<1>2. /\ Len(chat) \in Nat /\ DOMAIN chat = 1 .. Len(chat)
      /\ \A i \in 1 .. Len(chat) : chat[i] \in Entry
  BY <1>1
<1>3. turn \in [TurnId -> TurnRecord]
  BY DEF InputTypeOK, TurnRecord
<1>4. /\ elements \in [TurnId -> 0 .. MaxFiles]
      /\ fileIds \in [TurnId -> Seq(FileId)]
      /\ saved \in [TurnId -> [ids : Seq(FileId), excluded : BOOLEAN]]
      /\ attached \in [TurnId -> 0 .. MaxFiles]
  BY DEF InputTypeOK
<1>5. /\ uploads \in BOOLEAN /\ busy \in BOOLEAN /\ continuing \in BOOLEAN
      /\ disruptions \in 0 .. MaxDisruptions
      /\ refused \subseteq everRefused /\ everRefused \subseteq TurnId
      /\ forgotten \subseteq TurnId /\ unmarked \subseteq TurnId
      /\ overwritten \subseteq TurnId
  BY DEF InputTypeOK
<1> QED
  BY <1>1, <1>2, <1>3, <1>4, <1>5, TurnInputAssumption DEF TurnId

(* The records of turns that did not begin or are over.                    *)
LEMMA TurnValues ==
  /\ NoTurn \in TurnRecord /\ Over \in TurnRecord
  /\ NoTurn.state = "none" /\ Over.state = "over" /\ NoTurn.items = <<>> /\ Over.items = <<>>
  /\ Over # NoTurn
  /\ [Over EXCEPT !.state = "reporting"] \in TurnRecord
  /\ [Over EXCEPT !.state = "reporting"].state = "reporting"
  /\ [Over EXCEPT !.state = "reporting"].items = <<>>
<1>1. <<>> \in Seq(FileId) /\ <<>> \in Seq(Item) /\ 0 \in 0 .. MaxTurns
  BY TurnInputAssumption
<1> QED
  BY <1>1 DEF NoTurn, Over, TurnRecord, States

(* A turn that does not change keeps what it has reached.                  *)
LEMMA SameTurn ==
  ASSUME InputInv, NEW t \in TurnId, turn'[t] = turn[t],
         \A m \in TurnId : WasSent(m) => attached'[m] = attached[m] /\ elements'[m] = elements[m],
         forgotten' = forgotten, everRefused \subseteq everRefused'
  PROVE  Progress(t)'
<1>1. Progress(t)
  BY DEF InputInv, TurnsProgress
<1>2. CASE turn[t].state \notin Running
  BY <1>2 DEF Progress, Running
<1>3. CASE turn[t].state \in Running
  <2>1. attached'[turn[t].of] = attached[turn[t].of] /\ elements'[turn[t].of] = elements[turn[t].of]
    BY <1>3 DEF InputInv, TurnsOfSent
  <2>2. OwnItem(t) => OwnItem(t)'
    BY DEF OwnItem, IsLastUser, UserItems
  <2>3. Uploads(t) => Uploads(t)'
    BY <2>1, <2>2 DEF Uploads, NoFiles
  <2>4. FilesOf(turn[t].of)' = FilesOf(turn[t].of)
    BY <2>1 DEF FilesOf
  <2>5. CarriesFiles(t) => CarriesFiles(t)'
    BY <2>1, <2>4 DEF CarriesFiles, FilesOf
  <2> QED
    BY <1>1, <2>3, <2>4, <2>5 DEF Progress
<1> QED
  BY <1>2, <1>3

(* What the messages have stays as it is.                                  *)
LEMMA SameFiles ==
  ASSUME InputInv, UNCHANGED <<elements, fileIds, saved, attached, forgotten>>,
         everRefused \subseteq everRefused',
         \A m \in TurnId : WasSent(m) => WasSent(m)',
         \A m \in everRefused' : m \in everRefused \/ WasSent(m)
  PROVE  UnsentIsBlank' /\ FilesKept'
  BY DEF InputInv, UnsentIsBlank, FilesKept, FilesOf, WasSent

(* A message of the application or of Chainlit, not of the user, arrives.  *)
LEMMA Arrives ==
  ASSUME InputInv, NEW kind \in {"answer", "failed", "notice", "stop", "open"},
         chat' = Append(chat, NewEntry(kind, 0)),
         \A m \in TurnId : WasSent(m) <=> WasSent(m)',
         UNCHANGED <<refused, everRefused, unmarked, overwritten>>
  PROVE  chat' \in Seq(Entry) /\ EntriesTell' /\ SomeUserEntry' /\ BlockedMarked'
<1> DEFINE e == NewEntry(kind, 0)
<1>1. e \in Entry /\ e.kind = kind /\ e.of = 0
  BY TurnInputAssumption DEF NewEntry, Entry, Kinds
<1>2. chat \in Seq(Entry) /\ Len(chat) \in Nat
  BY InputTypes DEF InputInv
<1>3. chat' = Append(chat, e)
  OBVIOUS
<1>a. (kind = "failed" => e.error) /\ (kind = "notice" => e.excluded)
  BY DEF NewEntry
<1> HIDE DEF e
<1>4. /\ chat' \in Seq(Entry) /\ Len(chat') = Len(chat) + 1
      /\ \A i \in 1 .. Len(chat) : chat'[i] = chat[i]
      /\ chat'[Len(chat) + 1] = e
  BY <1>1, <1>2, <1>3
<1>5. \A i \in 1 .. Len(chat') : i \in 1 .. Len(chat) \/ i = Len(chat) + 1
  BY <1>2, <1>4
<1>6. \A i \in 1 .. Len(chat) : i \in 1 .. Len(chat')
  BY <1>2, <1>4
<1>7. EntriesTell'
  BY <1>1, <1>a, <1>4, <1>5 DEF InputInv, EntriesTell, WasSent
<1>8. SomeUserEntry'
  BY <1>4, <1>6 DEF InputInv, SomeUserEntry, WasSent
<1>9. BlockedMarked'
  BY <1>1, <1>4, <1>5 DEF InputInv, BlockedMarked
<1> QED
  BY <1>4, <1>7, <1>8, <1>9

(* The chat and its history stay as they are.                              *)
LEMMA SameChat ==
  ASSUME InputInv, \A m \in TurnId : WasSent(m) <=> WasSent(m)',
         UNCHANGED <<chat, refused, everRefused, unmarked, overwritten>>
  PROVE  EntriesTell' /\ SomeUserEntry' /\ BlockedMarked'
  BY DEF InputInv, EntriesTell, SomeUserEntry, BlockedMarked, WasSent

(* Only turn t changes, and neither begins nor ends to be sent.            *)
LEMMA OneTurn ==
  ASSUME InputInv, NEW t \in TurnId, NEW r \in TurnRecord, turn' = [turn EXCEPT ![t] = r],
         turn[t].state # "none", r.state # "none",
         r.state \in Running => turn[t].state \in Running /\ r.of = turn[t].of
  PROVE  /\ turn' \in [TurnId -> TurnRecord] /\ turn'[t] = r
         /\ \A s \in TurnId : s # t => turn'[s] = turn[s]
         /\ \A m \in TurnId : WasSent(m) <=> WasSent(m)'
         /\ TurnsOfSent'
<1>1. turn \in [TurnId -> TurnRecord]
  BY InputTypes DEF InputInv
<1>2. /\ turn' \in [TurnId -> TurnRecord] /\ turn'[t] = r
      /\ \A s \in TurnId : s # t => turn'[s] = turn[s]
  BY <1>1
<1>3. \A m \in TurnId : WasSent(m) <=> WasSent(m)'
  BY <1>2 DEF WasSent
<1>4. TurnsOfSent'
  <2> SUFFICES ASSUME NEW s \in TurnId, turn'[s].state \in Running
               PROVE  turn'[s].of \in TurnId /\ WasSent(turn[s].of)'
    BY DEF TurnsOfSent, Running
  <2>1. turn[s].state \in Running /\ turn'[s].of = turn[s].of
    BY <1>2
  <2>2. turn[s].of \in TurnId /\ WasSent(turn[s].of)
    BY <2>1 DEF InputInv, TurnsOfSent
  <2>3. turn'[turn'[s].of].state # "none"
    BY <1>3, <2>1, <2>2 DEF WasSent
  <2> QED
    BY <2>1, <2>2, <2>3 DEF WasSent
<1> QED
  BY <1>2, <1>3, <1>4

-----------------------------------------------------------------------------
(* The input.                                                              *)

(* A set of positions has a last one.                                      *)
LEMMA LastExists ==
  ASSUME NEW n \in Nat, NEW S \in SUBSET (1 .. n), S # {}
  PROVE  \E i \in S : \A j \in S : j <= i
<1> DEFINE T == {n - i : i \in S}
           R == {ss \in Nat \X Nat : ss[1] < ss[2]}
<1>1. T \subseteq Nat /\ T # {}
  <2>1. \A i \in S : i \in Nat /\ i <= n
    OBVIOUS
  <2>2. \A i \in S : n - i \in Nat
    BY <2>1
  <2> QED
    BY <2>2
<1>0. IsWellFoundedOn(R, Nat)
  BY NatLessThanWellFounded DEF OpToRel
<1> HIDE DEF R
<1>2. PICK x \in T : \A y \in T : ~ (<<y, x>> \in R)
  BY <1>0, <1>1, WFMin
<1>3. \A y \in T : ~ (y < x)
  <2> SUFFICES ASSUME NEW y \in T, y < x PROVE FALSE
    OBVIOUS
  <2>1. <<y, x>> \in R
    BY <1>1 DEF R
  <2> QED
    BY <1>2, <2>1
<1>4. PICK i \in S : x = n - i
  OBVIOUS
<1>5. ASSUME NEW j \in S PROVE j <= i
  <2>1. n - j \in T
    OBVIOUS
  <2>2. ~ (n - j < n - i)
    BY <1>3, <1>4, <2>1
  <2> QED
    BY <2>2
<1> QED
  BY <1>5

(* The input has an item or a gap per message, and no files yet.           *)
LEMMA InputOfChat ==
  ASSUME InputInv
  PROVE  /\ ResponseInput \in Seq(Item) /\ NoFiles(ResponseInput)
         /\ DOMAIN ResponseInput = 1 .. Len(chat)
         /\ \A i \in 1 .. Len(chat) :
              /\ ResponseInput[i].kind = "user" <=>
                   chat[i].kind = "user" /\ ~chat[i].error /\ ~chat[i].excluded
              /\ ResponseInput[i].kind = "user" => ResponseInput[i].of = chat[i].of
<1>a. /\ chat \in Seq(Entry) /\ Len(chat) \in Nat /\ DOMAIN chat = 1 .. Len(chat)
      /\ \A i \in 1 .. Len(chat) : chat[i] \in Entry
  BY InputTypes DEF InputInv
<1> DEFINE q == ResponseInput
<1>1. /\ DOMAIN q = 1 .. Len(chat)
      /\ \A i \in 1 .. Len(chat) :
           q[i] = IF (IF IsReview(chat[i]) THEN chat[i].kind = "answered"
                                            ELSE IsModelContext(chat[i]))
                  THEN [kind |-> chat[i].kind, of |-> chat[i].of, files |-> <<>>] ELSE Omitted
      /\ q = [i \in 1 .. Len(chat) |-> q[i]]
  BY <1>a DEF ResponseInput
<1> HIDE DEF q
<1>2. Omitted \in Item /\ Omitted.kind = "omitted" /\ Omitted.files = <<>>
  <2>1. <<>> \in Seq(FileId) /\ 0 \in 0 .. MaxTurns
    BY TurnInputAssumption
  <2> QED
    BY <2>1 DEF Omitted, Item
<1>3. ASSUME NEW i \in 1 .. Len(chat)
      PROVE  /\ q[i] \in Item /\ q[i].files = <<>>
             /\ q[i].kind = "user" <=> chat[i].kind = "user" /\ ~chat[i].error /\ ~chat[i].excluded
             /\ q[i].kind = "user" => q[i].of = chat[i].of
  <2>1. chat[i] \in Entry
    BY <1>a
  <2>2. [kind |-> chat[i].kind, of |-> chat[i].of, files |-> <<>>] \in Item
    BY <2>1 DEF Entry, Item
  <2> QED
    BY <1>1, <1>2, <2>1, <2>2 DEF IsReview, IsModelContext, Entry
<1>4. q \in Seq(Item)
  BY <1>a, <1>1, <1>3
<1> QED
  BY <1>1, <1>3, <1>4 DEF q, NoFiles

(* The input's latest user item is the message's own, unless it is marked  *)
(* or another one came.                                                    *)
LEMMA OwnInput ==
  ASSUME InputInv, NEW m \in TurnId, WasSent(m), m \notin everRefused,
         ~ \E i \in DOMAIN chat : chat[i].kind = "user" /\ \A j \in UserEntry(m) : j < i
  PROVE  \E i \in DOMAIN ResponseInput : IsLastUser(ResponseInput, i) /\ ResponseInput[i].of = m
<1>a. /\ Len(chat) \in Nat /\ DOMAIN chat = 1 .. Len(chat)
  BY InputTypes DEF InputInv
<1> DEFINE users == {i \in 1 .. Len(chat) : chat[i].kind = "user"}
<1>1. users # {}
  BY DEF InputInv, SomeUserEntry
<1>2. PICK p \in users : \A j \in users : j <= p
  BY <1>a, <1>1, LastExists
<1>3. PICK j \in UserEntry(m) : ~ (j < p)
  BY <1>a, <1>2
<1>4. j \in users /\ chat[j].of = m
  BY <1>a, <1>3 DEF UserEntry
<1>5. j = p
  BY <1>a, <1>2, <1>3, <1>4
<1>6. ~chat[p].error /\ ~chat[p].excluded
  BY <1>4, <1>5 DEF InputInv, EntriesTell
<1>7. p \in DOMAIN ResponseInput /\ ResponseInput[p].kind = "user" /\ ResponseInput[p].of = m
  BY <1>4, <1>5, <1>6, InputOfChat
<1>8. \A i \in UserItems(ResponseInput) : i <= p
  BY <1>2, InputOfChat DEF UserItems
<1> QED
  BY <1>7, <1>8 DEF IsLastUser, UserItems

\* One item of q has files, the ids, and it is the last user item of items.
InOneItem(q, items, ids) ==
  \E i \in DOMAIN q :
    /\ Carriers(q) = {i} /\ q[i].files = ids
    /\ \A j \in DOMAIN items : IsLastUser(items, j) => q[i].of = items[j].of

(* The files are added to the latest user item, or to one of their own.    *)
LEMMA PartsAdded ==
  ASSUME NEW items \in Seq(Item), NEW ids \in Seq(FileId), NoFiles(items)
  PROVE  /\ WithFileParts(items, ids) \in Seq(Item)
         /\ ids = <<>> => NoFiles(WithFileParts(items, ids))
         /\ ids # <<>> => InOneItem(WithFileParts(items, ids), items, ids)
<1> DEFINE q == WithFileParts(items, ids)
<1>a. /\ Len(items) \in Nat /\ DOMAIN items = 1 .. Len(items)
      /\ \A i \in 1 .. Len(items) : items[i] \in Item /\ items[i].files = <<>>
  BY DEF NoFiles
<1>1. CASE ids = <<>>
  BY <1>1 DEF WithFileParts
<1>2. CASE ids # <<>> /\ UserItems(items) = {}
  <2> DEFINE new == [kind |-> "user", of |-> 0, files |-> ids]
  <2>1. new \in Item /\ new.files = ids
    BY TurnInputAssumption DEF Item, Kinds
  <2>2. q = Append(items, new)
    BY <1>2 DEF WithFileParts
  <2> HIDE DEF new, q
  <2>3. /\ q \in Seq(Item) /\ DOMAIN q = 1 .. Len(items) + 1
        /\ \A j \in 1 .. Len(items) : q[j] = items[j]
        /\ q[Len(items) + 1] = new
    BY <1>a, <2>1, <2>2
  <2>4. InOneItem(q, items, ids)
    <3>1. Len(items) + 1 \in DOMAIN q
      BY <1>a, <2>3
    <3>2. \A j \in DOMAIN q : q[j].files # <<>> <=> j = Len(items) + 1
      BY <1>2, <1>a, <2>1, <2>3
    <3> QED
      BY <1>2, <2>1, <2>3, <3>1, <3>2 DEF IsLastUser, InOneItem, Carriers
  <2> QED
    BY <1>2, <2>3, <2>4 DEF q
<1>3. CASE ids # <<>> /\ UserItems(items) # {}
  <2>1. PICK p \in UserItems(items) : \A j \in UserItems(items) : j <= p
    BY <1>3, <1>a, LastExists DEF UserItems
  <2>2. \A j \in DOMAIN items : IsLastUser(items, j) <=> j = p
    BY <1>a, <2>1 DEF IsLastUser, UserItems
  <2>3. /\ DOMAIN q = 1 .. Len(items) /\ p \in 1 .. Len(items)
        /\ \A i \in 1 .. Len(items) :
             q[i] = IF i = p THEN [items[i] EXCEPT !.files = @ \o ids] ELSE items[i]
        /\ q = [i \in 1 .. Len(items) |-> q[i]]
    BY <1>3, <1>a, <2>1, <2>2 DEF WithFileParts, UserItems
  <2> HIDE DEF q
  <2>4. /\ [items[p] EXCEPT !.files = @ \o ids] \in Item
        /\ [items[p] EXCEPT !.files = @ \o ids].files = ids
        /\ [items[p] EXCEPT !.files = @ \o ids].of = items[p].of
    <3>1. items[p] \in Item /\ items[p].files = <<>>
      BY <1>a, <2>3
    <3>2. <<>> \o ids = ids
      OBVIOUS
    <3>3. [items[p] EXCEPT !.files = @ \o ids] = [items[p] EXCEPT !.files = ids]
      BY <3>1, <3>2
    <3> QED
      BY <3>1, <3>3 DEF Item
  <2>5. \A i \in 1 .. Len(items) : q[i] \in Item
    BY <1>a, <2>3, <2>4
  <2>6. q \in Seq(Item)
    BY <1>a, <2>3, <2>5
  <2>7. \A j \in DOMAIN q : q[j].files # <<>> <=> j = p
    BY <1>3, <1>a, <2>3, <2>4
  <2>8. InOneItem(q, items, ids)
    <3>1. p \in DOMAIN q /\ Carriers(q) = {p}
      BY <2>3, <2>7 DEF Carriers
    <3>2. q[p].files = ids /\ q[p].of = items[p].of
      BY <2>3, <2>4
    <3>3. \A j \in DOMAIN items : IsLastUser(items, j) => q[p].of = items[j].of
      BY <2>2, <3>2
    <3> QED
      BY <3>1, <3>2, <3>3 DEF InOneItem
  <2> QED
    BY <1>3, <2>6, <2>8 DEF q
<1> QED
  BY <1>1, <1>2, <1>3

-----------------------------------------------------------------------------
(* The steps.                                                              *)

(* What the other turns have reached stays true.                           *)
LEMMA OtherTurns ==
  ASSUME InputInv, NEW t \in TurnId,
         \A s \in TurnId : s # t => turn'[s] = turn[s],
         \A m \in TurnId : WasSent(m) => attached'[m] = attached[m] /\ elements'[m] = elements[m],
         forgotten' = forgotten, everRefused \subseteq everRefused', Progress(t)'
  PROVE  TurnsProgress'
<1> SUFFICES ASSUME NEW s \in TurnId PROVE Progress(s)'
  BY DEF TurnsProgress
<1>1. CASE s = t
  BY <1>1
<1>2. CASE s # t
  BY <1>2, SameTurn
<1> QED
  BY <1>1, <1>2

(* A step of one turn only.                                                *)
LEMMA OnlyTurn ==
  ASSUME InputInv, NEW t \in TurnId, NEW r \in TurnRecord, turn' = [turn EXCEPT ![t] = r],
         turn[t].state # "none", r.state # "none",
         r.state \in Running => turn[t].state \in Running /\ r.of = turn[t].of,
         UNCHANGED <<memory, saved, busy, continuing, disruptions, past>>, Progress(t)'
  PROVE  InputInv'
<1>1. /\ turn' \in [TurnId -> TurnRecord]
      /\ \A s \in TurnId : s # t => turn'[s] = turn[s]
      /\ \A m \in TurnId : WasSent(m) <=> WasSent(m)'
      /\ TurnsOfSent'
  BY OneTurn
<1>2. UNCHANGED <<chat, elements, fileIds, uploads, saved, busy, continuing, disruptions, attached,
                  refused, everRefused, forgotten, unmarked, overwritten>>
  BY DEF memory, past
<1>3. InputTypeOK'
  BY <1>1, <1>2 DEF InputInv, InputTypeOK, TurnRecord
<1>4. EntriesTell' /\ SomeUserEntry' /\ BlockedMarked'
  BY <1>1, <1>2, SameChat
<1>5. UnsentIsBlank' /\ FilesKept'
  BY <1>1, <1>2, SameFiles
<1>6. TurnsProgress'
  BY <1>1, <1>2, OtherTurns
<1> QED
  BY <1>1, <1>3, <1>4, <1>5, <1>6 DEF InputInv

LEMMA InitInput == InputInit => InputInv
<1> SUFFICES ASSUME InputInit PROVE InputInv
  OBVIOUS
<1>1. InputTypeOK
  <2>1. <<>> \in Seq(Entry) /\ <<>> \in Seq(FileId)
    OBVIOUS
  <2>2. turn \in [TurnId -> TurnRecord]
    BY TurnValues DEF InputInit
  <2>3. [ids |-> <<>>, excluded |-> FALSE] \in [ids : Seq(FileId), excluded : BOOLEAN]
    BY <2>1
  <2>4. chat \in Seq(Entry) /\ fileIds \in [TurnId -> Seq(FileId)]
    BY <2>1 DEF InputInit
  <2>5. saved \in [TurnId -> [ids : Seq(FileId), excluded : BOOLEAN]]
    BY <2>3 DEF InputInit
  <2>6. /\ elements \in [TurnId -> 0 .. MaxFiles] /\ attached \in [TurnId -> 0 .. MaxFiles]
        /\ disruptions \in 0 .. MaxDisruptions
    BY TurnInputAssumption DEF InputInit
  <2> QED
    BY <2>2, <2>4, <2>5, <2>6 DEF InputInit, InputTypeOK, TurnRecord
<1>2. \A t \in TurnId : turn[t].state = "none"
  BY TurnValues DEF InputInit
<1>3. TurnsOfSent /\ EntriesTell /\ SomeUserEntry /\ UnsentIsBlank /\ BlockedMarked
  BY <1>2 DEF InputInit, TurnsOfSent, Running, EntriesTell, SomeUserEntry, WasSent, UnsentIsBlank,
       BlockedMarked
<1>4. FilesKept
  BY <1>2 DEF InputInit, FilesKept
<1>5. TurnsProgress
  BY <1>2 DEF TurnsProgress, Progress
<1> QED
  BY <1>1, <1>3, <1>4, <1>5 DEF InputInv

LEMMA EndStep ==
  ASSUME InputInv, NEW t \in TurnId, turn[t].state # "none",
         NEW kind \in {"answer", "failed", "notice", "stop", "open"}, EndsWith(t, kind)
  PROVE  InputInv'
<1>1. /\ chat' = Append(chat, NewEntry(kind, 0)) /\ turn' = [turn EXCEPT ![t] = Over]
      /\ busy' = FALSE
      /\ UNCHANGED <<elements, fileIds, uploads, saved, continuing, disruptions, attached, refused,
                     everRefused, forgotten, unmarked, overwritten>>
  BY DEF EndsWith, past
<1>2. /\ turn' \in [TurnId -> TurnRecord] /\ turn'[t] = Over
      /\ \A s \in TurnId : s # t => turn'[s] = turn[s]
      /\ \A m \in TurnId : WasSent(m) <=> WasSent(m)'
      /\ TurnsOfSent'
  BY <1>1, OneTurn, TurnValues DEF Running
<1>3. chat' \in Seq(Entry) /\ EntriesTell' /\ SomeUserEntry' /\ BlockedMarked'
  BY <1>1, <1>2, Arrives
<1>4. InputTypeOK'
  BY <1>1, <1>2, <1>3 DEF InputInv, InputTypeOK, TurnRecord
<1>5. UnsentIsBlank' /\ FilesKept'
  BY <1>1, <1>2, SameFiles
<1>6. Progress(t)'
  BY <1>2, TurnValues DEF Progress
<1>7. TurnsProgress'
  BY <1>1, <1>2, <1>6, OtherTurns
<1> QED
  BY <1>2, <1>3, <1>4, <1>5, <1>7 DEF InputInv

(* Steps that change no turn.                                              *)
LEMMA SameTurns ==
  ASSUME InputInv, UNCHANGED <<turn, elements, attached, everRefused, forgotten>>
  PROVE  /\ TurnsProgress' /\ TurnsOfSent' /\ \A m \in TurnId : WasSent(m) <=> WasSent(m)'
<1>1. \A m \in TurnId : WasSent(m) <=> WasSent(m)'
  BY DEF WasSent
<1>2. TurnsOfSent'
  BY DEF InputInv, TurnsOfSent, Running, WasSent
<1>3. ASSUME NEW s \in TurnId PROVE Progress(s)'
  BY SameTurn
<1> QED
  BY <1>1, <1>2, <1>3 DEF TurnsProgress

LEMMA ContinueStep ==
  ASSUME InputInv, Continue
  PROVE  InputInv'
<1>1. PICK kind \in {"answer", "notice", "stop"} : chat' = Append(chat, NewEntry(kind, 0))
  BY DEF Continue
<1>2. /\ busy' = FALSE /\ continuing' = FALSE
      /\ UNCHANGED <<turn, elements, fileIds, uploads, saved, disruptions, attached, refused,
                     everRefused, forgotten, unmarked, overwritten>>
  BY DEF Continue, past
<1>3. /\ TurnsProgress' /\ TurnsOfSent' /\ \A m \in TurnId : WasSent(m) <=> WasSent(m)'
  BY <1>2, SameTurns
<1>4. chat' \in Seq(Entry) /\ EntriesTell' /\ SomeUserEntry' /\ BlockedMarked'
  BY <1>1, <1>2, <1>3, Arrives
<1>5. InputTypeOK'
  BY <1>2, <1>4 DEF InputInv, InputTypeOK
<1>6. UnsentIsBlank' /\ FilesKept'
  BY <1>2, <1>3, SameFiles
<1> QED
  BY <1>3, <1>4, <1>5, <1>6 DEF InputInv

LEMMA CloseStep ==
  ASSUME InputInv, NEW kind \in {"answered", "cancelled"}, CloseReview(kind)
  PROVE  InputInv'
<1>1. PICK i \in PendingReviews : chat' = [chat EXCEPT ![i].kind = kind]
  BY DEF CloseReview
<1>2. /\ busy' = (busy \/ kind = "answered") /\ continuing' = (continuing \/ kind = "answered")
      /\ UNCHANGED <<turn, elements, fileIds, uploads, saved, disruptions, attached, refused,
                     everRefused, forgotten, unmarked, overwritten>>
  BY DEF CloseReview, past
<1>3. /\ TurnsProgress' /\ TurnsOfSent' /\ \A m \in TurnId : WasSent(m) <=> WasSent(m)'
  BY <1>2, SameTurns
<1>a. /\ chat \in Seq(Entry) /\ Len(chat) \in Nat /\ DOMAIN chat = 1 .. Len(chat)
      /\ \A j \in 1 .. Len(chat) : chat[j] \in Entry
  BY InputTypes DEF InputInv
<1>4. i \in 1 .. Len(chat) /\ chat[i].kind = "open"
  BY <1>a DEF PendingReviews
<1>5. [chat[i] EXCEPT !.kind = kind] \in Entry
  BY <1>a, <1>4 DEF Entry, Kinds
<1>6. /\ chat' \in Seq(Entry) /\ Len(chat') = Len(chat)
      /\ chat'[i] = [chat[i] EXCEPT !.kind = kind]
      /\ \A j \in 1 .. Len(chat) : j # i => chat'[j] = chat[j]
  BY <1>1, <1>a, <1>4, <1>5
<1>7. chat'[i].kind = kind /\ chat'[i].of = chat[i].of
  BY <1>a, <1>4, <1>6 DEF Entry
<1>8. \A j \in 1 .. Len(chat) : chat[j].kind = "user" <=> chat'[j].kind = "user"
  BY <1>4, <1>6, <1>7
<1>9. EntriesTell'
  <2>1. EntriesTell
    BY DEF InputInv
  <2>2. chat'[i].kind \in {"answered", "cancelled"} /\ chat'[i].of = 0
    BY <1>4, <1>7, <2>1 DEF EntriesTell
  <2>3. \A j \in 1 .. Len(chat') : j = i \/ (j \in 1 .. Len(chat) /\ chat'[j] = chat[j])
    BY <1>6
  <2> QED
    BY <1>2, <2>1, <2>2, <2>3 DEF EntriesTell, WasSent
<1>10. SomeUserEntry'
  BY <1>2, <1>6, <1>8 DEF InputInv, SomeUserEntry, WasSent
<1>11. BlockedMarked'
  BY <1>2, <1>6, <1>7 DEF InputInv, BlockedMarked
<1>12. InputTypeOK'
  BY <1>2, <1>6 DEF InputInv, InputTypeOK
<1>13. UnsentIsBlank' /\ FilesKept'
  BY <1>2, <1>3, SameFiles
<1> QED
  BY <1>3, <1>9, <1>10, <1>11, <1>12, <1>13 DEF InputInv

LEMMA ReconnectedStep ==
  ASSUME InputInv, Reconnected
  PROVE  InputInv'
<1>1. /\ busy' = FALSE /\ disruptions' = disruptions + 1 /\ disruptions < MaxDisruptions
      /\ UNCHANGED <<chat, turn, elements, fileIds, uploads, saved, continuing, attached, refused,
                     everRefused, forgotten, unmarked, overwritten>>
  BY DEF Reconnected, past, memory
<1>2. /\ TurnsProgress' /\ TurnsOfSent' /\ \A m \in TurnId : WasSent(m) <=> WasSent(m)'
  BY <1>1, SameTurns
<1>3. EntriesTell' /\ SomeUserEntry' /\ BlockedMarked'
  BY <1>1, <1>2, SameChat
<1>4. UnsentIsBlank' /\ FilesKept'
  BY <1>1, <1>2, SameFiles
<1>5. disruptions' \in 0 .. MaxDisruptions
  BY <1>1, InputTypes DEF InputInv
<1>6. InputTypeOK'
  BY <1>1, <1>5 DEF InputInv, InputTypeOK
<1> QED
  BY <1>2, <1>3, <1>4, <1>6 DEF InputInv

LEMMA SaveMetadataStep ==
  ASSUME InputInv, NEW m \in TurnId, SaveMetadata(m)
  PROVE  InputInv'
<1>1. PICK i \in UserEntry(m) :
        saved' = [saved EXCEPT ![m] = [ids |-> fileIds[m], excluded |-> chat[i].excluded]]
  BY DEF SaveMetadata
<1>2. UNCHANGED <<chat, turn, elements, fileIds, uploads, busy, continuing, disruptions, attached,
                  refused, everRefused, forgotten, unmarked, overwritten>>
  BY DEF SaveMetadata, past, memory
<1>3. /\ TurnsProgress' /\ TurnsOfSent' /\ \A n \in TurnId : WasSent(n) <=> WasSent(n)'
  BY <1>2, SameTurns
<1>4. EntriesTell' /\ SomeUserEntry' /\ BlockedMarked'
  BY <1>2, <1>3, SameChat
<1>a. /\ Len(chat) \in Nat /\ DOMAIN chat = 1 .. Len(chat)
      /\ \A j \in 1 .. Len(chat) : chat[j] \in Entry
      /\ fileIds \in [TurnId -> Seq(FileId)]
      /\ saved \in [TurnId -> [ids : Seq(FileId), excluded : BOOLEAN]]
  BY InputTypes DEF InputInv
<1>5. /\ i \in 1 .. Len(chat) /\ WasSent(m) /\ chat[i].excluded \in BOOLEAN
      /\ chat[i].excluded => m \in everRefused
  BY <1>a DEF UserEntry, InputInv, EntriesTell, Entry
<1>6. /\ saved' \in [TurnId -> [ids : Seq(FileId), excluded : BOOLEAN]]
      /\ saved'[m].ids = fileIds[m] /\ (saved'[m].excluded => m \in everRefused)
      /\ \A n \in TurnId : n # m => saved'[n] = saved[n]
  BY <1>1, <1>5, <1>a
<1>7. UnsentIsBlank'
  BY <1>2, <1>3, <1>5, <1>6 DEF InputInv, UnsentIsBlank, WasSent
<1>8. FilesKept'
  <2> SUFFICES ASSUME NEW n \in TurnId
               PROVE  /\ saved'[n].ids \in {<<>>, FilesOf(n)}
                      /\ saved'[n].excluded => n \in everRefused
                      /\ n \in forgotten => saved'[n].ids = <<>>
    BY <1>2 DEF InputInv, FilesKept, FilesOf
  <2>1. CASE n = m
    BY <2>1, <1>6 DEF InputInv, FilesKept
  <2>2. CASE n # m
    BY <2>2, <1>6 DEF InputInv, FilesKept
  <2> QED
    BY <2>1, <2>2
<1>9. InputTypeOK'
  BY <1>2, <1>6 DEF InputInv, InputTypeOK
<1> QED
  BY <1>3, <1>4, <1>7, <1>8, <1>9 DEF InputInv

(* The user's entry for a turn is one whose message was sent.              *)
LEMMA Entries ==
  ASSUME InputInv
  PROVE  /\ chat \in Seq(Entry) /\ Len(chat) \in Nat /\ DOMAIN chat = 1 .. Len(chat)
         /\ \A i \in 1 .. Len(chat) : chat[i] \in Entry
         /\ \A m \in TurnId : \A i \in UserEntry(m) :
              i \in 1 .. Len(chat) /\ chat[i].kind = "user" /\ chat[i].of = m /\ WasSent(m)
<1>1. /\ chat \in Seq(Entry) /\ Len(chat) \in Nat /\ DOMAIN chat = 1 .. Len(chat)
      /\ \A i \in 1 .. Len(chat) : chat[i] \in Entry
  BY InputTypes DEF InputInv
<1>2. ASSUME NEW m \in TurnId, NEW i \in UserEntry(m)
      PROVE  i \in 1 .. Len(chat) /\ chat[i].kind = "user" /\ chat[i].of = m /\ WasSent(m)
  BY <1>1 DEF UserEntry, InputInv, EntriesTell
<1> QED
  BY <1>1, <1>2

(* A turn begins with a message that was sent, or is sent with it.         *)
LEMMA Starts ==
  ASSUME InputInv, NEW t \in TurnId, NEW m \in TurnId, turn[t].state = "none", Start(t, m),
         m = t \/ WasSent(m)
  PROVE  /\ turn' \in [TurnId -> TurnRecord] /\ turn'[t].state = "begun" /\ busy' = TRUE
         /\ \A s \in TurnId : s # t => turn'[s] = turn[s]
         /\ \A s \in TurnId : WasSent(s)' <=> WasSent(s) \/ s = t
         /\ TurnsOfSent' /\ Progress(t)'
<1> DEFINE r == [NoTurn EXCEPT !.state = "begun", !.of = m]
<1>1. turn' = [turn EXCEPT ![t] = r] /\ busy' = TRUE
  BY DEF Start
<1>2. /\ r \in TurnRecord /\ r.state = "begun" /\ r.of = m /\ r.ids = <<>> /\ r.items = <<>>
  <2>1. <<>> \in Seq(FileId) /\ <<>> \in Seq(Item) /\ m \in 0 .. MaxTurns
    BY TurnInputAssumption DEF TurnId
  <2> QED
    BY <2>1 DEF NoTurn, TurnRecord, States
<1> HIDE DEF r
<1>3. turn \in [TurnId -> TurnRecord]
  BY InputTypes DEF InputInv
<1>4. /\ turn' \in [TurnId -> TurnRecord] /\ turn'[t] = r
      /\ \A s \in TurnId : s # t => turn'[s] = turn[s]
  BY <1>1, <1>2, <1>3
<1>5. \A s \in TurnId : WasSent(s)' <=> WasSent(s) \/ s = t
  BY <1>2, <1>4 DEF WasSent
<1>6. TurnsOfSent'
  <2> SUFFICES ASSUME NEW s \in TurnId, turn'[s].state \in Running
               PROVE  turn'[s].of \in TurnId /\ turn'[turn'[s].of].state # "none"
    BY DEF TurnsOfSent, Running, WasSent
  <2>1. CASE s = t
    BY <1>2, <1>4, <1>5, <2>1 DEF WasSent
  <2>2. CASE s # t
    <3>1. turn'[s] = turn[s]
      BY <1>4, <2>2
    <3>2. turn[s].of \in TurnId /\ WasSent(turn[s].of)
      BY <3>1 DEF InputInv, TurnsOfSent
    <3>3. WasSent(turn[s].of)'
      BY <1>5, <3>1, <3>2 DEF WasSent
    <3> QED
      BY <3>1, <3>2, <3>3 DEF WasSent
  <2> QED
    BY <2>1, <2>2
<1>7. Progress(t)'
  BY <1>2, <1>4 DEF Progress
<1> QED
  BY <1>1, <1>2, <1>4, <1>5, <1>6, <1>7

LEMMA SendStep ==
  ASSUME InputInv, NEW t \in TurnId, NEW files \in {0, MaxFiles}, SendMessage(t, files)
  PROVE  InputInv'
<1> DEFINE e == NewEntry("user", t)
<1>1. /\ turn[t].state = "none" /\ ~WasSent(t) /\ Start(t, t)
      /\ chat' = Append(chat, e)
      /\ elements' = [elements EXCEPT ![t] = files] /\ attached' = [attached EXCEPT ![t] = files]
      /\ UNCHANGED <<fileIds, uploads, saved, continuing, disruptions, refused, everRefused,
                     forgotten, unmarked, overwritten>>
  BY DEF SendMessage, FreeTurn, WasSent
<1>2. /\ turn' \in [TurnId -> TurnRecord] /\ busy' = TRUE
      /\ \A s \in TurnId : s # t => turn'[s] = turn[s]
      /\ \A s \in TurnId : WasSent(s)' <=> WasSent(s) \/ s = t
      /\ TurnsOfSent' /\ Progress(t)'
  BY <1>1, Starts
<1>3. e \in Entry /\ e.kind = "user" /\ e.of = t /\ ~e.error /\ ~e.excluded
  <2>1. t \in 0 .. MaxTurns
    BY TurnInputAssumption DEF TurnId
  <2>2. e \in Entry /\ e.kind = "user" /\ e.of = t
    BY <2>1 DEF NewEntry, Entry, Kinds
  <2>3. ~("user" = "failed") /\ ~("user" \in {"notice", "open"})
    OBVIOUS
  <2>4. ~e.error /\ ~e.excluded
    BY <2>3, Zenon DEF NewEntry
  <2> QED
    BY <2>2, <2>4
<1> HIDE DEF e
<1>a. /\ chat \in Seq(Entry) /\ Len(chat) \in Nat
      /\ elements \in [TurnId -> 0 .. MaxFiles] /\ attached \in [TurnId -> 0 .. MaxFiles]
      /\ refused \subseteq everRefused
  BY InputTypes DEF InputInv
<1>4. /\ chat' \in Seq(Entry) /\ Len(chat') = Len(chat) + 1
      /\ \A i \in 1 .. Len(chat) : chat'[i] = chat[i]
      /\ chat'[Len(chat) + 1] = e
  BY <1>1, <1>3, <1>a
<1>5. /\ \A i \in 1 .. Len(chat') : i \in 1 .. Len(chat) \/ i = Len(chat) + 1
      /\ Len(chat) + 1 \in 1 .. Len(chat')
  BY <1>4, <1>a
<1>6. /\ attached[t] = 0 /\ elements[t] = 0 /\ fileIds[t] = <<>> /\ saved[t].ids = <<>>
      /\ ~saved[t].excluded /\ t \notin everRefused /\ t \notin forgotten
  BY <1>1 DEF InputInv, UnsentIsBlank
<1>7. EntriesTell'
  <2>1. EntriesTell
    BY DEF InputInv
  <2>2. \A i \in 1 .. Len(chat') : (i \in 1 .. Len(chat) /\ chat'[i] = chat[i]) \/ chat'[i] = e
    BY <1>4, <1>5
  <2>3. \A m \in TurnId : WasSent(m) => turn'[m].state # "none"
    BY <1>2 DEF WasSent
  <2>4. turn'[t].state # "none"
    BY <1>2 DEF WasSent
  <2> QED
    BY <1>1, <1>3, <2>1, <2>2, <2>3, <2>4 DEF EntriesTell, WasSent
<1>8. SomeUserEntry'
  BY <1>3, <1>4, <1>5 DEF SomeUserEntry
<1>9. files \in 0 .. MaxFiles
  BY TurnInputAssumption
<1>10. /\ elements' \in [TurnId -> 0 .. MaxFiles] /\ attached' \in [TurnId -> 0 .. MaxFiles]
       /\ elements'[t] = files /\ attached'[t] = files
       /\ \A m \in TurnId : m # t => elements'[m] = elements[m] /\ attached'[m] = attached[m]
  BY <1>1, <1>9, <1>a
<1>11. UnsentIsBlank'
  BY <1>1, <1>2, <1>10 DEF InputInv, UnsentIsBlank, WasSent
<1>12. FilesKept'
  <2>1. FilesKept
    BY DEF InputInv
  <2>2. \A m \in TurnId : m # t => FilesOf(m)' = FilesOf(m)
    BY <1>10 DEF FilesOf
  <2> QED
    BY <1>1, <1>6, <1>10, <2>1, <2>2 DEF FilesKept
<1>13. BlockedMarked'
  BY <1>1, <1>3, <1>4, <1>5, <1>6, <1>a DEF InputInv, BlockedMarked
<1>14. TurnsProgress'
  <2>1. \A m \in TurnId : WasSent(m) => attached'[m] = attached[m] /\ elements'[m] = elements[m]
    BY <1>1, <1>10
  <2> QED
    BY <1>1, <1>2, <2>1, OtherTurns
<1>15. InputTypeOK'
  BY <1>1, <1>2, <1>4, <1>10 DEF InputInv, InputTypeOK, TurnRecord
<1> QED
  BY <1>2, <1>7, <1>8, <1>11, <1>12, <1>13, <1>14, <1>15 DEF InputInv

LEMMA EditStep ==
  ASSUME InputInv, NEW t \in TurnId, NEW m \in TurnId, EditMessage(t, m)
  PROVE  InputInv'
<1>1. PICK i \in UserEntry(m) : chat' = SubSeq(chat, 1, i)
  BY DEF EditMessage
<1>2. /\ turn[t].state = "none" /\ Start(t, m) /\ refused' = refused \ {m}
      /\ UNCHANGED <<elements, fileIds, uploads, saved, continuing, disruptions, attached,
                     everRefused, forgotten, unmarked, overwritten>>
  BY DEF EditMessage, FreeTurn
<1>a. /\ chat \in Seq(Entry) /\ Len(chat) \in Nat
      /\ i \in 1 .. Len(chat) /\ chat[i].kind = "user" /\ WasSent(m)
  BY Entries
<1>3. /\ turn' \in [TurnId -> TurnRecord] /\ busy' = TRUE
      /\ \A s \in TurnId : s # t => turn'[s] = turn[s]
      /\ \A s \in TurnId : WasSent(s)' <=> WasSent(s) \/ s = t
      /\ TurnsOfSent' /\ Progress(t)'
  BY <1>2, <1>a, Starts
<1>4. /\ chat' \in Seq(Entry) /\ Len(chat') = i
      /\ \A j \in 1 .. i : chat'[j] = chat[j] /\ j \in 1 .. Len(chat)
  BY <1>1, <1>a
<1>5. EntriesTell'
  <2>1. EntriesTell
    BY DEF InputInv
  <2>2. \A n \in TurnId : WasSent(n) => turn'[n].state # "none"
    BY <1>3 DEF WasSent
  <2> QED
    BY <1>2, <1>4, <2>1, <2>2 DEF EntriesTell, WasSent
<1>6. SomeUserEntry'
  <2>1. i \in 1 .. i
    BY <1>a
  <2> QED
    BY <1>4, <1>a, <2>1 DEF SomeUserEntry
<1>7. UnsentIsBlank' /\ FilesKept'
  <2>1. \A n \in TurnId : WasSent(n) => WasSent(n)'
    BY <1>3
  <2> QED
    BY <1>2, <2>1, SameFiles
<1>8. BlockedMarked'
  BY <1>2, <1>4 DEF InputInv, BlockedMarked
<1>9. TurnsProgress'
  BY <1>2, <1>3, OtherTurns
<1>10. InputTypeOK'
  BY <1>2, <1>3, <1>4 DEF InputInv, InputTypeOK, TurnRecord
<1> QED
  BY <1>3, <1>5, <1>6, <1>7, <1>8, <1>9, <1>10 DEF InputInv

LEMMA BlockStep ==
  ASSUME InputInv, NEW t \in TurnId, Block(t)
  PROVE  InputInv'
<1> DEFINE m == turn[t].of
           r == [Over EXCEPT !.state = "reporting"]
<1>1. /\ turn[t].state = "begun" /\ turn' = [turn EXCEPT ![t] = r]
      /\ refused' = refused \cup {m} /\ everRefused' = everRefused \cup {m}
      /\ unmarked' = unmarked \ {m} /\ overwritten' = overwritten \ {m}
      /\ UNCHANGED <<elements, fileIds, uploads, saved, busy, continuing, disruptions, attached,
                     forgotten>>
  BY DEF Block
<1>2. chat' = [i \in DOMAIN chat |->
                 IF i \in UserEntry(m) THEN [chat[i] EXCEPT !.excluded = TRUE] ELSE chat[i]]
  BY DEF Block, MarkExcluded
<1>3. m \in TurnId /\ WasSent(m)
  BY <1>1 DEF InputInv, TurnsOfSent, Running
<1>4. r \in TurnRecord /\ r.state = "reporting"
  BY TurnValues
<1> HIDE DEF r
<1>5. /\ turn' \in [TurnId -> TurnRecord] /\ turn'[t] = r
      /\ \A s \in TurnId : s # t => turn'[s] = turn[s]
      /\ \A n \in TurnId : WasSent(n) <=> WasSent(n)'
      /\ TurnsOfSent'
  BY <1>1, <1>4, OneTurn DEF Running
<1> HIDE DEF m
<1>6. /\ chat' \in Seq(Entry) /\ Len(chat') = Len(chat)
      /\ \A i \in 1 .. Len(chat) :
           /\ chat'[i].kind = chat[i].kind /\ chat'[i].of = chat[i].of
           /\ chat'[i].error = chat[i].error
           /\ chat'[i].excluded = (chat[i].excluded \/ (chat[i].kind = "user" /\ chat[i].of = m))
  <2>1. /\ Len(chat) \in Nat /\ DOMAIN chat = 1 .. Len(chat)
        /\ \A i \in 1 .. Len(chat) : chat[i] \in Entry
    BY Entries
  <2>2. \A i \in 1 .. Len(chat) : i \in UserEntry(m) <=> chat[i].kind = "user" /\ chat[i].of = m
    BY <2>1 DEF UserEntry
  <2>3. \A i \in 1 .. Len(chat) :
          chat'[i] = IF i \in UserEntry(m) THEN [chat[i] EXCEPT !.excluded = TRUE] ELSE chat[i]
    BY <1>2, <2>1
  <2>4. /\ DOMAIN chat' = 1 .. Len(chat) /\ chat' = [i \in 1 .. Len(chat) |-> chat'[i]]
    BY <1>2, <2>1
  <2>5. ASSUME NEW i \in 1 .. Len(chat)
        PROVE  /\ chat'[i] \in Entry
               /\ chat'[i].kind = chat[i].kind /\ chat'[i].of = chat[i].of
               /\ chat'[i].error = chat[i].error
               /\ chat'[i].excluded = (chat[i].excluded \/ (chat[i].kind = "user" /\ chat[i].of = m))
    BY <2>1, <2>2, <2>3 DEF Entry
  <2>6. chat' \in Seq(Entry)
    BY <2>1, <2>4, <2>5
  <2> QED
    BY <2>1, <2>4, <2>5, <2>6
<1>7. EntriesTell'
  <2>1. EntriesTell
    BY DEF InputInv
  <2>2. \A n \in TurnId : WasSent(n) => turn'[n].state # "none"
    BY <1>5 DEF WasSent
  <2>3. ASSUME NEW i \in 1 .. Len(chat)
        PROVE  /\ chat'[i].kind = "user" =>
                    /\ chat'[i].of \in TurnId /\ turn'[chat'[i].of].state # "none" /\ ~chat'[i].error
                    /\ chat'[i].excluded => chat'[i].of \in everRefused'
               /\ chat'[i].kind # "user" => chat'[i].of = 0
               /\ chat'[i].kind = "failed" => chat'[i].error \/ chat'[i].excluded
               /\ chat'[i].kind = "notice" => chat'[i].excluded
    BY <1>1, <1>6, <2>1, <2>2 DEF EntriesTell
  <2> QED
    BY <1>6, <2>3 DEF EntriesTell, WasSent
<1>8. SomeUserEntry'
  BY <1>5, <1>6 DEF InputInv, SomeUserEntry
<1>9. UnsentIsBlank' /\ FilesKept'
  <2>1. \A n \in everRefused' : n \in everRefused \/ WasSent(n)
    BY <1>1, <1>3
  <2> QED
    BY <1>1, <1>5, <2>1, SameFiles
<1>10. BlockedMarked'
  <2> SUFFICES ASSUME NEW n \in refused', n \notin unmarked', n \notin overwritten',
                      NEW i \in 1 .. Len(chat'), chat'[i].kind = "user", chat'[i].of = n
               PROVE  chat'[i].excluded
    BY DEF BlockedMarked
  <2>1. CASE n = m
    BY <1>6, <2>1
  <2>2. CASE n # m
    <3>1. n \in refused /\ n \notin unmarked /\ n \notin overwritten
      BY <1>1, <2>2
    <3>2. i \in 1 .. Len(chat) /\ chat[i].kind = "user" /\ chat[i].of = n
      BY <1>6
    <3>3. chat[i].excluded
      BY <3>1, <3>2 DEF InputInv, BlockedMarked
    <3> QED
      BY <1>6, <3>2, <3>3
  <2> QED
    BY <2>1, <2>2
<1>11. TurnsProgress'
  <2>1. Progress(t)'
    BY <1>4, <1>5 DEF Progress
  <2> QED
    BY <1>1, <1>5, <2>1, OtherTurns
<1>12. InputTypeOK'
  BY <1>1, <1>3, <1>5, <1>6 DEF InputInv, InputTypeOK, TurnRecord
<1> QED
  BY <1>5, <1>7, <1>8, <1>9, <1>10, <1>11, <1>12 DEF InputInv

LEMMA RestartStep ==
  ASSUME InputInv, Restart
  PROVE  InputInv'
<1>1. /\ disruptions < MaxDisruptions /\ disruptions' = disruptions + 1
      /\ chat' = [i \in DOMAIN chat |-> Restored(chat[i])]
      /\ elements' = [m \in TurnId |-> 0] /\ fileIds' = [m \in TurnId |-> saved[m].ids]
      /\ uploads' \in BOOLEAN /\ busy' = FALSE /\ continuing' = FALSE
      /\ turn' = [t \in TurnId |-> IF turn[t].state = "none" THEN NoTurn ELSE Over]
      /\ forgotten' = {m \in TurnId : attached[m] > 0 /\ saved[m].ids = <<>>}
      /\ unmarked' = unmarked \cup {m \in refused : ~saved[m].excluded}
      /\ UNCHANGED <<saved, attached, refused, everRefused, overwritten>>
  BY DEF Restart
<1>a. /\ chat \in Seq(Entry) /\ Len(chat) \in Nat /\ DOMAIN chat = 1 .. Len(chat)
      /\ \A i \in 1 .. Len(chat) : chat[i] \in Entry
      /\ attached \in [TurnId -> 0 .. MaxFiles] /\ disruptions \in 0 .. MaxDisruptions
      /\ saved \in [TurnId -> [ids : Seq(FileId), excluded : BOOLEAN]]
      /\ refused \subseteq everRefused /\ everRefused \subseteq TurnId
      /\ unmarked \subseteq TurnId
      /\ MaxDisruptions \in Nat /\ MaxFiles \in Nat
  BY InputTypes DEF InputInv
<1>2. /\ turn' \in [TurnId -> TurnRecord]
      /\ \A s \in TurnId : turn'[s].state \in {"none", "over"}
      /\ \A s \in TurnId : WasSent(s) <=> WasSent(s)'
  BY <1>1, TurnValues DEF WasSent
<1>3. TurnsOfSent' /\ TurnsProgress'
  BY <1>2 DEF TurnsOfSent, Running, TurnsProgress, Progress
<1>4. /\ chat' \in Seq(Entry) /\ Len(chat') = Len(chat)
      /\ \A i \in 1 .. Len(chat) :
           /\ chat'[i].kind = chat[i].kind /\ chat'[i].of = chat[i].of /\ ~chat'[i].error
           /\ chat[i].kind = "user" => chat'[i].excluded = saved[chat[i].of].excluded
           /\ chat[i].kind # "user" => chat'[i].excluded = (chat[i].excluded \/ chat[i].error)
  <2>1. /\ DOMAIN chat' = 1 .. Len(chat) /\ chat' = [i \in 1 .. Len(chat) |-> chat'[i]]
        /\ \A i \in 1 .. Len(chat) : chat'[i] = Restored(chat[i])
    BY <1>1, <1>a
  <2>2. ASSUME NEW i \in 1 .. Len(chat)
        PROVE  /\ chat'[i] \in Entry
               /\ chat'[i].kind = chat[i].kind /\ chat'[i].of = chat[i].of /\ ~chat'[i].error
               /\ chat[i].kind = "user" => chat'[i].excluded = saved[chat[i].of].excluded
               /\ chat[i].kind # "user" => chat'[i].excluded = (chat[i].excluded \/ chat[i].error)
    <3>1. chat[i] \in Entry
      BY <1>a
    <3>2. chat[i].kind = "user" => chat[i].of \in TurnId
      BY DEF InputInv, EntriesTell
    <3>3. CASE chat[i].kind = "user"
      <4>1. saved[chat[i].of].excluded \in BOOLEAN
        BY <1>a, <3>2, <3>3
      <4>2. chat'[i] = [chat[i] EXCEPT !.error = FALSE, !.excluded = saved[chat[i].of].excluded]
        BY <2>1, <3>3 DEF Restored
      <4> QED
        BY <3>1, <3>3, <4>1, <4>2 DEF Entry
    <3>4. CASE chat[i].kind # "user"
      <4>1. chat'[i] = [chat[i] EXCEPT !.error = FALSE, !.excluded = @ \/ chat[i].error]
        BY <2>1, <3>4 DEF Restored
      <4> QED
        BY <3>1, <3>4, <4>1 DEF Entry
    <3> QED
      BY <3>3, <3>4
  <2>3. \A i \in 1 .. Len(chat) : chat'[i] \in Entry
    BY <2>2
  <2>4. chat' \in Seq(Entry)
    BY <1>a, <2>1, <2>3
  <2> QED
    BY <1>a, <2>1, <2>2, <2>4
<1>5. EntriesTell'
  <2>1. EntriesTell /\ FilesKept
    BY DEF InputInv
  <2>2. \A n \in TurnId : WasSent(n) => turn'[n].state # "none"
    BY <1>2 DEF WasSent
  <2>3. ASSUME NEW i \in 1 .. Len(chat)
        PROVE  /\ chat'[i].kind = "user" =>
                    /\ chat'[i].of \in TurnId /\ turn'[chat'[i].of].state # "none" /\ ~chat'[i].error
                    /\ chat'[i].excluded => chat'[i].of \in everRefused'
               /\ chat'[i].kind # "user" => chat'[i].of = 0
               /\ chat'[i].kind = "failed" => chat'[i].error \/ chat'[i].excluded
               /\ chat'[i].kind = "notice" => chat'[i].excluded
    <3>1. CASE chat[i].kind = "user"
      <4>1. chat[i].of \in TurnId /\ WasSent(chat[i].of)
        BY <2>1, <3>1 DEF EntriesTell
      <4>2. saved[chat[i].of].excluded => chat[i].of \in everRefused
        BY <2>1, <4>1 DEF FilesKept
      <4>3. turn'[chat[i].of].state # "none"
        BY <2>2, <4>1
      <4>4. everRefused' = everRefused
        BY <1>1
      <4>5. /\ chat'[i].kind = "user" /\ chat'[i].of = chat[i].of /\ ~chat'[i].error
            /\ chat'[i].excluded = saved[chat[i].of].excluded
        BY <1>4, <3>1
      <4> QED
        BY <4>1, <4>2, <4>3, <4>4, <4>5
    <3>2. CASE chat[i].kind # "user"
      BY <1>4, <2>1, <3>2 DEF EntriesTell
    <3> QED
      BY <3>1, <3>2
  <2> QED
    BY <1>4, <2>3 DEF EntriesTell, WasSent
<1>6. SomeUserEntry'
  BY <1>2, <1>4 DEF InputInv, SomeUserEntry
<1>7. UnsentIsBlank'
  <2> SUFFICES ASSUME NEW m \in TurnId, ~WasSent(m)
               PROVE  /\ attached'[m] = 0 /\ elements'[m] = 0 /\ fileIds'[m] = <<>>
                      /\ saved'[m].ids = <<>> /\ ~saved'[m].excluded
                      /\ m \notin everRefused' /\ m \notin forgotten'
    BY <1>2 DEF UnsentIsBlank
  <2>1. /\ attached[m] = 0 /\ saved[m].ids = <<>> /\ ~saved[m].excluded /\ m \notin everRefused
    BY DEF InputInv, UnsentIsBlank
  <2> QED
    BY <1>1, <2>1
<1>8. FilesKept'
  <2> SUFFICES ASSUME NEW m \in TurnId
               PROVE  /\ fileIds'[m] \in {<<>>, FilesOf(m)} /\ saved[m].ids \in {<<>>, FilesOf(m)}
                      /\ elements'[m] \in {0, attached[m]}
                      /\ saved[m].excluded => m \in everRefused
                      /\ m \in forgotten' =>
                           elements'[m] = 0 /\ fileIds'[m] = <<>> /\ saved[m].ids = <<>>
                      /\ m \notin forgotten' => elements'[m] = attached[m] \/ fileIds'[m] = FilesOf(m)
    BY <1>1 DEF FilesKept, FilesOf
  <2>1. saved[m].ids \in {<<>>, FilesOf(m)} /\ (saved[m].excluded => m \in everRefused)
    BY DEF InputInv, FilesKept
  <2>2. fileIds'[m] = saved[m].ids /\ elements'[m] = 0
    BY <1>1
  <2>3. attached[m] \in Nat
    BY <1>a
  <2>4. m \in forgotten' <=> attached[m] > 0 /\ saved[m].ids = <<>>
    BY <1>1
  <2> QED
    BY <2>1, <2>2, <2>3, <2>4
<1>9. BlockedMarked'
  <2> SUFFICES ASSUME NEW n \in refused', n \notin unmarked', n \notin overwritten',
                      NEW i \in 1 .. Len(chat'), chat'[i].kind = "user", chat'[i].of = n
               PROVE  chat'[i].excluded
    BY DEF BlockedMarked
  <2>1. saved[n].excluded
    BY <1>1
  <2> QED
    BY <1>4, <2>1
<1>10. InputTypeOK'
  <2>1. /\ elements' \in [TurnId -> 0 .. MaxFiles] /\ fileIds' \in [TurnId -> Seq(FileId)]
        /\ disruptions' \in 0 .. MaxDisruptions
        /\ forgotten' \subseteq TurnId /\ unmarked' \subseteq TurnId
    BY <1>1, <1>a
  <2> QED
    BY <1>1, <1>2, <1>4, <2>1 DEF InputInv, InputTypeOK, TurnRecord
<1> QED
  BY <1>3, <1>5, <1>6, <1>7, <1>8, <1>9, <1>10 DEF InputInv

LEMMA RaiseStep ==
  ASSUME InputInv, NEW t \in TurnId, Raise(t)
  PROVE  InputInv'
<1> DEFINE r == [Over EXCEPT !.state = "reporting"]
<1>1. /\ turn[t].state \in {"uploading", "saving", "asked"} /\ turn' = [turn EXCEPT ![t] = r]
      /\ UNCHANGED <<memory, saved, busy, continuing, disruptions, past>>
  BY DEF Raise
<1>2. r \in TurnRecord /\ r.state = "reporting"
  BY TurnValues
<1> HIDE DEF r
<1>3. turn'[t] = r
  BY <1>1, InputTypes DEF InputInv
<1>4. Progress(t)'
  BY <1>2, <1>3 DEF Progress
<1> QED
  BY <1>1, <1>2, <1>4, OnlyTurn DEF Running

(* The files of a message.                                                 *)
LEMMA Files ==
  ASSUME InputInv, NEW m \in TurnId
  PROVE  /\ attached[m] \in Nat /\ FilesOf(m) \in Seq(FileId) /\ Len(FilesOf(m)) = attached[m]
         /\ FilesOf(m) = <<>> <=> attached[m] = 0
         /\ fileIds[m] \in {<<>>, FilesOf(m)} /\ elements[m] \in {0, attached[m]}
         /\ m \in forgotten => elements[m] = 0 /\ fileIds[m] = <<>>
         /\ m \notin forgotten => elements[m] = attached[m] \/ fileIds[m] = FilesOf(m)
<1>1. attached[m] \in Nat /\ attached[m] <= MaxFiles /\ MaxFiles \in Nat
  BY InputTypes DEF InputInv
<1>2. \A i \in 1 .. attached[m] : <<m, i>> \in FileId
  BY <1>1 DEF FileId
<1>3. FilesOf(m) \in Seq(FileId) /\ Len(FilesOf(m)) = attached[m]
  BY <1>1, <1>2 DEF FilesOf
<1>4. FilesOf(m) = <<>> <=> attached[m] = 0
  BY <1>3
<1> QED
  BY <1>1, <1>3, <1>4 DEF InputInv, FilesKept

\* The IDs that an input needs, and what CarriesFiles says of an input q.
KeptIds(m) == IF m \in forgotten THEN <<>> ELSE FilesOf(m)
CarriesFilesOf(q, m, late) ==
  IF m \in forgotten \/ attached[m] = 0 THEN Carriers(q) = {}
  ELSE \E i \in DOMAIN q :
         /\ Carriers(q) = {i} /\ q[i].files = FilesOf(m)
         /\ m \notin everRefused /\ ~late => q[i].of = m

(* The input with the files of its message is the one of                   *)
(* RequestCarriesFiles.                                                    *)
LEMMA Carried ==
  ASSUME InputInv, NEW m \in TurnId, NEW items \in Seq(Item), NEW ids \in Seq(FileId),
         NEW late \in BOOLEAN,
         NoFiles(items), ids = KeptIds(m),
         m \notin everRefused /\ ~late =>
           \E i \in DOMAIN items : IsLastUser(items, i) /\ items[i].of = m
  PROVE  CarriesFilesOf(WithFileParts(items, ids), m, late)
<1> DEFINE q == WithFileParts(items, ids)
<1>1. (ids = <<>> => NoFiles(q)) /\ (ids # <<>> => InOneItem(q, items, ids))
  BY PartsAdded
<1> HIDE DEF q
<1>2. CASE m \in forgotten \/ attached[m] = 0
  <2>1. ids = <<>>
    BY <1>2, Files DEF KeptIds
  <2>2. Carriers(q) = {}
    BY <1>1, <2>1 DEF NoFiles, Carriers
  <2> QED
    BY <1>2, <2>2 DEF q, CarriesFilesOf
<1>3. CASE ~(m \in forgotten \/ attached[m] = 0)
  <2>1. ids = FilesOf(m) /\ ids # <<>>
    BY <1>3, Files DEF KeptIds
  <2>2. PICK i \in DOMAIN q :
          /\ Carriers(q) = {i} /\ q[i].files = ids
          /\ \A j \in DOMAIN items : IsLastUser(items, j) => q[i].of = items[j].of
    BY <1>1, <2>1 DEF InOneItem
  <2>3. m \notin everRefused /\ ~late => q[i].of = m
    BY <2>2
  <2> QED
    BY <1>3, <2>1, <2>2, <2>3 DEF q, CarriesFilesOf
<1> QED
  BY <1>2, <1>3

(* The input that is built for a message that is not forgotten has its     *)
(* files, or waits for their uploads.                                      *)
LEMMA BuiltStep ==
  ASSUME InputInv, NEW t \in TurnId, turn[t].state = "begun",
         NEW m \in TurnId, m = turn[t].of, NEW state, NEW ids \in Seq(FileId),
         turn' = [turn EXCEPT ![t] = Built(t, state, ids)],
         \/ state = "asked" /\ ids = KeptIds(m)
         \/ state = "uploading" /\ ids = <<>> /\ elements[m] # 0,
         UNCHANGED <<memory, saved, busy, continuing, disruptions, past>>
  PROVE  InputInv'
<1> DEFINE q == WithFileParts(ResponseInput, ids)
           r == Built(t, state, ids)
           flag == \E i \in UserEntry(m) : chat[i].excluded
           late == \E i \in DOMAIN chat : chat[i].kind = "user" /\ \A j \in UserEntry(m) : j < i
<1>a. flag \in BOOLEAN /\ late \in BOOLEAN
  OBVIOUS
<1>b. r = [turn[t] EXCEPT !.state = state, !.flag = flag, !.items = q, !.late = late]
  BY DEF Built
<1>1. WasSent(m)
  BY DEF InputInv, TurnsOfSent, Running
<1>2. ResponseInput \in Seq(Item) /\ NoFiles(ResponseInput)
  BY InputOfChat
<1>3. q \in Seq(Item) /\ (ids = <<>> => NoFiles(q))
  BY <1>2, PartsAdded
<1>4. m \notin everRefused /\ ~late =>
        \E i \in DOMAIN ResponseInput : IsLastUser(ResponseInput, i) /\ ResponseInput[i].of = m
  BY <1>1, OwnInput
<1>5. turn \in [TurnId -> TurnRecord]
  BY InputTypes DEF InputInv
<1>6. turn[t].ids = <<>>
  BY DEF InputInv, TurnsProgress, Progress
<1>7. UNCHANGED <<elements, attached, everRefused, forgotten>>
  BY DEF memory, past
<1>8. /\ r \in TurnRecord /\ r.state = state /\ r.of = m /\ r.flag = flag /\ r.items = q
      /\ r.late = late /\ r.ids = <<>>
  <2> HIDE DEF q, r, flag, late
  <2>1. turn[t] \in TurnRecord /\ state \in States
    BY <1>5 DEF States
  <2> QED
    BY <1>3, <1>6, <1>a, <1>b, <2>1 DEF TurnRecord
<1>9. turn' = [turn EXCEPT ![t] = r]
  OBVIOUS
<1> HIDE DEF r
<1>10. turn'[t] = r
  BY <1>5, <1>9
<1>11. CASE state = "asked"
  <2>1. CarriesFilesOf(q, m, late)
    BY <1>2, <1>4, <1>a, <1>11, Carried
  <2> HIDE DEF q, flag, late
  <2>2. FilesOf(m)' = FilesOf(m)
    BY <1>7 DEF FilesOf
  <2>3. /\ turn'[t].of = m /\ turn'[t].items = q /\ turn'[t].late = late
        /\ turn'[t].state = "asked"
    BY <1>8, <1>10, <1>11
  <2>4. CarriesFiles(t)'
    BY <1>7, <2>1, <2>2, <2>3 DEF CarriesFiles, CarriesFilesOf, FilesOf
  <2>5. Progress(t)'
    BY <2>3, <2>4 DEF Progress
  <2> QED
    BY <1>8, <1>9, <2>5, OnlyTurn DEF Running
<1>12. CASE state = "uploading"
  <2>1. ids = <<>> /\ elements[m] # 0
    BY <1>12
  <2>2. q = ResponseInput
    BY <2>1 DEF WithFileParts
  <2>5. flag => m \in everRefused
    <3> SUFFICES ASSUME NEW i \in UserEntry(m), chat[i].excluded PROVE m \in everRefused
      OBVIOUS
    <3>1. i \in 1 .. Len(chat) /\ chat[i].kind = "user" /\ chat[i].of = m
      BY Entries
    <3> QED
      BY <3>1 DEF InputInv, EntriesTell
  <2> HIDE DEF q, flag, late
  <2>3. /\ turn'[t].of = m /\ turn'[t].items = ResponseInput /\ turn'[t].late = late
        /\ turn'[t].state = "uploading" /\ turn'[t].ids = <<>> /\ turn'[t].flag = flag
    BY <1>8, <1>10, <1>12, <2>2
  <2>4. OwnItem(t)'
    BY <1>4, <1>7, <2>3 DEF OwnItem, IsLastUser, UserItems
  <2>6. Len(<<>>) = 0 /\ elements[m] \in Nat
    BY InputTypes DEF InputInv
  <2>7. NoFiles(turn[t].items)'
    BY <1>2, <2>3 DEF NoFiles
  <2>8. Uploads(t)'
    <3>1. turn'[t].flag => turn'[t].of \in everRefused'
      BY <1>7, <2>3, <2>5
    <3>2. Len(turn'[t].ids) <= elements'[turn'[t].of] /\ elements'[turn'[t].of] # 0
      BY <1>7, <2>1, <2>3, <2>6
    <3>3. \A i \in 1 .. Len(turn'[t].ids) : turn'[t].ids[i] = <<turn'[t].of, i>>
      BY <2>3, <2>6
    <3> QED
      BY <2>4, <2>7, <3>1, <3>2, <3>3 DEF Uploads
  <2>9. Progress(t)'
    BY <2>3, <2>8 DEF Progress
  <2> QED
    BY <1>8, <1>9, <1>12, <2>9, OnlyTurn DEF Running
<1> QED
  BY <1>11, <1>12

LEMMA BuildStep ==
  ASSUME InputInv, NEW t \in TurnId, Build(t)
  PROVE  InputInv'
<1> DEFINE m == turn[t].of
<1>1. /\ turn[t].state = "begun"
      /\ UNCHANGED <<memory, saved, busy, continuing, disruptions, past>>
      /\ turn' = [turn EXCEPT ![t] =
           IF elements[m] = 0 /\ fileIds[m] = <<>> THEN Built(t, "asked", <<>>)
           ELSE IF ~uploads THEN [Over EXCEPT !.state = "reporting"]
           ELSE IF fileIds[m] # <<>> THEN Built(t, "asked", fileIds[m])
           ELSE Built(t, "uploading", <<>>)]
  BY DEF Build
<1>2. m \in TurnId
  BY <1>1 DEF InputInv, TurnsOfSent, Running
<1>3. /\ <<>> \in Seq(FileId) /\ fileIds[m] \in Seq(FileId)
      /\ elements[m] \in Nat
  BY <1>2, InputTypes DEF InputInv
<1>4. CASE elements[m] = 0 /\ fileIds[m] = <<>>
  <2>1. <<>> = KeptIds(m)
    BY <1>2, <1>4, Files DEF KeptIds
  <2>2. turn' = [turn EXCEPT ![t] = Built(t, "asked", <<>>)]
    BY <1>1, <1>4
  <2> QED
    BY <1>1, <1>2, <1>3, <2>1, <2>2, BuiltStep
<1>5. CASE ~(elements[m] = 0 /\ fileIds[m] = <<>>) /\ ~uploads
  <2> DEFINE r == [Over EXCEPT !.state = "reporting"]
  <2>1. turn' = [turn EXCEPT ![t] = r]
    BY <1>1, <1>5
  <2>2. r \in TurnRecord /\ r.state = "reporting"
    BY TurnValues
  <2> HIDE DEF r
  <2>3. turn'[t] = r
    BY <2>1, InputTypes DEF InputInv
  <2>4. Progress(t)'
    BY <2>2, <2>3 DEF Progress
  <2> QED
    BY <1>1, <2>1, <2>2, <2>4, OnlyTurn DEF Running
<1>6. CASE uploads /\ fileIds[m] # <<>>
  <2>1. fileIds[m] = KeptIds(m)
    BY <1>2, <1>6, Files DEF KeptIds
  <2>2. turn' = [turn EXCEPT ![t] = Built(t, "asked", fileIds[m])]
    BY <1>1, <1>6
  <2> QED
    BY <1>1, <1>2, <1>3, <2>1, <2>2, BuiltStep
<1>7. CASE uploads /\ fileIds[m] = <<>> /\ elements[m] # 0
  <2>1. turn' = [turn EXCEPT ![t] = Built(t, "uploading", <<>>)]
    BY <1>1, <1>7
  <2> HIDE DEF m
  <2>2. m = turn[t].of
    BY DEF m
  <2> QED
    BY <1>1, <1>2, <1>3, <1>7, <2>1, <2>2, BuiltStep
<1> QED
  BY <1>4, <1>5, <1>6, <1>7

LEMMA UploadStep ==
  ASSUME InputInv, NEW t \in TurnId, Upload(t)
  PROVE  InputInv'
<1> DEFINE m == turn[t].of
           ids == Append(turn[t].ids, <<m, Len(turn[t].ids) + 1>>)
           r == [turn[t] EXCEPT !.ids = ids]
<1>1. /\ turn[t].state = "uploading" /\ Len(turn[t].ids) < elements[m]
      /\ UNCHANGED <<memory, saved, busy, continuing, disruptions, past>>
  BY DEF Upload
<1>2. /\ turn \in [TurnId -> TurnRecord] /\ elements \in [TurnId -> 0 .. MaxFiles]
      /\ MaxFiles \in Nat
  BY InputTypes DEF InputInv
<1>3. turn' = [turn EXCEPT ![t] = r]
  BY <1>2 DEF Upload
<1>4. m \in TurnId
  BY <1>1 DEF InputInv, TurnsOfSent, Running
<1>5. Uploads(t)
  BY <1>1 DEF InputInv, TurnsProgress, Progress
<1>6. turn[t] \in TurnRecord /\ turn[t].ids \in Seq(FileId) /\ Len(turn[t].ids) \in Nat
  BY <1>2 DEF TurnRecord
<1>7. elements[m] \in 0 .. MaxFiles
  BY <1>2, <1>4
<1> HIDE DEF m
<1>8. <<m, Len(turn[t].ids) + 1>> \in FileId
  BY <1>1, <1>2, <1>4, <1>6, <1>7 DEF FileId
<1>9. /\ ids \in Seq(FileId) /\ Len(ids) = Len(turn[t].ids) + 1
      /\ \A i \in 1 .. Len(turn[t].ids) : ids[i] = turn[t].ids[i]
      /\ ids[Len(turn[t].ids) + 1] = <<m, Len(turn[t].ids) + 1>>
  BY <1>6, <1>8
<1>10. \A i \in 1 .. Len(ids) : ids[i] = <<m, i>>
  BY <1>5, <1>6, <1>9 DEF Uploads, m
<1> HIDE DEF ids
<1>11. /\ r \in TurnRecord /\ r.state = "uploading" /\ r.of = turn[t].of /\ r.flag = turn[t].flag
       /\ r.items = turn[t].items /\ r.late = turn[t].late /\ r.ids = ids
  BY <1>1, <1>6, <1>9 DEF TurnRecord
<1> HIDE DEF r
<1>12. turn'[t] = r
  BY <1>2, <1>3
<1>13. UNCHANGED <<elements, attached, everRefused, forgotten>>
  BY <1>1 DEF memory, past
<1>14. Uploads(t)'
  <2>1. OwnItem(t)'
    BY <1>5, <1>11, <1>12, <1>13 DEF Uploads, OwnItem, IsLastUser, UserItems
  <2>2. NoFiles(turn[t].items)'
    BY <1>5, <1>11, <1>12 DEF Uploads, NoFiles
  <2>3. Len(ids) <= elements[m]
    BY <1>1, <1>6, <1>7, <1>9
  <2> QED
    BY <1>5, <1>10, <1>11, <1>12, <1>13, <2>1, <2>2, <2>3 DEF Uploads, m
<1>15. Progress(t)'
  BY <1>11, <1>12, <1>14 DEF Progress
<1> QED
  BY <1>1, <1>3, <1>11, <1>15, OnlyTurn DEF Running

(* A turn whose uploads are all there has its message's files.             *)
LEMMA AllUploaded ==
  ASSUME InputInv, NEW t \in TurnId, turn[t].state \in {"uploading", "saving"},
         turn[t].state = "uploading" => Len(turn[t].ids) = elements[turn[t].of]
  PROVE  /\ turn[t].of \in TurnId /\ WasSent(turn[t].of) /\ turn[t].of \notin forgotten
         /\ turn[t].ids = FilesOf(turn[t].of) /\ Uploads(t)
<1> DEFINE m == turn[t].of
<1>1. m \in TurnId /\ WasSent(m)
  BY DEF InputInv, TurnsOfSent, Running
<1>2. Uploads(t) /\ (turn[t].state = "saving" => turn[t].ids = FilesOf(m))
  BY DEF InputInv, TurnsProgress, Progress
<1>3. elements[m] # 0
  BY <1>2 DEF Uploads
<1> HIDE DEF m
<1>4. elements[m] = attached[m] /\ m \notin forgotten
  BY <1>1, <1>3, Files
<1>5. CASE turn[t].state = "uploading"
  <2>1. turn[t].ids \in Seq(FileId)
    BY InputTypes DEF InputInv, TurnRecord
  <2>2. Len(turn[t].ids) = attached[m]
    BY <1>4, <1>5 DEF m
  <2>3. \A i \in 1 .. attached[m] : turn[t].ids[i] = <<m, i>>
    BY <1>2, <2>2 DEF Uploads, m
  <2>4. /\ FilesOf(m) \in Seq(FileId) /\ Len(FilesOf(m)) = attached[m]
        /\ \A i \in 1 .. attached[m] : FilesOf(m)[i] = <<m, i>>
    BY <1>1, Files DEF FilesOf
  <2> DEFINE a == turn[t].ids
             b == FilesOf(m)
  <2>6. a \in Seq(FileId) /\ b \in Seq(FileId) /\ Len(a) = Len(b)
    BY <2>1, <2>2, <2>4
  <2>7. \A i \in 1 .. Len(a) : a[i] = b[i]
    BY <2>2, <2>3, <2>4
  <2> HIDE DEF a, b
  <2>8. a = b
    BY <2>6, <2>7, SeqEqual
  <2>5. turn[t].ids = FilesOf(m)
    BY <2>8 DEF a, b
  <2> QED
    BY <1>1, <1>2, <1>4, <2>5 DEF m
<1>6. CASE turn[t].state = "saving"
  BY <1>1, <1>2, <1>4, <1>6 DEF m
<1> QED
  BY <1>5, <1>6

LEMMA SaveIdsStep ==
  ASSUME InputInv, NEW t \in TurnId, SaveFileIds(t)
  PROVE  InputInv'
<1> DEFINE m == turn[t].of
           r == [turn[t] EXCEPT !.state = "saving"]
           ids == turn[t].ids
           flag == turn[t].flag
<1>1. /\ turn[t].state = "uploading" /\ Len(ids) = elements[m]
      /\ fileIds' = [fileIds EXCEPT ![m] = ids]
      /\ overwritten' = IF m \in refused /\ ~flag THEN overwritten \cup {m} ELSE overwritten
      /\ UNCHANGED <<elements, uploads, saved, busy, continuing, disruptions, attached, refused,
                     everRefused, forgotten, unmarked>>
  BY DEF SaveFileIds
<1>2. chat' = [i \in DOMAIN chat |->
                 IF i \in UserEntry(m) THEN [chat[i] EXCEPT !.excluded = flag] ELSE chat[i]]
  BY DEF SaveFileIds
<1>a. /\ turn \in [TurnId -> TurnRecord] /\ fileIds \in [TurnId -> Seq(FileId)]
      /\ overwritten \subseteq TurnId
  BY InputTypes DEF InputInv
<1>3. turn' = [turn EXCEPT ![t] = r]
  BY <1>a DEF SaveFileIds
<1>4. /\ m \in TurnId /\ WasSent(m) /\ m \notin forgotten /\ ids = FilesOf(m) /\ Uploads(t)
  BY <1>1, AllUploaded
<1>5. turn[t] \in TurnRecord /\ ids \in Seq(FileId) /\ flag \in BOOLEAN
  BY <1>a DEF TurnRecord
<1>6. flag => m \in everRefused
  BY <1>4 DEF Uploads
<1>7. /\ r \in TurnRecord /\ r.state = "saving" /\ r.of = m /\ r.ids = ids /\ r.flag = flag
      /\ r.items = turn[t].items /\ r.late = turn[t].late
  BY <1>5 DEF TurnRecord, States
<1> HIDE DEF r
<1>8. /\ turn' \in [TurnId -> TurnRecord] /\ turn'[t] = r
      /\ \A s \in TurnId : s # t => turn'[s] = turn[s]
      /\ \A n \in TurnId : WasSent(n) <=> WasSent(n)'
      /\ TurnsOfSent'
  BY <1>1, <1>3, <1>7, OneTurn DEF Running
<1>9. Progress(t)'
  <2>1. OwnItem(t)'
    BY <1>1, <1>4, <1>7, <1>8 DEF Uploads, OwnItem, IsLastUser, UserItems
  <2>2. NoFiles(turn[t].items)'
    BY <1>4, <1>7, <1>8 DEF Uploads, NoFiles
  <2>3. Uploads(t)'
    BY <1>1, <1>4, <1>7, <1>8, <2>1, <2>2 DEF Uploads
  <2>4. FilesOf(m)' = FilesOf(m)
    BY <1>1, <1>8, <1>7 DEF FilesOf
  <2>5. turn'[t].ids = FilesOf(turn[t].of)'
    BY <1>1, <1>4, <1>7, <1>8 DEF FilesOf
  <2> QED
    BY <1>7, <1>8, <2>3, <2>5 DEF Progress
<1> HIDE DEF m, ids, flag
<1>10. /\ chat' \in Seq(Entry) /\ Len(chat') = Len(chat)
       /\ \A i \in 1 .. Len(chat) :
            /\ chat'[i].kind = chat[i].kind /\ chat'[i].of = chat[i].of
            /\ chat'[i].error = chat[i].error
            /\ chat[i].kind = "user" /\ chat[i].of = m => chat'[i].excluded = flag
            /\ ~(chat[i].kind = "user" /\ chat[i].of = m) => chat'[i].excluded = chat[i].excluded
  <2>1. /\ Len(chat) \in Nat /\ DOMAIN chat = 1 .. Len(chat)
        /\ \A i \in 1 .. Len(chat) : chat[i] \in Entry
    BY Entries
  <2>2. \A i \in 1 .. Len(chat) : i \in UserEntry(m) <=> chat[i].kind = "user" /\ chat[i].of = m
    BY <2>1 DEF UserEntry
  <2>3. \A i \in 1 .. Len(chat) :
          chat'[i] = IF i \in UserEntry(m) THEN [chat[i] EXCEPT !.excluded = flag] ELSE chat[i]
    BY <1>2, <2>1
  <2>4. /\ DOMAIN chat' = 1 .. Len(chat) /\ chat' = [i \in 1 .. Len(chat) |-> chat'[i]]
    BY <1>2, <2>1
  <2>5. ASSUME NEW i \in 1 .. Len(chat)
        PROVE  /\ chat'[i] \in Entry
               /\ chat'[i].kind = chat[i].kind /\ chat'[i].of = chat[i].of
               /\ chat'[i].error = chat[i].error
               /\ chat[i].kind = "user" /\ chat[i].of = m => chat'[i].excluded = flag
               /\ ~(chat[i].kind = "user" /\ chat[i].of = m) => chat'[i].excluded = chat[i].excluded
    BY <1>5, <2>1, <2>2, <2>3 DEF Entry
  <2>6. chat' \in Seq(Entry)
    BY <2>1, <2>4, <2>5
  <2> QED
    BY <2>1, <2>4, <2>5, <2>6
<1>11. EntriesTell'
  <2>1. EntriesTell
    BY DEF InputInv
  <2>2. \A n \in TurnId : WasSent(n) => turn'[n].state # "none"
    BY <1>8 DEF WasSent
  <2>3. ASSUME NEW i \in 1 .. Len(chat)
        PROVE  /\ chat'[i].kind = "user" =>
                    /\ chat'[i].of \in TurnId /\ turn'[chat'[i].of].state # "none" /\ ~chat'[i].error
                    /\ chat'[i].excluded => chat'[i].of \in everRefused
               /\ chat'[i].kind # "user" => chat'[i].of = 0
               /\ chat'[i].kind = "failed" => chat'[i].error \/ chat'[i].excluded
               /\ chat'[i].kind = "notice" => chat'[i].excluded
    BY <1>6, <1>10, <2>1, <2>2 DEF EntriesTell
  <2> QED
    BY <1>1, <1>10, <2>3 DEF EntriesTell, WasSent
<1>12. SomeUserEntry'
  BY <1>8, <1>10 DEF InputInv, SomeUserEntry
<1>13. /\ fileIds' \in [TurnId -> Seq(FileId)] /\ fileIds'[m] = ids
       /\ \A n \in TurnId : n # m => fileIds'[n] = fileIds[n]
  BY <1>1, <1>4, <1>5, <1>a
<1>14. UnsentIsBlank'
  <2> SUFFICES ASSUME NEW n \in TurnId, ~WasSent(n)
               PROVE  /\ attached'[n] = 0 /\ elements'[n] = 0 /\ fileIds'[n] = <<>>
                      /\ saved'[n].ids = <<>> /\ ~saved'[n].excluded
                      /\ n \notin everRefused' /\ n \notin forgotten'
    BY <1>8 DEF UnsentIsBlank
  <2>1. n # m
    BY <1>4
  <2> QED
    BY <1>1, <1>13, <2>1 DEF InputInv, UnsentIsBlank
<1>15. FilesKept'
  <2>1. FilesKept
    BY DEF InputInv
  <2>2. \A n \in TurnId : FilesOf(n)' = FilesOf(n)
    BY <1>1 DEF FilesOf
  <2>3. \A n \in TurnId :
          \/ fileIds'[n] = fileIds[n]
          \/ n = m /\ fileIds'[n] = FilesOf(n) /\ n \notin forgotten
    BY <1>4, <1>13
  <2> QED
    BY <1>1, <2>1, <2>2, <2>3 DEF FilesKept
<1>16. BlockedMarked'
  <2> SUFFICES ASSUME NEW n \in refused', n \notin unmarked', n \notin overwritten',
                      NEW i \in 1 .. Len(chat'), chat'[i].kind = "user", chat'[i].of = n
               PROVE  chat'[i].excluded
    BY DEF BlockedMarked
  <2>1. CASE n = m
    BY <1>1, <1>10, <2>1
  <2>2. CASE n # m
    <3>1. n \in refused /\ n \notin unmarked /\ n \notin overwritten
      BY <1>1
    <3>2. i \in 1 .. Len(chat) /\ chat[i].kind = "user" /\ chat[i].of = n
      BY <1>10
    <3>3. chat[i].excluded
      BY <3>1, <3>2 DEF InputInv, BlockedMarked
    <3> QED
      BY <1>10, <2>2, <3>2, <3>3
  <2> QED
    BY <2>1, <2>2
<1>17. TurnsProgress'
  BY <1>1, <1>8, <1>9, OtherTurns
<1>18. InputTypeOK'
  <2>1. overwritten' \subseteq TurnId
    BY <1>1, <1>4, <1>a
  <2> QED
    BY <1>1, <1>8, <1>10, <1>13, <2>1 DEF InputInv, InputTypeOK, TurnRecord
<1> QED
  BY <1>8, <1>11, <1>12, <1>14, <1>15, <1>16, <1>17, <1>18 DEF InputInv

LEMMA IdsSavedStep ==
  ASSUME InputInv, NEW t \in TurnId, FileIdsSaved(t)
  PROVE  InputInv'
<1> DEFINE m == turn[t].of
           q == WithFileParts(turn[t].items, turn[t].ids)
           r == [turn[t] EXCEPT !.state = "asked", !.items = q]
<1>1. /\ turn[t].state = "saving"
      /\ UNCHANGED <<memory, saved, busy, continuing, disruptions, past>>
  BY DEF FileIdsSaved
<1>2. turn \in [TurnId -> TurnRecord]
  BY InputTypes DEF InputInv
<1>3. turn' = [turn EXCEPT ![t] = r]
  BY <1>2 DEF FileIdsSaved
<1>4. m \in TurnId /\ m \notin forgotten /\ turn[t].ids = FilesOf(m) /\ Uploads(t)
  BY <1>1, AllUploaded
<1>5. /\ turn[t] \in TurnRecord /\ turn[t].items \in Seq(Item) /\ turn[t].ids \in Seq(FileId)
      /\ turn[t].late \in BOOLEAN
  BY <1>2 DEF TurnRecord
<1>6. NoFiles(turn[t].items)
  BY <1>4 DEF Uploads
<1>7. q \in Seq(Item)
  BY <1>5, <1>6, PartsAdded
<1>8. CarriesFilesOf(q, m, turn[t].late)
  <2>1. turn[t].ids = KeptIds(m)
    BY <1>4 DEF KeptIds
  <2>2. m \notin everRefused /\ ~turn[t].late =>
          \E i \in DOMAIN turn[t].items :
            IsLastUser(turn[t].items, i) /\ turn[t].items[i].of = m
    BY <1>4 DEF Uploads, OwnItem
  <2> QED
    BY <1>4, <1>5, <1>6, <2>1, <2>2, Carried
<1> HIDE DEF q
<1>9. /\ r \in TurnRecord /\ r.state = "asked" /\ r.of = m /\ r.items = q /\ r.late = turn[t].late
  BY <1>5, <1>7 DEF TurnRecord, States
<1> HIDE DEF r
<1>10. turn'[t] = r
  BY <1>2, <1>3
<1>11. UNCHANGED <<elements, attached, everRefused, forgotten>>
  BY <1>1 DEF memory, past
<1>12. CarriesFiles(t)'
  BY <1>8, <1>9, <1>10, <1>11 DEF CarriesFiles, CarriesFilesOf, FilesOf, Carriers
<1>13. Progress(t)'
  BY <1>9, <1>10, <1>12 DEF Progress
<1> QED
  BY <1>1, <1>3, <1>9, <1>13, OnlyTurn DEF Running

-----------------------------------------------------------------------------
(* Theorems.                                                               *)

(* Every step of the conversation keeps the invariant: what was sent, what *)
(* the messages have and how far the turns are fit together.               *)
THEOREM InputInductive == InputInv /\ [InputNext]_inputVars => InputInv'
<1> SUFFICES ASSUME InputInv, [InputNext]_inputVars PROVE InputInv'
  OBVIOUS
<1>1. CASE UNCHANGED inputVars
  <2>1. UNCHANGED <<chat, elements, fileIds, uploads, saved, turn, busy, continuing, disruptions,
                    attached, refused, everRefused, forgotten, unmarked, overwritten>>
    BY <1>1 DEF inputVars, memory, past
  <2>2. /\ TurnsProgress' /\ TurnsOfSent' /\ \A m \in TurnId : WasSent(m) <=> WasSent(m)'
    BY <2>1, SameTurns
  <2>3. EntriesTell' /\ SomeUserEntry' /\ BlockedMarked'
    BY <2>1, <2>2, SameChat
  <2>4. UnsentIsBlank' /\ FilesKept'
    BY <2>1, <2>2, SameFiles
  <2>5. InputTypeOK'
    BY <2>1 DEF InputInv, InputTypeOK
  <2> QED
    BY <2>2, <2>3, <2>4, <2>5 DEF InputInv
<1>2. ASSUME NEW t \in TurnId, TurnStep(t) PROVE InputInv'
  <2>1. CASE \E files \in {0, MaxFiles} : SendMessage(t, files)
    BY <2>1, SendStep
  <2>2. CASE \E m \in TurnId : EditMessage(t, m)
    BY <2>2, EditStep
  <2>3. CASE Block(t)
    BY <2>3, BlockStep
  <2>4. CASE Build(t)
    BY <2>4, BuildStep
  <2>5. CASE Upload(t)
    BY <2>5, UploadStep
  <2>6. CASE SaveFileIds(t)
    BY <2>6, SaveIdsStep
  <2>7. CASE FileIdsSaved(t)
    BY <2>7, IdsSavedStep
  <2>8. CASE Publish(t) \/ Report(t) \/ StopTurn(t)
    <3>1. turn[t].state # "none"
      BY <2>8 DEF Publish, Report, StopTurn
    <3>2. PICK kind \in {"answer", "failed", "notice", "stop", "open"} : EndsWith(t, kind)
      BY <2>8 DEF Publish, Report, StopTurn
    <3> QED
      BY <3>1, <3>2, EndStep
  <2>9. CASE Raise(t)
    BY <2>9, RaiseStep
  <2> QED
    BY <1>2, <2>1, <2>2, <2>3, <2>4, <2>5, <2>6, <2>7, <2>8, <2>9 DEF TurnStep
<1>3. CASE \E m \in TurnId : SaveMetadata(m)
  BY <1>3, SaveMetadataStep
<1>4. CASE \E kind \in {"answered", "cancelled"} : CloseReview(kind)
  BY <1>4, CloseStep
<1>5. CASE Continue
  BY <1>5, ContinueStep
<1>6. CASE Reconnected
  BY <1>6, ReconnectedStep
<1>7. CASE Restart
  BY <1>7, RestartStep
<1> QED
  BY <1>1, <1>2, <1>3, <1>4, <1>5, <1>6, <1>7 DEF InputNext

THEOREM InputInvariant == InputSpec => []InputInv
  BY InitInput, InputInductive, PTL DEF InputSpec

(* Every request carries the files of its message once and in order, in    *)
(* the message's own item unless it was blocked once or another message    *)
(* came before the turn began.                                             *)
THEOREM AlwaysCarriesFiles == InputSpec => []RequestCarriesFiles
<1>1. InputInv => RequestCarriesFiles
  BY DEF InputInv, TurnsProgress, Progress, RequestCarriesFiles
<1> QED
  BY <1>1, InputInvariant, PTL

\* An item that may be sent: a gap, or part of the conversation that is not
\* blocked, with the exceptions of OnlyConversation.
Sendable(item) ==
  /\ item = Omitted \/ item.kind \in {"user", "answer", "answered"}
  /\ item.of \in refused => item.of \in unmarked \cup overwritten

(* What is projected from the chat may be sent.                            *)
LEMMA ProjectionSendable ==
  ASSUME InputInv, NEW i \in DOMAIN ResponseInput
  PROVE  Sendable(ResponseInput[i])
<1>a. /\ Len(chat) \in Nat /\ DOMAIN chat = 1 .. Len(chat) /\ i \in 1 .. Len(chat)
      /\ chat[i] \in Entry /\ 0 \notin refused
  BY InputTypes, InputOfChat DEF InputInv
<1>1. ResponseInput[i] =
        IF (IF IsReview(chat[i]) THEN chat[i].kind = "answered" ELSE IsModelContext(chat[i]))
        THEN [kind |-> chat[i].kind, of |-> chat[i].of, files |-> <<>>] ELSE Omitted
  BY <1>a DEF ResponseInput
<1>2. CASE ResponseInput[i] = Omitted
  BY <1>a, <1>2 DEF Sendable, Omitted
<1>3. CASE /\ IF IsReview(chat[i]) THEN chat[i].kind = "answered" ELSE IsModelContext(chat[i])
           /\ ResponseInput[i] = [kind |-> chat[i].kind, of |-> chat[i].of, files |-> <<>>]
  <2>1. chat[i].kind \in {"user", "answer", "answered"}
    BY <1>a, <1>3 DEF IsReview, IsModelContext, Entry, Kinds, InputInv, EntriesTell
  <2>2. chat[i].kind # "user" => chat[i].of = 0
    BY <1>a DEF InputInv, EntriesTell
  <2>3. chat[i].kind = "user" => ~chat[i].excluded
    BY <1>3 DEF IsReview, IsModelContext
  <2>4. chat[i].of \in refused => chat[i].of \in unmarked \cup overwritten
    BY <1>a, <2>2, <2>3 DEF InputInv, BlockedMarked
  <2> QED
    BY <1>3, <2>1, <2>4 DEF Sendable
<1> QED
  BY <1>1, <1>2, <1>3

(* And the files change nothing about that.                                *)
LEMMA PartsSendable ==
  ASSUME InputInv, NEW items \in Seq(Item), \A j \in DOMAIN items : Sendable(items[j]),
         NEW ids \in Seq(FileId), NEW i \in DOMAIN WithFileParts(items, ids)
  PROVE  Sendable(WithFileParts(items, ids)[i])
<1> DEFINE q == WithFileParts(items, ids)
<1>1. items \in Seq(Item) /\ DOMAIN items = 1 .. Len(items) /\ Len(items) \in Nat
  OBVIOUS
<1>2. \A j \in DOMAIN items : Sendable(items[j])
  OBVIOUS
<1>3. 0 \notin refused
  BY InputTypes DEF InputInv
<1>4. CASE ids = <<>>
  BY <1>2, <1>4 DEF WithFileParts
<1>5. CASE ids # <<>> /\ UserItems(items) = {}
  <2> DEFINE new == [kind |-> "user", of |-> 0, files |-> ids]
  <2>1. q = Append(items, new)
    BY <1>5 DEF WithFileParts
  <2>2. Sendable(new)
    BY <1>3 DEF Sendable
  <2>3. i \in 1 .. Len(items) + 1
    BY <1>1, <2>1
  <2> HIDE DEF new, q
  <2>4. q[i] = IF i \in 1 .. Len(items) THEN items[i] ELSE new
    BY <1>1, <2>1, <2>3
  <2> QED
    BY <1>1, <1>2, <2>2, <2>4 DEF q
<1>6. CASE ids # <<>> /\ UserItems(items) # {}
  <2>1. /\ i \in DOMAIN items
        /\ q[i] = IF IsLastUser(items, i) THEN [items[i] EXCEPT !.files = @ \o ids] ELSE items[i]
    BY <1>6 DEF WithFileParts
  <2>2. CASE IsLastUser(items, i)
    <3>1. items[i] \in Item /\ items[i].kind = "user"
      BY <1>1, <2>1, <2>2 DEF IsLastUser, UserItems
    <3>2. q[i].kind = "user" /\ q[i].of = items[i].of
      BY <2>1, <2>2, <3>1 DEF Item
    <3> QED
      BY <1>2, <2>1, <3>2 DEF Sendable
  <2>3. CASE ~IsLastUser(items, i)
    BY <1>2, <2>1, <2>3
  <2> QED
    BY <2>2, <2>3
<1> QED
  BY <1>4, <1>5, <1>6

(* A step gives a turn that has begun no input or the one it builds.       *)
LEMMA InputOfBegun ==
  ASSUME InputInv, InputNext, NEW t \in TurnId, turn[t].state = "begun"
  PROVE  \/ turn'[t].items = <<>>
         \/ \E ids \in Seq(FileId) : turn'[t].items = WithFileParts(ResponseInput, ids)
<1>1. turn \in [TurnId -> TurnRecord] /\ fileIds \in [TurnId -> Seq(FileId)]
  BY InputTypes DEF InputInv
<1>2. turn[t].items = <<>>
  BY DEF InputInv, TurnsProgress, Progress
<1>3. CASE turn'[t] = turn[t]
  BY <1>2, <1>3
<1>4. ASSUME NEW s \in TurnId, TurnStep(s), s # t PROVE turn'[t] = turn[t]
  BY <1>1, <1>4 DEF TurnStep, SendMessage, EditMessage, Start, Block, Build, Upload, SaveFileIds,
       FileIdsSaved, Publish, Raise, Report, StopTurn, EndsWith
<1>5. ASSUME TurnStep(t)
      PROVE  \/ turn'[t].items = <<>>
             \/ \E ids \in Seq(FileId) : turn'[t].items = WithFileParts(ResponseInput, ids)
  <2>1. Block(t) \/ Build(t) \/ StopTurn(t)
    BY <1>5 DEF TurnStep, SendMessage, EditMessage, FreeTurn, Upload, SaveFileIds, FileIdsSaved,
         Publish, Raise, Report
  <2>2. CASE Block(t)
    BY <1>1, <2>2, TurnValues DEF Block
  <2>3. CASE StopTurn(t)
    BY <1>1, <2>3, TurnValues DEF StopTurn, EndsWith
  <2>4. CASE Build(t)
    <3> DEFINE m == turn[t].of
    <3>1. m \in TurnId /\ fileIds[m] \in Seq(FileId) /\ <<>> \in Seq(FileId)
      BY <1>1 DEF InputInv, TurnsOfSent, Running
    <3> HIDE DEF m
    <3>2. /\ turn' = [turn EXCEPT ![t] = turn'[t]]
          /\ \/ \E state, ids : /\ turn'[t] = Built(t, state, ids) /\ ids \in {<<>>, fileIds[m]}
             \/ turn'[t] = [Over EXCEPT !.state = "reporting"]
      BY <1>1, <2>4 DEF Build, m
    <3>3. CASE turn'[t] = [Over EXCEPT !.state = "reporting"]
      BY <3>3, TurnValues
    <3>4. ASSUME NEW state, NEW ids, turn'[t] = Built(t, state, ids), ids \in {<<>>, fileIds[m]}
          PROVE  \E i \in Seq(FileId) : turn'[t].items = WithFileParts(ResponseInput, i)
      <4>1. Built(t, state, ids).items = WithFileParts(ResponseInput, ids)
        BY <1>1 DEF Built, TurnRecord
      <4> QED
        BY <3>1, <3>4, <4>1
    <3> QED
      BY <3>2, <3>3, <3>4
  <2> QED
    BY <2>1, <2>2, <2>3, <2>4
<1>6. CASE Restart
  BY <1>6, TurnValues DEF Restart
<1>7. CASE \/ \E m \in TurnId : SaveMetadata(m)
           \/ \E kind \in {"answered", "cancelled"} : CloseReview(kind)
           \/ Continue \/ Reconnected
  BY <1>3, <1>7 DEF SaveMetadata, CloseReview, Continue, Reconnected
<1> QED
  BY <1>3, <1>4, <1>5, <1>6, <1>7 DEF InputNext

(* Only the conversation is sent: no failed, blocked or UI-only message,   *)
(* no Stop notice and no review that is open or cancelled.                 *)
THEOREM AlwaysConversation == InputSpec => OnlyConversation
<1>1. InputInv /\ InputNext => OnlyConversationStep
  <2> SUFFICES ASSUME InputInv, InputNext, NEW t \in TurnId, turn[t].state = "begun",
                      NEW i \in DOMAIN turn'[t].items
               PROVE  Sendable(turn'[t].items[i])
    BY DEF OnlyConversationStep, Sendable
  <2>1. CASE turn'[t].items = <<>>
    BY <2>1
  <2>2. CASE \E ids \in Seq(FileId) : turn'[t].items = WithFileParts(ResponseInput, ids)
    <3>1. PICK ids \in Seq(FileId) : turn'[t].items = WithFileParts(ResponseInput, ids)
      BY <2>2
    <3>2. /\ ResponseInput \in Seq(Item)
          /\ \A j \in DOMAIN ResponseInput : Sendable(ResponseInput[j])
      BY InputOfChat, ProjectionSendable
    <3> QED
      BY <3>1, <3>2, PartsSendable
  <2> QED
    BY <2>1, <2>2, InputOfBegun
<1> QED
  BY <1>1, InputInvariant, PTL DEF InputSpec, OnlyConversation
=============================================================================

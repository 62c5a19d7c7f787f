------------------------- MODULE SpeechPlayerProofs --------------------------
(***************************************************************************)
(* Proofs about SpeechPlayer for answers of any number of parts.           *)
(***************************************************************************)
EXTENDS SpeechPlayer, TLAPS

-----------------------------------------------------------------------------
(* The inductive invariant.                                                *)

\* How many parts the loop has chained, unless it has ended.
Chained == IF loop = "draining" THEN part + 1 ELSE part

\* The plays in the chain are of successive parts, up to the last one chained.
InOrder(q) == \A i, j \in 1 .. Len(q) : q[j] = q[i] + (j - i)
ChainInOrder ==
  /\ InOrder(queue)
  /\ loop # "off" /\ queue # <<>> => queue[Len(queue)] = Chained - 1

\* Only the play at the head of the chain is called, and until it settles its
\* audio sounds or will report its pause; stop silences it.
HeadSounds ==
  /\ \A p \in begun : queue # <<>> /\ p = queue[1]
  /\ pauseDue \subseteq begun
  /\ pauseDue # {} => stopped
  /\ \A p \in Part :
       /\ audio[p] # "off" => p \in begun /\ p = current /\ p \notin pauseDue /\ ~stopped
       /\ p \in begun => audio[p] # "off" \/ p \in pauseDue

\* What the button shows, and when the chain is given up.
LabelsLoop ==
  /\ loop = "off" <=> label = "idle"
  /\ loop = "off" => stopped \/ queue = <<>>
  /\ rejected => stopped /\ queue = <<>>

\* A part that is asked for is not cached, and a reading that nobody stopped
\* has begun every part that left the chain.
ReadingCounts ==
  /\ loop = "cached" => part \in clips
  /\ loop = "draining" => part \in Part
  /\ loop = "asked" => part \notin clips /\ part \in Part \cup {0}
  /\ ~stopped /\ loop = "draining" => part + 1 = Parts
  /\ ~stopped /\ loop # "off" =>
       played = Chained - Len(queue) + (IF begun = {} THEN 0 ELSE 1)

SpeechInv ==
  /\ TypeOK
  /\ ChainInOrder
  /\ HeadSounds
  /\ LabelsLoop
  /\ ReadingCounts

-----------------------------------------------------------------------------
(* The chain as a sequence.                                                *)

(* Parts are numbers.                                                      *)
LEMMA PartIsInt == \A p \in Part : p \in Int
  BY PartsAssumption DEF Part

(* The least element of a set of integers is the one below all others.     *)
LEMMA MinIsLeast ==
  ASSUME NEW S \in SUBSET Int, NEW m \in S, \A x \in S : m <= x
  PROVE  Min(S) = m
<1> DEFINE least == CHOOSE x \in S : \A y \in S : x <= y
<1>1. least \in S /\ \A y \in S : least <= y
  OBVIOUS
<1> HIDE DEF least
<1>2. least = m
  BY <1>1
<1> QED
  BY <1>2 DEF Min, least

(* To remove its head from the chain leaves the chain's tail.              *)
LEMMA RemoveHead ==
  ASSUME NEW q \in Seq(Part), q # <<>>
  PROVE  RemoveFirst(q, q[1]) = Tail(q)
<1>1. SelectInSeq(q, LAMBDA v : v = q[1]) = 1
  <2> DEFINE I == {i \in 1 .. Len(q) : q[i] = q[1]}
  <2>1. 1 \in I /\ \A i \in I : 1 <= i
    OBVIOUS
  <2>2. I \in SUBSET Int
    OBVIOUS
  <2>3. Min(I) = 1
    <3> HIDE DEF I
    <3> QED
      BY <2>1, <2>2, MinIsLeast
  <2> QED
    BY <2>1, <2>3 DEF SelectInSeq
<1>2. RemoveAt(q, 1) = Tail(q)
  BY DEF RemoveAt
<1>3. \E i \in 1 .. Len(q) : q[i] = q[1]
  OBVIOUS
<1> QED
  BY <1>1, <1>2, <1>3 DEF RemoveFirst

(* The tail of a chain of successive parts is one, of the parts after its  *)
(* head.                                                                   *)
LEMMA TailInOrder ==
  ASSUME NEW q \in Seq(Part), q # <<>>, InOrder(q)
  PROVE  /\ Tail(q) \in Seq(Part) /\ Len(Tail(q)) = Len(q) - 1 /\ InOrder(Tail(q))
         /\ Tail(q) # <<>> => Tail(q)[Len(Tail(q))] = q[Len(q)]
         /\ q[1] \notin ToSet(Tail(q))
<1>1. Tail(q) \in Seq(Part) /\ Len(Tail(q)) = Len(q) - 1
  OBVIOUS
<1>2. \A i \in 1 .. Len(q) - 1 : Tail(q)[i] = q[i + 1]
  OBVIOUS
<1>3. InOrder(Tail(q))
  BY <1>1, <1>2 DEF InOrder
<1>4. Tail(q) # <<>> => Tail(q)[Len(Tail(q))] = q[Len(q)]
  BY <1>1, <1>2
<1>5. ASSUME NEW i \in 1 .. Len(q) - 1 PROVE Tail(q)[i] # q[1]
  <2>1. q[i + 1] = q[1] + ((i + 1) - 1) 
    BY DEF InOrder
  <2>2. q[1] \in Int
    BY PartIsInt
  <2> QED
    BY <1>2, <2>1, <2>2
<1>6. q[1] \notin ToSet(Tail(q))
  BY <1>1, <1>5 DEF ToSet
<1> QED
  BY <1>1, <1>3, <1>4, <1>6

(* A chain of successive parts holds no part twice.                        *)
LEMMA InOrderInjective ==
  ASSUME NEW q \in Seq(Part), InOrder(q)
  PROVE  IsInjective(q)
<1> SUFFICES ASSUME NEW i \in 1 .. Len(q), NEW j \in 1 .. Len(q), q[i] = q[j]
             PROVE  i = j
  BY DEF IsInjective
<1>1. q[j] = q[i] + (j - i) /\ q[i] \in Int
  BY PartsAssumption DEF InOrder, Part
<1> QED
  BY <1>1

(* The next part may join a chain of successive parts.                     *)
LEMMA AppendInOrder ==
  ASSUME NEW q \in Seq(Part), InOrder(q), NEW p \in Part, q # <<>> => q[Len(q)] = p - 1
  PROVE  /\ Append(q, p) \in Seq(Part) /\ Len(Append(q, p)) = Len(q) + 1
         /\ InOrder(Append(q, p)) /\ Append(q, p)[Len(q) + 1] = p
         /\ q # <<>> => Append(q, p)[1] = q[1]
<1> DEFINE new == Append(q, p)
<1>1. /\ new \in Seq(Part) /\ Len(new) = Len(q) + 1 /\ new[Len(q) + 1] = p
      /\ \A i \in 1 .. Len(q) : new[i] = q[i]
  OBVIOUS
<1>2. \A i \in 1 .. Len(q) : q[i] \in Int /\ q[Len(q)] = q[i] + (Len(q) - i)
  <2>1. \A i \in 1 .. Len(q) : q[i] \in Int
    BY PartIsInt
  <2>2. \A i \in 1 .. Len(q) : Len(q) \in 1 .. Len(q)
    OBVIOUS
  <2> QED
    BY <2>1, <2>2 DEF InOrder
<1>3. ASSUME NEW i \in 1 .. Len(q) + 1, NEW j \in 1 .. Len(q) + 1
      PROVE  new[j] = new[i] + (j - i)
  <2> HIDE DEF new
  <2>1. p \in Int /\ \A k \in 1 .. Len(q) : new[k] \in Int /\ p = new[k] + ((Len(q) + 1) - k)
    <3>1. p \in Int
      BY PartIsInt
    <3>2. ASSUME NEW k \in 1 .. Len(q) PROVE new[k] \in Int /\ p = new[k] + ((Len(q) + 1) - k)
      <4>1. q # <<>> /\ new[k] = q[k] /\ q[k] \in Int /\ q[Len(q)] = q[k] + (Len(q) - k)
        BY <1>1, <1>2
      <4>2. q[Len(q)] = p - 1
        BY <4>1
      <4> QED
        BY <3>1, <4>1, <4>2
    <3> QED
      BY <3>1, <3>2
  <2>2. CASE i <= Len(q) /\ j <= Len(q)
    BY <1>1, <2>2 DEF InOrder
  <2>3. CASE i = Len(q) + 1 /\ j <= Len(q)
    BY <1>1, <2>1, <2>3
  <2>4. CASE i <= Len(q) /\ j = Len(q) + 1
    BY <1>1, <2>1, <2>4
  <2>5. CASE i = Len(q) + 1 /\ j = Len(q) + 1
    BY <1>1, <2>1, <2>5
  <2> QED
    BY <2>2, <2>3, <2>4, <2>5
<1> QED
  BY <1>1, <1>3 DEF InOrder

-----------------------------------------------------------------------------
(* What the steps have in common.                                          *)

(* stop silences the play that sounds, which is the only one: its pause is *)
(* still to be heard.                                                      *)
LEMMA StopSilences ==
  ASSUME TypeOK, HeadSounds, Stop, UNCHANGED <<queue, begun, current>>
  PROVE  /\ HeadSounds' /\ stopped' = TRUE
         /\ audio' \in [Part -> {"off", "starting", "on"}] /\ pauseDue' \subseteq Part
<1> USE DEF TypeOK, Stop
<1>1. \A p \in Part : audio'[p] = "off"
  BY DEF HeadSounds
<1>2. \A p \in begun : p \in pauseDue'
  <2> SUFFICES ASSUME NEW p \in begun, audio[p] # "off" PROVE p \in {current} \cap Part
    BY DEF HeadSounds, ToSet
  <2>1. p \in Part
    BY DEF ToSet
  <2> QED
    BY <2>1 DEF HeadSounds
<1>3. pauseDue' \subseteq begun
  BY DEF HeadSounds
<1> QED
  BY <1>1, <1>2, <1>3 DEF HeadSounds

(* Nothing is called of an empty chain, and nothing sounds then.           *)
LEMMA EmptyChain ==
  ASSUME TypeOK, HeadSounds, queue = <<>> \/ begun = {}
  PROVE  begun = {} /\ pauseDue = {} /\ \A p \in Part : audio[p] = "off"
  BY DEF TypeOK, HeadSounds

(* A play that resolves is the head of the chain.                          *)
LEMMA HeadResolves ==
  ASSUME TypeOK, ChainInOrder, HeadSounds, NEW p, queue # <<>>, p = queue[1],
         Resolve(p), UNCHANGED <<loop, part>>
  PROVE  /\ queue' = Tail(queue) /\ begun' = {} /\ rejected' = rejected
         /\ queue' \in Seq(Part) /\ Len(queue') = Len(queue) - 1
         /\ IsInjective(queue') /\ ChainInOrder'
<1>1. queue' = Tail(queue) /\ rejected' = rejected
  BY RemoveHead DEF TypeOK, Resolve
<1>2. begun' = {}
  BY DEF Resolve, HeadSounds
<1>3. /\ queue' \in Seq(Part) /\ Len(queue') = Len(queue) - 1 /\ InOrder(queue')
      /\ queue' # <<>> => queue'[Len(queue')] = queue[Len(queue)]
  BY <1>1, TailInOrder DEF TypeOK, ChainInOrder
<1>4. ChainInOrder'
  BY <1>3 DEF ChainInOrder, Chained
<1> QED
  BY <1>1, <1>2, <1>3, <1>4, InOrderInjective

(* The play at the head of a chain that nobody stopped is the next part.   *)
LEMMA HeadIsNext ==
  ASSUME SpeechInv, ~stopped, queue # <<>>
  PROVE  /\ loop # "off" /\ queue[1] \in Part
         /\ played = queue[1] + (IF begun = {} THEN 0 ELSE 1)
<1>1. loop # "off"
  BY DEF SpeechInv, LabelsLoop
<1>2. queue[1] \in Part /\ queue[1] \in Int /\ Len(queue) \in Nat \ {0} /\ part \in Int
  BY PartIsInt, PartsAssumption DEF SpeechInv, TypeOK
<1>3. queue[Len(queue)] = queue[1] + (Len(queue) - 1)
  BY <1>2 DEF SpeechInv, ChainInOrder, InOrder
<1>4. queue[Len(queue)] = Chained - 1 /\ Chained \in Int
  BY <1>1, <1>2 DEF SpeechInv, ChainInOrder, Chained
<1>5. played = Chained - Len(queue) + (IF begun = {} THEN 0 ELSE 1)
  BY <1>1 DEF SpeechInv, ReadingCounts
<1> QED
  BY <1>1, <1>2, <1>3, <1>4, <1>5

(* A part that is loaded joins the chain, unless the chain was given up.   *)
LEMMA ChainStep ==
  ASSUME SpeechInv, loop \in {"cached", "asked"}, part \in Part, Chain(part),
         clips' \in {clips, clips \cup {part}}
  PROVE  SpeechInv'
<1> USE DEF SpeechInv
<1>1. /\ UNCHANGED <<mounted, label, stopped, current, begun, rejected, audio, pauseDue, played>>
      /\ queue' = IF rejected THEN queue ELSE Append(queue, part)
      /\ \/ More(part) /\ loop' = "cached" /\ part + 1 \in clips /\ part' = part + 1
         \/ More(part) /\ loop' = "asked" /\ part' = part + 1 /\ part' \notin clips
         \/ (~More(part) \/ stopped) /\ loop' = "draining" /\ part' = part
  BY DEF Chain, Load, refs, media
<1>2. part \in 0 .. Parts /\ part \in Int /\ Parts \in Nat
      /\ (More(part) => part + 1 \in 0 .. Parts) /\ (~More(part) => part + 1 = Parts)
  BY PartsAssumption DEF Part, More
<1>a. clips \subseteq clips' /\ clips' \subseteq Part
  BY DEF TypeOK
<1>b. loop' = "asked" => part' \notin clips' /\ part' \in Part
  BY <1>1, <1>2 DEF More, Part
<1>3. part' \in 0 .. Parts /\ Chained' = part + 1 /\ Chained = part
  BY <1>1, <1>2 DEF Chained
<1>4. CASE rejected
  <2>1. queue' = queue /\ queue = <<>> /\ stopped
    BY <1>1, <1>4 DEF LabelsLoop
  <2>2. TypeOK'
    BY <1>1, <1>3, <1>a, <2>1 DEF TypeOK
  <2>3. ChainInOrder' /\ HeadSounds'
    BY <1>1, <2>1 DEF ChainInOrder, HeadSounds
  <2>4. LabelsLoop' /\ ReadingCounts'
    BY <1>1, <1>a, <1>b, <2>1 DEF LabelsLoop, ReadingCounts
  <2> QED
    BY <2>2, <2>3, <2>4
<1>5. CASE ~rejected
  <2>1. queue \in Seq(Part) /\ InOrder(queue) /\ (queue # <<>> => queue[Len(queue)] = part - 1)
    BY <1>3 DEF TypeOK, ChainInOrder
  <2>2. queue' = Append(queue, part)
    BY <1>1, <1>5
  <2>3. /\ queue' \in Seq(Part) /\ Len(queue') = Len(queue) + 1 /\ InOrder(queue')
        /\ queue'[Len(queue')] = part /\ (queue # <<>> => queue'[1] = queue[1])
    BY <2>1, <2>2, AppendInOrder
  <2>4. TypeOK'
    <3>1. IsInjective(queue')
      BY <2>3, InOrderInjective
    <3>2. begun' \subseteq ToSet(queue')
      <4> SUFFICES ASSUME NEW p \in begun PROVE p \in ToSet(queue')
        BY <1>1
      <4>1. p = queue'[1]
        BY <2>3 DEF HeadSounds
      <4> QED
        BY <2>3, <4>1 DEF ToSet
    <3> QED
      BY <1>1, <1>3, <1>a, <2>3, <3>1, <3>2 DEF TypeOK
  <2>5. ChainInOrder'
    BY <1>2, <1>3, <2>3 DEF ChainInOrder
  <2>6. HeadSounds'
    <3>1. \A p \in begun : queue' # <<>> /\ p = queue'[1]
      BY <2>3 DEF HeadSounds
    <3> QED
      BY <1>1, <3>1 DEF HeadSounds
  <2>7. LabelsLoop'
    BY <1>1, <1>5 DEF LabelsLoop
  <2>8. ReadingCounts'
    <3>1. ~stopped => played = part - Len(queue) + (IF begun = {} THEN 0 ELSE 1)
      BY <1>3 DEF ReadingCounts
    <3>2. ~stopped => played = (part + 1) - Len(queue') + (IF begun = {} THEN 0 ELSE 1)
      BY <1>2, <2>1, <2>3, <3>1
    <3> QED
      BY <1>1, <1>2, <1>3, <1>a, <1>b, <3>2 DEF ReadingCounts
  <2> QED
    BY <2>4, <2>5, <2>6, <2>7, <2>8
<1> QED
  BY <1>4, <1>5

-----------------------------------------------------------------------------
(* The steps.                                                              *)

(* stop, by a click or as the page goes, leaves loop and chain to go on.   *)
LEMMA StopStep ==
  ASSUME SpeechInv, Stop, UNCHANGED <<label, current, loop, part, clips, chain, played>>,
         mounted' \in BOOLEAN
  PROVE  SpeechInv'
<1> USE DEF SpeechInv, chain
<1>1. /\ HeadSounds' /\ stopped' = TRUE
      /\ audio' \in [Part -> {"off", "starting", "on"}] /\ pauseDue' \subseteq Part
  BY StopSilences
<1>2. TypeOK'
  BY <1>1 DEF TypeOK
<1>3. ChainInOrder' /\ LabelsLoop' /\ ReadingCounts'
  BY <1>1 DEF ChainInOrder, Chained, LabelsLoop, ReadingCounts
<1> QED
  BY <1>1, <1>2, <1>3

(* A reading begins on an empty chain, when nothing sounds.                *)
LEMMA ReadAloudStep == SpeechInv /\ ReadAloud => SpeechInv'
<1> SUFFICES ASSUME SpeechInv, ReadAloud PROVE SpeechInv'
  OBVIOUS
<1> USE DEF SpeechInv, chain, media
<1>1. /\ stopped' = FALSE /\ label' = "loading" /\ rejected' = FALSE /\ played' = 0
      /\ queue = <<>> /\ queue' = <<>> /\ part' = 0
      /\ (loop' = "cached" /\ 0 \in clips) \/ (loop' = "asked" /\ 0 \notin clips)
      /\ UNCHANGED <<mounted, current, clips, begun, audio, pauseDue>>
  BY DEF ReadAloud, Load
<1>2. begun = {} /\ pauseDue = {} /\ \A p \in Part : audio[p] = "off"
  BY <1>1, EmptyChain
<1>3. TypeOK'
  <2>1. 0 \in 0 .. Parts
    BY PartsAssumption
  <2> QED
    BY <1>1, <1>2, <2>1 DEF TypeOK
<1>4. ChainInOrder' /\ HeadSounds'
  BY <1>1, <1>2 DEF ChainInOrder, InOrder, HeadSounds
<1>5. LabelsLoop' /\ ReadingCounts'
  BY <1>1, <1>2 DEF LabelsLoop, ReadingCounts, Chained
<1> QED
  BY <1>3, <1>4, <1>5

(* The loop ends with its chain, or with a failure that stops the reading. *)
LEMMA LoopEndsStep == SpeechInv /\ (LoadFails \/ Drained) => SpeechInv'
<1> SUFFICES ASSUME SpeechInv, LoadFails \/ Drained PROVE SpeechInv'
  OBVIOUS
<1> USE DEF SpeechInv, chain, media
<1>1. /\ loop' = "off" /\ label' = "idle"
      /\ UNCHANGED <<mounted, current, part, clips, queue, begun, rejected, played>>
  BY DEF LoadFails, Drained
<1>2. CASE Stop
  <2>1. /\ HeadSounds' /\ stopped' = TRUE
        /\ audio' \in [Part -> {"off", "starting", "on"}] /\ pauseDue' \subseteq Part
    BY <1>1, <1>2, StopSilences
  <2>2. TypeOK'
    BY <1>1, <2>1 DEF TypeOK
  <2>3. ChainInOrder' /\ LabelsLoop' /\ ReadingCounts'
    BY <1>1, <2>1 DEF ChainInOrder, LabelsLoop, ReadingCounts
  <2> QED
    BY <2>1, <2>2, <2>3
<1>3. CASE ~Stop
  <2>1. queue = <<>> /\ UNCHANGED <<stopped, audio, pauseDue>>
    BY <1>3 DEF LoadFails, Drained
  <2>2. TypeOK'
    BY <1>1, <2>1 DEF TypeOK
  <2>3. ChainInOrder' /\ HeadSounds'
    BY <1>1, <2>1 DEF ChainInOrder, HeadSounds
  <2>4. LabelsLoop' /\ ReadingCounts'
    BY <1>1, <2>1 DEF LabelsLoop, ReadingCounts
  <2> QED
    BY <2>2, <2>3, <2>4
<1> QED
  BY <1>2, <1>3

(* A play is called: it begins the next part, or nothing after stop.       *)
LEMMA PlayStep ==
  ASSUME SpeechInv, NEW p \in Part, PlayUnlessStopped(p)
  PROVE  SpeechInv'
<1> USE DEF SpeechInv
<1>1. queue # <<>> /\ p = queue[1] /\ p \notin begun
  BY DEF PlayUnlessStopped, Turn, TypeOK
<1>2. begun = {}
  BY <1>1 DEF HeadSounds
<1>3. pauseDue = {} /\ \A q \in Part : audio[q] = "off"
  BY <1>2, EmptyChain
<1>4. UNCHANGED <<mounted, stopped, loop, part, clips, pauseDue>>
  BY DEF PlayUnlessStopped
<1>5. CASE stopped
  <2>1. Resolve(p) /\ UNCHANGED <<label, current, audio, played>>
    BY <1>5 DEF PlayUnlessStopped
  <2>2. /\ queue' = Tail(queue) /\ begun' = {} /\ rejected' = rejected
        /\ queue' \in Seq(Part) /\ IsInjective(queue') /\ ChainInOrder'
    BY <1>1, <1>4, <2>1, HeadResolves
  <2>3. TypeOK'
    BY <1>4, <2>1, <2>2 DEF TypeOK
  <2>4. HeadSounds'
    BY <1>3, <1>4, <2>1, <2>2 DEF HeadSounds
  <2>5. LabelsLoop' /\ ReadingCounts'
    BY <1>1, <1>4, <1>5, <2>1, <2>2 DEF LabelsLoop, ReadingCounts
  <2> QED
    BY <2>2, <2>3, <2>4, <2>5
<1>6. CASE ~stopped
  <2>1. /\ begun' = {p} /\ current' = p /\ audio' = [audio EXCEPT ![p] = "starting"]
        /\ label' = "playing" /\ played' = played + 1 /\ UNCHANGED <<queue, rejected>>
    BY <1>2, <1>6 DEF PlayUnlessStopped
  <2>2. loop # "off" /\ played = p
    <3>1. played = p + 0
      BY <1>1, <1>2, <1>6, HeadIsNext
    <3> QED
      BY <1>1, <1>6, <3>1, HeadIsNext, PartIsInt
  <2>3. played + 1 \in 0 .. Parts
    BY <2>2, PartsAssumption DEF Part
  <2>4. TypeOK'
    <3>1. p \in ToSet(queue)
      BY <1>1 DEF ToSet, TypeOK
    <3> QED
      BY <1>4, <2>1, <2>3, <3>1 DEF TypeOK
  <2>5. ChainInOrder'
    BY <1>4, <2>1 DEF ChainInOrder, Chained
  <2>6. HeadSounds'
    BY <1>1, <1>3, <1>4, <1>6, <2>1 DEF HeadSounds, TypeOK
  <2>7. LabelsLoop'
    BY <1>4, <1>6, <2>1, <2>2 DEF LabelsLoop
  <2>8. ReadingCounts'
    <3>1. played = Chained - Len(queue) + 0 /\ Len(queue) \in Nat /\ Chained \in Int
      BY <1>2, <1>6, <2>2 DEF ReadingCounts, TypeOK, Chained
    <3>2. Chained' = Chained /\ played' = Chained' - Len(queue') + 1
      BY <1>4, <2>1, <3>1 DEF Chained
    <3> QED
      BY <1>4, <2>1, <3>2 DEF ReadingCounts
  <2> QED
    BY <2>4, <2>5, <2>6, <2>7, <2>8
<1> QED
  BY <1>5, <1>6

(* Audio starts, sounds to its end, is refused or paused: only the head's. *)
LEMMA AudioStep ==
  ASSUME SpeechInv, NEW p \in Part,
         AudioStarts(p) \/ AudioRefused(p) \/ AudioEnds(p) \/ AudioPauses(p)
  PROVE  SpeechInv'
<1> USE DEF SpeechInv, refs, chain, media
<1>1. p \in begun /\ queue # <<>> /\ p = queue[1] /\ begun = {p}
  BY DEF AudioStarts, AudioRefused, AudioEnds, AudioPauses, HeadSounds
<1>2. CASE AudioStarts(p)
  <2>1. TypeOK'
    BY <1>2 DEF AudioStarts, TypeOK
  <2>2. ChainInOrder' /\ LabelsLoop' /\ ReadingCounts'
    BY <1>2 DEF AudioStarts, ChainInOrder, Chained, LabelsLoop, ReadingCounts
  <2>3. HeadSounds'
    BY <1>2 DEF AudioStarts, HeadSounds, TypeOK
  <2> QED
    BY <2>1, <2>2, <2>3
<1>3. CASE AudioRefused(p)
  <2>1. TypeOK'
    BY <1>3 DEF AudioRefused, TypeOK, IsInjective
  <2>2. ChainInOrder' /\ LabelsLoop' /\ ReadingCounts'
    BY <1>3 DEF AudioRefused, ChainInOrder, InOrder, LabelsLoop, ReadingCounts
  <2>3. HeadSounds'
    <3>1. pauseDue = {}
      BY <1>1, <1>3 DEF AudioRefused, HeadSounds
    <3>2. \A q \in Part : audio'[q] = "off"
      BY <1>1, <1>3 DEF AudioRefused, HeadSounds, TypeOK
    <3> QED
      BY <1>3, <3>1, <3>2 DEF AudioRefused, HeadSounds
  <2> QED
    BY <2>1, <2>2, <2>3
<1>4. CASE AudioEnds(p) \/ AudioPauses(p)
  <2>1. UNCHANGED <<mounted, label, stopped, current, loop, part, clips, played>> /\ Resolve(p)
    BY <1>4 DEF AudioEnds, AudioPauses
  <2>2. /\ queue' = Tail(queue) /\ begun' = {} /\ rejected' = rejected
        /\ queue' \in Seq(Part) /\ Len(queue') = Len(queue) - 1
        /\ IsInjective(queue') /\ ChainInOrder'
    BY <1>1, <2>1, HeadResolves
  <2>3. pauseDue' = {} /\ \A q \in Part : audio'[q] = "off"
    <3>1. CASE AudioEnds(p)
      BY <1>1, <3>1 DEF AudioEnds, HeadSounds, TypeOK
    <3>2. CASE AudioPauses(p)
      BY <1>1, <3>2 DEF AudioPauses, HeadSounds, TypeOK
    <3> QED
      BY <1>4, <3>1, <3>2
  <2>4. TypeOK'
    <3>1. audio' \in [Part -> {"off", "starting", "on"}]
      BY <1>4 DEF AudioEnds, AudioPauses, TypeOK
    <3> QED
      BY <2>1, <2>2, <2>3, <3>1 DEF TypeOK
  <2>5. HeadSounds'
    BY <2>2, <2>3 DEF HeadSounds
  <2>6. LabelsLoop'
    BY <1>1, <2>1, <2>2 DEF LabelsLoop
  <2>7. ReadingCounts'
    <3>1. Len(queue) \in Nat /\ Chained \in Int /\ Chained' = Chained
      BY <2>1, PartsAssumption DEF TypeOK, Chained
    <3>2. ~stopped /\ loop # "off" => played = Chained - Len(queue) + 1
      BY <1>1 DEF ReadingCounts
    <3>3. ~stopped /\ loop # "off" => played = Chained' - Len(queue') + 0
      BY <2>2, <3>1, <3>2
    <3> QED
      BY <2>1, <2>2, <3>3 DEF ReadingCounts
  <2> QED
    BY <2>2, <2>4, <2>5, <2>6, <2>7
<1> QED
  BY <1>2, <1>3, <1>4

(* Every step keeps the invariant.                                         *)
LEMMA SpeechStep == SpeechInv /\ [Next]_vars => SpeechInv'
<1> SUFFICES ASSUME SpeechInv, [Next]_vars PROVE SpeechInv'
  OBVIOUS
<1>1. CASE StopReading \/ Unmount
  BY <1>1, StopStep DEF StopReading, Unmount, SpeechInv, TypeOK
<1>2. CASE LoadCached
  <2>1. part \in Part
    BY <1>2 DEF LoadCached, SpeechInv, TypeOK, ReadingCounts
  <2> QED
    BY <1>2, <2>1, ChainStep DEF LoadCached, SpeechInv, TypeOK
<1>3. CASE Receive
  BY <1>3, ChainStep DEF Receive, Readable, SpeechInv, TypeOK
<1>4. CASE UNCHANGED vars
  BY <1>4 DEF vars, refs, chain, media, SpeechInv, TypeOK, ChainInOrder, Chained, HeadSounds,
              LabelsLoop, ReadingCounts
<1> QED
  BY <1>1, <1>2, <1>3, <1>4, ReadAloudStep, LoopEndsStep, PlayStep, AudioStep
  DEF Next, Toggle, Playback

(* The invariant holds of the first state and of every state after it: the *)
(* types, the order of the chain, and that only its head is called.        *)
THEOREM SpeechInductive == Spec => []SpeechInv
<1>1. Init => SpeechInv
  <2> SUFFICES ASSUME Init PROVE SpeechInv
    OBVIOUS
  <2>1. TypeOK
    <3>1. queue \in Seq(Part) /\ IsInjective(queue) /\ begun \subseteq ToSet(queue)
      BY DEF Init, IsInjective
    <3>2. part \in 0 .. Parts /\ played \in 0 .. Parts
      BY PartsAssumption DEF Init
    <3>3. audio \in [Part -> {"off", "starting", "on"}] /\ pauseDue \subseteq Part
      BY DEF Init
    <3>4. /\ mounted \in BOOLEAN /\ stopped \in BOOLEAN /\ rejected \in BOOLEAN
          /\ label \in {"idle", "loading", "playing"} /\ current \in Part \cup {-1}
          /\ loop \in {"off", "cached", "asked", "draining"} /\ clips \subseteq Part
      BY DEF Init
    <3> QED
      BY <3>1, <3>2, <3>3, <3>4 DEF TypeOK
  <2>2. ChainInOrder /\ HeadSounds
    BY DEF Init, ChainInOrder, InOrder, HeadSounds
  <2>3. LabelsLoop /\ ReadingCounts
    BY DEF Init, LabelsLoop, ReadingCounts
  <2> QED
    BY <2>1, <2>2, <2>3 DEF SpeechInv
<1> QED
  BY <1>1, SpeechStep, PTL DEF Spec

(* After Stop, a failure or leaving the page nothing sounds, and nothing   *)
(* sounds while the button offers to read aloud.                           *)
THEOREM AlwaysSilent == Spec => []StoppedIsSilent
<1>1. SpeechInv => StoppedIsSilent
  <2> SUFFICES ASSUME SpeechInv, stopped \/ label = "idle", NEW p \in Part
               PROVE  audio[p] = "off"
    BY DEF StoppedIsSilent
  <2>1. CASE stopped
    BY <2>1 DEF SpeechInv, HeadSounds
  <2>2. CASE label = "idle" /\ ~stopped
    <3>1. queue = <<>>
      BY <2>2 DEF SpeechInv, LabelsLoop
    <3> QED
      BY <3>1, EmptyChain DEF SpeechInv
  <2> QED
    BY <2>1, <2>2
<1> QED
  BY <1>1, SpeechInductive, PTL

(* However far loading runs ahead, the parts begin one after the other,    *)
(* a reading that nobody stopped ends after the last one, and no part is   *)
(* asked for that is cached or that the answer does not have.              *)
THEOREM AlwaysInOrder == Spec => PartsInOrder
<1>1. SpeechInv /\ [Next]_vars => [OrderStep]_vars
  <2> SUFFICES ASSUME SpeechInv, Next PROVE OrderStep
    OBVIOUS
  <2>1. ASSUME NEW p \in Part, audio[p] = "off", audio'[p] = "starting"
        PROVE  p = played /\ \A q \in Part \ {p} : audio'[q] = "off"
    <3>1. PlayUnlessStopped(p) /\ ~stopped
      BY <2>1 DEF Next, ReadAloud, StopReading, Unmount, Stop, Toggle, LoadCached, Receive,
                  Chain, LoadFails, Drained, Playback, PlayUnlessStopped, AudioStarts,
                  AudioRefused, AudioEnds, AudioPauses, media, SpeechInv, TypeOK
    <3>2. queue # <<>> /\ p = queue[1] /\ p \notin begun
      BY <3>1 DEF PlayUnlessStopped, Turn, SpeechInv, TypeOK
    <3>3. begun = {}
      BY <3>2 DEF SpeechInv, HeadSounds
    <3>4. p = played
      <4>1. played = p + 0
        BY <3>1, <3>2, <3>3, HeadIsNext
      <4> QED
        BY <4>1, PartIsInt
    <3>5. \A q \in Part : audio[q] = "off"
      BY <3>3, EmptyChain DEF SpeechInv
    <3>6. \A q \in Part \ {p} : audio'[q] = "off"
      BY <3>1, <3>5 DEF PlayUnlessStopped, SpeechInv, TypeOK
    <3> QED
      BY <3>4, <3>6
  <2>2. ASSUME label # "idle", label' = "idle", ~stopped' PROVE played = Parts
    <3>1. Drained /\ ~stopped
      BY <2>2 DEF Next, ReadAloud, StopReading, Unmount, Stop, Toggle, LoadCached, Receive,
                  Chain, LoadFails, Drained, Playback, PlayUnlessStopped, AudioStarts,
                  AudioRefused, AudioEnds, AudioPauses, refs
    <3>2. queue = <<>> /\ loop = "draining"
      BY <3>1 DEF Drained
    <3>3. begun = {}
      BY <3>2, EmptyChain DEF SpeechInv
    <3>4. played = (part + 1) - 0 + 0 /\ part + 1 = Parts
      BY <3>1, <3>2, <3>3 DEF SpeechInv, ReadingCounts, Chained
    <3> QED
      BY <3>4, PartsAssumption
  <2>3. loop' = "asked" => part' \notin clips' /\ part' \in Part \cup {0}
    BY SpeechStep DEF SpeechInv, ReadingCounts
  <2> QED
    BY <2>1, <2>2, <2>3 DEF OrderStep
<1> QED
  BY <1>1, SpeechInductive, PTL DEF Spec, PartsInOrder
=============================================================================

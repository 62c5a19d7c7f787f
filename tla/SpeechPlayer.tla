---------------------------- MODULE SpeechPlayer ----------------------------
(***************************************************************************)
(* Reading an answer aloud: the SpeechButton element in the browser, which *)
(* loads an answer part by part and plays the parts in order, and the      *)
(* read_aloud action of openai/audio.py that it calls.  A step is what     *)
(* runs between two points at which the element awaits something.          *)
(*                                                                         *)
(* Assumed of the browser: the pause event of an audio is delivered before *)
(* the user can click the button that "Read aloud" labels again.           *)
(***************************************************************************)
EXTENDS Integers, Sequences, SequencesExt, FiniteSets

CONSTANT Parts  \* how many parts speech_parts makes of the answer

ASSUME PartsAssumption == Parts \in Nat

Part == 0 .. Parts - 1

VARIABLES
  mounted,   \* the element is on the page
  label,     \* the React state: what the button shows
  stopped,   \* the ref of the same name
  current,   \* the ref of the same name: the part that was begun last
  loop,      \* what toggle awaits: nothing, a cached part, its call, the queue
  part,      \* toggle's part
  clips,     \* parts that are cached
  queue,     \* plays chained on toggle's promise and not settled
  begun,     \* plays that were called and are not settled
  rejected,  \* a play rejected, and with it the chain
  audio,     \* audio[p]: off, starting (play() pending) or on
  pauseDue,  \* audios whose pause event is still to be delivered
  played     \* history: how many parts this reading has begun

refs == <<mounted, label, stopped, current>>
media == <<audio, pauseDue>>
chain == <<queue, begun, rejected>>
vars == <<refs, loop, part, clips, chain, media, played>>

TypeOK ==
  /\ mounted \in BOOLEAN
  /\ label \in {"idle", "loading", "playing"}
  /\ stopped \in BOOLEAN
  /\ current \in Part \cup {-1}
  /\ loop \in {"off", "cached", "asked", "draining"}
  /\ part \in 0 .. Parts
  /\ clips \subseteq Part
  /\ queue \in Seq(Part) /\ IsInjective(queue)
  /\ begun \subseteq ToSet(queue)
  /\ rejected \in BOOLEAN
  /\ audio \in [Part -> {"off", "starting", "on"}]
  /\ pauseDue \subseteq Part
  /\ played \in 0 .. Parts

Init ==
  /\ mounted = TRUE
  /\ label = "idle"
  /\ stopped = FALSE
  /\ current = -1
  /\ loop = "off"
  /\ part = 0
  /\ clips = {}
  /\ queue = <<>>
  /\ begun = {}
  /\ rejected = FALSE
  /\ audio = [p \in Part |-> "off"]
  /\ pauseDue = {}
  /\ played = 0

-----------------------------------------------------------------------------
(* The server.                                                             *)

\* Mutated form of More: the last part counts as followed by another.
MoreInclusive(p) == p + 1 <= Parts

\* _speak's second result, which the reply and the clip carry: another part
\* follows part p.
More(p) == p + 1 < Parts

\* _speak accepts the part; any other raises LookupError.
Readable(p) == p \in Part

-----------------------------------------------------------------------------
(* toggle and load.                                                        *)

\* stop: an audio that plays, or is about to, pauses.
Stop ==
  /\ stopped' = TRUE
  /\ audio' = [p \in Part |-> IF p = current THEN "off" ELSE audio[p]]
  /\ pauseDue' = pauseDue \cup {p \in {current} \cap Part : audio[p] # "off"}

\* Mutated form of Load: the cache is not looked at.
LoadAgain(p) == loop' = "asked" /\ part' = p

\* load(p): the cached clip, or a call of the action.
Load(p) == loop' = (IF p \in clips THEN "cached" ELSE "asked") /\ part' = p

\* A click on "Read aloud" starts toggle's loop on a new chain.
ReadAloud ==
  /\ mounted /\ label = "idle" /\ loop = "off"
  /\ queue = <<>> /\ pauseDue = {}
  /\ stopped' = FALSE
  /\ label' = "loading"
  /\ Load(0)
  /\ rejected' = FALSE
  /\ played' = 0
  /\ UNCHANGED <<mounted, current, clips, queue, begun, media>>

\* A click on "Stop".
StopReading ==
  /\ mounted /\ label # "idle"
  /\ Stop
  /\ UNCHANGED <<mounted, label, current, loop, part, clips, chain, played>>

\* The user leaves the page or the element is removed: the effect's cleanup.
Unmount ==
  /\ mounted
  /\ mounted' = FALSE
  /\ Stop
  /\ UNCHANGED <<label, current, loop, part, clips, chain, played>>

\* Mutated form of Chain: the loop ends one part early.
ChainButLast(p) ==
  /\ queue' = IF rejected THEN queue ELSE Append(queue, p)
  /\ IF More(p + 1) /\ ~stopped THEN Load(p + 1)
                                ELSE loop' = "draining" /\ UNCHANGED part
  /\ UNCHANGED <<refs, begun, rejected, media, played>>

\* The rest of an iteration once the clip is there: its play is chained.
Chain(p) ==
  /\ queue' = IF rejected THEN queue ELSE Append(queue, p)
  /\ IF More(p) /\ ~stopped THEN Load(p + 1)
                            ELSE loop' = "draining" /\ UNCHANGED part
  /\ UNCHANGED <<refs, begun, rejected, media, played>>

\* load returns a cached part.
LoadCached ==
  /\ loop = "cached"
  /\ Chain(part)
  /\ UNCHANGED <<clips>>

\* read_aloud replies with a part, which load caches.
Receive ==
  /\ loop = "asked"
  /\ Readable(part)
  /\ Chain(part)
  /\ clips' = clips \cup {part}

\* The call fails, or read_aloud replies with an error: toggle's catch.
LoadFails ==
  /\ loop = "asked"
  /\ Stop
  /\ loop' = "off"
  /\ label' = "idle"
  /\ UNCHANGED <<mounted, current, part, clips, chain, played>>

\* await queue returns, or throws the rejection of a play, which stops.
Drained ==
  /\ loop = "draining"
  /\ queue = <<>>
  /\ IF rejected THEN Stop ELSE UNCHANGED <<stopped, media>>
  /\ loop' = "off"
  /\ label' = "idle"
  /\ UNCHANGED <<mounted, current, part, clips, chain, played>>

-----------------------------------------------------------------------------
(* play and the events of its audio.                                       *)

\* Mutated form of queue.then: a play does not wait for the one before.
TurnWithoutChain(p) == p \in ToSet(queue)

\* queue.then: a play waits until the one before it is settled.
Turn(p) == queue # <<>> /\ p = Head(queue)

\* Mutated form of Resolve: the play leaves the chain and still counts as called.
ResolveHalf(p) == queue' = RemoveFirst(queue, p) /\ UNCHANGED <<begun, rejected>>

\* The play of part p resolves.
Resolve(p) ==
  /\ queue' = RemoveFirst(queue, p)
  /\ begun' = begun \ {p}
  /\ UNCHANGED rejected

\* Mutated form of PlayUnlessStopped: the flag is not looked at again.
PlayAnyway(p) ==
  /\ Turn(p) /\ p \notin begun
  /\ begun' = begun \cup {p}
  /\ current' = p
  /\ audio' = [audio EXCEPT ![p] = "starting"]
  /\ label' = "playing"
  /\ played' = played + 1
  /\ UNCHANGED <<mounted, stopped, loop, part, clips, queue, rejected, pauseDue>>

\* play is called: it resolves at once after stop, or starts the audio.
PlayUnlessStopped(p) ==
  /\ Turn(p) /\ p \notin begun
  /\ IF stopped
       THEN Resolve(p) /\ UNCHANGED <<label, current, audio, played>>
       ELSE /\ begun' = begun \cup {p}
            /\ current' = p
            /\ audio' = [audio EXCEPT ![p] = "starting"]
            /\ label' = "playing"
            /\ played' = played + 1
            /\ UNCHANGED <<queue, rejected>>
  /\ UNCHANGED <<mounted, stopped, loop, part, clips, pauseDue>>

\* The promise of audio.play() resolves.
AudioStarts(p) ==
  /\ audio[p] = "starting"
  /\ audio' = [audio EXCEPT ![p] = "on"]
  /\ UNCHANGED <<refs, loop, part, clips, chain, pauseDue, played>>

\* audio.play() rejects: the chain rejects and skips the plays that follow.
AudioRefused(p) ==
  /\ audio[p] = "starting"
  /\ audio' = [audio EXCEPT ![p] = "off"]
  /\ stopped' = TRUE
  /\ rejected' = TRUE
  /\ queue' = <<>>
  /\ begun' = {}
  /\ UNCHANGED <<mounted, label, current, loop, part, clips, pauseDue, played>>

\* The audio plays to its end: onended.
AudioEnds(p) ==
  /\ audio[p] = "on"
  /\ audio' = [audio EXCEPT ![p] = "off"]
  /\ Resolve(p)
  /\ UNCHANGED <<refs, loop, part, clips, pauseDue, played>>

\* Mutated form of AudioPauses: play sets no onpause.
PauseUnheard(p) ==
  /\ p \in pauseDue
  /\ pauseDue' = pauseDue \ {p}
  /\ UNCHANGED <<refs, loop, part, clips, chain, audio, played>>

\* onpause.
AudioPauses(p) ==
  /\ p \in pauseDue
  /\ pauseDue' = pauseDue \ {p}
  /\ Resolve(p)
  /\ UNCHANGED <<refs, loop, part, clips, audio, played>>

-----------------------------------------------------------------------------
Toggle == LoadCached \/ Receive \/ LoadFails \/ Drained

Playback(p) ==
  \/ PlayUnlessStopped(p)
  \/ AudioStarts(p)
  \/ AudioRefused(p)
  \/ AudioEnds(p)
  \/ AudioPauses(p)

Next ==
  \/ ReadAloud
  \/ StopReading
  \/ Unmount
  \/ Toggle
  \/ \E p \in Part : Playback(p)

Spec == Init /\ [][Next]_vars

(* The call of the action returns or fails, promises settle, and an audio  *)
(* that plays reaches its end or is paused.                                *)
Fairness == WF_vars(Toggle) /\ \A p \in Part : WF_vars(Playback(p))

FairSpec == Spec /\ Fairness
-----------------------------------------------------------------------------
(* Properties.                                                             *)

(* "Synthesize one part at a time and play them in order" (line 59): the   *)
(* part that starts is the one after the part begun before it, from the    *)
(* first, none skipped or repeated, cached or not; it starts when no other *)
(* part sounds, although loading runs ahead of playing; and a reading that *)
(* nobody stopped ends after the last part, not before.  "Fetched parts    *)
(* stay cached, so replaying the answer needs no new speech" (line 18):    *)
(* whatever was stopped or failed before, a part that is there is not      *)
(* asked for again, nor one beyond the last; the first is even of an empty *)
(* answer.                                                                 *)
OrderStep ==
  /\ \A p \in Part : audio[p] = "off" /\ audio'[p] = "starting" =>
       p = played /\ \A q \in Part \ {p} : audio'[q] = "off"
  /\ label # "idle" /\ label' = "idle" /\ ~stopped' => played = Parts
  /\ loop' = "asked" => part' \notin clips' /\ part' \in Part \cup {0}
PartsInOrder == [][OrderStep]_vars

(* After Stop, a failure or leaving the page nothing sounds, whatever was  *)
(* loading, queued or between two parts at that moment; nor does anything  *)
(* while the button offers "Read aloud", so Stop is there when needed.     *)
StoppedIsSilent == stopped \/ label = "idle" => \A p \in Part : audio[p] = "off"

(* After Stop the button offers "Read aloud" again, and a reading ends.    *)
ReadingEnds == label # "idle" ~> label = "idle"
=============================================================================

--------------------------- MODULE ChatTurnProofs ----------------------------
(***************************************************************************)
(* Proofs about the parts of a turn: McpSession, for every set of tools    *)
(* and any number of connections, requests and calls of a Response, and    *)
(* StreamedTurn, for Responses of any length, any number of commentary     *)
(* texts and any number of hits, with either renderer.  At the end, the    *)
(* turn of MCChatTurn, with what is proved of each of its parts.           *)
(***************************************************************************)
EXTENDS MCChatTurn, TurnInputProofs

-----------------------------------------------------------------------------
(* A session of number 0 is no connection.                                 *)
LEMMA NoServerIsNone == NoServer \notin Connection
  BY McpAssumption DEF NoServer, Connection

(* The inductive invariant of McpSession.                                  *)

\* A call that is entered or under way has no output yet, and its session,
\* whatever became of it since, is a connection that lists the tool.
CallsListed ==
  loop \in {"entering", "calling"} =>
    /\ outputs < Len(calls)
    /\ target # NoServer /\ link[target] # "unused"
    /\ Call \in offers[target]

\* connect only lists and stores the tools of opened connections of our name.
StoresOurs ==
  /\ \A c \in Connection :
       listing[c] \in {"asked", "answered"} => named[c] = "ours" /\ link[c] # "unused"
  /\ stored # NoServer => named[stored] = "ours" /\ link[stored] # "unused"

McpInv == McpTypeOK /\ CallsListed /\ StoresOurs

(* Every step keeps the types: one case per callback or step of the turn.  *)
LEMMA McpTypeStep == McpInv /\ [McpNext]_mcpVars => McpTypeOK'
<1> SUFFICES ASSUME McpInv, [McpNext]_mcpVars PROVE McpTypeOK'
  OBVIOUS
<1> USE McpAssumption DEF McpInv, McpTypeOK, connections, toolTurn
<1>1. ASSUME NEW c \in Connection, OpenConnection(c) PROVE McpTypeOK'
  BY <1>1 DEF OpenConnection
<1>2. ASSUME NEW c \in Connection, ListAnswered(c) PROVE McpTypeOK'
  BY <1>2 DEF ListAnswered
<1>3. ASSUME NEW c \in Connection, Discovered(c) PROVE McpTypeOK'
  BY <1>3 DEF Discovered
<1>4. ASSUME NEW c \in Connection, Disconnect(c) PROVE McpTypeOK'
  BY <1>4 DEF Disconnect
<1>5. ASSUME NEW c \in Connection, CloseConnection(c) PROVE McpTypeOK'
  BY <1>5 DEF CloseConnection
<1>6. ASSUME NEW c \in Connection, ServerDies(c) PROVE McpTypeOK'
  BY <1>6 DEF ServerDies
<1>7. CASE AskModel
  BY <1>7 DEF AskModel
<1>8. CASE ModelResponds
  <2>1. PICK n \in 0 .. MaxCalls : calls' \in [1 .. n -> Tools]
    BY <1>8 DEF ModelResponds
  <2>2. calls' \in Seq(Tools) /\ Len(calls') = n
    BY <2>1
  <2> QED
    BY <1>8, <2>2 DEF ModelResponds
<1>9. CASE Execute
  BY <1>9 DEF Execute
<1>10. CASE CallTool
  BY <1>10 DEF CallTool
<1>11. CASE ToolReturns
  BY <1>11 DEF ToolReturns, CallsListed
<1>12. CASE UNCHANGED mcpVars
  BY <1>12 DEF mcpVars
<1> HIDE DEF McpTypeOK, McpInv
<1> QED
  BY <1>1, <1>2, <1>3, <1>4, <1>5, <1>6, <1>7, <1>8, <1>9, <1>10, <1>11, <1>12
  DEF McpNext, Connecting

(* The session of a call was looked up, and a connection keeps its tools.  *)
LEMMA CallsListedStep == McpInv /\ [McpNext]_mcpVars => CallsListed'
<1> SUFFICES ASSUME McpInv, [McpNext]_mcpVars PROVE CallsListed'
  OBVIOUS
<1> USE McpAssumption, NoServerIsNone
    DEF McpInv, McpTypeOK, CallsListed, Call, connections, toolTurn
<1>1. ASSUME NEW c \in Connection, OpenConnection(c) PROVE CallsListed'
  <2>1. /\ UNCHANGED <<loop, calls, outputs, target>>
        /\ \A b \in Connection : b # c => offers'[b] = offers[b] /\ link'[b] = link[b]
    BY <1>1 DEF OpenConnection
  <2>2. loop \in {"entering", "calling"} => target \in Connection /\ target # c
    BY <1>1 DEF OpenConnection
  <2> QED
    BY <2>1, <2>2
<1>2. ASSUME NEW c \in Connection,
             \/ ListAnswered(c) \/ Discovered(c) \/ Disconnect(c)
             \/ CloseConnection(c) \/ ServerDies(c)
      PROVE  CallsListed'
  <2>1. /\ UNCHANGED <<loop, calls, outputs, target, offers>>
        /\ \A b \in Connection : link[b] # "unused" => link'[b] # "unused"
    BY <1>2 DEF ListAnswered, Discovered, Disconnect, CloseConnection, ServerDies
  <2> QED
    BY <2>1
<1>3. CASE AskModel \/ ModelResponds
  BY <1>3 DEF AskModel, ModelResponds
<1>4. CASE Execute
  BY <1>4 DEF Execute, Advertised, StoresOurs
<1>5. CASE CallTool \/ ToolReturns
  BY <1>5 DEF CallTool, ToolReturns
<1>6. CASE UNCHANGED mcpVars
  BY <1>6 DEF mcpVars
<1> HIDE DEF McpInv, McpTypeOK, CallsListed
<1> QED
  BY <1>1, <1>2, <1>3, <1>4, <1>5, <1>6 DEF McpNext, Connecting

(* What is stored was listed by connect for a connection of our name.      *)
LEMMA StoresOursStep == McpInv /\ [McpNext]_mcpVars => StoresOurs'
<1> SUFFICES ASSUME McpInv, [McpNext]_mcpVars PROVE StoresOurs'
  OBVIOUS
<1> USE McpAssumption, NoServerIsNone DEF McpInv, McpTypeOK, StoresOurs, connections, toolTurn
<1>1. ASSUME NEW c \in Connection, OpenConnection(c) PROVE StoresOurs'
  <2>1. stored # c
    BY <1>1 DEF OpenConnection
  <2>2. listing'[c] = "asked" => named'[c] = "ours"
    BY <1>1 DEF OpenConnection, Connects
  <2>3. listing'[c] \in {"asked", "none"} /\ link'[c] # "unused" /\ UNCHANGED stored
    BY <1>1 DEF OpenConnection
  <2>4. \A b \in Connection : b # c =>
          UNCHANGED <<named[b], link[b], listing[b]>>
    BY <1>1 DEF OpenConnection
  <2> QED
    BY <2>1, <2>2, <2>3, <2>4
<1>2. ASSUME NEW c \in Connection, ListAnswered(c) PROVE StoresOurs'
  BY <1>2 DEF ListAnswered
<1>3. ASSUME NEW c \in Connection, Discovered(c) PROVE StoresOurs'
  BY <1>3 DEF Discovered
<1>4. ASSUME NEW c \in Connection, Disconnect(c) PROVE StoresOurs'
  BY <1>4 DEF Disconnect
<1>5. ASSUME NEW c \in Connection, CloseConnection(c) \/ ServerDies(c) PROVE StoresOurs'
  BY <1>5 DEF CloseConnection, ServerDies
<1>6. CASE AskModel \/ ModelResponds \/ Execute \/ CallTool \/ ToolReturns
  BY <1>6 DEF AskModel, ModelResponds, Execute, CallTool, ToolReturns
<1>7. CASE UNCHANGED mcpVars
  BY <1>7 DEF mcpVars
<1> HIDE DEF McpInv, McpTypeOK, StoresOurs
<1> QED
  BY <1>1, <1>2, <1>3, <1>4, <1>5, <1>6, <1>7 DEF McpNext, Connecting

(* The invariant holds of the first state and of every state after it: a   *)
(* call has its output once, and what is stored is an opened connection.   *)
THEOREM McpInductive == McpSpec => []McpInv
<1>1. McpInit => McpInv
  BY McpAssumption DEF McpInit, McpInv, McpTypeOK, CallsListed, StoresOurs
<1>2. McpInv /\ [McpNext]_mcpVars => McpInv'
  BY McpTypeStep, CallsListedStep, StoresOursStep DEF McpInv
<1> QED
  BY <1>1, <1>2, PTL DEF McpSpec

(* Every await of connect, execute and the turn is one of the code's, and  *)
(* no more outputs are collected than the Response had calls.              *)
THEOREM McpTypeCorrect == McpSpec => []McpTypeOK
<1>1. McpInv => McpTypeOK
  BY DEF McpInv
<1> QED
  BY <1>1, McpInductive, PTL

(* The session that gets a call listed the tool, however many connections  *)
(* came and went while the step was entered.                               *)
THEOREM AlwaysListed == McpSpec => []CalledSessionListedTool
<1>1. McpInv => CalledSessionListedTool
  BY DEF McpInv, CallsListed, CalledSessionListedTool
<1> QED
  BY <1>1, McpInductive, PTL

(* The stored tools are forgotten exactly by the disconnect of the session *)
(* that they are of.                                                       *)
THEOREM AlwaysForgotten == McpSpec => ForgottenOnDisconnect
<1>1. McpInv /\ McpInv' /\ [McpNext]_mcpVars => [ForgetStep]_mcpVars
  <2> SUFFICES ASSUME McpInv, McpInv', McpNext PROVE ForgetStep
    OBVIOUS
  <2>1. stored' # NoServer => named'[stored'] = "ours"
    BY DEF McpInv, StoresOurs
  <2> SUFFICES ASSUME stored # NoServer
               PROVE  stored' = NoServer <=>
                        link[stored] \in {"open", "dead"} /\ link'[stored] = "leaving"
    BY <2>1 DEF ForgetStep
  <2> DEFINE Forget == stored' = NoServer <=>
                         link[stored] \in {"open", "dead"} /\ link'[stored] = "leaving"
  <2>2. stored \in Connection /\ named[stored] = "ours" /\ link[stored] # "unused"
    BY DEF McpInv, McpTypeOK, StoresOurs
  <2> USE NoServerIsNone DEF McpInv, McpTypeOK, connections, toolTurn
  <2>3. ASSUME NEW c \in Connection, Disconnect(c) PROVE Forget
    BY <2>2, <2>3 DEF Disconnect, Forgets
  <2>4. ASSUME NEW c \in Connection, OpenConnection(c) PROVE Forget
    BY <2>2, <2>4 DEF OpenConnection
  <2>5. ASSUME NEW c \in Connection,
               ListAnswered(c) \/ Discovered(c) \/ CloseConnection(c) \/ ServerDies(c)
        PROVE  Forget
    BY <2>2, <2>5 DEF ListAnswered, Discovered, CloseConnection, ServerDies
  <2>6. CASE AskModel \/ ModelResponds \/ Execute \/ CallTool \/ ToolReturns
    BY <2>2, <2>6 DEF AskModel, ModelResponds, Execute, CallTool, ToolReturns
  <2> HIDE DEF McpInv, McpTypeOK
  <2> QED
    BY <2>3, <2>4, <2>5, <2>6 DEF McpNext, Connecting
<1> QED
  BY <1>1, McpInductive, PTL DEF McpSpec, ForgottenOnDisconnect

-----------------------------------------------------------------------------
(* The inductive invariant of StreamedTurn.                                *)

\* The Response is read while nothing was raised and no token was lost.
Streaming == {"events", "yield", "sending", "adding"}
PhasesRaise ==
  /\ pc \in Streaming \cup {"complete", "completing"} => ~raised
  /\ pc \in {"stop", "stopping"} => raised
  /\ early => raised
  /\ pc \in Streaming => ~dropped
  /\ pc = "yield" \/ dropped => received > 0

\* The content is the first tokens kept, and the batch those that follow.
Split(text, batch, n) ==
  /\ Len(text) + Len(batch) = n
  /\ \A i \in 1 .. Len(text) : text[i] = i
  /\ \A i \in 1 .. Len(batch) : batch[i] = Len(text) + i
TextSplit == Split(content, tokens, Kept)

\* A batch is left only while the Response is read, and the browser is behind
\* the content only while a batch is sent.
TextShown ==
  /\ pc \notin {"events", "yield", "adding"} => tokens = <<>>
  /\ pc \notin {"sending", "leaving"} /\ ~raised => shown = content

\* A display that has begun has an entry, and nothing is shown before it has;
\* unless its send was hit, it is shown then.
DisplayBegins ==
  /\ display # Nothing => display.state # "none"
  /\ display = Nothing => screen = Nothing
  /\ active => display # Nothing
  /\ ~raised /\ pc # "adding" /\ display # Nothing => screen # Nothing

\* Only complete brings success, and it is not reached after an early hit; a
\* display that was begun before the hit is the renderer's until stop.
EarlyHits ==
  /\ early \/ pc \in BeforeComplete \cup {"complete"} =>
       display.state # "done" /\ screen.state # "done"
  /\ (early /\ pc = "stop") \/ pc \in BeforeComplete => (display # Nothing => active)

\* How the display ends; a step is forgotten only when its update returned.
DisplayEnds ==
  /\ pc = "completing" => display.state = "done"
  /\ pc = "stopping" => display.state = "failed"
  /\ renderer = "steps" /\ pc # "over" /\ display # Nothing => active

StreamInv ==
  /\ TypeOK
  /\ PhasesRaise
  /\ TextSplit
  /\ TextShown
  /\ DisplayBegins
  /\ EarlyHits
  /\ DisplayEnds
  /\ StepsEndOnScreen
  /\ OutcomeShown

-----------------------------------------------------------------------------
(* A text that is split between the content and the batch.                 *)

(* The next token joins the batch.                                         *)
LEMMA SplitAppend ==
  ASSUME NEW D, NEW c \in Seq(D), NEW t \in Seq(D), NEW n \in Nat, n + 1 \in D, Split(c, t, n)
  PROVE  Split(c, Append(t, n + 1), n + 1)
<1> DEFINE new == Append(t, n + 1)
<1>1. Len(new) = Len(t) + 1 /\ Len(c) \in Nat /\ Len(t) \in Nat
  OBVIOUS
<1>2. \A i \in 1 .. Len(t) : new[i] = t[i]
  OBVIOUS
<1>3. new[Len(t) + 1] = n + 1
  OBVIOUS
<1> HIDE DEF new
<1>4. ASSUME NEW i \in 1 .. Len(t) + 1 PROVE new[i] = Len(c) + i
  <2>1. CASE i \in 1 .. Len(t)
    BY <1>2, <2>1 DEF Split
  <2>2. CASE i = Len(t) + 1
    BY <1>1, <1>3, <2>2 DEF Split
  <2> QED
    BY <1>1, <2>1, <2>2
<1>5. Split(c, new, n + 1)
  <2>1. Len(c) + Len(t) = n /\ \A i \in 1 .. Len(c) : c[i] = i
    BY DEF Split
  <2>2. Len(c) + Len(new) = n + 1
    BY <1>1, <2>1
  <2>3. \A i \in 1 .. Len(new) : new[i] = Len(c) + i
    BY <1>1, <1>4
  <2> QED
    BY <2>1, <2>2, <2>3 DEF Split
<1> QED
  BY <1>5 DEF new

(* The batch joins the content.                                            *)
LEMMA SplitFlush ==
  ASSUME NEW D, NEW c \in Seq(D), NEW t \in Seq(D), NEW n \in Nat, Split(c, t, n)
  PROVE  Split(c \o t, <<>>, n)
<1>1. Len(c \o t) = Len(c) + Len(t)
  OBVIOUS
<1>2. \A i \in 1 .. Len(c) + Len(t) : (c \o t)[i] = IF i <= Len(c) THEN c[i] ELSE t[i - Len(c)]
  OBVIOUS
<1>3. Len(c) \in Nat /\ Len(t) \in Nat
  OBVIOUS
<1>4. \A i \in 1 .. n : (c \o t)[i] = i
  BY <1>2, <1>3 DEF Split
<1> QED
  BY <1>1, <1>3, <1>4 DEF Split

(* Content and batch together are the tokens up to the n-th, in order.     *)
LEMMA SplitIsText ==
  ASSUME NEW D, NEW c \in Seq(D), NEW t \in Seq(D), NEW n \in Nat, Split(c, t, n)
  PROVE  c \o t = [i \in 1 .. n |-> i]
<1>1. Split(c \o t, <<>>, n) /\ c \o t \in Seq(D)
  BY SplitFlush
<1> DEFINE text == c \o t
<1> HIDE DEF text
<1>2. Len(text) = n /\ \A i \in 1 .. n : text[i] = i
  <2>1. Split(text, <<>>, n) /\ text \in Seq(D)
    BY <1>1 DEF text
  <2>2. Len(text) \in Nat
    BY <2>1
  <2> QED
    BY <2>1, <2>2 DEF Split
<1>3. text = [i \in 1 .. Len(text) |-> text[i]]
  <2>1. text \in [1 .. Len(text) -> D]
    BY <1>1, LenProperties DEF text
  <2> QED
    BY <2>1
<1> QED
  BY <1>2, <1>3 DEF text

-----------------------------------------------------------------------------
(* The steps, one case per action.                                         *)

\* What Abort does to the text and to pc: __aexit__ may flush, later hits do not.
LEMMA AbortLeaves ==
  ASSUME TypeOK, Abort
  PROVE  /\ pc \in Streaming /\ tokens # <<>> =>
              pc' = "leaving" /\ content' = content \o tokens /\ tokens' = <<>>
         /\ pc \in Streaming /\ tokens = <<>> => pc' = "stop" /\ UNCHANGED <<content, tokens>>
         /\ pc \in {"leaving", "completing"} => pc' = "stop" /\ UNCHANGED <<content, tokens>>
         /\ pc = "stopping" => pc' = "over" /\ UNCHANGED <<content, tokens>>
         /\ pc \in Streaming \cup {"leaving", "completing", "stopping"}
<1>1. pc \in Streaming \cup {"leaving", "completing", "stopping"}
  BY DEF Abort, TypeOK, Streaming
<1>2. CASE pc \in Streaming
  <2>1. Leave(TRUE)
    BY <1>2 DEF Abort, Streaming
  <2> QED
    BY <1>2, <2>1 DEF Leave, Flush, AfterBlock, Streaming
<1>3. CASE pc \in {"leaving", "completing"}
  BY <1>3 DEF Abort, Streaming
<1>4. CASE pc = "stopping"
  BY <1>4 DEF Abort, Streaming
<1> QED
  BY <1>1, <1>2, <1>3, <1>4

(* Every step keeps the turn's phases: what was raised leads to stop.      *)
LEMMA PhasesStep == StreamInv /\ [Next]_vars => PhasesRaise'
<1> SUFFICES ASSUME StreamInv, [Next]_vars PROVE PhasesRaise'
  OBVIOUS
<1>a. TypeOK /\ PhasesRaise /\ received \in Nat
  BY BoundsAssumption DEF StreamInv, TypeOK
<1> USE <1>a DEF PhasesRaise, Streaming, hits, stream, commentary
<1>1. CASE StreamToken
  BY <1>1 DEF StreamToken
<1>2. CASE Yielded
  BY <1>2 DEF Yielded, Flush
<1>3. CASE Boundary
  BY <1>3 DEF Boundary, Flush
<1>4. CASE Sent \/ Elapse \/ Added
  BY <1>4 DEF Sent, Elapse, Added
<1>5. CASE EndOfEvents
  BY <1>5 DEF EndOfEvents, Leave, Flush, AfterBlock
<1>6. CASE Left
  BY <1>6 DEF Left, AfterBlock
<1>7. CASE Add
  BY <1>7 DEF Add
<1>8. CASE Complete
  BY <1>8 DEF Complete, Finish
<1>9. CASE StopCommentary
  BY <1>9 DEF StopCommentary, Finish
<1>10. CASE Finished
  BY <1>10 DEF Finished
<1>11. CASE Abort
  <2>1. /\ raised' /\ received' = received
        /\ dropped' = (dropped \/ pc = "yield")
    BY <1>11 DEF Abort
  <2>2. pc' \in {"leaving", "stop", "over"}
    BY <1>11, AbortLeaves
  <2> QED
    BY <2>1, <2>2
<1>12. CASE UNCHANGED vars
  BY <1>12 DEF vars
<1> HIDE DEF PhasesRaise, Streaming, hits, stream, commentary
<1> QED
  BY <1>1, <1>2, <1>3, <1>4, <1>5, <1>6, <1>7, <1>8, <1>9, <1>10, <1>11, <1>12
     DEF Next, Render

(* Every step keeps the types.                                             *)
LEMMA TypeStep == StreamInv /\ [Next]_vars => TypeOK'
<1> DEFINE Texts == Seq(1 .. MaxTokens)
           PhaseTypes == /\ pc \in {"events", "yield", "sending", "adding", "leaving", "complete",
                                    "completing", "stop", "stopping", "over"}
                         /\ raised \in BOOLEAN /\ aborts \in 0 .. MaxAborts /\ early \in BOOLEAN
           TextTypes == /\ received \in 0 .. MaxTokens /\ tokens \in Texts /\ due \in BOOLEAN
                        /\ content \in Texts /\ shown \in Texts /\ dropped \in BOOLEAN
           DisplayTypes == /\ renderer \in Renderers /\ active \in BOOLEAN
                           /\ display \in Displays /\ screen \in Displays /\ cut \in BOOLEAN
<1> SUFFICES ASSUME StreamInv, [Next]_vars PROVE PhaseTypes' /\ TextTypes' /\ DisplayTypes'
  BY DEF TypeOK
<1>a. /\ PhaseTypes /\ TextTypes /\ DisplayTypes /\ TypeOK /\ PhasesRaise
      /\ MaxTokens \in Nat /\ MaxAborts \in Nat /\ MaxAdds \in Nat
  BY BoundsAssumption DEF StreamInv, TypeOK
<1>b. \A b \in Texts : content \o b \in Texts
  BY <1>a
<1>c. pc = "yield" => received \in 1 .. MaxTokens
  BY <1>a DEF PhasesRaise
<1>d. pc = "yield" => Append(tokens, received) \in Texts
  BY <1>a, <1>c
<1>e. <<>> \in Texts
  OBVIOUS
<1> HIDE DEF Texts
<1>1. CASE StreamToken
  BY <1>1, <1>a DEF StreamToken, commentary, hits
<1>2. CASE Yielded
  BY <1>2, <1>a, <1>b, <1>d, <1>e DEF Yielded, Flush, commentary, hits
<1>3. CASE Boundary
  BY <1>3, <1>a, <1>b, <1>e DEF Boundary, Flush, commentary, hits
<1>4. CASE Sent \/ Elapse
  BY <1>4, <1>a DEF Sent, Elapse, commentary, hits
<1>5. CASE EndOfEvents
  BY <1>5, <1>a, <1>b, <1>e DEF EndOfEvents, Leave, Flush, AfterBlock, commentary, hits
<1>6. CASE Left
  BY <1>6, <1>a DEF Left, AfterBlock, commentary, hits
<1>7. CASE Add
  <2>1. display' \in Displays
    BY <1>7, <1>a DEF Add, NextEntry, Displays
  <2> QED
    BY <1>7, <1>a, <2>1 DEF Add, stream, hits
<1>8. CASE Added
  BY <1>8, <1>a DEF Added, stream, hits
<1>9. \A state \in {"done", "failed"} : [display EXCEPT !.state = state] \in Displays
  BY <1>a DEF Displays
<1>10. CASE Complete
  BY <1>10, <1>9, <1>a DEF Complete, Finish, stream, hits
<1>11. CASE StopCommentary
  BY <1>11, <1>9, <1>a DEF StopCommentary, Finish, stream, hits
<1>12. CASE Finished
  BY <1>12, <1>a DEF Finished, stream, hits
<1>13. CASE Abort
  <2>1. /\ aborts' \in 0 .. MaxAborts
        /\ shown' \in Texts /\ screen' \in Displays
        /\ UNCHANGED <<received, due, renderer, active, display>>
    BY <1>13, <1>a DEF Abort
  <2>2. raised' \in BOOLEAN /\ early' \in BOOLEAN /\ dropped' \in BOOLEAN /\ cut' \in BOOLEAN
    BY <1>13, <1>a DEF Abort
  <2>3. pc' \in {"leaving", "stop", "over"} /\ tokens' \in Texts /\ content' \in Texts
    BY <1>13, <1>a, <1>b, <1>e, AbortLeaves
  <2> QED
    BY <1>a, <2>1, <2>2, <2>3
<1>14. CASE UNCHANGED vars
  BY <1>14, <1>a DEF vars, stream, commentary, hits
<1> HIDE DEF PhaseTypes, TextTypes, DisplayTypes
<1> QED
  BY <1>1, <1>2, <1>3, <1>4, <1>5, <1>6, <1>7, <1>8, <1>10, <1>11, <1>12, <1>13, <1>14
     DEF Next, Render

(* Every step keeps the text: no token is lost, repeated or moved but for  *)
(* the one whose yield was hit, and the browser shows what was sent.       *)
LEMMA TextStep == StreamInv /\ [Next]_vars => TextSplit' /\ TextShown'
<1> SUFFICES ASSUME StreamInv, [Next]_vars PROVE TextSplit' /\ TextShown'
  OBVIOUS
<1> DEFINE D == 1 .. MaxTokens
<1>a. /\ PhasesRaise /\ TextSplit /\ TextShown /\ Kept \in Nat
      /\ content \in Seq(D) /\ tokens \in Seq(D) /\ received \in 0 .. MaxTokens
      /\ MaxTokens \in Nat
  BY BoundsAssumption DEF StreamInv, TypeOK, Kept, PhasesRaise
<1>b. Split(content \o tokens, <<>>, Kept)
  BY <1>a, SplitFlush DEF TextSplit
<1>c. ASSUME UNCHANGED <<content, tokens>>, Kept' = Kept PROVE TextSplit'
  BY <1>a, <1>c DEF TextSplit
<1>d. ASSUME content' = content \o tokens, tokens' = <<>>, Kept' = Kept PROVE TextSplit'
  BY <1>b, <1>d DEF TextSplit
<1>1. CASE StreamToken
  <2>1. Kept' = Kept
    BY <1>1, <1>a DEF StreamToken, Kept, PhasesRaise, Streaming
  <2> QED
    BY <1>1, <1>a, <1>c, <2>1 DEF StreamToken, TextShown, hits
<1>2. CASE Yielded
  <2>1. /\ Kept + 1 = received /\ Kept' = received /\ received \in D
        /\ ~raised /\ ~raised'
    BY <1>2, <1>a DEF Yielded, Flush, Kept, PhasesRaise, Streaming, hits
  <2>2. /\ Append(tokens, received) \in Seq(D)
        /\ Split(content, Append(tokens, received), received)
    BY <1>a, <2>1, SplitAppend DEF TextSplit
  <2>3. CASE due
    <3>1. /\ content' = content \o Append(tokens, received) /\ tokens' = <<>>
          /\ pc' = "sending"
      BY <1>2, <2>3 DEF Yielded, Flush
    <3>2. received \in Nat
      BY <1>a
    <3>3. Split(content \o Append(tokens, received), <<>>, received)
      BY <1>a, <2>2, <3>2, SplitFlush
    <3>4. Split(content', tokens', Kept')
      BY <2>1, <3>1, <3>3
    <3> QED
      BY <3>1, <3>4 DEF TextSplit, TextShown
  <2>4. CASE ~due
    BY <1>2, <1>a, <2>1, <2>2, <2>4 DEF Yielded, TextSplit, TextShown
  <2> QED
    BY <2>3, <2>4
<1>3. CASE Boundary
  <2>1. Kept' = Kept
    BY <1>3 DEF Boundary, Flush, Kept
  <2> QED
    BY <1>3, <1>d, <2>1 DEF Boundary, Flush, TextShown
<1>4. CASE Sent
  <2>1. Kept' = Kept
    BY <1>4 DEF Sent, Kept
  <2> QED
    BY <1>4, <1>a, <1>c, <2>1 DEF Sent, TextShown, hits
<1>5. CASE EndOfEvents
  <2>1. Kept' = Kept
    BY <1>5, <1>a DEF EndOfEvents, Leave, Flush, AfterBlock, Kept
  <2>2. CASE tokens = <<>>
    BY <1>5, <1>a, <1>c, <2>1, <2>2 DEF EndOfEvents, Leave, AfterBlock, TextShown, hits
  <2>3. CASE tokens # <<>>
    BY <1>5, <1>d, <2>1, <2>3 DEF EndOfEvents, Leave, Flush, TextShown
  <2> QED
    BY <2>2, <2>3
<1>6. CASE Left
  <2>1. Kept' = Kept
    BY <1>6 DEF Left, AfterBlock, Kept
  <2> QED
    BY <1>6, <1>a, <1>c, <2>1 DEF Left, AfterBlock, TextShown, hits
<1>7. CASE Add \/ Added \/ Complete \/ StopCommentary \/ Finished \/ Elapse \/ UNCHANGED vars
  <2>1. UNCHANGED <<received, tokens, content, shown, dropped, raised>>
    BY <1>7 DEF Add, Added, Complete, StopCommentary, Finished, Elapse, vars, stream, hits
  <2>2. /\ pc # "yield" => pc' # "yield"
        /\ pc = "yield" => pc' = pc
        /\ pc' \in {"events", "adding"} => pc \in {"events", "adding"}
        /\ pc \in {"events", "adding"} => pc' \in {"events", "adding"}
        /\ pc \in {"sending", "leaving"} => pc' = pc
    BY <1>7 DEF Add, Added, Complete, StopCommentary, Finish, Finished, Elapse, vars
  <2>3. Kept' = Kept
    BY <2>1, <2>2 DEF Kept
  <2> QED
    BY <1>a, <1>c, <2>1, <2>2, <2>3 DEF TextShown
<1>8. CASE Abort
  <2>1. /\ raised' /\ received' = received /\ dropped' = (dropped \/ pc = "yield")
    BY <1>8 DEF Abort
  <2>2. /\ pc' \in {"leaving", "stop", "over"}
        /\ \/ UNCHANGED <<content, tokens>> /\ tokens = <<>>
           \/ content' = content \o tokens /\ tokens' = <<>>
    <3>1. pc \notin Streaming => tokens = <<>>
      BY <1>a DEF TextShown, Streaming
    <3> QED
      BY <1>8, <3>1, AbortLeaves DEF StreamInv
  <2>3. Kept' = Kept
    BY <2>1, <2>2 DEF Kept
  <2> QED
    BY <1>c, <1>d, <2>1, <2>2, <2>3 DEF TextShown
<1> QED
  BY <1>1, <1>2, <1>3, <1>4, <1>5, <1>6, <1>7, <1>8 DEF Next, Render

(* Every step keeps what the displays hold: a display stays the renderer's *)
(* until an update that ends it is awaited, or returned, and only complete *)
(* makes it done.                                                          *)
LEMMA DisplayStep == StreamInv /\ [Next]_vars => DisplayBegins' /\ EarlyHits' /\ DisplayEnds'
<1> SUFFICES ASSUME StreamInv, [Next]_vars PROVE DisplayBegins' /\ EarlyHits' /\ DisplayEnds'
  OBVIOUS
<1>a. /\ TypeOK /\ PhasesRaise /\ DisplayBegins /\ EarlyHits /\ DisplayEnds /\ MaxAdds \in Nat
      /\ display.entries \in 0 .. MaxAdds
      /\ renderer \in {"steps", "tasks"}
  BY BoundsAssumption DEF StreamInv, TypeOK, Displays
<1> USE DEF BeforeComplete
<1>1. CASE StreamToken \/ Yielded \/ Boundary \/ Sent \/ EndOfEvents \/ Left
  <2>1. UNCHANGED <<raised, early, renderer, active, display, screen>>
    BY <1>1 DEF StreamToken, Yielded, Boundary, Sent, EndOfEvents, Left, commentary, hits
  <2>2. /\ pc \in BeforeComplete \ {"adding"}
        /\ pc' \in (BeforeComplete \ {"adding"}) \cup {"complete", "stop"}
        /\ pc' = "stop" => raised
    BY <1>1 DEF StreamToken, Yielded, Boundary, Flush, Sent, EndOfEvents, Leave, AfterBlock, Left
  <2> QED
    BY <1>a, <2>1, <2>2 DEF DisplayBegins, EarlyHits, DisplayEnds
<1>2. CASE Add
  <2>1. /\ display' = [entries |-> display.entries + 1, state |-> "running"]
        /\ pc = "events" /\ pc' = "adding" /\ active' = TRUE
        /\ UNCHANGED <<renderer, screen, early>>
    BY <1>2 DEF Add, NextEntry, hits
  <2>2. display'.state = "running" /\ display' # Nothing
    BY <2>1 DEF Nothing
  <2> QED
    BY <1>a, <2>1, <2>2 DEF DisplayBegins, EarlyHits, DisplayEnds
<1>3. CASE Added
  BY <1>3, <1>a DEF Added, DisplayBegins, EarlyHits, DisplayEnds, hits
<1>4. ASSUME NEW end \in {"done", "failed"}
      PROVE  [display EXCEPT !.state = end].state = end
             /\ [display EXCEPT !.state = end] # Nothing
  <2>1. [display EXCEPT !.state = end].state = end
    BY <1>a DEF TypeOK, Displays
  <2> QED
    BY <2>1 DEF Nothing
<1>5. CASE Complete
  <2>1. /\ pc = "complete" /\ ~raised /\ ~early
        /\ UNCHANGED <<raised, early, renderer, screen>>
    BY <1>5, <1>a DEF Complete, PhasesRaise, hits
  <2>2. CASE pc' = "completing"
    <3>1. /\ display' = [display EXCEPT !.state = "done"] /\ display # Nothing
          /\ active' = (active /\ renderer # "tasks")
      BY <1>5, <1>a, <2>2 DEF Complete, Finish, ForgetsFirst, DisplayBegins
    <3>2. display'.state = "done" /\ display' # Nothing
      BY <1>4, <3>1
    <3> QED
      BY <1>a, <2>1, <2>2, <3>1, <3>2 DEF DisplayBegins, EarlyHits, DisplayEnds
  <2>3. CASE pc' # "completing"
    <3>1. pc' = "over" /\ UNCHANGED <<active, display>>
      BY <1>5, <2>3 DEF Complete, Finish
    <3> QED
      BY <1>a, <2>1, <3>1 DEF DisplayBegins, EarlyHits, DisplayEnds
  <2> QED
    BY <2>2, <2>3
<1>6. CASE StopCommentary
  <2>1. pc = "stop" /\ raised /\ UNCHANGED <<raised, early, renderer, screen>>
    BY <1>6, <1>a DEF StopCommentary, PhasesRaise, hits
  <2>2. CASE active
    <3>1. /\ display' = [display EXCEPT !.state = "failed"] /\ pc' = "stopping"
          /\ active' = (active /\ renderer # "tasks")
      BY <1>6, <2>2 DEF StopCommentary, Finish, ForgetsFirst
    <3>2. display'.state = "failed" /\ display' # Nothing /\ display # Nothing
      BY <1>4, <1>a, <2>2, <3>1 DEF DisplayBegins
    <3> QED
      BY <1>a, <2>1, <2>2, <3>1, <3>2 DEF DisplayBegins, EarlyHits, DisplayEnds
  <2>3. CASE ~active
    <3>1. pc' = "over" /\ UNCHANGED <<active, display>>
      BY <1>6, <2>3 DEF StopCommentary
    <3> QED
      BY <1>a, <2>1, <3>1 DEF DisplayBegins, EarlyHits, DisplayEnds
  <2> QED
    BY <2>2, <2>3
<1>7. CASE Finished
  <2>1. /\ pc \in {"completing", "stopping"} /\ pc' = "over" /\ active' = FALSE
        /\ screen' = (IF renderer = "steps" /\ screen = Nothing THEN screen ELSE display)
        /\ UNCHANGED <<raised, early, renderer, display>>
    BY <1>7 DEF Finished, hits
  <2> QED
    BY <1>a, <2>1 DEF DisplayBegins, EarlyHits, DisplayEnds
<1>8. CASE Abort
  <2>1. /\ UNCHANGED <<renderer, active, display>> /\ raised'
        /\ early' = (early \/ pc \in BeforeComplete)
        /\ screen' \in {screen, display}
    BY <1>8 DEF Abort
  <2>2. /\ pc \in BeforeComplete \cup {"completing"} => pc' \in {"leaving", "stop"}
        /\ pc \notin BeforeComplete => pc' # "leaving"
        /\ pc = "stopping" => pc' = "over"
        /\ pc \in BeforeComplete \cup {"completing", "stopping"}
    BY <1>8, <1>a, AbortLeaves DEF Streaming
  <2>3. pc = "completing" => ~early
    BY <1>a DEF PhasesRaise
  <2> QED
    BY <1>a, <2>1, <2>2, <2>3 DEF DisplayBegins, EarlyHits, DisplayEnds
<1>9. CASE Elapse \/ UNCHANGED vars
  <2>1. UNCHANGED <<pc, raised, early, renderer, active, display, screen>>
    BY <1>9 DEF Elapse, vars, commentary, hits
  <2> QED
    BY <1>a, <2>1 DEF DisplayBegins, EarlyHits, DisplayEnds
<1> QED
  BY <1>1, <1>2, <1>3, <1>5, <1>6, <1>7, <1>8, <1>9 DEF Next, Render

(* Every step that ends the turn leaves the outcome on the screen: either  *)
(* an update returned, or there was nothing to end, or stop itself was hit.*)
LEMMA OutcomeStep == StreamInv /\ [Next]_vars => StepsEndOnScreen' /\ OutcomeShown'
<1> SUFFICES ASSUME StreamInv, [Next]_vars PROVE StepsEndOnScreen' /\ OutcomeShown'
  OBVIOUS
<1>a. /\ TypeOK /\ PhasesRaise /\ DisplayBegins /\ EarlyHits /\ DisplayEnds
      /\ renderer \in {"steps", "tasks"}
  BY BoundsAssumption DEF StreamInv, TypeOK
<1>b. EarlyHits'
  BY DisplayStep
<1> USE DEF StepsEndOnScreen, EndsOnScreen, OutcomeShown
<1>1. CASE Finished
  <2>1. /\ pc \in {"completing", "stopping"} /\ UNCHANGED <<raised, early, renderer, display>>
        /\ screen' = (IF renderer = "steps" /\ screen = Nothing THEN screen ELSE display)
    BY <1>1 DEF Finished, hits
  <2>2. ASSUME NEW end, display.state = end PROVE [display EXCEPT !.state = end] = display
    BY <1>a, <2>2 DEF TypeOK, Displays
  <2>3. CASE pc = "completing"
    <3>1. ~raised /\ ~early /\ display.state = "done"
      BY <1>a, <2>3 DEF PhasesRaise, DisplayEnds
    <3>2. screen' = display'
      BY <1>a, <2>1, <2>3, <3>1 DEF DisplayBegins, Nothing
    <3>3. Shows("done")'
      BY <2>1, <2>2, <3>1, <3>2 DEF Shows
    <3> QED
      BY <2>1, <3>1, <3>2, <3>3
  <2>4. CASE pc = "stopping"
    <3>1. raised /\ display.state = "failed"
      BY <1>a, <2>4 DEF PhasesRaise, DisplayEnds
    <3>2. UnseenStep' \/ screen' = display'
      BY <2>1, <3>1 DEF UnseenStep
    <3>3. screen' = display' => Shows("failed")'
      BY <2>1, <2>2, <3>1 DEF Shows
    <3>4. screen' = Nothing \/ screen' = display'
      BY <2>1
    <3> QED
      BY <1>b, <2>1, <3>1, <3>2, <3>3, <3>4 DEF EarlyHits
  <2> QED
    BY <2>1, <2>3, <2>4
<1>2. CASE pc' # "over"
  BY <1>b, <1>2 DEF EarlyHits
<1>3. CASE Complete /\ pc' = "over"
  <2>1. /\ pc = "complete" /\ UNCHANGED <<renderer, display, screen>>
        /\ IF renderer = "steps" THEN ~active ELSE display = Nothing
    BY <1>3 DEF Complete, Finish
  <2>2. display' = Nothing /\ screen' = Nothing
    BY <1>a, <2>1 DEF DisplayBegins, DisplayEnds
  <2> QED
    BY <1>b, <2>2 DEF EarlyHits
<1>4. CASE StopCommentary /\ pc' = "over"
  <2>1. pc = "stop" /\ ~active /\ UNCHANGED <<raised, early, renderer, display, screen>>
    BY <1>4 DEF StopCommentary, Finish, hits
  <2>2. renderer = "steps" \/ early => display' = Nothing /\ screen' = Nothing
    BY <1>a, <2>1 DEF DisplayBegins, EarlyHits, DisplayEnds
  <2>3. raised'
    BY <1>a, <2>1 DEF PhasesRaise
  <2> QED
    BY <1>b, <2>1, <2>2, <2>3 DEF EarlyHits
<1>5. CASE Abort /\ pc' = "over"
  <2>1. pc = "stopping" /\ cut' = (pc = "stopping")
    BY <1>5, <1>a, AbortLeaves DEF Abort, Streaming
  <2> QED
    BY <1>b, <2>1 DEF EarlyHits
<1>6. CASE (Elapse \/ UNCHANGED vars) /\ pc' = "over"
  <2>1. UNCHANGED <<pc, raised, early, renderer, active, display, screen, cut>>
    BY <1>6 DEF Elapse, vars, commentary, hits
  <2> QED
    BY <2>1 DEF StreamInv, Shows, UnseenStep
<1>7. CASE pc' = "over" /\ (StreamToken \/ Yielded \/ Boundary \/ Sent \/ EndOfEvents \/ Left
                           \/ Add \/ Added)
  BY <1>7 DEF StreamToken, Yielded, Boundary, Flush, Sent, EndOfEvents, Leave, AfterBlock, Left,
              Add, Added
<1> QED
  BY <1>1, <1>2, <1>3, <1>4, <1>5, <1>6, <1>7 DEF Next, Render

-----------------------------------------------------------------------------
(* What holds of every turn.                                               *)

(* The turn keeps its invariant, with its types, in every behaviour.       *)
THEOREM StreamInductive == Spec => []StreamInv
<1>1. Init => StreamInv
  <2> SUFFICES ASSUME Init PROVE StreamInv
    OBVIOUS
  <2>1. TypeOK
    <3>1. Nothing \in Displays
      BY BoundsAssumption DEF Nothing, Displays
    <3>2. <<>> \in Seq(1 .. MaxTokens)
      OBVIOUS
    <3>3. /\ received \in 0 .. MaxTokens /\ aborts \in 0 .. MaxAborts
          /\ content = <<>> /\ tokens = <<>> /\ shown = <<>>
      BY BoundsAssumption DEF Init
    <3>4. /\ raised \in BOOLEAN /\ early \in BOOLEAN /\ due \in BOOLEAN /\ active \in BOOLEAN
          /\ dropped \in BOOLEAN /\ cut \in BOOLEAN
      BY DEF Init
    <3>5. pc = "events" /\ renderer \in Renderers /\ display = Nothing /\ screen = Nothing
      BY DEF Init
    <3> QED
      BY <3>1, <3>2, <3>3, <3>4, <3>5 DEF TypeOK
  <2>2. PhasesRaise /\ TextShown
    BY DEF Init, PhasesRaise, Streaming, TextShown
  <2>3. TextSplit
    BY DEF Init, TextSplit, Split, Kept
  <2>4. DisplayBegins /\ EarlyHits /\ DisplayEnds
    BY DEF Init, DisplayBegins, EarlyHits, DisplayEnds, Nothing
  <2>5. StepsEndOnScreen /\ OutcomeShown
    BY DEF Init, StepsEndOnScreen, EndsOnScreen, OutcomeShown
  <2> QED
    BY <2>1, <2>2, <2>3, <2>4, <2>5 DEF StreamInv
<1>2. StreamInv /\ [Next]_vars => StreamInv'
  BY TypeStep, PhasesStep, TextStep, DisplayStep, OutcomeStep DEF StreamInv
<1> QED
  BY <1>1, <1>2, PTL DEF Spec

(* Batching neither loses, repeats nor reorders text, wherever the turn is *)
(* hit, and what a turn that nothing hit received is what is shown.        *)
THEOREM AlwaysInOrder == Spec => []TextInOrder
<1>1. StreamInv => TextInOrder
  <2> SUFFICES ASSUME StreamInv PROVE TextInOrder
    OBVIOUS
  <2>1. Kept \in Nat
    BY BoundsAssumption DEF StreamInv, TypeOK, PhasesRaise, Kept
  <2>2. content \o tokens = [i \in 1 .. Kept |-> i]
    BY <2>1, SplitIsText DEF StreamInv, TypeOK, TextSplit
  <2>3. Outside => tokens = <<>> /\ (~raised => shown = content)
    BY DEF StreamInv, TextShown, Outside
  <2> QED
    BY <2>2, <2>3 DEF TextInOrder
<1> QED
  BY <1>1, StreamInductive, PTL

(* A step never stays running, nor behind its history, once complete or    *)
(* stop returned.                                                          *)
THEOREM AlwaysEndOnScreen == Spec => []StepsEndOnScreen
<1>1. StreamInv => StepsEndOnScreen
  BY DEF StreamInv
<1> QED
  BY <1>1, StreamInductive, PTL

(* With either renderer, however often and wherever a turn is hit: one hit *)
(* before it reached complete never shows success in the browser and ends  *)
(* there as failed; one that nothing hit ends there as done.               *)
THEOREM AlwaysTellsOutcome == Spec => []OutcomeShown
<1>1. StreamInv => OutcomeShown
  BY DEF StreamInv
<1> QED
  BY <1>1, StreamInductive, PTL

-----------------------------------------------------------------------------
(* The turn.  A step of one part leaves the others alone, so that the turn *)
(* behaves as each of them specifies.                                      *)
LEMMA TurnImplementsParts == TurnPartsSpec => Spec /\ InputSpec /\ McpSpec
<1>1. TurnPartsInit => Init /\ InputInit /\ McpInit
  BY DEF TurnPartsInit
<1>2. [TurnPartsNext]_turnVars => [Next]_vars /\ [InputNext]_inputVars /\ [McpNext]_mcpVars
  BY DEF TurnPartsNext, turnVars
<1> QED
  BY <1>1, <1>2, PTL DEF TurnPartsSpec, Spec, InputSpec, McpSpec

(* The parts together keep their types.                                    *)
THEOREM TurnTypeCorrect == TurnPartsSpec => []TurnPartsTypeOK
<1>1. StreamInv /\ InputInv /\ McpInv => TurnPartsTypeOK
  BY DEF StreamInv, InputInv, McpInv, TurnPartsTypeOK
<1> QED
  BY <1>1, TurnImplementsParts, StreamInductive, InputInvariant, McpInductive, PTL

(* What the run of the turn checks holds of turns of any size: text in     *)
(* order, ends and outcomes on screen, files in their items, calls to      *)
(* sessions that listed the tool, disconnected tools forgotten, and only   *)
(* the conversation in a request.                                          *)
THEOREM TurnCorrect ==
  TurnPartsSpec => /\ [](TextInOrder /\ StepsEndOnScreen /\ OutcomeShown
                          /\ RequestCarriesFiles /\ CalledSessionListedTool)
                   /\ OnlyConversation
                   /\ ForgottenOnDisconnect
  BY TurnImplementsParts, AlwaysInOrder, AlwaysEndOnScreen, AlwaysTellsOutcome,
     AlwaysCarriesFiles, AlwaysListed, AlwaysConversation, AlwaysForgotten, PTL
=============================================================================

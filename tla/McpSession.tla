----------------------------- MODULE McpSession -----------------------------
(***************************************************************************)
(* McpTools of mcp.py in one Chainlit session: the callbacks of Chainlit's *)
(* MCP connections, and a turn that offers the connected tools to the      *)
(* model, executes the calls it returns one after the other, and continues *)
(* with their outputs (openai/tools.py).                                   *)
(*                                                                         *)
(* External: Chainlit opens a connection and then calls the connect        *)
(* callback, and calls the disconnect callback and then closes; a          *)
(* replacement may be opened before the old connection is disconnected; a  *)
(* server that dies is not reported.  A closed session fails what awaits   *)
(* it, unless the answer has already arrived.                              *)
(***************************************************************************)
EXTENDS Naturals, Sequences

CONSTANTS
  Tools,           \* tool names
  MaxConnections,  \* bound: connections opened in the session
  MaxRequests,     \* bound: requests of turns
  MaxCalls         \* bound: function calls of a Response

ASSUME McpAssumption ==
  MaxConnections \in Nat /\ MaxRequests \in Nat /\ MaxCalls \in Nat

Connection == 1 .. MaxConnections
NoServer == 0

VARIABLES
  named,     \* named[c]: the connection's name, ours or another
  link,      \* link[c]: unused, open, dead, leaving (disconnect called) or closed
  offers,    \* offers[c]: the tools its server lists
  listing,   \* listing[c]: how far connect is
  stored,    \* the session of the stored _ConnectedServer
  loop,      \* the turn: idle, asked, executing, entering a step or calling
  requests,  \* how many requests it sent
  calls,     \* the tools that the Response calls
  outputs,   \* how many of them have their function output
  target     \* the session that execute looked up

connections == <<named, link, offers, listing, stored>>
toolTurn == <<loop, requests, calls, outputs, target>>
mcpVars == <<connections, toolTurn>>

McpTypeOK ==
  /\ named \in [Connection -> {"ours", "other"}]
  /\ link \in [Connection -> {"unused", "open", "dead", "leaving", "closed"}]
  /\ offers \in [Connection -> SUBSET Tools]
  /\ listing \in [Connection -> {"none", "asked", "answered", "done", "failed"}]
  /\ stored \in Connection \cup {NoServer}
  /\ loop \in {"idle", "asked", "executing", "entering", "calling"}
  /\ requests \in 0 .. MaxRequests
  /\ calls \in Seq(Tools) /\ Len(calls) <= MaxCalls
  /\ outputs \in 0 .. Len(calls)
  /\ target \in Connection \cup {NoServer}

McpInit ==
  /\ named = [c \in Connection |-> "other"]
  /\ link = [c \in Connection |-> "unused"]
  /\ offers = [c \in Connection |-> {}]
  /\ listing = [c \in Connection |-> "none"]
  /\ stored = NoServer
  /\ loop = "idle"
  /\ requests = 0
  /\ calls = <<>>
  /\ outputs = 0
  /\ target = NoServer

-----------------------------------------------------------------------------
(* Connections.                                                            *)

\* Mutated form of Connects: every connection is taken for ours.
ConnectsAny(name) == TRUE

\* connect goes on to list_tools.
Connects(name) == name = "ours"

\* Chainlit opened a connection and calls connect.
OpenConnection(c) ==
  /\ link[c] = "unused" /\ \A b \in 1 .. c - 1 : link[b] # "unused"
  /\ link' = [link EXCEPT ![c] = "open"]
  /\ \E name \in {"ours", "other"}, tools \in SUBSET Tools :
       /\ named' = [named EXCEPT ![c] = name]
       /\ offers' = [offers EXCEPT ![c] = tools]
       /\ listing' = [listing EXCEPT ![c] = IF Connects(name) THEN "asked" ELSE "none"]
  /\ UNCHANGED <<stored, toolTurn>>

\* The answer to list_tools arrives, or it fails.
ListAnswered(c) ==
  /\ listing[c] = "asked"
  /\ \/ link[c] = "open" /\ listing' = [listing EXCEPT ![c] = "answered"]
     \/ listing' = [listing EXCEPT ![c] = "failed"]
  /\ UNCHANGED <<named, link, offers, stored, toolTurn>>

\* connect is resumed and stores the session with its tools.
Discovered(c) ==
  /\ listing[c] = "answered"
  /\ listing' = [listing EXCEPT ![c] = "done"]
  /\ stored' = c
  /\ UNCHANGED <<named, link, offers, toolTurn>>

\* Mutated form of Forgets: the tools stay.
ForgetsNothing(c) == FALSE

\* disconnect forgets the tools: they are the ones of this very session.
Forgets(c) == named[c] = "ours" /\ stored = c

\* Chainlit calls disconnect ...
Disconnect(c) ==
  /\ link[c] \in {"open", "dead"}
  /\ link' = [link EXCEPT ![c] = "leaving"]
  /\ stored' = IF Forgets(c) THEN NoServer ELSE stored
  /\ UNCHANGED <<named, offers, listing, toolTurn>>

\* ... and closes the session.
CloseConnection(c) ==
  /\ link[c] = "leaving"
  /\ link' = [link EXCEPT ![c] = "closed"]
  /\ UNCHANGED <<named, offers, listing, stored, toolTurn>>

ServerDies(c) ==
  /\ link[c] = "open"
  /\ link' = [link EXCEPT ![c] = "dead"]
  /\ UNCHANGED <<named, offers, listing, stored, toolTurn>>

-----------------------------------------------------------------------------
(* The turn.                                                               *)

\* response_tools and a request with them: the first one, or the one that
\* continuation_input makes when every call has its output.
AskModel ==
  /\ \/ loop = "idle"
     \/ loop = "executing" /\ outputs = Len(calls)
  /\ requests < MaxRequests
  /\ requests' = requests + 1
  /\ loop' = "asked"
  /\ UNCHANGED <<connections, calls, outputs, target>>

\* function_calls of the Response, if any: the model may also name a tool
\* that it was not offered.
ModelResponds ==
  /\ loop = "asked"
  /\ \E n \in 0 .. MaxCalls : calls' \in [1 .. n -> Tools]
  /\ loop' = IF calls' = <<>> THEN "idle" ELSE "executing"
  /\ outputs' = 0
  /\ UNCHANGED <<connections, requests, target>>

Call == calls[outputs + 1]

\* execute finds the tool among those of the stored server.
Advertised(tool) == stored # NoServer /\ tool \in offers[stored]

\* execute up to the step; an unknown tool or arguments that are no object
\* raise and end the turn.
Execute ==
  /\ loop = "executing" /\ outputs < Len(calls)
  /\ \/ Advertised(Call) /\ loop' = "entering" /\ target' = stored
     \/ loop' = "idle" /\ UNCHANGED target
  /\ UNCHANGED <<connections, requests, calls, outputs>>

\* Mutated form of CallTool: the stored server is read again after the await.
CallToolOfStored ==
  /\ loop = "entering"
  /\ loop' = "calling"
  /\ target' = IF stored = NoServer THEN target ELSE stored
  /\ UNCHANGED <<connections, requests, calls, outputs>>

\* The step is shown; the call goes to the session that was looked up.
CallTool ==
  /\ loop = "entering"
  /\ loop' = "calling"
  /\ UNCHANGED <<connections, requests, calls, outputs, target>>

\* The result of a session that is open, or an exception.
ToolReturns ==
  /\ loop = "calling"
  /\ \/ /\ link[target] = "open"
        /\ loop' = "executing"
        /\ outputs' = outputs + 1
     \/ loop' = "idle" /\ UNCHANGED outputs
  /\ UNCHANGED <<connections, requests, calls, target>>

Connecting(c) ==
  \/ OpenConnection(c) \/ ListAnswered(c) \/ Discovered(c)
  \/ Disconnect(c) \/ CloseConnection(c) \/ ServerDies(c)

McpNext ==
  \/ \E c \in Connection : Connecting(c)
  \/ AskModel \/ ModelResponds \/ Execute \/ CallTool \/ ToolReturns

McpSpec == McpInit /\ [][McpNext]_mcpVars
-----------------------------------------------------------------------------
(* Properties.                                                             *)

(* "Forget tools when the active MCP session disconnects" (line 118), then *)
(* and only then: the disconnect of a session that was replaced, or that   *)
(* never stored its tools, leaves the newer one's in place; and the stored *)
(* tools are always our server's.  A list_tools that returns after its own *)
(* disconnect stores a session that nothing forgets: see the README.       *)
ForgetStep ==
  /\ stored # NoServer =>
       (stored' = NoServer <=>
          link[stored] \in {"open", "dead"} /\ link'[stored] = "leaving")
  /\ stored' # NoServer => named'[stored'] = "ours"
ForgottenOnDisconnect == [][ForgetStep]_mcpVars

(* execute "validates that the tool was advertised, executes it through    *)
(* the active MCP session" (README.md:461-462): although connections come  *)
(* and go while the step is entered, the session that gets the call is one *)
(* that listed the tool.                                                   *)
CalledSessionListedTool ==
  loop \in {"entering", "calling"} => Call \in offers[target]
=============================================================================

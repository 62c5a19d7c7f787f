----------------------------- MODULE MCChatTurn ------------------------------
(***************************************************************************)
(* The parts of a chat turn for TLC: the input built of the transcript and *)
(* the files, the tools of the MCP session, and the streamed Response.     *)
(* They share no state, so a behaviour exercises one of them, the stage,   *)
(* and the others stay as they are at first.                               *)
(***************************************************************************)
EXTENDS StreamedTurn, TurnInput, McpSession, TLC

VARIABLE stage

turnVars == <<stage, vars, inputVars, mcpVars>>

\* Tools are names that nothing tells apart.
ToolSymmetry == Permutations(Tools)

TurnPartsTypeOK == TypeOK /\ InputTypeOK /\ McpTypeOK

TurnPartsInit ==
  /\ stage \in {"input", "tools", "stream"}
  /\ Init /\ InputInit /\ McpInit
  /\ stage # "stream" => renderer = CHOOSE one \in Renderers : TRUE
  /\ stage # "input" => uploads

TurnPartsNext ==
  \/ stage = "input" /\ InputNext /\ UNCHANGED <<stage, vars, mcpVars>>
  \/ stage = "tools" /\ McpNext /\ UNCHANGED <<stage, vars, inputVars>>
  \/ stage = "stream" /\ Next /\ UNCHANGED <<stage, inputVars, mcpVars>>

TurnPartsSpec == TurnPartsInit /\ [][TurnPartsNext]_turnVars
=============================================================================

------------------------------ MODULE ToolCalls ------------------------------
(***************************************************************************)
(* What surrounds a tool call: a call of the subagent tool, telemetry, the *)
(* approval gate and websearch, side by side.  They share no state, so     *)
(* the conjunction of their specifications composes them.                  *)
(***************************************************************************)
EXTENDS Subagents, Telemetry, ApprovalGate, WebSearch

(* What is done again is done only when it may be: a task after an attempt that could
   not write, a search of one key when no other is under way, a request after the
   interval and the cooldown.                                                        *)
NothingTwice ==
  /\ NoSecondWriter /\ [](SearchTypeOK /\ OneFlightPerKey) /\ RequestsPaced
=============================================================================

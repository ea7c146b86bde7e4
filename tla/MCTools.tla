------------------------------ MODULE MCTools ------------------------------
(* Instances of what surrounds a tool call, for TLC.  A behaviour is one of the part
   that `part` names; the variables of the others stay as they are at the start.    *)
EXTENDS ToolCalls, BashOutput

VARIABLE part

MCOrder == [k \in Keys |-> SetToSeq(Formal)]
MCSimilar == [q \in Requests |-> {q}]
MCCharacters == [raw : {1}, bytes : {1}, kind : {"plain", "hidden", "folded"}]
                  \cup [raw : {2}, bytes : {2}, kind : {"plain"}]

ASSUME OutputAssumption

approvalVars == <<policy, file, session, grants, told, writers, torn, configs, crashes, spoils>>

MCInit ==
  /\ part \in {"subagents", "telemetry", "approval", "bash", "web"}
  /\ SubagentsInit /\ TelemetryInit /\ GateInit /\ OutputInit /\ SearchInit
  /\ part # "subagents" => ~chain
  /\ policy = [q \in Requests |-> "ask"]
MCNext ==
  \/ /\ part = "subagents" /\ SubagentsNext
     /\ UNCHANGED <<part, telVars, approvalVars, outVars, searchVars>>
  \/ /\ part = "telemetry" /\ TelemetryNext
     /\ UNCHANGED <<part, subVars, approvalVars, outVars, searchVars>>
  \/ /\ part = "approval" /\ GateNext
     /\ UNCHANGED <<part, subVars, telVars, outVars, searchVars>>
  \/ /\ part = "bash" /\ OutputNext
     /\ UNCHANGED <<part, subVars, telVars, approvalVars, searchVars>>
  \/ /\ part = "web" /\ SearchNext
     /\ UNCHANGED <<part, subVars, telVars, approvalVars, outVars>>

(* The fairness of the specifications, each for the behaviours of its part. *)
MCFairness ==
  /\ WF_subVars(part = "subagents" /\ Cleanup)
  /\ \A t \in Tasks : /\ WF_subVars(part = "subagents" /\ TaskStep(t))
                      /\ WF_subVars(part = "subagents" /\ Timeout(t))
                      /\ WF_subVars(part = "subagents" /\ GraceEnds(t))
                      /\ WF_subVars(part = "subagents" /\ KilledCloses(t))
  /\ \A k \in RunIds : WF_telVars(part = "telemetry" /\ RunStep(k))
  /\ WF_outVars(part = "bash" /\ Update)
  /\ WF_searchVars(part = "web" /\ Tick)
  /\ \A c \in Calls : WF_searchVars(part = "web" /\ Step(c))
MCSpec ==
  MCInit /\ [][MCNext]_<<part, subVars, telVars, approvalVars, outVars, searchVars>> /\ MCFairness

\* What begins comes to an end: the tasks of a subagent call, the file of a run that is
\* closed, an update that is due, a search.
EverythingEnds == EveryTaskEnds /\ RunsClose /\ UpdatesFollow /\ EverySearchReturns
============================================================================

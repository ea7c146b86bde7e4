---------------------------- MODULE MCServices -----------------------------
(* Instances of the small services for TLC.  A behaviour is one of the service
   that `part` names; the variables of the others stay as they are at the start. *)
EXTENDS MutationQueue, WorkerTaskPool, MutationBatch, LspManager

VARIABLE part

MCInit ==
  /\ part \in {"queue", "pool", "batch", "lsp"}
  /\ Init /\ PoolInit /\ BatchInit /\ ManagerInit
  /\ part # "batch" => parallel /\ path = [c \in BatchCalls |-> CHOOSE p \in Paths : TRUE]
MCNext ==
  \/ part = "queue" /\ Next /\ UNCHANGED <<part, poolVars, batchVars, managerVars>>
  \/ part = "pool" /\ PoolNext /\ UNCHANGED <<part, vars, batchVars, managerVars>>
  \/ part = "batch" /\ BatchNext /\ UNCHANGED <<part, vars, poolVars, managerVars>>
  \/ part = "lsp" /\ ManagerNext /\ UNCHANGED <<part, vars, poolVars, batchVars>>

(* The fairness of the four specifications, each for the behaviours of its part. *)
MCFairness ==
  /\ \A c \in Calls :
       /\ WF_vars(part = "queue" /\ (Enter(c) \/ EnterAborted(c)))
       /\ WF_vars(part = "queue" /\ Leave(c))
  /\ \A c \in BatchCalls : WF_batchVars(part = "batch" /\ BatchStep(c))
  /\ WF_batchVars(part = "batch" /\ ProcessLsp)
  /\ WF_batchVars(part = "batch" /\ ProcessRepoMap)
  /\ WF_poolVars(part = "pool" /\ Dispatch)
  /\ \A w \in Workers :
       /\ WF_poolVars(part = "pool" /\ ThreadReplies(w))
       /\ WF_poolVars(part = "pool" /\ ThreadGone(w))
       /\ WF_poolVars(part = "pool" /\ FinishTask(w))
       /\ WF_poolVars(part = "pool" /\ WorkerExit(w))
  /\ \A o \in Operations : WF_managerVars(part = "lsp" /\ OpStep(o))
  /\ \A k \in 1..MaxClients :
       /\ WF_managerVars(part = "lsp" /\ ClientStep(k))
       /\ WF_managerVars(part = "lsp" /\ IdleTimeout(k))
       /\ WF_managerVars(part = "lsp" /\ Restart(k))
  /\ WF_managerVars(part = "lsp" /\ ReloadStep)
MCSpec == MCInit /\ [][MCNext]_<<part, vars, poolVars, batchVars, managerVars>> /\ MCFairness

\* The calls of every service end: WaitersSettle, EveryTaskSettles,
\* EveryStartedCallEnds and EverythingEnds.
EveryCallEnds ==
  WaitersSettle /\ EveryTaskSettles /\ EveryStartedCallEnds /\ EverythingEnds
============================================================================

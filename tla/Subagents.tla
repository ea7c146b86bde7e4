----------------------------- MODULE Subagents -----------------------------
(* One call of the subagent tool (src/subagent/executor.ts, process.ts): its tasks
   1..NTasks are run by children of the process, `Width` at a time, each task tried
   again when an attempt fails and is known to have changed nothing.  A call runs
   its tasks in parallel, or as a chain that stops at the first failure.

   The children are external: they print messages, change files, end or are killed.
   A child may ignore SIGTERM, never SIGKILL; its pipes close when it ends.       *)
EXTENDS Integers, FiniteSets

CONSTANTS
  NTasks,          \* the call has the tasks 1..NTasks
  MaxConcurrency,  \* config.max_concurrency
  MaxAttempts,     \* retries + 1
  Forked,          \* tasks of agents that fork the session: they share one directory, and
                   \* all have the tools of the session
  Capable,         \* tasks with a tool that is not known to be read-only
  Named,           \* of these, the ones whose tools are write, edit or bash
  RetryOn,         \* config.retry_on_timeout, retry_on_empty_output
  RetryDelay       \* config.retry_delay_ms is positive

Tasks == 1..NTasks

ASSUME SubagentsAssumption ==
  /\ NTasks \in Nat \ {0} /\ MaxConcurrency \in Nat \ {0} /\ MaxAttempts \in Nat \ {0}
  /\ Forked \subseteq Tasks /\ Named \subseteq Capable /\ Capable \subseteq Tasks
  /\ \A T \in {Capable, Named} : Forked \subseteq T \/ Forked \cap T = {}
  /\ RetryOn \subseteq {"timeout", "empty"} /\ RetryDelay \in BOOLEAN

VARIABLES
  chain,     \* a task refers to {previous}
  call,      \* "idle", "running", "cleaning" (the finally block) or "returned"
  threw,     \* the call ends with an error, not with its results
  aborted,   \* the signal of the call
  next,      \* the next task a worker takes
  at,        \* at[t]: where the execution of task t is
  attempt,   \* attempt[t]: attempts started
  child,     \* child[t]: the child of the attempt under way, or NoChild
  outcome,   \* outcome[t]: what the last attempt came to
  touched,   \* tasks that really changed something (history)
  dir        \* the fork directory: "none", "full", or "bare" without its snapshot

subVars == <<chain, call, threw, aborted, next, at, attempt, child, outcome, touched, dir>>

(***************************************************************************)
(* A child as its parent knows it: the signals sent to it, the flags of      *)
(* runPiProcess, and its last message: a text, or one that stops with an     *)
(* error.                                                                    *)
(***************************************************************************)
Said == {"nothing", "text", "error"}
Child == [up : {TRUE}, term : BOOLEAN, kill : BOOLEAN, timedOut : BOOLEAN,
          aborted : BOOLEAN, said : Said, wrote : BOOLEAN]
NoChild == [up |-> FALSE]

Up == {t \in Tasks : child[t].up}
Settled == {"done", "threw"}
UnderWay == {t \in Tasks : at[t] \notin {"queued"} \cup Settled}

\* runPiProcess terminates the child of an attempt once: SIGTERM, and later SIGKILL.
Terminated(c) == [c EXCEPT !.term = TRUE]

(***************************************************************************)
(* The pool: mapWithConcurrency, or the loop of a chain.  A worker begins    *)
(* its next task in the step that ends the one before.                       *)
(***************************************************************************)
WidthUnlimited == IF chain THEN 1 ELSE NTasks
Width == IF chain \/ MaxConcurrency <= 1 THEN 1
         ELSE IF MaxConcurrency < NTasks THEN MaxConcurrency ELSE NTasks

SubagentsInit ==
  /\ chain \in BOOLEAN
  /\ call = "idle" /\ threw = FALSE /\ aborted = FALSE /\ next = 1 /\ dir = "none"
  /\ at = [t \in Tasks |-> "queued"]
  /\ attempt = [t \in Tasks |-> 0]
  /\ child = [t \in Tasks |-> NoChild]
  /\ outcome = [t \in Tasks |-> "none"]
  /\ touched = {}

\* The context of the forks is made, and the first tasks begin.
Begin ==
  /\ call = "idle"
  /\ call' = "running" /\ next' = Width + 1
  /\ at' = [t \in Tasks |-> IF t <= Width THEN "asking" ELSE "queued"]
  /\ dir' = IF Forked = {} THEN "none" ELSE "full"
  /\ UNCHANGED <<chain, threw, aborted, attempt, child, outcome, touched>>
\* Too many tasks, an unknown agent, no context to fork.
BeginFails ==
  /\ call = "idle"
  /\ call' = "cleaning" /\ threw' = TRUE
  /\ UNCHANGED <<chain, aborted, next, at, attempt, child, outcome, touched, dir>>

\* The first error settles the call; the other workers are not told.
Throw(t) ==
  /\ at' = [at EXCEPT ![t] = "threw"]
  /\ IF call = "running" THEN call' = "cleaning" /\ threw' = TRUE ELSE UNCHANGED <<call, threw>>

(* executeOne up to its first attempt: the cwd escapes, no tool is left, the user
   refuses a write-capable agent, or there is no user to ask.  A fork has the cwd and
   the tools of the session, so only its confirmation can fail.                   *)
Refuse(t) ==
  /\ at[t] = "asking"
  /\ t \in Forked => t \in Capable
  /\ Throw(t)
  /\ UNCHANGED <<chain, aborted, next, attempt, child, outcome, touched, dir>>
Accept(t) ==
  /\ at[t] = "asking"
  /\ at' = [at EXCEPT ![t] = "launching"]
  /\ UNCHANGED <<chain, call, threw, aborted, next, attempt, child, outcome, touched, dir>>

(***************************************************************************)
(* An attempt.  buildLaunch makes the session directory of a forked task,    *)
(* parents included; a signal that is aborted already ends the child at once. *)
(***************************************************************************)
Launch(t) ==
  /\ at[t] = "launching"
  /\ at' = [at EXCEPT ![t] = "running"]
  /\ attempt' = [attempt EXCEPT ![t] = @ + 1]
  /\ child' = [child EXCEPT ![t] =
       [up |-> TRUE, term |-> aborted, kill |-> FALSE, timedOut |-> FALSE,
        aborted |-> aborted, said |-> "nothing", wrote |-> FALSE]]
  /\ dir' = IF t \in Forked /\ dir = "none" THEN "bare" ELSE dir
  /\ UNCHANGED <<chain, call, threw, aborted, next, outcome, touched>>

\* buildLaunch, or the spawn itself, throws.
LaunchFails(t) ==
  /\ at[t] = "launching"
  /\ Throw(t)
  /\ dir' \in IF t \in Forked /\ dir = "none" THEN {"none", "bare"} ELSE {dir}
  /\ UNCHANGED <<chain, aborted, next, attempt, child, outcome, touched>>

\* The call is cancelled: every child that runs is told.
Cancel ==
  /\ call \in {"idle", "running"} /\ ~aborted
  /\ aborted' = TRUE
  /\ child' = [t \in Tasks |-> IF child[t].up THEN [Terminated(child[t]) EXCEPT !.aborted = TRUE]
                               ELSE child[t]]
  /\ UNCHANGED <<chain, call, threw, next, at, attempt, outcome, touched, dir>>

TimeoutForgetsSignal(t) ==
  /\ child[t].up /\ ~child[t].timedOut
  /\ child' = [child EXCEPT ![t].timedOut = TRUE]
  /\ UNCHANGED <<chain, call, threw, aborted, next, at, attempt, outcome, touched, dir>>
Timeout(t) ==
  /\ child[t].up /\ ~child[t].timedOut
  /\ child' = [child EXCEPT ![t] = [Terminated(@) EXCEPT !.timedOut = TRUE]]
  /\ UNCHANGED <<chain, call, threw, aborted, next, at, attempt, outcome, touched, dir>>

\* The grace timer: SIGKILL.
GraceEnds(t) ==
  /\ child[t].up /\ child[t].term /\ ~child[t].kill
  /\ child' = [child EXCEPT ![t].kill = TRUE]
  /\ UNCHANGED <<chain, call, threw, aborted, next, at, attempt, outcome, touched, dir>>

(* The child prints a message.  A message that calls write, edit or bash is seen
   before the tool runs; other tools may write as well.                         *)
Speak(t) ==
  /\ child[t].up
  /\ \E s \in Said \ {"nothing", child[t].said} : child' = [child EXCEPT ![t].said = s]
  /\ UNCHANGED <<chain, call, threw, aborted, next, at, attempt, outcome, touched, dir>>
Change(t) ==
  /\ child[t].up /\ t \in Capable /\ t \notin touched
  /\ touched' = touched \cup {t}
  /\ child' = [child EXCEPT ![t].wrote = t \in Named]
  /\ UNCHANGED <<chain, call, threw, aborted, next, at, attempt, outcome, dir>>

(***************************************************************************)
(* validateProcessOutput and shouldRetry.  A child that a signal ended has no *)
(* exit code; the parent reads 0.                                            *)
(***************************************************************************)
Failure(c, code) ==
  CASE c.timedOut -> "timeout"
    [] ~c.timedOut /\ c.aborted -> "aborted"
    [] OTHER -> IF code # 0 THEN "exit" ELSE IF c.said = "error" THEN "stopped"
                ELSE IF c.said = "nothing" THEN "empty" ELSE "none"

ShouldRetryUnlessNamed(t, c, code) ==
  /\ Failure(c, code) # "none" /\ attempt[t] < MaxAttempts /\ ~c.wrote
ShouldRetry(t, c, code) ==
  LET f == Failure(c, code) IN
  /\ f # "none" /\ attempt[t] < MaxAttempts
  /\ ~c.wrote /\ t \notin Capable
  /\ IF f \in {"timeout", "empty"} THEN f \in RetryOn ELSE code # 0 \/ c.said = "error"

(* The child has ended: it could not be spawned, ended by itself, or a signal did. *)
Close(t) ==
  /\ child[t].up
  /\ \E code \in IF child[t].kill THEN {0} ELSE {0, 1} :
       /\ outcome' = [outcome EXCEPT ![t] = Failure(child[t], code)]
       /\ at' = [at EXCEPT ![t] = IF ~ShouldRetry(t, child[t], code) THEN "persisting"
                                  ELSE IF RetryDelay THEN "delay" ELSE "launching"]
  /\ child' = [child EXCEPT ![t] = NoChild]
  /\ UNCHANGED <<chain, call, threw, aborted, next, attempt, touched, dir>>

DelayEnds(t) ==
  /\ at[t] = "delay"
  /\ IF aborted THEN Throw(t)
     ELSE at' = [at EXCEPT ![t] = "launching"] /\ UNCHANGED <<call, threw>>
  /\ UNCHANGED <<chain, aborted, next, attempt, child, outcome, touched, dir>>

(***************************************************************************)
(* persistResult, then the next task: a chain stops at a failure, a worker   *)
(* takes what is left, and the call has its results when no task is under way. *)
(***************************************************************************)
Continues(t) == next <= NTasks /\ (chain => outcome[t] = "none")

Persist(t) ==
  /\ at[t] = "persisting"
  /\ at' = [u \in Tasks |-> IF u = t THEN "done"
                           ELSE IF u = next /\ Continues(t) THEN "asking" ELSE at[u]]
  /\ next' = IF Continues(t) THEN next + 1 ELSE next
  /\ call' = IF call = "running" /\ ~Continues(t) /\ UnderWay = {t} THEN "cleaning" ELSE call
  /\ UNCHANGED <<chain, threw, aborted, attempt, child, outcome, touched, dir>>
PersistFails(t) ==
  /\ at[t] = "persisting"
  /\ Throw(t)
  /\ UNCHANGED <<chain, aborted, next, attempt, child, outcome, touched, dir>>

\* The finally block: cleanupForkExecutionContext, and the tool answers.
Cleanup ==
  /\ call = "cleaning"
  /\ call' = "returned" /\ dir' = "none"
  /\ UNCHANGED <<chain, threw, aborted, next, at, attempt, child, outcome, touched>>

\* The steps of the program that nothing can hold up for ever.
TaskStep(t) ==
  \/ Refuse(t) \/ Accept(t) \/ Launch(t) \/ LaunchFails(t)
  \/ DelayEnds(t) \/ Persist(t) \/ PersistFails(t)
\* A child may run on; its timers, and the signal it cannot ignore, end it.
KilledCloses(t) == child[t].up /\ child[t].kill /\ Close(t)

SubagentsNext ==
  \/ Begin \/ BeginFails \/ Cancel \/ Cleanup
  \/ \E t \in Tasks : \/ TaskStep(t) \/ Timeout(t) \/ GraceEnds(t)
                      \/ Speak(t) \/ Change(t) \/ Close(t)
SubagentsFairness ==
  /\ WF_subVars(Cleanup)
  /\ \A t \in Tasks : /\ WF_subVars(TaskStep(t)) /\ WF_subVars(Timeout(t))
                      /\ WF_subVars(GraceEnds(t)) /\ WF_subVars(KilledCloses(t))
SubagentsSpec == SubagentsInit /\ [][SubagentsNext]_subVars /\ SubagentsFairness

-----------------------------------------------------------------------------
\* What the variables hold.
SubagentsTypeOK ==
  /\ chain \in BOOLEAN /\ threw \in BOOLEAN /\ aborted \in BOOLEAN
  /\ call \in {"idle", "running", "cleaning", "returned"} /\ dir \in {"none", "full", "bare"}
  /\ next \in 1..NTasks + 1 /\ touched \subseteq Capable
  /\ at \in [Tasks -> {"queued", "asking", "launching", "running", "delay", "persisting"} \cup Settled]
  /\ attempt \in [Tasks -> 0..MaxAttempts]
  /\ \A t \in Tasks : child[t] \in Child \cup {NoChild}
  /\ outcome \in [Tasks -> {"none", "timeout", "aborted", "exit", "stopped", "empty"}]

\* shouldRetry: what a task changed it changed once.  No attempt starts after one
\* that changed something, whatever its tools are called.
NoSecondWriter == [][\A t \in Tasks : attempt'[t] > attempt[t] => t \notin touched]_subVars

\* mapWithConcurrency: no more children than configured at any time; a call that
\* answers with its results has no task under way, no child, and no fork directory.
ChildrenAccounted ==
  /\ SubagentsTypeOK
  /\ Cardinality(UnderWay) <= IF chain THEN 1 ELSE MaxConcurrency
  /\ Up \subseteq UnderWay
  /\ call # "running" /\ ~threw => UnderWay = {}
  /\ call = "returned" /\ ~threw => dir = "none"

(* executeSubagent's finally block.  docs/subagent.md: the snapshot, the prompt, the
   manifest and every child session are removed when the whole execution has ended. *)
ForkCleaned == call = "returned" /\ UnderWay = {} => dir = "none"

(* Timeouts, signals and the pool: every call returns, and every task that began ends,
   those of a failed call too.  No task begins twice.                               *)
EveryTaskEnds == <>[](call \in {"idle", "returned"} /\ UnderWay = {})
============================================================================

----------------------------- MODULE Telemetry -----------------------------
(* The telemetry collector (src/telemetry/service.ts, writer.ts): every tool call that
   ends is a record of the run of its session.  A run opens its file when its first
   call ends; what ends until then waits in memory.  A session start closes the run
   before, in the background, and the new run's file waits for that.

   Records are the calls themselves; projections, repairs and batches are left out. *)
EXTENDS Integers, Sequences, FiniteSets

CONSTANTS
  ToolCalls,   \* tool calls
  MaxRuns,     \* bound: session starts
  MaxBroken    \* bound: runs whose file fails

ASSUME TelemetryAssumption == MaxRuns \in Nat \ {0} /\ MaxBroken \in Nat

RunIds == 1..MaxRuns
Header == "run"

VARIABLES
  current,   \* the run of the session, 0 before the first
  run,       \* run[k]: RunState and its writer
  records,   \* the memory view of the current run
  toolAt,    \* toolAt[c]: "idle", "executing" or "ended"
  pendingIn, \* calls the collector has seen start
  finished,  \* finished[k]: calls that started and ended in run k (history)
  startedIn, \* startedIn[c]: the run call c started in (history)
  broken     \* runs whose file failed

telVars == <<current, run, records, toolAt, pendingIn, finished, startedIn, broken>>

NewRun == [enabled |-> TRUE, closing |-> FALSE, init |-> "none", writer |-> "none",
           queued |-> <<>>, file |-> <<>>, predecessor |-> 0]

TelemetryInit ==
  /\ current = 0 /\ records = <<>> /\ pendingIn = {} /\ broken = {}
  /\ run = [k \in RunIds |-> NewRun]
  /\ toolAt = [c \in ToolCalls |-> "idle"]
  /\ finished = [k \in RunIds |-> <<>>]
  /\ startedIn = [c \in ToolCalls |-> 0]

Enabled == current # 0 /\ run[current].enabled

\* disableRun: a run that is no longer the current one is left as it is.
Disabled(rs, k) ==
  IF k = current /\ rs[k].enabled
  THEN [rs EXCEPT ![k].enabled = FALSE, ![k].queued = <<>>] ELSE rs
DisablesNow(k) == k = current /\ run[k].enabled

(***************************************************************************)
(* onSessionStart and onSessionShutdown.                                     *)
(***************************************************************************)
SessionStart ==
  /\ current < MaxRuns
  /\ current' = current + 1
  /\ run' = [k \in RunIds |-> IF k = current THEN [run[k] EXCEPT !.closing = TRUE]
                              ELSE IF k = current + 1 THEN [run[k] EXCEPT !.predecessor = current]
                              ELSE run[k]]
  /\ records' = <<Header>>
  /\ pendingIn' = {}
  /\ UNCHANGED <<toolAt, finished, startedIn, broken>>
SessionShutdown ==
  /\ current # 0 /\ ~run[current].closing
  /\ run' = [run EXCEPT ![current].closing = TRUE]
  /\ pendingIn' = {}
  /\ UNCHANGED <<current, records, toolAt, finished, startedIn, broken>>

\* closeRun: once the initialisation is over, the writer is closed.
Closed(k) == run[k].closing /\ run[k].init # "opening" /\ run[k].writer # "open"
CloseEndsAtOnce(k) ==
  /\ run[k].closing /\ (run[k].init = "opening" \/ run[k].writer = "open")
  /\ run' = [run EXCEPT ![k].init = "ended", ![k].writer = "closed"]
  /\ UNCHANGED <<current, records, toolAt, pendingIn, finished, startedIn, broken>>
CloseEnds(k) ==
  /\ run[k].closing /\ run[k].init # "opening" /\ run[k].writer = "open"
  /\ run' = [run EXCEPT ![k].writer = "closed"]
  /\ UNCHANGED <<current, records, toolAt, pendingIn, finished, startedIn, broken>>

(***************************************************************************)
(* onToolExecutionStart, onToolExecutionEnd and append.  The program starts  *)
(* no tool between a shutdown and the next start.                            *)
(***************************************************************************)
ToolStart(c) ==
  /\ toolAt[c] = "idle" /\ current # 0 /\ ~run[current].closing
  /\ toolAt' = [toolAt EXCEPT ![c] = "executing"]
  /\ startedIn' = [startedIn EXCEPT ![c] = current]
  /\ pendingIn' = IF Enabled THEN pendingIn \cup {c} ELSE pendingIn
  /\ UNCHANGED <<current, run, records, finished, broken>>

\* append: into the queue of a run that is not open yet, whose first record opens it.
Queue(c) ==
  /\ run[current].writer = "none"
  /\ IF run[current].closing THEN UNCHANGED <<run, records>>
     ELSE /\ run' = [run EXCEPT ![current].queued = Append(@, c),
                                ![current].init = IF @ = "none" THEN "opening" ELSE @]
          /\ records' = Append(records, c)
Write(c) ==
  /\ run[current].writer # "none"
  /\ IF run[current].writer = "open" /\ current \notin broken
     THEN run' = [run EXCEPT ![current].file = Append(@, c)] /\ records' = Append(records, c)
     ELSE run' = Disabled(run, current) /\ records' = <<>>

ToolEnd(c) ==
  /\ toolAt[c] = "executing"
  /\ toolAt' = [toolAt EXCEPT ![c] = "ended"]
  /\ IF Enabled /\ c \in pendingIn
     THEN /\ Queue(c) \/ Write(c)
          /\ pendingIn' = IF run'[current].enabled THEN pendingIn \ {c} ELSE {}
     ELSE UNCHANGED <<run, records, pendingIn>>
  /\ finished' = IF startedIn[c] = current /\ ~run[current].closing
                 THEN [finished EXCEPT ![current] = Append(@, c)] ELSE finished
  /\ UNCHANGED <<current, startedIn, broken>>

(***************************************************************************)
(* initializeRun, once the run before is closed: the header, then what       *)
(* waited, in one step.  Opening the file may fail.                          *)
(***************************************************************************)
MayOpen(k) ==
  /\ run[k].init = "opening"
  /\ run[k].predecessor # 0 => Closed(run[k].predecessor)
Opened(k) ==
  /\ MayOpen(k)
  /\ run' = [run EXCEPT ![k] =
       IF ~run[k].enabled THEN [@ EXCEPT !.init = "ended"]
       ELSE [@ EXCEPT !.init = "ended", !.writer = "open",
                      !.file = <<Header>> \o run[k].queued, !.queued = <<>>]]
  /\ UNCHANGED <<current, records, toolAt, pendingIn, finished, startedIn, broken>>
OpenFails(k) ==
  /\ MayOpen(k) /\ k \notin broken /\ Cardinality(broken) < MaxBroken
  /\ broken' = broken \cup {k}
  /\ run' = [Disabled(run, k) EXCEPT ![k].init = "ended"]
  /\ records' = IF DisablesNow(k) THEN <<>> ELSE records
  /\ pendingIn' = IF DisablesNow(k) THEN {} ELSE pendingIn
  /\ UNCHANGED <<current, toolAt, finished, startedIn>>

\* The stream reports an error, at any time after it was opened.
StreamFails(k) ==
  /\ run[k].writer # "none" /\ k \notin broken /\ Cardinality(broken) < MaxBroken
  /\ broken' = broken \cup {k}
  /\ run' = Disabled(run, k)
  /\ records' = IF DisablesNow(k) THEN <<>> ELSE records
  /\ pendingIn' = IF DisablesNow(k) THEN {} ELSE pendingIn
  /\ UNCHANGED <<current, toolAt, finished, startedIn>>

RunStep(k) == CloseEnds(k) \/ Opened(k)
TelemetryNext ==
  \/ SessionStart \/ SessionShutdown
  \/ \E c \in ToolCalls : ToolStart(c) \/ ToolEnd(c)
  \/ \E k \in RunIds : RunStep(k) \/ OpenFails(k) \/ StreamFails(k)
TelemetryFairness == \A k \in RunIds : WF_telVars(RunStep(k))
TelemetrySpec == TelemetryInit /\ [][TelemetryNext]_telVars /\ TelemetryFairness

-----------------------------------------------------------------------------
\* What the variables hold.
TelemetryTypeOK ==
  /\ current \in 0..MaxRuns /\ broken \subseteq RunIds /\ pendingIn \subseteq ToolCalls
  /\ toolAt \in [ToolCalls -> {"idle", "executing", "ended"}]
  /\ startedIn \in [ToolCalls -> 0..MaxRuns]
  /\ \A k \in RunIds : run[k].init \in {"none", "opening", "ended"}
                       /\ run[k].writer \in {"none", "open", "closed"}

(* append, initializeRun, closeRun: a run whose file does not fail has, in the order
   they ended, every call that started and ended in it, once each: on file behind the
   header, or still waiting; and a closed run has nothing waiting.  snapshot(): the
   live report has the records of the current run, or none when it is disabled.       *)
RecordsExact ==
  /\ TelemetryTypeOK
  /\ \A k \in RunIds \ broken :
       IF run[k].writer = "none"
       THEN /\ run[k].queued = finished[k] /\ run[k].file = <<>>
            /\ finished[k] # <<>> => run[k].init = "opening"
       ELSE run[k].queued = <<>> /\ run[k].file = <<Header>> \o finished[k]
  /\ current # 0 =>
       records = IF run[current].enabled THEN <<Header>> \o finished[current] ELSE <<>>

\* initializeRun, closeRun: the file of every run that is closed is written and closed.
RunsClose == <>[](\A k \in RunIds \ broken :
  run[k].closing /\ finished[k] # <<>> => run[k].writer = "closed")
============================================================================

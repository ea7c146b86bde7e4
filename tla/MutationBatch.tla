---------------------------- MODULE MutationBatch ----------------------------
(***************************************************************************)
(* MutationBatchCoordinator (src/file-tools/pi/mutation-batch.ts): the     *)
(* write and edit calls of one assistant message hold back their language  *)
(* server and Repo Map work until every one of them has committed or       *)
(* failed, and then share it. The calls wait for each other, so the batch  *)
(* must know whether the agent loop runs them in parallel or in sequence.  *)
(***************************************************************************)
EXTENDS Naturals, FiniteSets

CONSTANTS
  BatchCalls,    \* the write and edit calls of one message (at least two)
  Paths     \* canonical paths of their targets

ASSUME BatchAssumption ==
  /\ IsFiniteSet(BatchCalls) /\ Cardinality(BatchCalls) >= 2
  /\ BatchCalls \cap Paths = {}

VARIABLES
  parallel,    \* the agent loop: every call started before one executes, or one at a time
  stopped,     \* the loop was aborted: calls not started yet never start
  pc,          \* pc[c]: captured, started, invoked, waiting, ended
  path,        \* path[c]: file the call writes
  mode,        \* batch.mode
  settled,     \* calls with `settled` set
  order,       \* order[c]: submission order of c's inputs, 0 when not submitted
  nextOrder,   \* nextSubmissionOrder
  finalizing,  \* batch.finalizing is set
  given,       \* calls whose inputs were handed to the shared post-processing
  lspDone, repoDone,   \* calls whose deferred is resolved
  tracked,     \* the batch is in batchesByCall
  batchDisposed,
  disk         \* disk[p]: the call whose text file p carries, or the path itself

loopVars == <<parallel, stopped, path>>
batchState == <<mode, settled, order, nextOrder, finalizing, given, tracked, batchDisposed>>
answers == <<lspDone, repoDone>>
batchVars == <<loopVars, pc, batchState, answers, disk>>

\* Types; a batch that post-processes was active, and only then gave inputs.
BatchTypeOK ==
  /\ parallel \in BOOLEAN /\ stopped \in BOOLEAN
  /\ pc \in [BatchCalls -> {"captured", "started", "invoked", "waiting", "ended"}]
  /\ path \in [BatchCalls -> Paths]
  /\ mode \in {"undefined", "active", "disabled"}
  /\ settled \in SUBSET BatchCalls
  /\ order \in [BatchCalls -> 0..Cardinality(BatchCalls)]
  /\ nextOrder \in 0..Cardinality(BatchCalls)
  /\ finalizing \in BOOLEAN /\ given \in SUBSET BatchCalls
  /\ lspDone \in SUBSET BatchCalls /\ repoDone \in SUBSET BatchCalls
  /\ tracked \in BOOLEAN /\ batchDisposed \in BOOLEAN
  /\ disk \in [Paths -> BatchCalls \union Paths]
  /\ finalizing => mode = "active"
  /\ \A c \in BatchCalls : order[c] > 0 => mode = "active"

\* capture, at message_end
BatchInit ==
  /\ parallel \in BOOLEAN /\ stopped = FALSE
  /\ pc = [c \in BatchCalls |-> "captured"]
  /\ path \in [BatchCalls -> Paths]
  /\ mode = "undefined" /\ settled = {}
  /\ order = [c \in BatchCalls |-> 0] /\ nextOrder = 0
  /\ finalizing = FALSE /\ given = {}
  /\ lspDone = {} /\ repoDone = {}
  /\ tracked = TRUE /\ batchDisposed = FALSE
  /\ disk = [p \in Paths |-> p]

-----------------------------------------------------------------------------
Started == {c \in BatchCalls : pc[c] # "captured"}
Goto(c, p) == pc' = [pc EXCEPT ![c] = p]

FirstPerPath(submitted) ==
  {c \in submitted : \A d \in submitted : path[d] = path[c] => order'[c] <= order'[d]}

\* deduplicate: of the submissions for one path, the one with the highest order.
LatestPerPath(submitted) ==
  {c \in submitted : \A d \in submitted : path[d] = path[c] => order'[d] <= order'[c]}

FinalizeOnFirstReady ==
  LET ready == \E c \in BatchCalls : order'[c] > 0 \/ c \in settled' IN
  IF ~batchDisposed /\ mode = "active" /\ ~finalizing /\ ready
  THEN /\ finalizing' = TRUE
       /\ given' = LatestPerPath({c \in BatchCalls : order'[c] > 0})
  ELSE UNCHANGED <<finalizing, given>>

\* maybeFinalize and the synchronous part of finalize: every call of the batch
\* has submitted both inputs or settled.
MaybeFinalize ==
  LET ready == \A c \in BatchCalls : order'[c] > 0 \/ c \in settled' IN
  IF ~batchDisposed /\ mode = "active" /\ ~finalizing /\ ready
  THEN /\ finalizing' = TRUE
       /\ given' = LatestPerPath({c \in BatchCalls : order'[c] > 0})
  ELSE UNCHANGED <<finalizing, given>>

\* settle: from the tool's `finally`, and again from tool_execution_end.
Settle(c) ==
  /\ settled' = settled \union {c}
  /\ UNCHANGED order
  /\ MaybeFinalize

\* tool_execution_end: settle, and forget the batch when every call has ended.
End(c) ==
  /\ Goto(c, "ended")
  /\ Settle(c)
  /\ tracked' = (tracked /\ \E d \in BatchCalls : pc'[d] # "ended")
  /\ UNCHANGED <<mode, nextOrder, batchDisposed>>

-----------------------------------------------------------------------------
\* tool_execution_start
Start(c) ==
  /\ pc[c] = "captured" /\ ~stopped
  /\ parallel \/ \A d \in Started : pc[d] = "ended"
  /\ Goto(c, "started")
  /\ UNCHANGED <<loopVars, batchState, answers, disk>>

\* The agent run is aborted before all calls have started.
StopLoop ==
  /\ ~stopped /\ Started # BatchCalls
  /\ stopped' = TRUE
  /\ UNCHANGED <<parallel, path, pc, batchState, answers, disk>>

\* The call is blocked or its arguments are refused: it ends without executing.
Block(c) ==
  /\ pc[c] = "started"
  /\ End(c)
  /\ UNCHANGED <<loopVars, answers, disk>>

\* execute: the first invocation decides. In parallel every start event has
\* been seen by then; in sequence only its own.
Invoke(c) ==
  /\ pc[c] = "started"
  /\ parallel => Started = BatchCalls \/ stopped
  /\ Goto(c, "invoked")
  /\ mode' = IF batchDisposed \/ mode # "undefined" THEN mode
             ELSE IF Started = BatchCalls THEN "active" ELSE "disabled"
  /\ UNCHANGED <<loopVars, settled, order, nextOrder, finalizing, given, tracked, batchDisposed,
                 answers, disk>>

\* The mutation committed. Its two inputs are submitted in the continuation of
\* the commit, before any other call's I/O, and the call waits for both.
CommitBatched(c) ==
  /\ pc[c] = "invoked" /\ mode = "active" /\ ~batchDisposed
  /\ disk' = [disk EXCEPT ![path[c]] = c]
  /\ nextOrder' = nextOrder + 1
  /\ order' = [order EXCEPT ![c] = nextOrder']
  /\ Goto(c, "waiting")
  /\ UNCHANGED settled
  /\ MaybeFinalize
  /\ UNCHANGED <<loopVars, mode, tracked, batchDisposed, answers>>

\* Not batched, or batchDisposed: the call does its own post-processing and ends.
CommitAlone(c) ==
  /\ pc[c] = "invoked" /\ (mode # "active" \/ batchDisposed)
  /\ disk' = [disk EXCEPT ![path[c]] = c]
  /\ End(c)
  /\ UNCHANGED <<loopVars, answers>>

\* The mutation failed: nothing is submitted.
FailCall(c) ==
  /\ pc[c] = "invoked"
  /\ End(c)
  /\ UNCHANGED <<loopVars, answers, disk>>

\* processLspSubmissions and processRepoMapSubmissions: each resolves all its
\* submissions, with results or, after an exception, with undefined.
ProcessLsp ==
  /\ finalizing
  /\ lspDone' = lspDone \union {c \in BatchCalls : order[c] > 0}
  /\ lspDone' # lspDone
  /\ UNCHANGED <<loopVars, pc, batchState, repoDone, disk>>

ProcessRepoMap ==
  /\ finalizing
  /\ repoDone' = repoDone \union {c \in BatchCalls : order[c] > 0}
  /\ repoDone' # repoDone
  /\ UNCHANGED <<loopVars, pc, batchState, lspDone, disk>>

\* Both answers have come: the call returns.
Resume(c) ==
  /\ pc[c] = "waiting" /\ c \in lspDone /\ c \in repoDone
  /\ End(c)
  /\ UNCHANGED <<loopVars, answers, disk>>

\* dispose: whatever is waiting gets undefined.
DisposeBatch ==
  /\ ~batchDisposed
  /\ batchDisposed' = TRUE /\ tracked' = FALSE
  /\ lspDone' = IF tracked THEN lspDone \union {c \in BatchCalls : order[c] > 0} ELSE lspDone
  /\ repoDone' = IF tracked THEN repoDone \union {c \in BatchCalls : order[c] > 0} ELSE repoDone
  /\ UNCHANGED <<loopVars, pc, mode, settled, order, nextOrder, finalizing, given, disk>>

BatchStep(c) ==
  \/ Start(c) \/ Block(c) \/ Invoke(c)
  \/ CommitBatched(c) \/ CommitAlone(c) \/ FailCall(c) \/ Resume(c)

BatchNext ==
  \/ \E c \in BatchCalls : BatchStep(c)
  \/ ProcessLsp \/ ProcessRepoMap \/ StopLoop \/ DisposeBatch

BatchSpec == BatchInit /\ [][BatchNext]_batchVars

\* The agent loop executes what it started, mutations settle, and the language
\* servers and Repo Map answer or time out.
BatchFairness ==
  /\ \A c \in BatchCalls : WF_batchVars(BatchStep(c))
  /\ WF_batchVars(ProcessLsp) /\ WF_batchVars(ProcessRepoMap)
FairBatchSpec == BatchSpec /\ BatchFairness

-----------------------------------------------------------------------------
\* Enhancement runs after the last commit (the class comment): once shared
\* post-processing has begun, no call of the batch changes a file any more.
NoCommitAfterFinalize == [][finalizing => disk' = disk]_batchVars

\* What the language servers and the Repo Map are told about a path is the
\* text the batch left there, and every file the batch changed is covered.
LatestTextProcessed ==
  finalizing =>
    /\ \A c \in given : disk[path[c]] = c
    /\ \A p \in Paths : disk[p] \in BatchCalls => disk[p] \in given

\* MutationBatch.finalize: the shared work begins after the last commit, and on the
\* text that is left.
FinalizedWhole == [](BatchTypeOK /\ LatestTextProcessed) /\ NoCommitAfterFinalize

\* BatchCalls that wait for one another are not left waiting: in a sequential loop,
\* with blocked or failed calls, when the run is aborted or the session ends.
EveryStartedCallEnds == \A c \in BatchCalls : pc[c] = "started" ~> pc[c] = "ended"
=============================================================================

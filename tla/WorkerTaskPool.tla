--------------------------- MODULE WorkerTaskPool ---------------------------
(* The bounded pool of worker threads behind grep, find and the repository map
   (src/worker-runtime/worker-task-pool.ts).

   A task is run once.  A handler of the pool is synchronous: it changes the
   queue and the slots and then dispatches until nothing can be handed out.  The
   dispatch is a loop whose every turn may fail (a thread that cannot be
   created, a message that cannot be posted), so it is modelled turn by turn
   while dispatching is TRUE; no other handler runs meanwhile.  A slot is
   stopping exactly when its worker was spawned and is no longer in slots.  The
   order of the slots is left out: any idle slot may take the next task.

   The worker threads are outside: a thread answers, dies, or is terminated.
   A message of a worker that has left the slots is dropped by the pool, so it
   disappears here with the thread. *)
EXTENDS Naturals, Sequences, FiniteSets

CONSTANTS
  Tasks,        \* what run is called with
  Workers,      \* names of worker threads; a name is used again once its thread is gone
  NoTask,
  WorkerLimit   \* options.workerLimit

ASSUME PoolAssumption ==
  /\ NoTask \notin Tasks
  /\ WorkerLimit \in Nat \ {0}

VARIABLES
  queue,        \* queue: tasks no slot has taken
  slots,        \* slots: workers the pool may use
  slotTask,     \* slot.task
  answer,       \* what run's promise settled with
  dispatching,  \* dispatch is under way
  closed,       \* disposed
  thread,       \* the thread: none, running, stopping (terminate called), dead
  job,          \* the task whose request the thread has received
  reply         \* the thread's message on its way to the pool

poolVars == <<queue, slots, slotTask, answer, dispatching, closed, thread, job, reply>>

NoReply == "none"
Settled == {"result", "error", "aborted"}

PoolTypeOK ==
  /\ queue \in Seq(Tasks)
  /\ slots \subseteq Workers
  /\ slotTask \in [Workers -> Tasks \union {NoTask}]
  /\ answer \in [Tasks -> {"new", "pending"} \union Settled]
  /\ dispatching \in BOOLEAN /\ closed \in BOOLEAN
  /\ thread \in [Workers -> {"none", "running", "stopping", "dead"}]
  /\ job \in [Workers -> Tasks \union {NoTask}]
  /\ reply \in [Workers -> {NoReply, "result", "error", "bad"}]

PoolInit ==
  /\ queue = <<>> /\ slots = {}
  /\ slotTask = [w \in Workers |-> NoTask]
  /\ answer = [t \in Tasks |-> "new"]
  /\ dispatching = FALSE /\ closed = FALSE
  /\ thread = [w \in Workers |-> "none"]
  /\ job = [w \in Workers |-> NoTask]
  /\ reply = [w \in Workers |-> NoReply]

(* queue.splice(i, 1) *)
Unqueued(i) == [j \in 1..(Len(queue) - 1) |-> IF j < i THEN queue[j] ELSE queue[j + 1]]

IdleSlots == {w \in slots : slotTask[w] = NoTask}

(* resolveTask and rejectTask: only the first answer counts. *)
Answer(ans, ts, a) == [t \in Tasks |-> IF t \in ts /\ ans[t] = "pending" THEN a ELSE ans[t]]

(* terminate(): the thread is told to stop; one that has died stays dead. *)
Terminate(ws) ==
  [w \in Workers |-> IF w \in ws /\ thread[w] = "running" THEN "stopping" ELSE thread[w]]

(* A handler's closing dispatch returns at once in a disposed pool. *)
DispatchNext == dispatching' = ~closed

(* run of a pool that is not disposed, with a signal that has not fired. *)
RunTask(t) ==
  /\ ~dispatching /\ ~closed /\ answer[t] = "new"
  /\ answer' = [answer EXCEPT ![t] = "pending"]
  /\ queue' = Append(queue, t)
  /\ DispatchNext
  /\ UNCHANGED <<slots, slotTask, closed, thread, job, reply>>

----------------------------------------------------------------------------
(* dispatch: first workers are added while there are more queued tasks than
   idle workers, then every idle slot takes a task. *)

WantsWorker ==
  Cardinality(slots) < WorkerLimit /\ Cardinality(IdleSlots) < Len(queue)

(* spawnWorker succeeded. *)
SpawnWorker(w) ==
  /\ dispatching /\ WantsWorker /\ thread[w] = "none"
  /\ slots' = slots \union {w}
  /\ thread' = [thread EXCEPT ![w] = "running"]
  /\ UNCHANGED <<queue, slotTask, answer, dispatching, closed, job, reply>>

(* spawnWorker threw: the oldest queued task is rejected with the error. *)
SpawnFails ==
  /\ dispatching /\ WantsWorker
  /\ queue' = Tail(queue)
  /\ answer' = Answer(answer, {Head(queue)}, "error")
  /\ UNCHANGED <<slots, slotTask, dispatching, closed, thread, job, reply>>

(* An idle slot takes the next task and the request is posted.  A thread that
   has died takes the message and never answers it. *)
AssignTask(w) ==
  /\ dispatching /\ ~WantsWorker /\ w \in IdleSlots /\ queue # <<>>
  /\ slotTask' = [slotTask EXCEPT ![w] = Head(queue)]
  /\ queue' = Tail(queue)
  /\ job' = [job EXCEPT ![w] = IF thread[w] = "running" THEN Head(queue) ELSE NoTask]
  /\ UNCHANGED <<slots, answer, dispatching, closed, thread, reply>>

(* postMessage threw: failWorker, whose own dispatch is the continuing loop. *)
PostFails(w) ==
  /\ dispatching /\ ~WantsWorker /\ w \in IdleSlots /\ queue # <<>>
  /\ queue' = Tail(queue)
  /\ answer' = Answer(answer, {Head(queue)}, "error")
  /\ slots' = slots \ {w}
  /\ thread' = Terminate({w})
  /\ UNCHANGED <<slotTask, dispatching, closed, job, reply>>

DispatchEnds ==
  /\ dispatching /\ ~WantsWorker /\ (queue = <<>> \/ IdleSlots = {})
  /\ dispatching' = FALSE
  /\ UNCHANGED <<queue, slots, slotTask, answer, closed, thread, job, reply>>

Dispatch ==
  \/ \E w \in Workers : SpawnWorker(w) \/ AssignTask(w) \/ PostFails(w)
  \/ SpawnFails
  \/ DispatchEnds

----------------------------------------------------------------------------
(* Mutant: the queue is not served after a failure. *)
FailWorkerNoDispatch(w) ==
  /\ slots' = slots \ {w}
  /\ thread' = Terminate({w})
  /\ answer' = Answer(answer, {slotTask[w]}, "error")
  /\ slotTask' = [slotTask EXCEPT ![w] = NoTask]
  /\ UNCHANGED dispatching

(* Mutant: the task of a failed worker is not rejected. *)
FailWorkerNoReject(w) ==
  /\ slots' = slots \ {w}
  /\ thread' = Terminate({w})
  /\ slotTask' = [slotTask EXCEPT ![w] = NoTask]
  /\ DispatchNext
  /\ UNCHANGED answer

(* failWorker: the slot goes, its thread is terminated, its task is rejected. *)
FailWorker(w) ==
  /\ slots' = slots \ {w}
  /\ thread' = Terminate({w})
  /\ answer' = Answer(answer, {slotTask[w]}, "error")
  /\ slotTask' = [slotTask EXCEPT ![w] = NoTask]
  /\ DispatchNext

(* finishTask: the answer to the slot's task settles it and frees the slot; a
   message that is no answer to it fails the worker. *)
FinishTask(w) ==
  /\ ~dispatching /\ w \in slots /\ reply[w] # NoReply
  /\ reply' = [reply EXCEPT ![w] = NoReply]
  /\ \/ /\ reply[w] \in {"result", "error"} /\ slotTask[w] # NoTask
        /\ answer' = Answer(answer, {slotTask[w]}, reply[w])
        /\ slotTask' = [slotTask EXCEPT ![w] = NoTask]
        /\ DispatchNext
        /\ UNCHANGED <<slots, thread>>
     \/ /\ reply[w] = "bad" \/ slotTask[w] = NoTask
        /\ FailWorker(w)
  /\ UNCHANGED <<queue, closed, job>>

(* The error and exit events of a thread that died while its slot was in use. *)
WorkerExit(w) ==
  /\ ~dispatching /\ w \in slots /\ thread[w] = "dead" /\ reply[w] = NoReply
  /\ FailWorker(w)
  /\ UNCHANGED <<queue, closed, job, reply>>

(* abortTask of a queued task: it leaves the queue, nothing is dispatched. *)
AbortQueued(t) ==
  /\ ~dispatching /\ answer[t] = "pending"
  /\ \E i \in 1..Len(queue) : queue[i] = t /\ queue' = Unqueued(i)
  /\ answer' = Answer(answer, {t}, "aborted")
  /\ UNCHANGED <<slots, slotTask, dispatching, closed, thread, job, reply>>

(* Mutant: the worker of an aborted task is not terminated. *)
AbortRunningKeepsThread(t) ==
  /\ ~dispatching /\ answer[t] = "pending"
  /\ \E w \in slots :
       /\ slotTask[w] = t
       /\ slots' = slots \ {w}
       /\ slotTask' = [slotTask EXCEPT ![w] = NoTask]
  /\ answer' = Answer(answer, {t}, "aborted")
  /\ DispatchNext
  /\ UNCHANGED <<queue, closed, thread, job, reply>>

(* abortTask of a running task: it takes its worker with it. *)
AbortRunning(t) ==
  /\ ~dispatching /\ answer[t] = "pending"
  /\ \E w \in slots :
       /\ slotTask[w] = t
       /\ slots' = slots \ {w}
       /\ slotTask' = [slotTask EXCEPT ![w] = NoTask]
       /\ thread' = Terminate({w})
  /\ answer' = Answer(answer, {t}, "aborted")
  /\ DispatchNext
  /\ UNCHANGED <<queue, closed, job, reply>>

(* dispose: queued and running tasks are rejected, every worker terminated. *)
DisposePool ==
  /\ ~dispatching /\ ~closed
  /\ closed' = TRUE
  /\ answer' = Answer(answer, Tasks, "aborted")
  /\ queue' = <<>> /\ slots' = {}
  /\ thread' = Terminate(slots)
  /\ UNCHANGED <<slotTask, dispatching, job, reply>>

----------------------------------------------------------------------------
(* The threads. *)

(* The thread answers its request, or sends something the pool cannot read. *)
ThreadReplies(w) ==
  /\ thread[w] = "running" /\ job[w] # NoTask
  /\ \E r \in {"result", "error", "bad"} : reply' = [reply EXCEPT ![w] = r]
  /\ job' = [job EXCEPT ![w] = NoTask]
  /\ UNCHANGED <<queue, slots, slotTask, answer, dispatching, closed, thread>>

(* A thread dies on its own, with or without a request. *)
ThreadDies(w) ==
  /\ thread[w] = "running"
  /\ thread' = [thread EXCEPT ![w] = "dead"]
  /\ job' = [job EXCEPT ![w] = NoTask]
  /\ UNCHANGED <<queue, slots, slotTask, answer, dispatching, closed, reply>>

(* A terminated thread is gone, with the messages it had sent. *)
ThreadGone(w) ==
  /\ w \notin slots /\ thread[w] \in {"stopping", "dead"}
  /\ thread' = [thread EXCEPT ![w] = "none"]
  /\ job' = [job EXCEPT ![w] = NoTask]
  /\ reply' = [reply EXCEPT ![w] = NoReply]
  /\ slotTask' = [slotTask EXCEPT ![w] = NoTask]
  /\ UNCHANGED <<queue, slots, answer, dispatching, closed>>

PoolStep ==
  \/ Dispatch
  \/ \E w \in Workers :
       \/ FinishTask(w) \/ WorkerExit(w)
       \/ ThreadReplies(w) \/ ThreadDies(w) \/ ThreadGone(w)

(* A running thread answers or dies, and the pool's handlers get their turn. *)
PoolFairness ==
  /\ WF_poolVars(Dispatch)
  /\ \A w \in Workers :
       /\ WF_poolVars(ThreadReplies(w)) /\ WF_poolVars(ThreadGone(w))
       /\ WF_poolVars(FinishTask(w)) /\ WF_poolVars(WorkerExit(w))

PoolNext ==
  \/ \E t \in Tasks : RunTask(t) \/ AbortQueued(t) \/ AbortRunning(t)
  \/ DisposePool
  \/ PoolStep

PoolSpec == PoolInit /\ [][PoolNext]_poolVars

PoolFairSpec == PoolSpec /\ PoolFairness

----------------------------------------------------------------------------
(* Between two handlers, tasks queue only while every worker the limit allows
   exists and is busy: every path that ends a task or a worker hands its place
   to the queue.  It is about the calls of dispatch in finishTask, failWorker and
   abortTask. *)
NoTaskStranded ==
  ~dispatching /\ queue # <<>> => IdleSlots = {} /\ Cardinality(slots) = WorkerLimit

(* No thread runs that the pool has lost sight of, and a thread that works in a
   slot works for the task of that slot and nobody else's: an aborted task, a
   failed worker and a disposed pool leave no thread computing for nobody. *)
NoLooseWorker ==
  /\ Cardinality(slots) <= WorkerLimit
  /\ \A w \in Workers :
       /\ thread[w] = "running" => w \in slots
       /\ w \in slots /\ job[w] # NoTask =>
            slotTask[w] = job[w] /\ answer[job[w]] = "pending"

(* Every task is answered: no crash, failed spawn, failed post, abort or dispose
   loses one. *)
EveryTaskSettles ==
  \A t \in Tasks : (answer[t] = "pending") ~> (answer[t] \in Settled)
=============================================================================

--------------------------- MODULE ServiceProofs ---------------------------
(* Two services of a session: the pool of worker threads, and the batch of the mutations
   of one message.

   For any tasks, any worker names and any limit: no task is stranded between two
   handlers, and no worker thread is loose.  Neither property is inductive alone.  That
   a slot's thread works for the slot's task survives only because a task is queued
   once, and is in one slot or in the queue but never in two places (QueueExact,
   SlotsExact): otherwise the answer that settles it in one slot would leave another
   slot computing.  That every place is handed on needs the count of the slots, so
   their set is finite and a disposed pool has none (ClosedEmpty).

   For any calls of a message and any paths: the shared work of a batch begins after its
   last commit, on the texts that are left.  The numbers of the submissions count them
   (OrdersExact), the text on disk is that of the highest number (LatestOnDisk), and when
   the work begins every call has submitted or settled (FinalizedLatest).             *)
EXTENDS WorkerTaskPool, MutationBatch, FiniteSetTheorems, TLAPS

(* A queued task is pending, is queued once, and is in no slot. *)
QueueExact ==
  /\ \A i \in 1..Len(queue) :
       answer[queue[i]] = "pending" /\ \A w \in slots : slotTask[w] # queue[i]
  /\ \A i, j \in 1..Len(queue) : queue[i] = queue[j] => i = j

(* A slot's thread has not been terminated, its task is pending and in no other
   slot, and its message answers that task; an unused name is blank. *)
SlotsExact ==
  /\ IsFiniteSet(slots)
  /\ \A w \in slots :
       /\ thread[w] \in {"running", "dead"}
       /\ slotTask[w] # NoTask => answer[slotTask[w]] = "pending"
       /\ reply[w] # NoReply => slotTask[w] # NoTask /\ job[w] = NoTask
  /\ \A v, w \in slots : slotTask[v] = slotTask[w] /\ slotTask[v] # NoTask => v = w
  /\ \A w \in Workers : thread[w] = "none" =>
       w \notin slots /\ slotTask[w] = NoTask /\ job[w] = NoTask /\ reply[w] = NoReply

(* A disposed pool holds nothing and dispatches nothing. *)
ClosedEmpty == closed => queue = <<>> /\ slots = {} /\ ~dispatching

PoolInv ==
  PoolTypeOK /\ NoTaskStranded /\ NoLooseWorker /\ QueueExact /\ SlotsExact /\ ClosedEmpty

-----------------------------------------------------------------------------
(* What is left of a sequence when its first element is taken. *)
LEMMA TailSeq ==
  ASSUME NEW S, NEW s \in Seq(S), s # <<>>
  PROVE  /\ Head(s) \in S /\ Head(s) = s[1] /\ 1 \in 1..Len(s)
         /\ Tail(s) \in Seq(S) /\ Len(Tail(s)) = Len(s) - 1
         /\ \A i \in 1..Len(Tail(s)) : i + 1 \in 1..Len(s) /\ Tail(s)[i] = s[i + 1]
OBVIOUS

(* The queue without its i-th task. *)
LEMMA WithoutSeq ==
  ASSUME queue \in Seq(Tasks), NEW i \in 1..Len(queue)
  PROVE  /\ Unqueued(i) \in Seq(Tasks)
         /\ Len(Unqueued(i)) = Len(queue) - 1
         /\ \A j \in 1..Len(Unqueued(i)) :
              Unqueued(i)[j] = IF j < i THEN queue[j] ELSE queue[j + 1]
<1>1. Len(queue) \in Nat /\ Len(queue) - 1 \in Nat
  OBVIOUS
<1>2. \A j \in 1..(Len(queue) - 1) : (IF j < i THEN queue[j] ELSE queue[j + 1]) \in Tasks
  BY <1>1
<1>. QED
  BY <1>1, <1>2 DEF Unqueued

(* A task's answer becomes what it is given, once; the other tasks keep theirs. *)
LEMMA AnswerOf ==
  ASSUME PoolTypeOK, NEW ts, NEW a \in Settled
  PROVE  /\ Answer(answer, ts, a) \in [Tasks -> {"new", "pending"} \union Settled]
         /\ \A t \in Tasks \ ts : Answer(answer, ts, a)[t] = answer[t]
  BY DEF Answer, PoolTypeOK

(* Terminating threads changes those of the given names only, and leaves no
   thread of them running. *)
LEMMA TerminateOf ==
  ASSUME PoolTypeOK, NEW ws
  PROVE  /\ Terminate(ws) \in [Workers -> {"none", "running", "stopping", "dead"}]
         /\ \A w \in Workers \ ws : Terminate(ws)[w] = thread[w]
         /\ \A w \in Workers : w \in ws => Terminate(ws)[w] # "running"
         /\ \A w \in Workers : Terminate(ws)[w] = "none" <=> thread[w] = "none"
         /\ \A w \in Workers : Terminate(ws)[w] = "running" => thread[w] = "running"
  BY DEF Terminate, PoolTypeOK

(* The rest of the queue is without the task at its head, which is in no slot. *)
LEMMA QueueShifts ==
  ASSUME PoolTypeOK, QueueExact, queue # <<>>, queue' = Tail(queue)
  PROVE  /\ Head(queue) \in Tasks
         /\ answer[Head(queue)] = "pending" /\ \A w \in slots : slotTask[w] # Head(queue)
         /\ \A i \in 1..Len(queue') :
              /\ queue'[i] \in Tasks /\ queue'[i] # Head(queue)
              /\ answer[queue'[i]] = "pending" /\ \A w \in slots : slotTask[w] # queue'[i]
         /\ \A i, j \in 1..Len(queue') : queue'[i] = queue'[j] => i = j
<1>1. /\ queue \in Seq(Tasks) /\ Head(queue) = queue[1] /\ 1 \in 1..Len(queue)
      /\ \A i \in 1..Len(queue') : i + 1 \in 1..Len(queue) /\ queue'[i] = queue[i + 1]
  BY TailSeq DEF PoolTypeOK
<1>2. \A i \in 1..Len(queue') : i + 1 # 1
  OBVIOUS
<1>3. \A i, j \in 1..Len(queue') : i + 1 = j + 1 => i = j
  OBVIOUS
<1>4. \A i \in 1..Len(queue) : queue[i] \in Tasks
  BY <1>1
<1>. QED
  BY <1>1, <1>2, <1>3, <1>4 DEF QueueExact

(* Slots that stay with their thread, their task and its pending answer stay exact,
   and no thread runs outside them. *)
LEMMA SlotsKept ==
  ASSUME PoolTypeOK, SlotsExact, NoLooseWorker,
         slots' \subseteq slots, slotTask' = slotTask, job' = job, reply' = reply,
         \A w \in slots' : thread'[w] = thread[w],
         \A w \in Workers : thread'[w] = "none" <=> thread[w] = "none",
         \A w \in Workers : thread'[w] = "running" => w \in slots',
         \A w \in slots : slotTask[w] # NoTask => answer'[slotTask[w]] = "pending"
  PROVE  SlotsExact' /\ NoLooseWorker'
<1>1. slots \subseteq Workers /\ IsFiniteSet(slots)
  BY DEF PoolTypeOK, SlotsExact
<1>2. /\ IsFiniteSet(slots') /\ Cardinality(slots') <= Cardinality(slots)
      /\ Cardinality(slots') \in Nat /\ Cardinality(slots) \in Nat
  BY <1>1, FS_Subset, FS_CardinalityType
<1>3. ASSUME NEW w \in slots'
      PROVE  /\ thread'[w] \in {"running", "dead"}
             /\ slotTask'[w] # NoTask => answer'[slotTask'[w]] = "pending"
             /\ reply'[w] # NoReply => slotTask'[w] # NoTask /\ job'[w] = NoTask
             /\ job'[w] # NoTask => slotTask'[w] = job'[w] /\ answer'[job'[w]] = "pending"
  <2>1. w \in slots /\ w \in Workers
    BY <1>1
  <2>2. job[w] # NoTask => slotTask[w] = job[w]
    BY <2>1 DEF NoLooseWorker
  <2>. QED
    BY <2>1, <2>2 DEF SlotsExact
<1>4. \A v, w \in slots' : slotTask'[v] = slotTask'[w] /\ slotTask'[v] # NoTask => v = w
  BY DEF SlotsExact
<1>5. \A w \in Workers : thread'[w] = "none" =>
        w \notin slots' /\ slotTask'[w] = NoTask /\ job'[w] = NoTask /\ reply'[w] = NoReply
  BY DEF SlotsExact
<1>6. Cardinality(slots') <= WorkerLimit
  BY <1>2, PoolAssumption DEF NoLooseWorker
<1>7. SlotsExact'
  BY <1>2, <1>3, <1>4, <1>5 DEF SlotsExact
<1>. QED
  BY <1>3, <1>6, <1>7 DEF NoLooseWorker

-----------------------------------------------------------------------------
LEMMA InitIInv == PoolInit => PoolInv
<1>. SUFFICES ASSUME PoolInit PROVE PoolInv
  OBVIOUS
<1>1. Cardinality({}) = 0 /\ IsFiniteSet({})
  BY FS_EmptySet
<1>2. PoolTypeOK
  <2>1. <<>> \in Seq(Tasks)
    OBVIOUS
  <2>. QED
    BY <2>1 DEF PoolInit, PoolTypeOK, NoReply
<1>3. NoTaskStranded
  BY DEF PoolInit, NoTaskStranded
<1>4. NoLooseWorker
  BY <1>1, PoolAssumption DEF PoolInit, NoLooseWorker
<1>5. QueueExact
  BY DEF PoolInit, QueueExact
<1>6. SlotsExact
  BY <1>1 DEF PoolInit, SlotsExact
<1>7. ClosedEmpty
  BY DEF PoolInit, ClosedEmpty
<1>. QED
  BY <1>2, <1>3, <1>4, <1>5, <1>6, <1>7 DEF PoolInv

(* A new task goes to the end of the queue, and the dispatch begins. *)
LEMMA RunTaskIInv ==
  ASSUME PoolInv, NEW t \in Tasks, RunTask(t)
  PROVE  PoolInv'
<1>. USE DEF PoolInv
<1>1. /\ queue \in Seq(Tasks) /\ queue' = Append(queue, t) /\ queue' \in Seq(Tasks)
      /\ Len(queue') = Len(queue) + 1 /\ queue'[Len(queue) + 1] = t
      /\ \A i \in 1..Len(queue) : queue'[i] = queue[i]
  BY DEF RunTask, PoolTypeOK
<1>2. answer' = [answer EXCEPT ![t] = "pending"] /\ answer[t] = "new"
  BY DEF RunTask
<1>3. PoolTypeOK'
  BY DEF RunTask, DispatchNext, PoolTypeOK
<1>4. NoTaskStranded'
  BY DEF RunTask, DispatchNext, NoTaskStranded
<1>5. NoLooseWorker'
  BY DEF RunTask, NoLooseWorker
<1>6. QueueExact'
  <2>1. slots' = slots /\ slotTask' = slotTask
    BY DEF RunTask
  <2>2. /\ \A i \in 1..Len(queue) : queue[i] # t /\ answer'[queue[i]] = "pending"
        /\ answer'[t] = "pending"
    BY <1>2 DEF PoolTypeOK, QueueExact
  <2>3. \A w \in slots : slotTask[w] # t
    BY <1>2, PoolAssumption DEF SlotsExact
  <2>4. \A i \in 1..Len(queue') :
          answer'[queue'[i]] = "pending" /\ \A w \in slots : slotTask[w] # queue'[i]
    BY <1>1, <2>2, <2>3 DEF QueueExact
  <2>5. \A i, j \in 1..Len(queue') : queue'[i] = queue'[j] => i = j
    BY <1>1, <2>2 DEF QueueExact
  <2>. QED
    BY <2>1, <2>4, <2>5 DEF QueueExact
<1>7. SlotsExact'
  BY DEF RunTask, SlotsExact
<1>8. ClosedEmpty'
  BY DEF RunTask, ClosedEmpty
<1>. QED
  BY <1>3, <1>4, <1>5, <1>6, <1>7, <1>8

(* A new slot is blank, and the limit allows it. *)
LEMMA SpawnWorkerIInv ==
  ASSUME PoolInv, NEW w \in Workers, SpawnWorker(w)
  PROVE  PoolInv'
<1>. USE DEF PoolInv
<1>1. /\ IsFiniteSet(slots) /\ IsFiniteSet(slots \union {w}) /\ w \notin slots
      /\ Cardinality(slots \union {w}) = Cardinality(slots) + 1
  BY FS_AddElement DEF SpawnWorker, SlotsExact
<1>2. Cardinality(slots) \in Nat /\ Cardinality(slots) < WorkerLimit
  BY <1>1, FS_CardinalityType DEF SpawnWorker, WantsWorker
<1>3. PoolTypeOK'
  BY DEF SpawnWorker, PoolTypeOK
<1>4. NoTaskStranded'
  BY DEF SpawnWorker, NoTaskStranded
<1>5. NoLooseWorker'
  BY <1>1, <1>2, PoolAssumption DEF SpawnWorker, NoLooseWorker, SlotsExact
<1>6. QueueExact'
  BY PoolAssumption DEF SpawnWorker, QueueExact, SlotsExact, PoolTypeOK
<1>7. SlotsExact'
  BY <1>1 DEF SpawnWorker, SlotsExact, PoolTypeOK
<1>8. ClosedEmpty'
  BY DEF SpawnWorker, ClosedEmpty
<1>. QED
  BY <1>3, <1>4, <1>5, <1>6, <1>7, <1>8

(* The task that pays for a failed spawn is in the queue only. *)
LEMMA SpawnFailsIInv ==
  ASSUME PoolInv, SpawnFails
  PROVE  PoolInv'
<1>. USE DEF PoolInv
<1>1. queue # <<>>
  <2>1. Cardinality(IdleSlots) \in Nat
    BY FS_Subset, FS_CardinalityType DEF SlotsExact, IdleSlots
  <2>. QED
    BY <2>1 DEF SpawnFails, WantsWorker
<1>2. queue' = Tail(queue) /\ answer' = Answer(answer, {Head(queue)}, "error")
  BY DEF SpawnFails
<1>3. \A t \in Tasks \ {Head(queue)} : answer'[t] = answer[t]
  BY <1>2, AnswerOf DEF Settled
<1>4. \A w \in slots : slotTask[w] # Head(queue)
  BY <1>1, <1>2, QueueShifts
<1>5. PoolTypeOK'
  BY <1>1, AnswerOf DEF SpawnFails, Settled, PoolTypeOK
<1>6. NoTaskStranded'
  BY DEF SpawnFails, NoTaskStranded
<1>7. QueueExact'
  BY <1>1, <1>2, <1>3, QueueShifts DEF SpawnFails, QueueExact
<1>8. SlotsExact' /\ NoLooseWorker'
  <2>1. \A w \in slots : slotTask[w] # NoTask => answer'[slotTask[w]] = "pending"
    BY <1>3, <1>4 DEF SlotsExact, PoolTypeOK
  <2>2. \A w \in Workers : thread[w] = "running" => w \in slots
    BY DEF NoLooseWorker
  <2>3. UNCHANGED <<slots, slotTask, thread, job, reply>>
    BY DEF SpawnFails
  <2>. QED
    BY <2>1, <2>2, <2>3, SlotsKept
<1>9. ClosedEmpty'
  BY DEF SpawnFails, ClosedEmpty
<1>. QED
  BY <1>5, <1>6, <1>7, <1>8, <1>9

(* The task at the head leaves the queue for exactly one slot. *)
LEMMA AssignTaskIInv ==
  ASSUME PoolInv, NEW w \in Workers, AssignTask(w)
  PROVE  PoolInv'
<1>. USE DEF PoolInv
<1>1. w \in slots /\ slotTask[w] = NoTask
  BY DEF AssignTask, IdleSlots
<1>2. PoolTypeOK'
  BY DEF AssignTask, PoolTypeOK
<1>3. NoTaskStranded'
  BY DEF AssignTask, NoTaskStranded
<1>4. NoLooseWorker'
  BY DEF AssignTask, NoLooseWorker, PoolTypeOK, QueueExact
<1>5. QueueExact'
  <2>1. queue # <<>> /\ queue' = Tail(queue) /\ answer' = answer /\ slots' = slots
    BY DEF AssignTask
  <2>2. \A v \in slots : slotTask'[v] = slotTask[v] \/ slotTask'[v] = Head(queue)
    BY DEF AssignTask, PoolTypeOK
  <2>. QED
    BY <2>1, <2>2, QueueShifts DEF QueueExact
<1>6. SlotsExact'
  BY <1>1 DEF AssignTask, SlotsExact, QueueExact
<1>7. ClosedEmpty'
  BY DEF AssignTask, ClosedEmpty
<1>. QED
  BY <1>2, <1>3, <1>4, <1>5, <1>6, <1>7

(* The slot and the task of a failed post are both gone. *)
LEMMA PostFailsIInv ==
  ASSUME PoolInv, NEW w \in Workers, PostFails(w)
  PROVE  PoolInv'
<1>. USE DEF PoolInv
<1>1. PoolTypeOK'
  BY AnswerOf, TerminateOf DEF PostFails, Settled, PoolTypeOK
<1>2. NoTaskStranded'
  BY DEF PostFails, NoTaskStranded
<1>3. /\ queue # <<>> /\ queue' = Tail(queue) /\ slots' = slots \ {w}
      /\ answer' = Answer(answer, {Head(queue)}, "error") /\ thread' = Terminate({w})
      /\ UNCHANGED <<slotTask, job, reply>>
  BY DEF PostFails
<1>4. /\ \A t \in Tasks \ {Head(queue)} : answer'[t] = answer[t]
      /\ \A v \in slots : slotTask[v] # Head(queue)
  BY <1>3, AnswerOf, QueueShifts DEF Settled
<1>5. /\ \A v \in Workers \ {w} : thread'[v] = thread[v]
      /\ thread'[w] # "running" /\ (thread'[w] = "none" <=> thread[w] = "none")
  BY <1>3, TerminateOf
<1>6. SlotsExact' /\ NoLooseWorker'
  <2>1. \A v \in slots : slotTask[v] # NoTask => answer'[slotTask[v]] = "pending"
    BY <1>4 DEF SlotsExact, PoolTypeOK
  <2>2. \A v \in Workers : thread'[v] = "running" => v \in slots'
    BY <1>3, <1>5 DEF NoLooseWorker
  <2>3. \A v \in slots' : thread'[v] = thread[v]
    BY <1>3, <1>5 DEF PoolTypeOK
  <2>4. \A v \in Workers : thread'[v] = "none" <=> thread[v] = "none"
    BY <1>5
  <2>5. slots' \subseteq slots /\ slotTask' = slotTask /\ job' = job /\ reply' = reply
    BY <1>3
  <2>. QED
    BY <2>1, <2>2, <2>3, <2>4, <2>5, SlotsKept
<1>7. QueueExact'
  BY <1>3, <1>4, QueueShifts DEF QueueExact
<1>8. ClosedEmpty'
  BY DEF PostFails, ClosedEmpty
<1>. QED
  BY <1>1, <1>2, <1>6, <1>7, <1>8

(* A dispatch ends only with an empty queue, or with all the slots busy and their limit reached. *)
LEMMA DispatchEndsIInv ==
  ASSUME PoolInv, DispatchEnds
  PROVE  PoolInv'
<1>. USE DEF PoolInv
<1>1. Cardinality({}) = 0 /\ Cardinality(slots) \in Nat /\ Len(queue) \in Nat
  BY FS_EmptySet, FS_CardinalityType DEF SlotsExact
<1>2. queue # <<>> => Len(queue) > 0
  BY DEF PoolTypeOK
<1>3. queue # <<>> => IdleSlots = {} /\ Cardinality(slots) = WorkerLimit
  <2>. SUFFICES ASSUME queue # <<>> PROVE IdleSlots = {} /\ Cardinality(slots) = WorkerLimit
    OBVIOUS
  <2>1. IdleSlots = {} /\ ~WantsWorker
    BY DEF DispatchEnds
  <2>2. ~(Cardinality(slots) < WorkerLimit)
    BY <1>1, <1>2, <2>1 DEF WantsWorker
  <2>3. Cardinality(slots) <= WorkerLimit
    BY DEF NoLooseWorker
  <2>. QED
    BY <1>1, <2>1, <2>2, <2>3, PoolAssumption
<1>4. PoolTypeOK'
  BY DEF DispatchEnds, PoolTypeOK
<1>5. NoTaskStranded'
  BY <1>3 DEF DispatchEnds, NoTaskStranded, IdleSlots
<1>6. NoLooseWorker'
  BY DEF DispatchEnds, NoLooseWorker
<1>7. QueueExact'
  BY DEF DispatchEnds, QueueExact
<1>8. SlotsExact'
  BY DEF DispatchEnds, SlotsExact
<1>9. ClosedEmpty'
  BY DEF DispatchEnds, ClosedEmpty
<1>. QED
  BY <1>4, <1>5, <1>6, <1>7, <1>8, <1>9

-----------------------------------------------------------------------------
(* The step common to a failed worker, an unreadable message and an aborted running
   task: the slot goes with its thread, its task is settled, the dispatch begins. *)
LEMMA SlotGone ==
  ASSUME PoolInv, NEW w \in slots, NEW a \in Settled, ~dispatching,
         slots' = slots \ {w}, thread' = Terminate({w}),
         answer' = Answer(answer, {slotTask[w]}, a),
         slotTask' = [slotTask EXCEPT ![w] = NoTask],
         DispatchNext, UNCHANGED <<queue, closed, job>>,
         reply' = reply \/ reply' = [reply EXCEPT ![w] = NoReply]
  PROVE  PoolInv'
<1>. USE DEF PoolInv
<1>1. /\ IsFiniteSet(slots \ {w}) /\ Cardinality(slots \ {w}) = Cardinality(slots) - 1
      /\ Cardinality(slots) \in Nat
  BY FS_RemoveElement, FS_CardinalityType DEF SlotsExact
<1>2. w \in Workers /\ ~closed
  BY DEF PoolTypeOK, ClosedEmpty
<1>3. \A t \in Tasks : t # slotTask[w] => answer'[t] = answer[t]
  BY AnswerOf
<1>4. \A v \in slots \ {w} : slotTask'[v] = slotTask[v] /\ slotTask[v] \in Tasks \union {NoTask}
  BY DEF PoolTypeOK
<1>5. \A v \in slots \ {w} : slotTask[v] # NoTask =>
        slotTask[v] \in Tasks /\ slotTask[v] # slotTask[w] /\ answer'[slotTask[v]] = "pending"
  BY <1>3, <1>4 DEF SlotsExact
<1>6. \A i \in 1..Len(queue) : queue[i] \in Tasks /\ answer'[queue[i]] = "pending"
  <2>1. \A i \in 1..Len(queue) : queue[i] \in Tasks
    BY DEF PoolTypeOK
  <2>. QED
    BY <1>3, <2>1 DEF QueueExact
<1>7. \A v \in Workers \ {w} : thread'[v] = thread[v] /\ slotTask'[v] = slotTask[v]
                             /\ reply'[v] = reply[v] /\ job'[v] = job[v]
  BY TerminateOf DEF PoolTypeOK
<1>8. thread'[w] # "running" /\ thread'[w] # "none"
  BY <1>2, TerminateOf DEF SlotsExact
<1>9. PoolTypeOK'
  BY <1>2, AnswerOf, TerminateOf DEF PoolTypeOK, DispatchNext
<1>10. NoTaskStranded'
  BY <1>2 DEF DispatchNext, NoTaskStranded
<1>11. NoLooseWorker'
  <2>1. Cardinality(slots') <= WorkerLimit
    BY <1>1, PoolAssumption DEF NoLooseWorker
  <2>2. ASSUME NEW v \in Workers, v # w
        PROVE  /\ thread'[v] = "running" => v \in slots'
               /\ v \in slots' /\ job'[v] # NoTask =>
                    slotTask'[v] = job'[v] /\ answer'[job'[v]] = "pending"
    <3>1. thread'[v] = "running" => v \in slots'
      BY <1>7, <2>2 DEF NoLooseWorker
    <3>2. ASSUME v \in slots', job'[v] # NoTask
          PROVE  slotTask'[v] = job'[v] /\ answer'[job'[v]] = "pending"
      <4>1. v \in slots \ {w} /\ job[v] # NoTask
        BY <1>7, <2>2, <3>2
      <4>2. slotTask[v] = job[v]
        BY <4>1 DEF NoLooseWorker
      <4>. QED
        BY <1>5, <1>7, <2>2, <4>1, <4>2
    <3>. QED
      BY <3>1, <3>2
  <2>. QED
    BY <1>8, <2>1, <2>2 DEF NoLooseWorker
<1>12. QueueExact'
  <2>1. queue' = queue /\ slots' \subseteq slots \ {w}
    OBVIOUS
  <2>2. \A i \in 1..Len(queue) :
          answer'[queue[i]] = "pending" /\ \A v \in slots' : slotTask'[v] # queue[i]
    <3>1. ASSUME NEW i \in 1..Len(queue)
          PROVE  answer[queue[i]] = "pending" /\ \A v \in slots : slotTask[v] # queue[i]
      BY DEF QueueExact
    <3>. QED
      BY <1>4, <1>6, <2>1, <3>1
  <2>3. \A i, j \in 1..Len(queue) : queue[i] = queue[j] => i = j
    BY DEF QueueExact
  <2>. HIDE DEF PoolInv
  <2>. QED
    BY <2>1, <2>2, <2>3 DEF QueueExact
<1>13. SlotsExact'
  <2>1. \A v \in slots \ {w} : v \in Workers /\ v # w
    BY DEF PoolTypeOK
  <2>2. ASSUME NEW v \in slots'
        PROVE  /\ thread'[v] \in {"running", "dead"}
               /\ slotTask'[v] # NoTask => answer'[slotTask'[v]] = "pending"
               /\ reply'[v] # NoReply => slotTask'[v] # NoTask /\ job'[v] = NoTask
    <3>1. v \in slots /\ v \in Workers \ {w}
      BY <2>1
    <3>2. thread'[v] \in {"running", "dead"}
      BY <1>7, <3>1 DEF SlotsExact
    <3>3. slotTask'[v] # NoTask => answer'[slotTask'[v]] = "pending"
      BY <1>5, <1>7, <3>1
    <3>4. reply'[v] # NoReply => slotTask'[v] # NoTask /\ job'[v] = NoTask
      BY <1>7, <3>1 DEF SlotsExact
    <3>. QED
      BY <3>2, <3>3, <3>4
  <2>3. \A u, v \in slots' : slotTask'[u] = slotTask'[v] /\ slotTask'[u] # NoTask => u = v
    BY <1>7, <2>1 DEF SlotsExact
  <2>4. \A v \in Workers : thread'[v] = "none" =>
          v \notin slots' /\ slotTask'[v] = NoTask /\ job'[v] = NoTask /\ reply'[v] = NoReply
    BY <1>7, <1>8 DEF SlotsExact
  <2>. QED
    BY <1>1, <2>2, <2>3, <2>4 DEF SlotsExact
<1>14. ClosedEmpty'
  BY <1>2 DEF ClosedEmpty
<1>. QED
  BY <1>9, <1>10, <1>11, <1>12, <1>13, <1>14

(* A message that answers the slot's task frees the slot; any other one fails it. *)
LEMMA FinishTaskIInv ==
  ASSUME PoolInv, NEW w \in Workers, FinishTask(w)
  PROVE  PoolInv'
<1>. USE DEF PoolInv
<1>1. /\ ~dispatching /\ w \in slots /\ reply[w] # NoReply /\ UNCHANGED <<queue, closed, job>>
      /\ reply' = [reply EXCEPT ![w] = NoReply]
  BY DEF FinishTask
<1>2. ~closed /\ slotTask[w] # NoTask /\ job[w] = NoTask
  BY <1>1 DEF ClosedEmpty, SlotsExact
<1>3. CASE /\ reply[w] \in {"result", "error"}
           /\ answer' = Answer(answer, {slotTask[w]}, reply[w])
           /\ slotTask' = [slotTask EXCEPT ![w] = NoTask]
           /\ DispatchNext /\ UNCHANGED <<slots, thread>>
  <2>1. \A t \in Tasks : t # slotTask[w] => answer'[t] = answer[t]
    BY <1>3, AnswerOf DEF Settled
  <2>2. \A v \in slots \ {w} : slotTask'[v] = slotTask[v] /\ slotTask[v] \in Tasks \union {NoTask}
    BY <1>3 DEF PoolTypeOK
  <2>3. slotTask'[w] = NoTask /\ job'[w] = NoTask /\ reply'[w] = NoReply
    BY <1>1, <1>2, <1>3 DEF PoolTypeOK
  <2>4. PoolTypeOK'
    BY <1>1, <1>2, <1>3, AnswerOf DEF PoolTypeOK, DispatchNext, Settled
  <2>5. NoTaskStranded'
    BY <1>1, <1>2, <1>3 DEF DispatchNext, NoTaskStranded
  <2>6. \A v \in slots \ {w} : slotTask[v] # NoTask =>
           slotTask[v] \in Tasks /\ slotTask[v] # slotTask[w] /\ answer'[slotTask[v]] = "pending"
    BY <1>1, <2>1, <2>2 DEF SlotsExact
  <2>7. \A i \in 1..Len(queue) : queue[i] \in Tasks /\ answer'[queue[i]] = "pending"
    BY <1>1, <2>1 DEF QueueExact, PoolTypeOK
  <2>8. \A v \in Workers \ {w} : slotTask'[v] = slotTask[v] /\ reply'[v] = reply[v]
    BY <1>1, <1>3 DEF PoolTypeOK
  <2>9. NoLooseWorker'
    <3>1. ASSUME NEW v \in slots, job[v] # NoTask
          PROVE  slotTask'[v] = job[v] /\ answer'[job[v]] = "pending"
      BY <1>2, <2>2, <2>6, <3>1 DEF NoLooseWorker, PoolTypeOK
    <3>. QED
      BY <1>1, <1>3, <3>1 DEF NoLooseWorker
  <2>10. QueueExact'
    <3>1. \A v \in slots, i \in 1..Len(queue) : slotTask'[v] # queue[i]
      BY <2>2, <2>3, <2>7, PoolAssumption DEF QueueExact
    <3>2. \A i, j \in 1..Len(queue) : queue[i] = queue[j] => i = j
      BY DEF QueueExact
    <3>3. queue' = queue /\ slots' = slots
      BY <1>1, <1>3
    <3>. HIDE DEF PoolInv
    <3>. QED
      BY <2>7, <3>1, <3>2, <3>3 DEF QueueExact
  <2>11. SlotsExact'
    <3>1. ASSUME NEW v \in slots
          PROVE  /\ thread[v] \in {"running", "dead"}
                 /\ slotTask'[v] # NoTask => answer'[slotTask'[v]] = "pending"
                 /\ reply'[v] # NoReply => slotTask'[v] # NoTask /\ job[v] = NoTask
      BY <1>2, <2>2, <2>3, <2>6, <2>8 DEF SlotsExact, PoolTypeOK
    <3>2. \A u, v \in slots : slotTask'[u] = slotTask'[v] /\ slotTask'[u] # NoTask => u = v
      BY <2>2, <2>3 DEF SlotsExact
    <3>3. \A v \in Workers : thread[v] = "none" =>
            v \notin slots /\ slotTask'[v] = NoTask /\ job[v] = NoTask /\ reply'[v] = NoReply
      BY <1>1, <2>8 DEF SlotsExact
    <3>. QED
      BY <1>1, <1>3, <3>1, <3>2, <3>3 DEF SlotsExact
  <2>12. ClosedEmpty'
    BY <1>1, <1>2 DEF ClosedEmpty
  <2>. QED
    BY <2>4, <2>5, <2>9, <2>10, <2>11, <2>12
<1>4. CASE FailWorker(w)
  <2>. "error" \in Settled
    BY DEF Settled
  <2>. QED
    BY <1>1, <1>4, SlotGone DEF FailWorker
<1>. QED
  BY <1>3, <1>4 DEF FinishTask

(* A thread that died while its slot was in use *)
LEMMA WorkerExitIInv ==
  ASSUME PoolInv, NEW w \in Workers, WorkerExit(w)
  PROVE  PoolInv'
<1>1. "error" \in Settled
  BY DEF Settled
<1>. QED
  BY <1>1, SlotGone DEF WorkerExit, FailWorker

(* An abort of a running task *)
LEMMA AbortRunningIInv ==
  ASSUME PoolInv, NEW t \in Tasks, AbortRunning(t)
  PROVE  PoolInv'
<1>1. PICK w \in slots : /\ slotTask[w] = t /\ slots' = slots \ {w}
                         /\ slotTask' = [slotTask EXCEPT ![w] = NoTask]
                         /\ thread' = Terminate({w})
  BY DEF AbortRunning
<1>2. "aborted" \in Settled
  BY DEF Settled
<1>. QED
  BY <1>1, <1>2, SlotGone DEF AbortRunning

(* An aborted task leaves the queue, and the others keep their order. *)
LEMMA AbortQueuedIInv ==
  ASSUME PoolInv, NEW t \in Tasks, AbortQueued(t)
  PROVE  PoolInv'
<1>. USE DEF PoolInv
<1>1. PICK i \in 1..Len(queue) : queue[i] = t /\ queue' = Unqueued(i)
  BY DEF AbortQueued
<1>2. queue \in Seq(Tasks) /\ queue # <<>> /\ answer' = Answer(answer, {t}, "aborted")
  BY <1>1 DEF AbortQueued, PoolTypeOK
<1>3. \A u \in Tasks \ {t} : answer'[u] = answer[u]
  BY <1>2, AnswerOf DEF Settled
<1>4. /\ queue' \in Seq(Tasks)
      /\ \A j \in 1..Len(queue') : \E k \in 1..Len(queue) \ {i} :
           queue'[j] = queue[k] /\ (j < i => k = j) /\ (j >= i => k = j + 1)
  <2>1. Len(queue) \in Nat
    BY <1>2
  <2>2. \A j \in 1..Len(queue') : j \in 1..Len(queue) /\ j + 1 \in 1..Len(queue)
    BY <1>1, <1>2, <2>1, WithoutSeq
  <2>3. ASSUME NEW j \in 1..Len(queue'), j < i
        PROVE  queue'[j] = queue[j] /\ j \in 1..Len(queue) \ {i}
    <3>1. queue'[j] = IF j < i THEN queue[j] ELSE queue[j + 1]
      BY <1>1, <1>2, WithoutSeq
    <3>. QED
      BY <2>1, <2>2, <2>3, <3>1
  <2>4. ASSUME NEW j \in 1..Len(queue'), ~(j < i)
        PROVE  queue'[j] = queue[j + 1] /\ j + 1 \in 1..Len(queue) \ {i} /\ j >= i
    <3>1. queue'[j] = IF j < i THEN queue[j] ELSE queue[j + 1]
      BY <1>1, <1>2, WithoutSeq
    <3>. QED
      BY <2>1, <2>2, <2>4, <3>1
  <2>5. queue' \in Seq(Tasks)
    BY <1>1, <1>2, WithoutSeq
  <2>. QED
    BY <2>1, <2>3, <2>4, <2>5
<1>5. \A w \in slots : slotTask[w] # t
  BY <1>1 DEF QueueExact
<1>6. \A k \in 1..Len(queue) \ {i} : queue[k] # t /\ queue[k] \in Tasks
  BY <1>1, <1>2 DEF QueueExact
<1>7. \A j, k \in 1..Len(queue') : queue'[j] = queue'[k] => j = k
  BY <1>1, <1>2, <1>4 DEF QueueExact
<1>8. \A w \in slots : slotTask[w] # NoTask => answer'[slotTask[w]] = "pending"
  BY <1>3, <1>5 DEF SlotsExact, PoolTypeOK
<1>9. PoolTypeOK'
  BY <1>2, <1>4, AnswerOf DEF AbortQueued, Settled, PoolTypeOK
<1>10. NoTaskStranded'
  BY <1>2 DEF AbortQueued, NoTaskStranded, IdleSlots
<1>11. QueueExact'
  <2>1. \A k \in 1..Len(queue) \ {i} :
          answer'[queue[k]] = "pending" /\ \A w \in slots : slotTask[w] # queue[k]
    BY <1>3, <1>6 DEF QueueExact
  <2>2. slots' = slots /\ slotTask' = slotTask
    BY DEF AbortQueued
  <2>3. \A j \in 1..Len(queue') :
          answer'[queue'[j]] = "pending" /\ \A w \in slots : slotTask[w] # queue'[j]
    BY <1>4, <2>1
  <2>. QED
    BY <1>7, <2>2, <2>3 DEF QueueExact
<1>12. SlotsExact' /\ NoLooseWorker'
  <2>1. \A w \in Workers : thread[w] = "running" => w \in slots
    BY DEF NoLooseWorker
  <2>2. UNCHANGED <<slots, slotTask, thread, job, reply>>
    BY DEF AbortQueued
  <2>. QED
    BY <1>8, <2>1, <2>2, SlotsKept
<1>13. ClosedEmpty'
  BY <1>2 DEF AbortQueued, ClosedEmpty
<1>. QED
  BY <1>9, <1>10, <1>11, <1>12, <1>13

(* Dispose empties the pool. *)
LEMMA DisposeIInv ==
  ASSUME PoolInv, DisposePool
  PROVE  PoolInv'
<1>. USE DEF PoolInv
<1>1. Cardinality({}) = 0 /\ IsFiniteSet({}) /\ <<>> \in Seq(Tasks)
  BY FS_EmptySet
<1>2. answer' = Answer(answer, Tasks, "aborted") /\ thread' = Terminate(slots)
  BY DEF DisposePool
<1>3. PoolTypeOK'
  BY AnswerOf, TerminateOf DEF DisposePool, Settled, PoolTypeOK
<1>4. NoTaskStranded'
  BY DEF DisposePool, NoTaskStranded
<1>5. NoLooseWorker'
  BY <1>1, TerminateOf, PoolAssumption DEF DisposePool, NoLooseWorker
<1>6. QueueExact'
  BY DEF DisposePool, QueueExact
<1>7. SlotsExact'
  BY <1>1, TerminateOf DEF DisposePool, SlotsExact
<1>8. ClosedEmpty'
  BY DEF DisposePool, ClosedEmpty
<1>. QED
  BY <1>3, <1>4, <1>5, <1>6, <1>7, <1>8

(* A thread that answers works for its slot. *)
LEMMA ThreadRepliesIInv ==
  ASSUME PoolInv, NEW w \in Workers, ThreadReplies(w)
  PROVE  PoolInv'
<1>. USE DEF PoolInv
<1>1. PoolTypeOK'
  BY DEF ThreadReplies, PoolTypeOK
<1>2. NoTaskStranded'
  BY DEF ThreadReplies, NoTaskStranded, IdleSlots
<1>3. NoLooseWorker'
  BY DEF ThreadReplies, NoLooseWorker
<1>4. QueueExact'
  BY DEF ThreadReplies, QueueExact
<1>5. SlotsExact'
  BY DEF ThreadReplies, SlotsExact, NoLooseWorker, PoolTypeOK
<1>6. ClosedEmpty'
  BY DEF ThreadReplies, ClosedEmpty
<1>. QED
  BY <1>1, <1>2, <1>3, <1>4, <1>5, <1>6

(* A thread that dies stays in its slot. *)
LEMMA ThreadDiesIInv ==
  ASSUME PoolInv, NEW w \in Workers, ThreadDies(w)
  PROVE  PoolInv'
<1>. USE DEF PoolInv
<1>1. PoolTypeOK'
  BY DEF ThreadDies, PoolTypeOK
<1>2. NoTaskStranded'
  BY DEF ThreadDies, NoTaskStranded, IdleSlots
<1>3. NoLooseWorker'
  BY DEF ThreadDies, NoLooseWorker
<1>4. QueueExact'
  BY DEF ThreadDies, QueueExact
<1>5. SlotsExact'
  BY DEF ThreadDies, SlotsExact
<1>6. ClosedEmpty'
  BY DEF ThreadDies, ClosedEmpty
<1>. QED
  BY <1>1, <1>2, <1>3, <1>4, <1>5, <1>6

(* A name is blank again when its thread is gone. *)
LEMMA ThreadGoneIInv ==
  ASSUME PoolInv, NEW w \in Workers, ThreadGone(w)
  PROVE  PoolInv'
<1>. USE DEF PoolInv
<1>1. PoolTypeOK'
  BY DEF ThreadGone, PoolTypeOK
<1>2. NoTaskStranded'
  BY DEF ThreadGone, NoTaskStranded, IdleSlots
<1>3. NoLooseWorker'
  BY DEF ThreadGone, NoLooseWorker
<1>4. QueueExact'
  BY DEF ThreadGone, QueueExact
<1>5. SlotsExact'
  BY DEF ThreadGone, SlotsExact, PoolTypeOK
<1>6. ClosedEmpty'
  BY DEF ThreadGone, ClosedEmpty
<1>. QED
  BY <1>1, <1>2, <1>3, <1>4, <1>5, <1>6

-----------------------------------------------------------------------------
LEMMA NextIInv == PoolInv /\ [PoolNext]_poolVars => PoolInv'
<1>. SUFFICES ASSUME PoolInv, [PoolNext]_poolVars PROVE PoolInv'
  OBVIOUS
<1>1. CASE UNCHANGED poolVars
  BY <1>1 DEF poolVars, PoolInv, PoolTypeOK, NoTaskStranded, NoLooseWorker, QueueExact, SlotsExact,
              ClosedEmpty, IdleSlots
<1>2. ASSUME NEW t \in Tasks, RunTask(t) PROVE PoolInv'
  BY <1>2, RunTaskIInv
<1>3. ASSUME NEW t \in Tasks, AbortQueued(t) \/ AbortRunning(t) PROVE PoolInv'
  BY <1>3, AbortQueuedIInv, AbortRunningIInv
<1>4. CASE DisposePool
  BY <1>4, DisposeIInv
<1>5. CASE Dispatch
  BY <1>5, SpawnWorkerIInv, SpawnFailsIInv, AssignTaskIInv, PostFailsIInv, DispatchEndsIInv
     DEF Dispatch
<1>6. ASSUME NEW w \in Workers, FinishTask(w) \/ WorkerExit(w) PROVE PoolInv'
  BY <1>6, FinishTaskIInv, WorkerExitIInv
<1>7. ASSUME NEW w \in Workers, ThreadReplies(w) \/ ThreadDies(w) \/ ThreadGone(w) PROVE PoolInv'
  BY <1>7, ThreadRepliesIInv, ThreadDiesIInv, ThreadGoneIInv
<1>. QED
  BY <1>1, <1>2, <1>3, <1>4, <1>5, <1>6, <1>7 DEF PoolNext, PoolStep

LEMMA SpecIInv == PoolSpec => []PoolInv
<1>1. PoolInit => PoolInv
  BY InitIInv
<1>2. PoolInv /\ [PoolNext]_poolVars => PoolInv'
  BY NextIInv
<1>. QED
  BY <1>1, <1>2, PTL DEF PoolSpec

(* Tasks queue between two handlers only while every worker the limit allows exists
   and is busy, for any limit and however workers die, fail to start or are aborted. *)
THEOREM NothingStranded == PoolSpec => []NoTaskStranded
<1>1. PoolInv => NoTaskStranded
  BY DEF PoolInv
<1>. QED
  BY <1>1, SpecIInv, PTL

(* Every running thread is in a slot and works for that slot's pending task, and the
   pool never exceeds its limit. *)
THEOREM NothingLoose == PoolSpec => []NoLooseWorker
<1>1. PoolInv => NoLooseWorker
  BY DEF PoolInv
<1>. QED
  BY <1>1, SpecIInv, PTL

(* Types of the pool. *)
THEOREM PoolTypeCorrect == PoolSpec => []PoolTypeOK
<1>1. PoolInv => PoolTypeOK
  BY DEF PoolInv
<1>. QED
  BY <1>1, SpecIInv, PTL

-----------------------------------------------------------------------------
(* The mutation batch. *)
Submitted == {c \in BatchCalls : order[c] > 0}

\* A call has settled when it ended; it submits once, and waits after that.
CallsExact ==
  /\ settled = {c \in BatchCalls : pc[c] = "ended"}
  /\ \A c \in BatchCalls : /\ order[c] > 0 => pc[c] \in {"waiting", "ended"}
                           /\ pc[c] = "waiting" => order[c] > 0

\* The submissions are numbered one by one.
OrdersExact ==
  /\ nextOrder = Cardinality(Submitted)
  /\ \A c \in BatchCalls : order[c] <= nextOrder
  /\ \A c, d \in Submitted : order[c] = order[d] => c = d

\* The text of a path that the batch wrote is that of its latest submission.
LatestOnDisk ==
  \A p \in Paths :
    /\ disk[p] \in BatchCalls => disk[p] \in Submitted /\ path[disk[p]] = p
    /\ \A c \in Submitted : path[c] = p => disk[p] \in BatchCalls /\ order[c] <= order[disk[p]]

\* Until the first call is invoked nothing was written; from then on, as long as the
\* calls of the batch submit, they write nothing without submitting it.
CommitsSubmitted ==
  ~batchDisposed =>
    /\ mode = "undefined" =>
         /\ \A c \in BatchCalls : pc[c] \notin {"invoked", "waiting"}
         /\ \A p \in Paths : disk[p] \notin BatchCalls
    /\ mode = "active" => LatestOnDisk

\* The shared work began when nobody could commit any more, with the latest texts.
FinalizedLatest ==
  finalizing =>
    /\ mode = "active" /\ LatestOnDisk
    /\ \A c \in BatchCalls : order[c] > 0 \/ c \in settled
    /\ given = {c \in Submitted : \A d \in Submitted : path[d] = path[c] => order[d] <= order[c]}

BatchCore == BatchTypeOK /\ CallsExact /\ OrdersExact /\ CommitsSubmitted
BatchInv == BatchCore /\ FinalizedLatest

LEMMA BatchSize == Cardinality(BatchCalls) \in Nat /\ BatchCalls \cap Paths = {}
BY BatchAssumption, FS_CardinalityType

LEMMA SubmittedSize ==
  IsFiniteSet(Submitted) /\ Cardinality(Submitted) \in Nat
    /\ Cardinality(Submitted) <= Cardinality(BatchCalls)
BY BatchAssumption, FS_Subset, FS_CardinalityType DEF Submitted

LEMMA BatchStarts == ASSUME BatchInit PROVE BatchInv
<1>1. Submitted = {}
  BY DEF BatchInit, Submitted
<1>2. BatchTypeOK
  <2>1. 0 \in 0..Cardinality(BatchCalls)
    BY BatchSize
  <2>2. order \in [BatchCalls -> 0..Cardinality(BatchCalls)]
    BY <2>1 DEF BatchInit
  <2>3. disk \in [Paths -> BatchCalls \cup Paths]
    BY DEF BatchInit
  <2>4. ~finalizing /\ \A c \in BatchCalls : ~(order[c] > 0)
    BY DEF BatchInit
  <2>5. pc \in [BatchCalls -> {"captured", "started", "invoked", "waiting", "ended"}]
    BY DEF BatchInit
  <2>6. /\ settled \in SUBSET BatchCalls /\ given \in SUBSET BatchCalls
        /\ lspDone \in SUBSET BatchCalls /\ repoDone \in SUBSET BatchCalls
    BY DEF BatchInit
  <2>7. /\ parallel \in BOOLEAN /\ stopped \in BOOLEAN /\ path \in [BatchCalls -> Paths]
        /\ mode \in {"undefined", "active", "disabled"} /\ nextOrder \in 0..Cardinality(BatchCalls)
        /\ finalizing \in BOOLEAN /\ tracked \in BOOLEAN /\ batchDisposed \in BOOLEAN
    BY <2>1 DEF BatchInit
  <2> QED BY <2>2, <2>3, <2>4, <2>5, <2>6, <2>7 DEF BatchTypeOK
<1>3. CallsExact
  BY DEF BatchInit, CallsExact
<1>4. OrdersExact
  BY <1>1, FS_EmptySet DEF BatchInit, OrdersExact
<1>5. CommitsSubmitted /\ FinalizedLatest
  BY BatchSize DEF BatchInit, CommitsSubmitted, FinalizedLatest
<1> QED BY <1>2, <1>3, <1>4, <1>5 DEF BatchInv, BatchCore

\* Nothing to commit is left once the batch is being finalized.
LEMMA NobodyCommits == ASSUME BatchInv, finalizing, NEW c \in BatchCalls PROVE pc[c] # "invoked"
BY DEF BatchInv, BatchCore, FinalizedLatest, CallsExact

\* The check after a submission or an end, when the rest of the invariant holds after it.
LEMMA MaybeFinalizeKeeps ==
  ASSUME BatchInv, BatchCore', MaybeFinalize, UNCHANGED <<path, mode, batchDisposed>>,
         settled \subseteq settled', finalizing => UNCHANGED <<order, disk>>
  PROVE  FinalizedLatest'
<1>1. CASE ~batchDisposed /\ mode = "active" /\ ~finalizing
           /\ \A c \in BatchCalls : order'[c] > 0 \/ c \in settled'
  <2>1. given' = {c \in Submitted' : \A d \in Submitted' : path[d] = path[c] => order'[d] <= order'[c]}
    BY <1>1 DEF MaybeFinalize, LatestPerPath, Submitted
  <2>2. LatestOnDisk'
    BY <1>1 DEF BatchCore, CommitsSubmitted
  <2> QED BY <1>1, <2>1, <2>2 DEF FinalizedLatest
<1>2. CASE UNCHANGED <<finalizing, given>>
  <2> SUFFICES ASSUME finalizing PROVE FinalizedLatest'
    BY <1>2 DEF FinalizedLatest
  <2>1. UNCHANGED <<order, disk, path, mode, given, finalizing>>
    BY <1>2
  <2>2. Submitted' = Submitted
    BY <2>1 DEF Submitted
  <2> QED BY <2>1, <2>2 DEF FinalizedLatest, LatestOnDisk, BatchInv
<1> QED BY <1>1, <1>2 DEF MaybeFinalize

\* A call ends: nothing else of it changes, or its text was written outside the batch.
LEMMA EndKeeps ==
  ASSUME BatchInv, NEW c \in BatchCalls, pc[c] # "ended", End(c),
         UNCHANGED <<loopVars, answers>>,
         \/ UNCHANGED disk
         \/ /\ pc[c] = "invoked" /\ (mode # "active" \/ batchDisposed)
            /\ disk' = [disk EXCEPT ![path[c]] = c]
  PROVE  BatchInv'
<1> USE DEF BatchInv, BatchCore
<1>1. /\ pc \in [BatchCalls -> {"captured", "started", "invoked", "waiting", "ended"}]
      /\ pc' = [pc EXCEPT ![c] = "ended"] /\ settled' = settled \cup {c}
      /\ UNCHANGED <<order, mode, nextOrder, batchDisposed, path>> /\ MaybeFinalize
      /\ tracked' \in BOOLEAN
  BY DEF End, Settle, Goto, BatchTypeOK, loopVars
<1>2. Submitted' = Submitted
  BY <1>1 DEF Submitted
<1>3. CallsExact'
  BY <1>1 DEF CallsExact
<1>4. OrdersExact'
  BY <1>1, <1>2 DEF OrdersExact
<1>5. disk' \in [Paths -> BatchCalls \cup Paths]
  BY DEF BatchTypeOK
<1>6. /\ finalizing' \in BOOLEAN /\ given' \in SUBSET BatchCalls
      /\ finalizing' => mode' = "active"
  BY <1>1 DEF MaybeFinalize, LatestPerPath, BatchTypeOK
<1>7. BatchTypeOK'
  BY <1>1, <1>5, <1>6 DEF BatchTypeOK, loopVars, answers
<1>8. CommitsSubmitted'
  <2> SUFFICES ASSUME ~batchDisposed PROVE CommitsSubmitted'
    BY <1>1 DEF CommitsSubmitted
  <2>1. mode = "undefined" => UNCHANGED disk
    BY DEF CommitsSubmitted
  <2>2. mode = "active" => UNCHANGED disk
    OBVIOUS
  <2> QED BY <1>1, <1>2, <2>1, <2>2 DEF CommitsSubmitted, LatestOnDisk
<1>9. finalizing => UNCHANGED <<order, disk>>
  BY <1>1, NobodyCommits
<1>10. FinalizedLatest'
  BY <1>1, <1>3, <1>4, <1>7, <1>8, <1>9, MaybeFinalizeKeeps
<1> QED BY <1>3, <1>4, <1>7, <1>8, <1>10

\* What only moves a call that has not committed, or only touches the answers.
LEMMA QuietKeeps ==
  ASSUME BatchInv, BatchTypeOK',
         UNCHANGED <<path, order, nextOrder, finalizing, given, settled, disk, mode>>,
         batchDisposed => batchDisposed', CallsExact',
         mode = "undefined" /\ ~batchDisposed =>
           \A c \in BatchCalls : pc'[c] \notin {"invoked", "waiting"}
  PROVE  BatchInv'
<1> USE DEF BatchInv, BatchCore
<1>1. Submitted' = Submitted
  BY DEF Submitted
<1>2. OrdersExact'
  BY <1>1 DEF OrdersExact
<1>3. CommitsSubmitted'
  BY <1>1 DEF CommitsSubmitted, LatestOnDisk, BatchTypeOK
<1>4. FinalizedLatest'
  BY <1>1 DEF FinalizedLatest, LatestOnDisk
<1> QED BY <1>2, <1>3, <1>4

LEMMA CallStartKeeps == ASSUME BatchInv, NEW c \in BatchCalls, Start(c) PROVE BatchInv'
<1> USE DEF BatchInv, BatchCore
<1>1. pc' = [pc EXCEPT ![c] = "started"] /\ pc[c] = "captured"
      /\ UNCHANGED <<loopVars, batchState, answers, disk>>
  BY DEF Start, Goto
<1>2. BatchTypeOK'
  BY <1>1 DEF BatchTypeOK, loopVars, batchState, answers
<1>3. CallsExact'
  BY <1>1 DEF CallsExact, BatchTypeOK, batchState
<1>4. mode = "undefined" /\ ~batchDisposed => \A d \in BatchCalls : pc'[d] \notin {"invoked", "waiting"}
  BY <1>1 DEF CommitsSubmitted, BatchTypeOK
<1> QED BY <1>1, <1>2, <1>3, <1>4, QuietKeeps DEF loopVars, batchState

\* The first invocation decides the mode: before it nothing was submitted.
LEMMA InvokeKeeps == ASSUME BatchInv, NEW c \in BatchCalls, Invoke(c) PROVE BatchInv'
<1> USE DEF BatchInv, BatchCore
<1>1. /\ pc' = [pc EXCEPT ![c] = "invoked"] /\ pc[c] = "started"
      /\ UNCHANGED <<loopVars, settled, order, nextOrder, finalizing, given, tracked,
                     batchDisposed, answers, disk>>
  BY DEF Invoke, Goto
<1>2. /\ mode' \in {"undefined", "active", "disabled"}
      /\ batchDisposed \/ mode # "undefined" => mode' = mode
      /\ ~batchDisposed => mode' # "undefined"
  BY DEF Invoke, BatchTypeOK
<1>3. Submitted' = Submitted
  BY <1>1 DEF Submitted
<1>4. BatchTypeOK'
  BY <1>1, <1>2 DEF BatchTypeOK, loopVars, answers
<1>5. CallsExact'
  BY <1>1 DEF CallsExact, BatchTypeOK
<1>6. OrdersExact'
  BY <1>1, <1>3 DEF OrdersExact
<1>7. CommitsSubmitted'
  <2> SUFFICES ASSUME ~batchDisposed, mode' = "active" PROVE LatestOnDisk'
    BY <1>1, <1>2 DEF CommitsSubmitted
  <2>1. CASE mode = "active"
    BY <1>1, <1>3, <2>1 DEF CommitsSubmitted, LatestOnDisk, loopVars
  <2>2. CASE mode = "undefined"
    <3>1. Submitted = {} /\ \A p \in Paths : disk[p] \notin BatchCalls
      BY <2>2 DEF CommitsSubmitted, BatchTypeOK, Submitted
    <3> QED BY <1>1, <1>3, <3>1 DEF LatestOnDisk
  <2> QED BY <1>2, <2>1, <2>2 DEF BatchTypeOK
<1>8. FinalizedLatest'
  BY <1>1, <1>2, <1>3 DEF FinalizedLatest, LatestOnDisk, BatchTypeOK, loopVars
<1> QED BY <1>4, <1>5, <1>6, <1>7, <1>8

\* A submission has the highest number, and its text is the one on disk.
LEMMA CommitBatchedKeeps == ASSUME BatchInv, NEW c \in BatchCalls, CommitBatched(c) PROVE BatchInv'
<1> USE DEF BatchInv, BatchCore
<1>1. /\ pc[c] = "invoked" /\ mode = "active" /\ ~batchDisposed
      /\ disk' = [disk EXCEPT ![path[c]] = c] /\ nextOrder' = nextOrder + 1
      /\ order' = [order EXCEPT ![c] = nextOrder + 1] /\ pc' = [pc EXCEPT ![c] = "waiting"]
      /\ UNCHANGED <<settled, loopVars, mode, tracked, batchDisposed, answers>> /\ MaybeFinalize
  BY DEF CommitBatched, Goto
<1>2. /\ order \in [BatchCalls -> Nat] /\ path \in [BatchCalls -> Paths] /\ nextOrder \in Nat
      /\ disk \in [Paths -> BatchCalls \cup Paths] /\ path' = path /\ order[c] = 0
      /\ pc \in [BatchCalls -> {"captured", "started", "invoked", "waiting", "ended"}]
  BY <1>1, BatchSize DEF BatchTypeOK, CallsExact, loopVars
<1>3. c \notin Submitted /\ Submitted' = Submitted \cup {c}
  BY <1>1, <1>2 DEF Submitted
<1>4. Cardinality(Submitted') = Cardinality(Submitted) + 1
  BY <1>3, SubmittedSize, FS_AddElement
<1>5. Cardinality(Submitted') <= Cardinality(BatchCalls)
  <2>1. Submitted' \subseteq BatchCalls
    BY <1>3 DEF Submitted
  <2> QED BY <2>1, BatchAssumption, FS_Subset
<1>6. \A d \in BatchCalls : order'[d] = IF d = c THEN nextOrder + 1 ELSE order[d]
  BY <1>1, <1>2
<1>7. CallsExact'
  BY <1>1, <1>2, <1>6 DEF CallsExact
<1>8. OrdersExact'
  <2>1. \A d \in BatchCalls : order[d] \in Nat /\ order[d] <= nextOrder
    BY <1>2 DEF OrdersExact
  <2>2. \A d \in BatchCalls : order'[d] <= nextOrder'
    BY <1>1, <1>2, <1>6, <2>1
  <2>3. ASSUME NEW d \in Submitted', NEW e \in Submitted', order'[d] = order'[e] PROVE d = e
    <3>1. d \in BatchCalls /\ e \in BatchCalls
      BY <1>3 DEF Submitted
    <3>2. CASE d = c \/ e = c
      BY <1>2, <1>6, <2>1, <2>3, <3>1, <3>2
    <3>3. CASE d # c /\ e # c
      BY <1>3, <1>6, <2>3, <3>1, <3>3 DEF OrdersExact
    <3> QED BY <3>2, <3>3
  <2> QED BY <1>1, <1>4, <2>2, <2>3 DEF OrdersExact
<1>9. /\ finalizing' \in BOOLEAN /\ given' \in SUBSET BatchCalls /\ (finalizing' => mode' = "active")
  BY <1>1 DEF MaybeFinalize, LatestPerPath, BatchTypeOK
<1>10. BatchTypeOK'
  <2>1. nextOrder' \in 0..Cardinality(BatchCalls)
    BY <1>1, <1>2, <1>4, <1>5, BatchSize DEF OrdersExact
  <2>2. order' \in [BatchCalls -> 0..Cardinality(BatchCalls)]
    BY <1>1, <1>2, <2>1 DEF BatchTypeOK
  <2>3. disk' \in [Paths -> BatchCalls \cup Paths]
        /\ pc' \in [BatchCalls -> {"captured", "started", "invoked", "waiting", "ended"}]
    BY <1>1, <1>2
  <2> QED BY <1>1, <1>9, <2>1, <2>2, <2>3 DEF BatchTypeOK, loopVars, answers
<1>11. LatestOnDisk'
  <2> SUFFICES ASSUME NEW p \in Paths
      PROVE  /\ disk'[p] \in BatchCalls => disk'[p] \in Submitted' /\ path[disk'[p]] = p
             /\ \A d \in Submitted' : path[d] = p =>
                  disk'[p] \in BatchCalls /\ order'[d] <= order'[disk'[p]]
    BY <1>2 DEF LatestOnDisk
  <2>1. LatestOnDisk
    BY <1>1 DEF CommitsSubmitted
  <2>2. CASE p = path[c]
    <3>1. disk'[p] = c
      BY <1>1, <1>2, <2>2
    <3>2. \A d \in BatchCalls : order'[d] <= nextOrder + 1
      BY <1>2, <1>6 DEF OrdersExact
    <3> QED BY <1>3, <1>6, <2>2, <3>1, <3>2 DEF Submitted
  <2>3. CASE p # path[c]
    <3>1. disk'[p] = disk[p]
      BY <1>1, <1>2, <2>3
    <3>2. \A d \in Submitted' : path[d] = p => d \in Submitted
      BY <1>3, <2>3
    <3>3. \A d \in Submitted : d # c
      BY <1>3
    <3> QED BY <1>3, <1>6, <2>1, <3>1, <3>2, <3>3 DEF LatestOnDisk, Submitted
  <2> QED BY <2>2, <2>3
<1>12. CommitsSubmitted'
  BY <1>1, <1>11 DEF CommitsSubmitted
<1>13. ~finalizing
  BY <1>1, NobodyCommits
<1>14. FinalizedLatest'
  BY <1>1, <1>2, <1>7, <1>8, <1>10, <1>12, <1>13, MaybeFinalizeKeeps
<1> QED BY <1>7, <1>8, <1>10, <1>12, <1>14

LEMMA BatchKeeps == ASSUME BatchInv, [BatchNext]_batchVars PROVE BatchInv'
<1> USE DEF BatchInv, BatchCore
<1>1. ASSUME NEW c \in BatchCalls, Block(c) \/ CommitAlone(c) \/ FailCall(c) \/ Resume(c)
      PROVE  BatchInv'
  <2>1. pc[c] # "ended" /\ End(c) /\ UNCHANGED <<loopVars, answers>>
    BY <1>1 DEF Block, CommitAlone, FailCall, Resume
  <2>2. \/ UNCHANGED disk
        \/ /\ pc[c] = "invoked" /\ (mode # "active" \/ batchDisposed)
           /\ disk' = [disk EXCEPT ![path[c]] = c]
    BY <1>1 DEF Block, CommitAlone, FailCall, Resume
  <2> QED BY <2>1, <2>2, EndKeeps
<1>2. ASSUME ProcessLsp \/ ProcessRepoMap \/ StopLoop \/ DisposeBatch \/ UNCHANGED batchVars
      PROVE  BatchInv'
  <2>1. /\ UNCHANGED <<path, order, nextOrder, finalizing, given, settled, disk, mode, pc>>
        /\ batchDisposed => batchDisposed'
    BY <1>2 DEF ProcessLsp, ProcessRepoMap, StopLoop, DisposeBatch, batchVars, loopVars,
                batchState, answers
  <2>2. /\ lspDone' \in SUBSET BatchCalls /\ repoDone' \in SUBSET BatchCalls
        /\ parallel' = parallel /\ stopped' \in BOOLEAN /\ tracked' \in BOOLEAN
        /\ batchDisposed' \in BOOLEAN
    BY <1>2 DEF ProcessLsp, ProcessRepoMap, StopLoop, DisposeBatch, batchVars, loopVars,
                batchState, answers, BatchTypeOK
  <2>3. BatchTypeOK'
    BY <2>1, <2>2 DEF BatchTypeOK
  <2>4. CallsExact'
    BY <2>1 DEF CallsExact
  <2>5. mode = "undefined" /\ ~batchDisposed =>
          \A c \in BatchCalls : pc'[c] \notin {"invoked", "waiting"}
    BY <2>1 DEF CommitsSubmitted
  <2> QED BY <2>1, <2>3, <2>4, <2>5, QuietKeeps
<1> QED BY <1>1, <1>2, CallStartKeeps, InvokeKeeps, CommitBatchedKeeps DEF BatchNext, BatchStep

\* For any calls and paths of one message, in a parallel or a sequential agent loop: once the
\* shared work of language servers and repository map has begun no call of the batch changes
\* a file, and what it works on is the latest text of every file the batch changed.
THEOREM BatchesFinalizeWhole == BatchSpec => FinalizedWhole
<1>1. BatchInv => BatchTypeOK /\ LatestTextProcessed
  <2> SUFFICES ASSUME BatchInv, finalizing
               PROVE  /\ \A c \in given : disk[path[c]] = c
                      /\ \A p \in Paths : disk[p] \in BatchCalls => disk[p] \in given
    BY DEF LatestTextProcessed, BatchInv, BatchCore
  <2>1. /\ LatestOnDisk /\ BatchTypeOK /\ OrdersExact
        /\ given = {c \in Submitted : \A d \in Submitted : path[d] = path[c] => order[d] <= order[c]}
    BY DEF BatchInv, BatchCore, FinalizedLatest
  <2>2. /\ \A c \in BatchCalls : path[c] \in Paths /\ order[c] \in Nat
        /\ Submitted \subseteq BatchCalls
    BY <2>1, BatchSize DEF BatchTypeOK, Submitted
  <2>3. ASSUME NEW c \in given PROVE disk[path[c]] = c
    <3>1. /\ c \in Submitted /\ disk[path[c]] \in Submitted /\ path[disk[path[c]]] = path[c]
          /\ order[c] <= order[disk[path[c]]]
      BY <2>1, <2>2 DEF LatestOnDisk
    <3>2. order[disk[path[c]]] <= order[c]
      BY <2>1, <3>1
    <3> QED BY <2>1, <2>2, <3>1, <3>2 DEF OrdersExact
  <2>4. ASSUME NEW p \in Paths, disk[p] \in BatchCalls PROVE disk[p] \in given
    BY <2>1, <2>4 DEF LatestOnDisk
  <2> QED BY <2>3, <2>4
<1>2. ASSUME BatchInv, [BatchNext]_batchVars PROVE [finalizing => disk' = disk]_batchVars
  <2> SUFFICES ASSUME finalizing, BatchNext PROVE disk' = disk
    BY <1>2
  <2>1. ASSUME NEW c \in BatchCalls, BatchStep(c) PROVE disk' = disk
    <3>1. pc[c] # "invoked"
      BY <1>2, NobodyCommits
    <3> QED BY <2>1, <3>1 DEF BatchStep, Start, Block, Invoke, CommitBatched, CommitAlone,
                              FailCall, Resume
  <2> QED BY <2>1 DEF BatchNext, ProcessLsp, ProcessRepoMap, StopLoop, DisposeBatch
<1> QED BY <1>1, <1>2, BatchStarts, BatchKeeps, PTL DEF BatchSpec, FinalizedWhole, NoCommitAfterFinalize
=============================================================================

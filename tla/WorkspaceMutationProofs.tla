----------------------- MODULE WorkspaceMutationProofs -----------------------
(***************************************************************************)
(* The mutation service for any calls, paths, files, contents and steps of *)
(* other processes: what a call returns is what it did (OutcomesTrue), a   *)
(* commit replaces exactly what its transform was given (CommitIsUpdate),  *)
(* and the service implements the abstract store (ImplementsAtomicFiles).  *)
(*                                                                         *)
(* The queue's own invariant comes from MutationQueueProofs: each action   *)
(* of the service is one of the queue's or leaves the queue alone.         *)
(***************************************************************************)
EXTENDS WorkspaceMutation, TLAPS

QP == INSTANCE MutationQueueProofs WITH Keys <- Files, NoKey <- NoFile

\* The steps a call takes while it holds its key.
Inside == {"locked", "transform", "stage", "validate", "rename", "renamed", "cleanup"}

QueueInv ==
  Queue!TypeOK /\ Queue!MutualExclusion /\ Queue!EntryIffHeld /\ Queue!WaitersExact

\* How far a call is tells what it holds, what it has done and what it may return.
StepInv(c) ==
  /\ phase[c] = "running" <=> step[c] \in Inside
  /\ step[c] \in Inside \union {"queued"} => key[c] \in Files \ Blocked
  /\ c \in committed => step[c] \in {"renamed", "done"}
  /\ step[c] = "renamed" => c \in committed
  /\ result[c] = "pending" <=> step[c] # "done"
  /\ step[c] = "done" => (result[c] = "committed" <=> c \in committed)
  /\ c \in cancelled => c \in aborted /\ c \notin committed /\ step[c] # "rename"

\* What a call carries through the queue: the bytes to commit are the transform of
\* its snapshot, and the snapshot has no text of a call that did not commit.
CarryInv(c) ==
  /\ temp[c] # 0 => step[c] \in {"validate", "rename", "cleanup"}
  /\ step[c] \in {"stage", "validate", "rename"} =>
       out[c] = Apply(c, snap[c]) /\ (c \in Edits => snap[c] # Missing)
  /\ snap[c] # Missing => snap[c] \intersect Calls \subseteq committed

DiskInv == \A f \in Files : disk[f] # Missing => disk[f] \intersect Calls \subseteq committed

\* From the validation to the rename only another process can change the file.
WindowInv(c) == step[c] = "rename" /\ c \notin raced => disk[key[c]] = snap[c]

RaceInv == ~mayRace => raced = {}

IInv ==
  /\ TypeOK /\ QueueInv
  /\ \A c \in Calls : StepInv(c) /\ CarryInv(c) /\ WindowInv(c)
  /\ DiskInv /\ BlockedUntouched /\ RaceInv

\* No content that a file can have stands for its absence.
LEMMA MarkedIsPresent == \A m \in SUBSET Marks : m # Missing
<1>. QED
  BY ContentAssumption DEF Marks

\* A call's text and what other processes write are contents.
LEMMA ContentsAreContent ==
  /\ Contents \subseteq FileContent
  /\ \A m \in Contents : m # Missing => m \intersect Calls = {}
<1>1. \A m \in Contents : m # Missing => m \in SUBSET Marks
  BY DEF Marks
<1>. QED
  BY <1>1, ContentAssumption DEF FileContent

LEMMA ApplyIsContent ==
  ASSUME NEW c \in Calls, NEW content \in FileContent, c \in Edits => content # Missing
  PROVE  Apply(c, content) \in FileContent /\ Apply(c, content) # Missing
<1>1. c \in Marks
  BY DEF Marks
<1>2. Apply(c, content) \in SUBSET Marks
  BY <1>1 DEF Apply, FileContent
<1>. QED
  BY <1>2, MarkedIsPresent DEF FileContent

-----------------------------------------------------------------------------
(* The queue's actions keep its invariant, and hand nothing of another call's *)
(* but a key it waits for.                                                    *)

LEMMA QueueInvIsIInv == QueueInv <=> QP!IInv
<1>. QED
  BY DEF QueueInv, QP!IInv, Queue!TypeOK, QP!TypeOK, Queue!Phases, QP!Phases,
         Queue!MutualExclusion, QP!MutualExclusion, Queue!EntryIffHeld, QP!EntryIffHeld,
         Queue!WaitersExact, QP!WaitersExact, Queue!Holds, QP!Holds

LEMMA QueueInvIsIInvNext == QueueInv' <=> QP!IInv'
<1>. QED
  BY DEF QueueInv, QP!IInv, Queue!TypeOK, QP!TypeOK, Queue!Phases, QP!Phases,
         Queue!MutualExclusion, QP!MutualExclusion, Queue!EntryIffHeld, QP!EntryIffHeld,
         Queue!WaitersExact, QP!WaitersExact, Queue!Holds, QP!Holds

\* The other calls hold what they held, under the keys they asked for.
OthersKeepKeys(c) ==
  \A d \in Calls \ {c} : (phase'[d] = "running" <=> phase[d] = "running") /\ key'[d] = key[d]

LEMMA QueueAcquire ==
  ASSUME QueueInv, NEW c \in Calls, NEW f \in Files, Queue!Acquire(c, f)
  PROVE  /\ QueueInv' /\ OthersKeepKeys(c) /\ aborted' = aborted
         /\ phase'[c] # "running" /\ key'[c] = f
<1>1. QP!Acquire(c, f)
  BY DEF Queue!Acquire, Queue!AcquireRefused, Queue!AcquireFree, Queue!AcquireBusy,
         QP!Acquire, QP!AcquireRefused, QP!AcquireFree, QP!AcquireBusy
<1>2. QueueInv'
  BY <1>1, QP!AcquireIInv, NoFileAssumption, QueueInvIsIInv, QueueInvIsIInvNext
     DEF QP!AcquireIInv
<1>3. OthersKeepKeys(c) /\ aborted' = aborted /\ phase'[c] # "running" /\ key'[c] = f
  BY DEF QueueInv, Queue!TypeOK, Queue!Acquire, Queue!AcquireRefused, Queue!AcquireFree,
         Queue!AcquireBusy, OthersKeepKeys
<1>. QED
  BY <1>2, <1>3

LEMMA QueueRelease ==
  ASSUME QueueInv, NEW c \in Calls, phase[c] \in {"granted", "running"},
         NEW to \in {"left", "rejected"}, Queue!Release(c, to),
         UNCHANGED <<key, aborted, disposed>>
  PROVE  QueueInv' /\ OthersKeepKeys(c) /\ phase'[c] # "running"
<1>1. QP!Release(c, to)
  BY DEF Queue!Release, QP!Release
<1>2. QueueInv'
  BY <1>1, QP!ReleaseIInv, NoFileAssumption, QueueInvIsIInv, QueueInvIsIInvNext
     DEF QP!ReleaseIInv
<1>3. OthersKeepKeys(c) /\ phase'[c] # "running"
  <2>1. key[c] \in Files /\ waiters[key[c]] \in Seq(Calls)
    BY DEF QueueInv, Queue!TypeOK
  <2>2. CASE waiters[key[c]] = <<>>
    BY <2>1, <2>2 DEF QueueInv, Queue!TypeOK, Queue!Release, OthersKeepKeys
  <2>3. CASE waiters[key[c]] # <<>>
    <3>. DEFINE h == Head(waiters[key[c]])
    <3>1. /\ 1 \in 1..Len(waiters[key[c]]) /\ h = waiters[key[c]][1] /\ h \in Calls
      BY <2>1, <2>3
    <3>2. phase[h] = "waiting"
      BY <2>1, <3>1 DEF QueueInv, Queue!WaitersExact
    <3>3. phase' = [phase EXCEPT ![c] = to, ![h] = "granted"]
      BY <2>3 DEF Queue!Release
    <3>. HIDE DEF h
    <3>. QED
      BY <3>1, <3>2, <3>3 DEF QueueInv, Queue!TypeOK, OthersKeepKeys
  <2>. QED
    BY <2>2, <2>3
<1>. QED
  BY <1>2, <1>3

LEMMA QueueEnter ==
  ASSUME QueueInv, NEW c \in Calls, Queue!Enter(c)
  PROVE  /\ QueueInv' /\ OthersKeepKeys(c) /\ aborted' = aborted
         /\ phase'[c] = "running" /\ key' = key
<1>1. QP!Enter(c)
  BY DEF Queue!Enter, QP!Enter
<1>2. QueueInv'
  BY <1>1, QP!EnterIInv, NoFileAssumption, QueueInvIsIInv, QueueInvIsIInvNext
     DEF QP!EnterIInv
<1>3. OthersKeepKeys(c) /\ aborted' = aborted /\ phase'[c] = "running" /\ key' = key
  BY DEF QueueInv, Queue!TypeOK, Queue!Enter, OthersKeepKeys
<1>. QED
  BY <1>2, <1>3

LEMMA QueueAbort ==
  ASSUME QueueInv, NEW c \in Calls, Queue!Abort(c)
  PROVE  /\ QueueInv' /\ key' = key /\ aborted' = aborted \union {c}
         /\ \A d \in Calls : phase'[d] = "running" <=> phase[d] = "running"
<1>1. QP!Abort(c)
  BY DEF Queue!Abort, QP!Abort, Queue!Without, QP!Without
<1>2. QueueInv'
  BY <1>1, QP!AbortIInv, NoFileAssumption, QueueInvIsIInv, QueueInvIsIInvNext
     DEF QP!AbortIInv
<1>3. /\ key' = key /\ aborted' = aborted \union {c}
      /\ phase' = phase \/ (phase[c] = "waiting" /\ phase' = [phase EXCEPT ![c] = "rejected"])
  BY DEF Queue!Abort
<1>. QED
  BY <1>2, <1>3 DEF QueueInv, Queue!TypeOK

\* At the end of the session every signal aborts and the waiters are rejected.
LEMMA QueueShutdown ==
  ASSUME QueueInv, Shutdown
  PROVE  QueueInv' /\ \A d \in Calls : phase'[d] = "running" <=> phase[d] = "running"
<1>1. \A d \in Calls : /\ phase'[d] # "waiting"
                       /\ phase'[d] = phase[d] \/ (phase[d] = "waiting" /\ phase'[d] = "rejected")
  BY DEF Shutdown, QueueInv, Queue!TypeOK
<1>2. Queue!TypeOK'
  <2>1. <<>> \in Seq(Calls)
    OBVIOUS
  <2>. QED
    BY <2>1 DEF Shutdown, QueueInv, Queue!TypeOK, Queue!Phases
<1>3. \A d \in Calls, f \in Files : Queue!Holds(d, f)' <=> Queue!Holds(d, f)
  BY <1>1 DEF Shutdown, Queue!Holds
<1>4. Queue!MutualExclusion' /\ Queue!EntryIffHeld'
  BY <1>3 DEF QueueInv, Shutdown, Queue!MutualExclusion, Queue!EntryIffHeld
<1>5. \A f \in Files : waiters'[f] = <<>>
  BY DEF Shutdown
<1>6. Queue!WaitersExact'
  BY <1>1, <1>5 DEF Queue!WaitersExact
<1>. QED
  BY <1>1, <1>2, <1>4, <1>6 DEF QueueInv

LEMMA QueueUnchanged ==
  ASSUME QueueInv, UNCHANGED queueVars
  PROVE  QueueInv'
<1>. QED
  BY DEF QueueInv, queueVars, Queue!TypeOK, Queue!MutualExclusion, Queue!EntryIffHeld,
         Queue!WaitersExact, Queue!Holds

-----------------------------------------------------------------------------
(* The steps of one call.                                                   *)

LEMMA CallQueue ==
  ASSUME IInv, NEW c \in Calls, CallStep(c)
  PROVE  QueueInv' /\ OthersKeepKeys(c) /\ aborted' = aborted
<1>. USE DEF IInv
<1>1. CASE PrepareExhausted(c)
  BY <1>1, QueueUnchanged DEF PrepareExhausted, queueVars, OthersKeepKeys
<1>2. CASE PrepareRefused(c)
  BY <1>2, QueueUnchanged DEF PrepareRefused, queueVars, OthersKeepKeys
<1>3. CASE Prepare(c)
  BY <1>3, QueueAcquire DEF Prepare, Allowed
<1>4. CASE QueueRejected(c)
  BY <1>4, QueueUnchanged DEF QueueRejected, queueVars, OthersKeepKeys
<1>5. CASE Enter(c)
  BY <1>5, QueueEnter DEF Enter
<1>6. CASE EnterAborted(c)
  BY <1>6, QueueRelease DEF EnterAborted, Queue!EnterAborted
<1>7. CASE LockedRefused(c)
  BY <1>7, QueueRelease DEF LockedRefused, ReturnAndRelease, Queue!Leave
<1>8. CASE Rekey(c)
  BY <1>8, QueueRelease DEF Rekey, Queue!Leave
<1>9. CASE TakeSnapshot(c)
  BY <1>9, QueueUnchanged DEF TakeSnapshot, queueVars, OthersKeepKeys
<1>10. CASE ParentMissing(c)
  BY <1>10, QueueRelease DEF ParentMissing, ReturnAndRelease, Queue!Leave
<1>11. CASE TransformRejects(c)
  BY <1>11, QueueRelease DEF TransformRejects, ReturnAndRelease, Queue!Leave
<1>12. CASE Transform(c)
  BY <1>12, QueueUnchanged DEF Transform, queueVars, OthersKeepKeys
<1>13. CASE StageFails(c)
  BY <1>13, QueueRelease DEF StageFails, ReturnAndRelease, Queue!Leave
<1>14. CASE Stage(c)
  BY <1>14, QueueUnchanged DEF Stage, queueVars, OthersKeepKeys
<1>15. CASE Validate(c)
  BY <1>15, QueueUnchanged DEF Validate, queueVars, OthersKeepKeys
<1>16. CASE Rename(c)
  BY <1>16, QueueUnchanged DEF Rename, queueVars, OthersKeepKeys
<1>17. CASE IoError(c)
  BY <1>17, QueueUnchanged DEF IoError, queueVars, OthersKeepKeys
<1>18. CASE Cleanup(c)
  BY <1>18, QueueRelease DEF Cleanup, ReturnAndRelease, Queue!Leave
<1>19. CASE Finish(c)
  BY <1>19, QueueRelease DEF Finish, ReturnAndRelease, Queue!Leave
<1>. QED
  BY <1>1, <1>2, <1>3, <1>4, <1>5, <1>6, <1>7, <1>8, <1>9, <1>10,
     <1>11, <1>12, <1>13, <1>14, <1>15, <1>16, <1>17, <1>18, <1>19
     DEF CallStep, Resolve, Queued, Locked, Replace

\* A call changes its own fields only; only a rename changes a file.
LEMMA CallFrame ==
  ASSUME TypeOK, NEW c \in Calls, CallStep(c)
  PROVE  /\ \A d \in Calls \ {c} : /\ step'[d] = step[d] /\ result'[d] = result[d]
                                  /\ snap'[d] = snap[d] /\ out'[d] = out[d] /\ temp'[d] = temp[d]
         /\ UNCHANGED <<link, path, outside, cancelled, raced, mayRace>>
         /\ Rename(c) \/ UNCHANGED <<disk, committed>>
<1>. USE DEF TypeOK
<1>1. CASE PrepareExhausted(c)
  BY <1>1 DEF PrepareExhausted, Return, Goto, worldVars, callVars, history
<1>2. CASE PrepareRefused(c)
  BY <1>2 DEF PrepareRefused, Return, Goto, worldVars, callVars, history
<1>3. CASE Prepare(c)
  BY <1>3 DEF Prepare, Mkdir, Goto, worldVars, callVars, history
<1>4. CASE QueueRejected(c)
  BY <1>4 DEF QueueRejected, Return, Goto, worldVars, callVars, history
<1>5. CASE Enter(c)
  BY <1>5 DEF Enter, Goto, worldVars, callVars, history
<1>6. CASE EnterAborted(c)
  BY <1>6 DEF EnterAborted, Return, Goto, worldVars, callVars, history
<1>7. CASE LockedRefused(c)
  BY <1>7 DEF LockedRefused, ReturnAndRelease, Return, Goto, worldVars, callVars, history
<1>8. CASE Rekey(c)
  BY <1>8 DEF Rekey, Mkdir, Goto, worldVars, callVars, history
<1>9. CASE TakeSnapshot(c)
  BY <1>9 DEF TakeSnapshot, Mkdir, ReadSnapshot, Goto, worldVars, callVars, history
<1>10. CASE ParentMissing(c)
  BY <1>10 DEF ParentMissing, ReturnAndRelease, Return, Goto, worldVars, callVars, history
<1>11. CASE TransformRejects(c)
  BY <1>11 DEF TransformRejects, ReturnAndRelease, Return, Goto, worldVars, callVars, history
<1>12. CASE Transform(c)
  BY <1>12 DEF Transform, Goto, worldVars, callVars, history
<1>13. CASE StageFails(c)
  BY <1>13 DEF StageFails, ReturnAndRelease, Return, Goto, worldVars, callVars, history
<1>14. CASE Stage(c)
  BY <1>14 DEF Stage, Goto, worldVars, callVars, history
<1>15. CASE Validate(c)
  BY <1>15 DEF Validate, Goto, worldVars, callVars, history
<1>16. CASE Rename(c)
  BY <1>16 DEF Rename, Goto, worldVars, callVars, history
<1>17. CASE IoError(c)
  BY <1>17 DEF IoError, Goto, worldVars, callVars, history
<1>18. CASE Cleanup(c)
  BY <1>18 DEF Cleanup, ReturnAndRelease, Return, Goto, worldVars, callVars, history
<1>19. CASE Finish(c)
  BY <1>19 DEF Finish, ReturnAndRelease, Return, Goto, worldVars, callVars, history
<1>. QED
  BY <1>1, <1>2, <1>3, <1>4, <1>5, <1>6, <1>7, <1>8, <1>9, <1>10,
     <1>11, <1>12, <1>13, <1>14, <1>15, <1>16, <1>17, <1>18, <1>19
     DEF CallStep, Resolve, Queued, Locked, Replace

LEMMA CallTypes ==
  ASSUME IInv, NEW c \in Calls, CallStep(c)
  PROVE  TypeOK'
<1>q. Queue!TypeOK'
  BY CallQueue DEF QueueInv
<1>. USE AttemptAssumption DEF IInv, TypeOK, Steps, worldVars, callVars, history
<1>1. CASE PrepareExhausted(c)
  BY <1>1, <1>q DEF PrepareExhausted, Return, Goto, Allowed
<1>2. CASE PrepareRefused(c)
  BY <1>2, <1>q DEF PrepareRefused, Return, Goto, Allowed
<1>3. CASE Prepare(c)
  BY <1>3, <1>q DEF Prepare, Mkdir, Goto, Allowed
<1>4. CASE QueueRejected(c)
  BY <1>4, <1>q DEF QueueRejected, Return, Goto, Allowed
<1>5. CASE Enter(c)
  BY <1>5, <1>q DEF Enter, Goto, Allowed
<1>6. CASE EnterAborted(c)
  BY <1>6, <1>q DEF EnterAborted, Return, Goto, Allowed
<1>7. CASE LockedRefused(c)
  BY <1>7, <1>q DEF LockedRefused, ReturnAndRelease, Return, Goto, Allowed
<1>8. CASE Rekey(c)
  BY <1>8, <1>q DEF Rekey, Mkdir, Goto, Allowed
<1>9. CASE TakeSnapshot(c)
  BY <1>9, <1>q DEF TakeSnapshot, Mkdir, ReadSnapshot, Goto, Allowed
<1>10. CASE ParentMissing(c)
  BY <1>10, <1>q DEF ParentMissing, ReturnAndRelease, Return, Goto, Allowed
<1>11. CASE TransformRejects(c)
  BY <1>11, <1>q DEF TransformRejects, ReturnAndRelease, Return, Goto, Allowed
<1>12. CASE Transform(c)
  <2>1. Apply(c, snap[c]) \in FileContent /\ Apply(c, snap[c]) # Missing
    BY <1>12, ApplyIsContent DEF Transform
  <2>. QED
    BY <2>1, <1>12, <1>q DEF Transform, Goto
<1>13. CASE StageFails(c)
  BY <1>13, <1>q DEF StageFails, ReturnAndRelease, Return, Goto, Allowed
<1>14. CASE Stage(c)
  <2>1. out[c] # Missing
    BY <1>14, ApplyIsContent DEF Stage, CarryInv
  <2>. QED
    BY <2>1, <1>14, <1>q DEF Stage, Goto, StepInv, Inside
<1>15. CASE Validate(c)
  BY <1>15, <1>q DEF Validate, Goto, Allowed
<1>16. CASE Rename(c)
  <2>1. key[c] \in Files
    BY <1>16 DEF Rename, StepInv, Inside
  <2>. QED
    BY <2>1, <1>16, <1>q DEF Rename, Goto
<1>17. CASE IoError(c)
  BY <1>17, <1>q DEF IoError, Goto, Allowed
<1>18. CASE Cleanup(c)
  BY <1>18, <1>q DEF Cleanup, ReturnAndRelease, Return, Goto, Allowed
<1>19. CASE Finish(c)
  BY <1>19, <1>q DEF Finish, ReturnAndRelease, Return, Goto, Allowed
<1>. QED
  BY <1>1, <1>2, <1>3, <1>4, <1>5, <1>6, <1>7, <1>8, <1>9, <1>10,
     <1>11, <1>12, <1>13, <1>14, <1>15, <1>16, <1>17, <1>18, <1>19
     DEF CallStep, Resolve, Queued, Locked, Replace

\* How far the call is still tells what it holds, did and may return.
LEMMA CallOwnStep ==
  ASSUME IInv, NEW c \in Calls, CallStep(c)
  PROVE  StepInv(c)'
<1>. USE DEF IInv, TypeOK, StepInv, Inside
<1>1. CASE PrepareExhausted(c)
  BY <1>1 DEF PrepareExhausted, Return, Goto, queueVars, history
<1>2. CASE PrepareRefused(c)
  BY <1>2 DEF PrepareRefused, Return, Goto, queueVars, history
<1>3. CASE Prepare(c)
  BY <1>3, QueueAcquire DEF Prepare, Goto, Allowed, history
<1>4. CASE QueueRejected(c)
  BY <1>4 DEF QueueRejected, Return, Goto, queueVars, history
<1>5. CASE Enter(c)
  BY <1>5, QueueEnter DEF Enter, Goto, history
<1>6. CASE EnterAborted(c)
  BY <1>6, QueueRelease DEF EnterAborted, Queue!EnterAborted, Return, Goto, history
<1>7. CASE LockedRefused(c)
  BY <1>7, QueueRelease DEF LockedRefused, ReturnAndRelease, Queue!Leave, Return, Goto, history
<1>8. CASE Rekey(c)
  BY <1>8, QueueRelease DEF Rekey, Queue!Leave, Goto, history
<1>9. CASE TakeSnapshot(c)
  BY <1>9 DEF TakeSnapshot, Goto, queueVars, history
<1>10. CASE ParentMissing(c)
  BY <1>10, QueueRelease DEF ParentMissing, ReturnAndRelease, Queue!Leave, Return, Goto, history
<1>11. CASE TransformRejects(c)
  BY <1>11, QueueRelease DEF TransformRejects, ReturnAndRelease, Queue!Leave, Return, Goto, history
<1>12. CASE Transform(c)
  BY <1>12 DEF Transform, Goto, queueVars, history
<1>13. CASE StageFails(c)
  BY <1>13, QueueRelease DEF StageFails, ReturnAndRelease, Queue!Leave, Return, Goto, history
<1>14. CASE Stage(c)
  BY <1>14 DEF Stage, Goto, queueVars, history
<1>15. CASE Validate(c)
  BY <1>15 DEF Validate, Goto, queueVars, history
<1>16. CASE Rename(c)
  BY <1>16 DEF Rename, Goto, queueVars, history
<1>17. CASE IoError(c)
  BY <1>17 DEF IoError, Goto, queueVars, history
<1>18. CASE Cleanup(c)
  BY <1>18, QueueRelease DEF Cleanup, ReturnAndRelease, Queue!Leave, Return, Goto, history
<1>19. CASE Finish(c)
  BY <1>19, QueueRelease DEF Finish, ReturnAndRelease, Queue!Leave, Return, Goto, history
<1>. QED
  BY <1>1, <1>2, <1>3, <1>4, <1>5, <1>6, <1>7, <1>8, <1>9, <1>10,
     <1>11, <1>12, <1>13, <1>14, <1>15, <1>16, <1>17, <1>18, <1>19
     DEF CallStep, Resolve, Queued, Locked, Replace

\* What the call carries; after a validation that passed, the file is the snapshot.
LEMMA CallOwnCarry ==
  ASSUME IInv, NEW c \in Calls, CallStep(c)
  PROVE  CarryInv(c)' /\ WindowInv(c)'
<1>. USE DEF IInv, TypeOK, CarryInv, WindowInv, Apply
<1>1. CASE PrepareExhausted(c)
  BY <1>1 DEF PrepareExhausted, Return, Goto, callVars, worldVars, history, queueVars
<1>2. CASE PrepareRefused(c)
  BY <1>2 DEF PrepareRefused, Return, Goto, callVars, worldVars, history, queueVars
<1>3. CASE Prepare(c)
  BY <1>3 DEF Prepare, Mkdir, Goto, callVars, worldVars, history, queueVars
<1>4. CASE QueueRejected(c)
  BY <1>4 DEF QueueRejected, Return, Goto, callVars, worldVars, history, queueVars
<1>5. CASE Enter(c)
  BY <1>5 DEF Enter, Goto, callVars, worldVars, history, queueVars
<1>6. CASE EnterAborted(c)
  BY <1>6 DEF EnterAborted, Return, Goto, callVars, worldVars, history, queueVars
<1>7. CASE LockedRefused(c)
  BY <1>7 DEF LockedRefused, ReturnAndRelease, Return, Goto, callVars, worldVars, history, queueVars
<1>8. CASE Rekey(c)
  BY <1>8 DEF Rekey, Mkdir, Goto, callVars, worldVars, history, queueVars
<1>9. CASE TakeSnapshot(c)
  BY <1>9 DEF TakeSnapshot, ReadSnapshot, Goto, history, queueVars, StepInv, Inside, DiskInv
<1>10. CASE ParentMissing(c)
  BY <1>10 DEF ParentMissing, ReturnAndRelease, Return, Goto, callVars, worldVars, history, queueVars
<1>11. CASE TransformRejects(c)
  BY <1>11 DEF TransformRejects, ReturnAndRelease, Return, Goto, callVars, worldVars, history, queueVars
<1>12. CASE Transform(c)
  BY <1>12 DEF Transform, Goto, callVars, worldVars, history, queueVars
<1>13. CASE StageFails(c)
  BY <1>13 DEF StageFails, ReturnAndRelease, Return, Goto, callVars, worldVars, history, queueVars
<1>14. CASE Stage(c)
  BY <1>14 DEF Stage, Goto, worldVars, history, queueVars, StepInv, Inside
<1>15. CASE Validate(c)
  BY <1>15 DEF Validate, StillValid, Goto, callVars, worldVars, history, queueVars
<1>16. CASE Rename(c)
  BY <1>16 DEF Rename, Goto, callVars, worldVars, history, queueVars
<1>17. CASE IoError(c)
  BY <1>17 DEF IoError, Goto, callVars, worldVars, history, queueVars
<1>18. CASE Cleanup(c)
  BY <1>18 DEF Cleanup, ReturnAndRelease, Return, Goto, callVars, worldVars, history, queueVars
<1>19. CASE Finish(c)
  BY <1>19 DEF Finish, ReturnAndRelease, Return, Goto, callVars, worldVars, history, queueVars
<1>. QED
  BY <1>1, <1>2, <1>3, <1>4, <1>5, <1>6, <1>7, <1>8, <1>9, <1>10,
     <1>11, <1>12, <1>13, <1>14, <1>15, <1>16, <1>17, <1>18, <1>19
     DEF CallStep, Resolve, Queued, Locked, Replace

\* The others' invariants: nobody writes a file that another call has validated,
\* for both would hold its key.
LEMMA CallOthers ==
  ASSUME IInv, NEW c \in Calls, CallStep(c), NEW d \in Calls \ {c}
  PROVE  StepInv(d)' /\ CarryInv(d)' /\ WindowInv(d)'
<1>. USE DEF IInv
<1>1. /\ step'[d] = step[d] /\ result'[d] = result[d]
      /\ snap'[d] = snap[d] /\ out'[d] = out[d] /\ temp'[d] = temp[d]
      /\ cancelled' = cancelled /\ raced' = raced /\ aborted' = aborted /\ key'[d] = key[d]
      /\ phase'[d] = "running" <=> phase[d] = "running"
  BY CallFrame, CallQueue DEF OthersKeepKeys
<1>2. /\ d \in committed' <=> d \in committed
      /\ committed \subseteq committed'
  BY CallFrame DEF Rename
<1>3. StepInv(d)'
  BY <1>1, <1>2 DEF StepInv
<1>4. CarryInv(d)'
  BY <1>1, <1>2 DEF CarryInv, Apply
<1>5. WindowInv(d)'
  <2>1. CASE UNCHANGED disk
    BY <1>1, <2>1 DEF WindowInv
  <2>2. CASE Rename(c) /\ step[d] = "rename"
    <3>1. Queue!Holds(c, key[c]) /\ Queue!Holds(d, key[d])
      BY <2>2 DEF Rename, StepInv, Inside, Queue!Holds
    <3>2. key[c] \in Files /\ key[d] \in Files
      BY <2>2 DEF Rename, StepInv, Inside
    <3>3. key[d] # key[c]
      BY <3>1, <3>2 DEF QueueInv, Queue!MutualExclusion
    <3>. QED
      BY <1>1, <2>2, <3>2, <3>3 DEF Rename, WindowInv, TypeOK
  <2>. QED
    BY <1>1, <2>1, <2>2, CallFrame DEF WindowInv
<1>. QED
  BY <1>3, <1>4, <1>5

\* A rename leaves a call's text in a file that is not blocked, and that of calls
\* that committed before it.
LEMMA CallDisk ==
  ASSUME IInv, NEW c \in Calls, CallStep(c)
  PROVE  DiskInv' /\ BlockedUntouched' /\ RaceInv'
<1>. USE DEF IInv
<1>1. UNCHANGED <<raced, mayRace>>
  BY CallFrame
<1>2. CASE UNCHANGED <<disk, committed>>
  BY <1>1, <1>2 DEF DiskInv, BlockedUntouched, RaceInv
<1>3. CASE Rename(c)
  <2>1. /\ key[c] \in Files \ Blocked
        /\ committed' = committed \union {c}
        /\ disk' = [disk EXCEPT ![key[c]] = out[c]]
        /\ out[c] = Apply(c, snap[c]) /\ (c \in Edits => snap[c] # Missing)
    BY <1>3 DEF Rename, StepInv, CarryInv, Inside
  <2>2. out[c] \intersect Calls \subseteq committed'
    BY <2>1 DEF Apply, CarryInv
  <2>3. \A f \in Files : disk'[f] = IF f = key[c] THEN out[c] ELSE disk[f]
    BY <2>1 DEF TypeOK
  <2>4. DiskInv'
    BY <2>1, <2>2, <2>3 DEF DiskInv
  <2>5. BlockedUntouched'
    BY <2>1, <2>3, KindAssumption DEF BlockedUntouched
  <2>. QED
    BY <1>1, <2>4, <2>5 DEF RaceInv
<1>. QED
  BY <1>2, <1>3, CallFrame

-----------------------------------------------------------------------------
(* Aborts, the end of the session, and other processes.                     *)

LEMMA AbortKeeps ==
  ASSUME IInv, NEW c \in Calls, Abort(c)
  PROVE  IInv'
<1>. USE DEF IInv
<1>1. /\ QueueInv' /\ key' = key /\ aborted' = aborted \union {c}
      /\ \A d \in Calls : phase'[d] = "running" <=> phase[d] = "running"
  BY QueueAbort DEF Abort
<1>2. /\ UNCHANGED <<disk, dir, lastDir, link, outside>>
      /\ UNCHANGED <<path, attempts, snap, parent, out, temp>>
      /\ UNCHANGED <<committed, raced, mayRace, step, result>>
      /\ cancelled' = IF BeforeRename(c) THEN cancelled \union {c} ELSE cancelled
  BY DEF Abort, worldVars, callVars
<1>3. TypeOK'
  BY <1>1, <1>2 DEF TypeOK, QueueInv
<1>4. ASSUME NEW d \in Calls PROVE StepInv(d)'
  BY <1>1, <1>2 DEF StepInv, Inside, BeforeRename, TypeOK
<1>5. ASSUME NEW d \in Calls PROVE CarryInv(d)' /\ WindowInv(d)'
  BY <1>1, <1>2 DEF CarryInv, WindowInv, Apply
<1>6. DiskInv' /\ BlockedUntouched' /\ RaceInv'
  BY <1>2 DEF DiskInv, BlockedUntouched, RaceInv
<1>. QED
  BY <1>1, <1>3, <1>4, <1>5, <1>6

LEMMA ShutdownKeeps ==
  ASSUME IInv, Shutdown
  PROVE  IInv'
<1>. USE DEF IInv
<1>1. QueueInv' /\ \A d \in Calls : phase'[d] = "running" <=> phase[d] = "running"
  BY QueueShutdown
<1>2. /\ key' = key /\ aborted' = Calls
      /\ UNCHANGED <<disk, dir, lastDir, link, outside>>
      /\ UNCHANGED <<path, attempts, snap, parent, out, temp>>
      /\ UNCHANGED <<committed, raced, mayRace, step, result>>
      /\ cancelled' = cancelled \union {c \in Calls : BeforeRename(c)}
  BY DEF Shutdown, worldVars, callVars
<1>3. TypeOK'
  BY <1>1, <1>2 DEF TypeOK, QueueInv
<1>4. ASSUME NEW d \in Calls PROVE StepInv(d)'
  BY <1>1, <1>2 DEF StepInv, Inside, BeforeRename, TypeOK
<1>5. ASSUME NEW d \in Calls PROVE CarryInv(d)' /\ WindowInv(d)'
  BY <1>1, <1>2 DEF CarryInv, WindowInv, Apply
<1>6. DiskInv' /\ BlockedUntouched' /\ RaceInv'
  BY <1>2 DEF DiskInv, BlockedUntouched, RaceInv
<1>. QED
  BY <1>1, <1>3, <1>4, <1>5, <1>6

\* What another process does to a file: what it leaves there carries no call's text,
\* and a call in the window is told apart.
LEMMA OutsideOnFile ==
  ASSUME IInv, Outside
  PROVE  \/ /\ link' \in [Paths -> Files]
            /\ UNCHANGED <<raced, disk, dir, lastDir>>
         \/ \E f \in Files, m \in Contents :
              /\ disk' = [disk EXCEPT ![f] = m]
              /\ mayRace \/ \A c \in Calls : ~(step[c] = "rename" /\ key[c] = f)
              /\ raced' = raced \union {c \in Calls : step[c] = "rename" /\ key[c] = f}
              /\ dir' \in [Files -> Nat] /\ lastDir' \in [Files -> Nat] /\ link' = link
<1>. USE DEF IInv, TypeOK
<1>1. ASSUME NEW p \in Paths, OutsideRetarget(p)
      PROVE  link' \in [Paths -> Files] /\ UNCHANGED <<raced, disk, dir, lastDir>>
  BY <1>1 DEF OutsideRetarget
<1>2. ASSUME NEW f \in Files, OutsideWrite(f) \/ OutsideRemoveDir(f) \/ OutsideReplaceDir(f)
      PROVE  \E m \in Contents :
               /\ disk' = [disk EXCEPT ![f] = m]
               /\ mayRace \/ \A c \in Calls : ~(step[c] = "rename" /\ key[c] = f)
               /\ raced' = raced \union {c \in Calls : step[c] = "rename" /\ key[c] = f}
               /\ dir' \in [Files -> Nat] /\ lastDir' \in [Files -> Nat] /\ link' = link
  BY <1>2, ContentAssumption DEF OutsideWrite, OutsideRemoveDir, OutsideReplaceDir, Touch
<1>. QED
  BY <1>1, <1>2 DEF Outside

LEMMA OutsideFrame ==
  ASSUME IInv, Outside
  PROVE  /\ UNCHANGED <<queueVars, callVars, committed, cancelled, mayRace, step, result>>
         /\ outside' \in 0..MaxOutside
<1>. QED
  BY AttemptAssumption
     DEF IInv, TypeOK, Outside, OutsideWrite, OutsideRemoveDir, OutsideReplaceDir,
         OutsideRetarget, Touch

LEMMA OutsideKeeps ==
  ASSUME IInv, Outside
  PROVE  IInv'
<1>. USE DEF IInv
<1>1. /\ UNCHANGED <<queueVars, callVars, committed, cancelled, mayRace, step, result>>
      /\ outside' \in 0..MaxOutside
  BY OutsideFrame
<1>2. QueueInv'
  BY <1>1, QueueUnchanged
<1>3. ASSUME NEW c \in Calls PROVE StepInv(c)' /\ CarryInv(c)'
  BY <1>1 DEF queueVars, callVars, StepInv, CarryInv, Apply
<1>4. CASE link' \in [Paths -> Files] /\ UNCHANGED <<raced, disk, dir, lastDir>>
  <2>1. TypeOK'
    BY <1>1, <1>2, <1>4 DEF TypeOK, QueueInv, callVars, queueVars
  <2>2. DiskInv' /\ BlockedUntouched' /\ RaceInv'
    BY <1>1, <1>4 DEF DiskInv, BlockedUntouched, RaceInv
  <2>3. ASSUME NEW c \in Calls PROVE WindowInv(c)'
    BY <1>1, <1>4 DEF WindowInv, callVars, queueVars
  <2>. QED
    BY <1>2, <1>3, <2>1, <2>2, <2>3
<1>5. CASE \E f \in Files, m \in Contents :
              /\ disk' = [disk EXCEPT ![f] = m]
              /\ mayRace \/ \A c \in Calls : ~(step[c] = "rename" /\ key[c] = f)
              /\ raced' = raced \union {c \in Calls : step[c] = "rename" /\ key[c] = f}
              /\ dir' \in [Files -> Nat] /\ lastDir' \in [Files -> Nat] /\ link' = link
  <2>1. PICK f \in Files, m \in Contents :
              /\ disk' = [disk EXCEPT ![f] = m]
              /\ mayRace \/ \A c \in Calls : ~(step[c] = "rename" /\ key[c] = f)
              /\ raced' = raced \union {c \in Calls : step[c] = "rename" /\ key[c] = f}
              /\ dir' \in [Files -> Nat] /\ lastDir' \in [Files -> Nat] /\ link' = link
    BY <1>5
  <2>2. m \in FileContent /\ (m # Missing => m \intersect Calls = {})
    BY ContentsAreContent
  <2>3. \A g \in Files : disk'[g] = IF g = f THEN m ELSE disk[g]
    BY <2>1 DEF TypeOK
  <2>4. TypeOK'
    BY <1>1, <1>2, <2>1, <2>2 DEF TypeOK, QueueInv, callVars, queueVars
  <2>5. DiskInv' /\ BlockedUntouched'
    BY <1>1, <2>2, <2>3, KindAssumption DEF DiskInv, BlockedUntouched
  <2>6. RaceInv'
    BY <1>1, <2>1 DEF RaceInv
  <2>7. ASSUME NEW c \in Calls PROVE WindowInv(c)'
    <3>1. step[c] = "rename" => key[c] \in Files
      BY DEF StepInv, Inside
    <3>. QED
      BY <1>1, <2>1, <2>3, <3>1 DEF WindowInv, callVars, queueVars
  <2>. QED
    BY <1>2, <1>3, <2>4, <2>5, <2>6, <2>7
<1>. QED
  BY <1>4, <1>5, OutsideOnFile

LEMMA InitIInv == Init => IInv
<1>. SUFFICES ASSUME Init PROVE IInv
  OBVIOUS
<1>1. QP!IInv
  <2>1. QP!Init
    BY DEF Init, Queue!Init, QP!Init
  <2>. QED
    BY <2>1, QP!InitIInv, NoFileAssumption DEF QP!InitIInv
<1>2. QueueInv
  BY <1>1, QueueInvIsIInv
<1>3. TypeOK
  BY <1>2, ContentsAreContent, AttemptAssumption
     DEF Init, TypeOK, QueueInv, Steps, FileContent
<1>4. ASSUME NEW c \in Calls PROVE StepInv(c) /\ CarryInv(c) /\ WindowInv(c)
  BY DEF Init, Queue!Init, StepInv, Inside, CarryInv, WindowInv
<1>5. DiskInv /\ BlockedUntouched /\ RaceInv
  BY ContentsAreContent, KindAssumption DEF Init, DiskInv, BlockedUntouched, RaceInv
<1>. QED
  BY <1>2, <1>3, <1>4, <1>5 DEF IInv

LEMMA NextIInv == IInv /\ [Next]_vars => IInv'
<1>. SUFFICES ASSUME IInv, [Next]_vars PROVE IInv'
  OBVIOUS
<1>1. ASSUME NEW c \in Calls, CallStep(c) PROVE IInv'
  <2>1. QueueInv' /\ TypeOK' /\ DiskInv' /\ BlockedUntouched' /\ RaceInv'
    BY <1>1, CallQueue, CallTypes, CallDisk
  <2>2. StepInv(c)' /\ CarryInv(c)' /\ WindowInv(c)'
    BY <1>1, CallOwnStep, CallOwnCarry
  <2>3. \A d \in Calls \ {c} : StepInv(d)' /\ CarryInv(d)' /\ WindowInv(d)'
    BY <1>1, CallOthers
  <2>. QED
    BY <2>1, <2>2, <2>3 DEF IInv
<1>2. ASSUME NEW c \in Calls, Abort(c) PROVE IInv'
  BY <1>2, AbortKeeps
<1>3. CASE Shutdown
  BY <1>3, ShutdownKeeps
<1>4. CASE Outside
  BY <1>4, OutsideKeeps
<1>5. CASE UNCHANGED vars
  <2>1. QueueInv'
    BY <1>5, QueueUnchanged DEF vars, IInv
  <2>2. /\ UNCHANGED <<entries, waiters, phase, key, aborted, disposed>>
        /\ UNCHANGED <<disk, dir, lastDir, link, outside>>
        /\ UNCHANGED <<path, attempts, snap, parent, out, temp>>
        /\ UNCHANGED <<committed, cancelled, raced, mayRace, step, result>>
    BY <1>5 DEF vars, queueVars, worldVars, callVars, history
  <2>3. TypeOK'
    BY <2>1, <2>2 DEF IInv, TypeOK, QueueInv
  <2>4. ASSUME NEW c \in Calls PROVE StepInv(c)' /\ CarryInv(c)' /\ WindowInv(c)'
    BY <2>2 DEF IInv, StepInv, CarryInv, WindowInv, Apply
  <2>5. DiskInv' /\ BlockedUntouched' /\ RaceInv'
    BY <2>2 DEF IInv, DiskInv, BlockedUntouched, RaceInv
  <2>. QED
    BY <2>1, <2>3, <2>4, <2>5 DEF IInv
<1>. QED
  BY <1>1, <1>2, <1>3, <1>4, <1>5 DEF Next

LEMMA Invariance == Spec => []IInv
<1>. QED
  BY InitIInv, NextIInv, PTL DEF Spec

\* executeAtomicMutation: what a call returns is what it did to the files. A failed,
\* rejected or cancelled call left its text nowhere, no call left a temporary file,
\* and no blocked file was written.
THEOREM OutcomesAreTrue == Spec => []OutcomesTrue
<1>1. IInv => OutcomesTrue
  <2>. SUFFICES ASSUME IInv PROVE OutcomesTrue
    OBVIOUS
  <2>1. CancelledNeverCommits
    BY DEF IInv, TypeOK, StepInv, CancelledNeverCommits
  <2>2. ResultTellsCommit
    BY DEF IInv, TypeOK, StepInv, DiskInv, ResultTellsCommit
  <2>3. NoTempLeft
    BY DEF IInv, StepInv, CarryInv, Inside, NoTempLeft
  <2>. QED
    BY <2>1, <2>2, <2>3 DEF IInv, OutcomesTrue
<1>. QED
  BY <1>1, Invariance, PTL

\* A rename commits the transform of what the file held at that moment.
LEMMA RenameIsUpdate ==
  ASSUME IInv, NEW c \in Calls, Rename(c)
  PROVE  /\ committed' = committed \union {c} /\ key[c] \in Files \ Blocked
         /\ disk' = [disk EXCEPT ![key[c]] = Apply(c, snap[c])]
         /\ c \in Edits => snap[c] # Missing
         /\ c \notin raced => disk[key[c]] = snap[c]
<1>. QED
  BY DEF IInv, Rename, StepInv, Inside, CarryInv, WindowInv

\* Only a rename commits.
LEMMA OnlyRenameCommits ==
  ASSUME IInv, [Next]_vars, committed' # committed
  PROVE  \E c \in Calls : Rename(c)
<1>1. ASSUME NEW c \in Calls, CallStep(c) PROVE Rename(c)
  BY <1>1, CallFrame DEF IInv
<1>2. ASSUME NEW c \in Calls, Abort(c) PROVE FALSE
  BY <1>2 DEF Abort
<1>3. ~Shutdown /\ ~Outside /\ ~UNCHANGED vars
  BY DEF Shutdown, Outside, vars, history
<1>. QED
  BY <1>1, <1>2, <1>3 DEF Next

\* No lost update (executeAtomicMutation): a commit replaces what is on disk at that
\* moment by the transform of exactly that content, whatever links, directories and
\* aliases do, unless another process hit the file after the last validation.
THEOREM CommitsAreUpdates == Spec => CommitIsUpdate
<1>1. IInv /\ [Next]_vars =>
        [\A c \in (committed' \ committed) \ raced :
           /\ disk[key[c]] = snap[c]
           /\ disk' = [disk EXCEPT ![key[c]] = Apply(c, snap[c])]]_vars
  <2>. SUFFICES ASSUME IInv, [Next]_vars, NEW d \in (committed' \ committed) \ raced
                PROVE  /\ disk[key[d]] = snap[d]
                       /\ disk' = [disk EXCEPT ![key[d]] = Apply(d, snap[d])]
    OBVIOUS
  <2>1. PICK c \in Calls : Rename(c)
    BY OnlyRenameCommits
  <2>2. d = c
    BY <2>1, RenameIsUpdate
  <2>. QED
    BY <2>1, <2>2, RenameIsUpdate
<1>. QED
  BY <1>1, Invariance, PTL DEF Spec, CommitIsUpdate

-----------------------------------------------------------------------------
(* The service implements the store. A rename is the commit, a call that      *)
(* returns without one fails, another process's step is its own; the rest is  *)
(* invisible.                                                                 *)

storeVars == <<StoreDisk, StoreOutcome>>

LEMMA InitIsStoreInit == Init => Store!Init
<1>. QED
  BY ContentAssumption DEF Init, Store!Init, StoreDisk, StoreOutcome, Outcome

LEMMA MayRaceIsConstant == [Next]_vars => mayRace' = mayRace
<1>1. ASSUME NEW c \in Calls, CallStep(c) PROVE mayRace' = mayRace
  BY <1>1
     DEF CallStep, Resolve, Queued, Locked, Replace, PrepareExhausted, PrepareRefused,
         Prepare, QueueRejected, Enter, EnterAborted, LockedRefused, Rekey, TakeSnapshot,
         ParentMissing, TransformRejects, Transform, StageFails, Stage, Validate, Rename,
         IoError, Cleanup, Finish, history
<1>2. ASSUME NEW c \in Calls, Abort(c) PROVE mayRace' = mayRace
  BY <1>2 DEF Abort
<1>. QED
  BY <1>1, <1>2 DEF Next, Shutdown, Outside, vars, history

\* A step that moves neither a commit nor a return is invisible, or another process's.
LEMMA SameOutcome ==
  ASSUME UNCHANGED <<committed, step>>
  PROVE  Outcome' = Outcome
<1>. QED
  BY DEF Outcome

LEMMA RenameIsCommit ==
  ASSUME IInv, ~mayRace, ~mayRace', NEW c \in Calls, Rename(c)
  PROVE  Store!Commit(c, key[c])
<1>. USE DEF StoreDisk, StoreOutcome
<1>1. /\ committed' = committed \union {c} /\ key[c] \in Files \ Blocked
      /\ disk' = [disk EXCEPT ![key[c]] = Apply(c, snap[c])]
      /\ c \in Edits => snap[c] # Missing
      /\ disk[key[c]] = snap[c]
  BY RenameIsUpdate DEF IInv, RaceInv
<1>2. step[c] = "rename" /\ step' = [step EXCEPT ![c] = "renamed"] /\ c \notin committed
  BY DEF Rename, Goto, IInv, StepInv
<1>3. Outcome[c] = "pending"
  BY <1>2 DEF Outcome
<1>4. Outcome' = [Outcome EXCEPT ![c] = "committed"]
  <2>1. \A d \in Calls \ {c} : step'[d] = step[d] /\ (d \in committed' <=> d \in committed)
    BY <1>1, <1>2 DEF IInv, TypeOK
  <2>. QED
    BY <1>1, <2>1 DEF Outcome
<1>5. disk' = [disk EXCEPT ![key[c]] = Store!Apply(c, disk[key[c]])]
  BY <1>1 DEF Apply, Store!Apply
<1>. QED
  BY <1>1, <1>3, <1>4, <1>5 DEF Store!Commit

\* Any other step of a call is a failed return, or leaves the store as it is.
LEMMA StepIsFail ==
  ASSUME IInv, ~mayRace, ~mayRace', NEW c \in Calls, CallStep(c), ~Rename(c)
  PROVE  [Store!Next]_storeVars
<1>. USE DEF StoreDisk, StoreOutcome
<1>1. /\ UNCHANGED <<disk, committed>>
      /\ \A d \in Calls \ {c} : step'[d] = step[d]
  BY CallFrame DEF IInv
<1>2. step[c] # "done"
  BY DEF CallStep, Resolve, Queued, Locked, Replace, PrepareExhausted, PrepareRefused,
         Prepare, QueueRejected, Enter, EnterAborted, LockedRefused, Rekey, TakeSnapshot,
         ParentMissing, TransformRejects, Transform, StageFails, Stage, Validate, Rename,
         IoError, Cleanup, Finish
<1>3. CASE c \in committed \/ step'[c] # "done"
  <2>1. Outcome' = Outcome
    BY <1>1, <1>2, <1>3 DEF Outcome
  <2>. QED
    BY <1>1, <2>1 DEF storeVars
<1>4. CASE c \notin committed /\ step'[c] = "done"
  <2>1. Outcome[c] = "pending"
    BY <1>2, <1>4 DEF Outcome
  <2>2. Outcome' = [Outcome EXCEPT ![c] = "failed"]
    BY <1>1, <1>4 DEF Outcome
  <2>3. Store!Fail(c)
    BY <1>1, <2>1, <2>2 DEF Store!Fail
  <2>. QED
    BY <2>3 DEF Store!Next
<1>. QED
  BY <1>3, <1>4

LEMMA StepImplementsStore ==
  ASSUME IInv, [Next]_vars
  PROVE  [Store!Next]_storeVars
<1>1. mayRace' = mayRace
  BY MayRaceIsConstant
<1>2. CASE mayRace
  BY <1>1, <1>2 DEF storeVars, StoreDisk, StoreOutcome
<1>3. CASE ~mayRace
  <2>. USE DEF StoreDisk, StoreOutcome
  <2>1. ASSUME NEW c \in Calls, Rename(c) PROVE [Store!Next]_storeVars
    <3>1. Store!Commit(c, key[c]) /\ key[c] \in Files
      BY <1>1, <1>3, <2>1, RenameIsCommit, RenameIsUpdate
    <3>. QED
      BY <3>1 DEF Store!Next
  <2>2. ASSUME NEW c \in Calls, CallStep(c), ~Rename(c) PROVE [Store!Next]_storeVars
    BY <1>1, <1>3, <2>2, StepIsFail
  <2>3. ASSUME NEW c \in Calls, Abort(c) PROVE [Store!Next]_storeVars
    <3>1. UNCHANGED <<disk, committed, step>>
      BY <2>3 DEF Abort, worldVars
    <3>. QED
      BY <1>1, <3>1, SameOutcome DEF storeVars
  <2>4. CASE Shutdown
    <3>1. UNCHANGED <<disk, committed, step>>
      BY <2>4 DEF Shutdown, worldVars
    <3>. QED
      BY <1>1, <3>1, SameOutcome DEF storeVars
  <2>5. CASE Outside
    <3>1. UNCHANGED <<committed, step>>
      BY <2>5, OutsideFrame
    <3>2. CASE UNCHANGED disk
      BY <1>1, <3>1, <3>2, SameOutcome DEF storeVars
    <3>3. CASE \E f \in Files, m \in Contents : disk' = [disk EXCEPT ![f] = m]
      <4>1. PICK f \in Files : Store!Outside(f)
        BY <1>1, <1>3, <3>1, <3>3, SameOutcome DEF Store!Outside
      <4>. QED
        BY <4>1 DEF Store!Next
    <3>. QED
      BY <2>5, <3>2, <3>3, OutsideOnFile
  <2>6. CASE UNCHANGED vars
    <3>1. UNCHANGED <<disk, committed, step>>
      BY <2>6 DEF vars, worldVars, history
    <3>. QED
      BY <1>1, <3>1, SameOutcome DEF storeVars
  <2>. QED
    BY <2>1, <2>2, <2>3, <2>4, <2>5, <2>6 DEF Next
<1>. QED
  BY <1>2, <1>3

\* WorkspaceMutationService.run is an atomic read-modify-write of one file that the
\* policy does not block, or changes no file, as long as no other process hits the
\* file between the last validation and the rename.
THEOREM ServiceImplementsAtomicFiles == Spec => ImplementsAtomicFiles
<1>1. Init => Store!Init
  BY InitIsStoreInit
<1>2. IInv /\ [Next]_vars => [Store!Next]_storeVars
  BY StepImplementsStore
<1>. QED
  BY <1>1, <1>2, Invariance, PTL DEF Spec, ImplementsAtomicFiles, Store!Spec, storeVars
=============================================================================

-------------------------- MODULE WorkspaceMutation --------------------------
(***************************************************************************)
(* WorkspaceMutationService.run (src/filesystem/services/mutation.ts) over *)
(* the MutationQueue and NodeNativeFileSystem.atomicReplace: resolve the   *)
(* path to a canonical target, queue on it, resolve again, snapshot,       *)
(* transform, write a temporary file, validate, rename.                    *)
(*                                                                         *)
(* An action is what one call does between two points where another call,  *)
(* an abort or another process can get in. Other processes (an editor, a   *)
(* shell, a subagent) change files, retarget symbolic links and replace    *)
(* directories, at most MaxOutside times.                                  *)
(***************************************************************************)
EXTENDS Naturals, Sequences

CONSTANTS
  Calls, Edits,        \* mutation calls; those that come from `edit`
  Paths,               \* lexical paths the calls are given
  Files,               \* canonical paths they may resolve to: the queue's keys
  Blocked,             \* files under blocked_path
  Contents,            \* what another process may leave in a file
  Missing,             \* no file
  NoFile,              \* no key
  MaxAttempts,         \* MAX_CANONICAL_KEY_ATTEMPTS (4 in the code)
  MaxOutside           \* bound: steps of other processes

ASSUME KindAssumption == Edits \subseteq Calls /\ Blocked \subseteq Files
ASSUME ContentAssumption ==
  /\ Missing \in Contents
  /\ \A m \in Contents \ {Missing} : m \intersect Calls = {}   \* nobody else writes a call's text
  /\ \A m \in SUBSET (Calls \union UNION {n \in Contents : n # Missing}) : m # Missing
ASSUME AttemptAssumption == MaxAttempts \in Nat \ {0} /\ MaxOutside \in Nat
ASSUME NoFileAssumption == NoFile \notin Files

VARIABLES
  entries, waiters, phase, key, aborted, disposed,   \* the MutationQueue
  disk,       \* disk[f]: content of f, or Missing
  dir,        \* dir[f]: identity of f's parent directory, 0 when there is none
  lastDir,    \* lastDir[f]: the last identity given out for that directory
  link,       \* link[p]: the file p resolves to now
  outside,    \* steps other processes have taken
  step,       \* step[c]: what call c does next
  path,       \* path[c]: the lexical path of call c
  attempts,   \* attempts[c]: iterations of the loop in run
  snap,       \* snap[c]: the snapshot handed to the transform
  parent,     \* parent[c]: the parent identity read with it
  out,        \* out[c]: the bytes to commit
  temp,       \* temp[c]: directory holding c's temporary file, 0 when none
  result,     \* result[c]: what run returned
  committed,  \* history: calls whose rename took effect
  cancelled,  \* history: calls aborted before their rename was issued
  raced,      \* history: calls whose target another process changed after validation
  mayRace     \* other processes hit the window before the rename in this behaviour

queueVars == <<entries, waiters, phase, key, aborted, disposed>>
worldVars == <<disk, dir, lastDir, link, outside>>
callVars == <<path, attempts, snap, parent, out, temp>>
history == <<committed, cancelled, raced, mayRace>>
vars == <<queueVars, worldVars, callVars, history, step, result>>

Queue == INSTANCE MutationQueue WITH Keys <- Files, NoKey <- NoFile

Apply(c, content) == IF c \in Edits THEN content \union {c} ELSE {c}

Steps == {"prepare", "queued", "locked", "transform", "stage",
          "validate", "rename", "renamed", "cleanup", "done"}
Marks == Calls \union UNION {m \in Contents : m # Missing}
FileContent == (SUBSET Marks) \union {Missing}

\* Types, and the fields a step relies on having been filled in before it.
TypeOK ==
  /\ Queue!TypeOK
  /\ disk \in [Files -> FileContent]
  /\ dir \in [Files -> Nat] /\ lastDir \in [Files -> Nat]
  /\ link \in [Paths -> Files]
  /\ outside \in 0..MaxOutside
  /\ step \in [Calls -> Steps]
  /\ path \in [Calls -> Paths]
  /\ attempts \in [Calls -> 0..MaxAttempts]
  /\ snap \in [Calls -> FileContent] /\ out \in [Calls -> FileContent]
  /\ parent \in [Calls -> Nat] /\ temp \in [Calls -> Nat]
  /\ result \in [Calls -> {"pending", "committed", "rejected", "failed"}]
  /\ committed \in SUBSET Calls /\ cancelled \in SUBSET Calls /\ raced \in SUBSET Calls
  /\ \A c \in Calls : step[c] \in {"validate", "rename"} => temp[c] # 0 /\ out[c] # Missing

Init ==
  /\ Queue!Init
  /\ disk \in [Files -> Contents]
  /\ dir = [f \in Files |-> IF disk[f] = Missing THEN 0 ELSE 1]
  /\ lastDir = dir
  /\ link \in [Paths -> Files]
  /\ outside = 0
  /\ step = [c \in Calls |-> "prepare"]
  /\ path \in [Calls -> Paths]
  /\ attempts = [c \in Calls |-> 0]
  /\ snap = [c \in Calls |-> Missing] /\ out = [c \in Calls |-> Missing]
  /\ parent = [c \in Calls |-> 0] /\ temp = [c \in Calls |-> 0]
  /\ result = [c \in Calls |-> "pending"]
  /\ committed = {} /\ cancelled = {} /\ raced = {} /\ mayRace \in BOOLEAN

-----------------------------------------------------------------------------
(* Helpers of one call's steps.                                             *)

\* resolveTarget with the access policy: a blocked canonical target is refused,
\* every time the path is resolved.
Allowed(f) == f \in Files \ Blocked

Goto(c, s) == step' = [step EXCEPT ![c] = s]
Return(c, r) == Goto(c, "done") /\ result' = [result EXCEPT ![c] = r]

ReturnKeepsKey(c, r) == Return(c, r) /\ UNCHANGED queueVars

\* A call inside the queue returns: the queue's `finally` releases the key.
ReturnAndRelease(c, r) == Return(c, r) /\ Queue!Leave(c)

\* prepareTarget with createParents: mkdir -p when the directory is missing.
\* The mutation service asks for it on every resolution of a write.
Mkdir(c, f) ==
  IF c \notin Edits /\ dir[f] = 0
  THEN /\ dir' = [dir EXCEPT ![f] = lastDir[f] + 1]
       /\ lastDir' = [lastDir EXCEPT ![f] = @ + 1]
  ELSE UNCHANGED <<dir, lastDir>>

-----------------------------------------------------------------------------
\* One iteration of the loop: the attempts are used up, the path cannot be
\* prepared, or its canonical target is the key this call queues on.
PrepareExhausted(c) ==
  /\ step[c] = "prepare" /\ attempts[c] = MaxAttempts
  /\ Return(c, "failed")
  /\ UNCHANGED <<queueVars, worldVars, callVars, history>>

PrepareRefused(c) ==
  /\ step[c] = "prepare" /\ attempts[c] < MaxAttempts
  /\ c \in aborted \/ ~Allowed(link[path[c]])
  /\ Return(c, "failed")
  /\ UNCHANGED <<queueVars, worldVars, callVars, history>>

Prepare(c) ==
  LET target == link[path[c]] IN
  /\ step[c] = "prepare" /\ attempts[c] < MaxAttempts
  /\ c \notin aborted /\ Allowed(target)
  /\ Mkdir(c, target)
  /\ attempts' = [attempts EXCEPT ![c] = @ + 1]
  /\ Queue!Acquire(c, target)
  /\ Goto(c, "queued")
  /\ UNCHANGED <<disk, link, outside, path, snap, parent, out, temp, history, result>>

\* The queue rejected the call: run maps it to an "aborted" failure.
QueueRejected(c) ==
  /\ step[c] = "queued" /\ phase[c] = "rejected"
  /\ Return(c, "failed")
  /\ UNCHANGED <<queueVars, worldVars, callVars, history>>

Enter(c) ==
  /\ step[c] = "queued"
  /\ Queue!Enter(c)
  /\ Goto(c, "locked")
  /\ UNCHANGED <<worldVars, callVars, history, result>>

EnterAborted(c) ==
  /\ step[c] = "queued"
  /\ Queue!EnterAborted(c)
  /\ Return(c, "failed")
  /\ UNCHANGED <<worldVars, callVars, history>>

\* Holding the key, the path is resolved again. It may have become blocked;
\* it may resolve to another file, which needs another key (REKEY).
LockedRefused(c) ==
  /\ step[c] = "locked"
  /\ c \in aborted \/ ~Allowed(link[path[c]])
  /\ ReturnAndRelease(c, "failed")
  /\ UNCHANGED <<worldVars, callVars, history>>

Rekey(c) ==
  LET target == link[path[c]] IN
  /\ step[c] = "locked"
  /\ c \notin aborted /\ Allowed(target) /\ target # key[c]
  /\ Mkdir(c, target)
  /\ Queue!Leave(c)
  /\ Goto(c, "prepare")
  /\ UNCHANGED <<disk, link, outside, callVars, history, result>>

\* A stable read: the bytes the file had at one moment, or its absence.
ReadSnapshot(c, f) == snap' = [snap EXCEPT ![c] = disk[f]]

\* readParentMetadata and readSnapshot of the target just resolved.
TakeSnapshot(c) ==
  /\ step[c] = "locked"
  /\ c \notin aborted /\ Allowed(link[path[c]]) /\ link[path[c]] = key[c]
  /\ Mkdir(c, key[c])
  /\ dir'[key[c]] # 0
  /\ parent' = [parent EXCEPT ![c] = dir'[key[c]]]
  /\ ReadSnapshot(c, key[c])
  /\ Goto(c, "transform")
  /\ UNCHANGED <<queueVars, disk, link, outside, path, attempts, out, temp, history, result>>

\* An edit does not create the parent it needs.
ParentMissing(c) ==
  /\ step[c] = "locked" /\ c \in Edits
  /\ link[path[c]] = key[c] /\ dir[key[c]] = 0
  /\ ReturnAndRelease(c, "failed")
  /\ UNCHANGED <<worldVars, callVars, history>>

\* The transform rejects (an edit of a missing or unobserved file, a text that
\* does not match); the queue is released and nothing was written.
TransformRejects(c) ==
  /\ step[c] = "transform"
  /\ c \in Edits
  /\ ReturnAndRelease(c, "rejected")
  /\ UNCHANGED <<worldVars, callVars, history>>

Transform(c) ==
  /\ step[c] = "transform"
  /\ c \in Edits => snap[c] # Missing
  /\ out' = [out EXCEPT ![c] = Apply(c, snap[c])]
  /\ Goto(c, "stage")
  /\ UNCHANGED <<queueVars, worldVars, path, attempts, snap, parent, temp, history, result>>

\* createTemporaryFile beside the destination, and its content.
StageFails(c) ==
  /\ step[c] = "stage"
  /\ c \in aborted \/ dir[key[c]] = 0
  /\ ReturnAndRelease(c, "failed")
  /\ UNCHANGED <<worldVars, callVars, history>>

Stage(c) ==
  /\ step[c] = "stage"
  /\ c \notin aborted /\ dir[key[c]] # 0
  /\ temp' = [temp EXCEPT ![c] = dir[key[c]]]
  /\ Goto(c, "validate")
  /\ UNCHANGED <<queueVars, worldVars, path, attempts, snap, parent, out, history, result>>

StillValidSkipsContent(c) ==
  /\ link[path[c]] = key[c] /\ Allowed(key[c])
  /\ dir[key[c]] = parent[c]

\* validateBeforeCommit: same canonical target, same content, same parent,
\* not blocked, not aborted.
StillValid(c) ==
  /\ link[path[c]] = key[c] /\ Allowed(key[c])
  /\ disk[key[c]] = snap[c]
  /\ dir[key[c]] = parent[c]

ValidateIgnoresAbort(c) ==
  /\ step[c] = "validate"
  /\ Goto(c, IF StillValid(c) THEN "rename" ELSE "cleanup")
  /\ UNCHANGED <<queueVars, worldVars, callVars, history, result>>

\* The signal is checked on both sides of it, and the rename is issued at once.
Validate(c) ==
  /\ step[c] = "validate"
  /\ Goto(c, IF c \notin aborted /\ StillValid(c) THEN "rename" ELSE "cleanup")
  /\ UNCHANGED <<queueVars, worldVars, callVars, history, result>>

\* The rename was issued; it takes effect in the thread pool, unless the
\* temporary file is no longer in the directory of that name.
Rename(c) ==
  /\ step[c] = "rename"
  /\ temp[c] = dir[key[c]]
  /\ disk' = [disk EXCEPT ![key[c]] = out[c]]
  /\ temp' = [temp EXCEPT ![c] = 0]
  /\ committed' = committed \union {c}
  /\ Goto(c, "renamed")
  /\ UNCHANGED <<queueVars, dir, lastDir, link, outside, path, attempts, snap, parent, out,
                 cancelled, raced, mayRace, result>>

\* Any native operation on the temporary file or the rename may fail.
IoError(c) ==
  /\ step[c] \in {"validate", "rename"}
  /\ Goto(c, "cleanup")
  /\ UNCHANGED <<queueVars, worldVars, callVars, history, result>>

CleanupForgetsFile(c) ==
  /\ step[c] = "cleanup"
  /\ ReturnAndRelease(c, "failed")
  /\ UNCHANGED <<worldVars, callVars, history>>

\* unlinkTemporaryWithWindowsRetry (taken to succeed), then the failure is returned.
Cleanup(c) ==
  /\ step[c] = "cleanup"
  /\ temp' = [temp EXCEPT ![c] = 0]
  /\ ReturnAndRelease(c, "failed")
  /\ UNCHANGED <<worldVars, path, attempts, snap, parent, out, history>>

FinishChecksSignal(c) ==
  /\ step[c] = "renamed"
  /\ ReturnAndRelease(c, IF c \in aborted THEN "failed" ELSE "committed")
  /\ UNCHANGED <<worldVars, callVars, history>>

\* onCommitted, the receipt, and the release: a late abort changes nothing.
Finish(c) ==
  /\ step[c] = "renamed"
  /\ ReturnAndRelease(c, "committed")
  /\ UNCHANGED <<worldVars, callVars, history>>

-----------------------------------------------------------------------------
BeforeRename(c) == step[c] \notin {"rename", "renamed", "cleanup", "done"}

Abort(c) ==
  /\ step[c] # "done"
  /\ Queue!Abort(c)
  /\ cancelled' = IF BeforeRename(c) THEN cancelled \union {c} ELSE cancelled
  /\ UNCHANGED <<worldVars, callVars, committed, raced, mayRace, step, result>>

\* FileSystemRuntime.dispose: every lease signal aborts, then the queue is disposed.
Shutdown ==
  /\ ~disposed
  /\ disposed' = TRUE
  /\ aborted' = Calls
  /\ phase' = [c \in Calls |-> IF phase[c] = "waiting" THEN "rejected" ELSE phase[c]]
  /\ waiters' = [f \in Files |-> <<>>]
  /\ cancelled' = cancelled \union {c \in Calls : BeforeRename(c)}
  /\ UNCHANGED <<entries, key, worldVars, callVars, committed, raced, mayRace, step, result>>

\* Another process acts on file f (or on the directory it is in).
Touch(f) ==
  /\ outside < MaxOutside
  /\ outside' = outside + 1
  /\ mayRace \/ \A c \in Calls : ~(step[c] = "rename" /\ key[c] = f)
  /\ raced' = raced \union {c \in Calls : step[c] = "rename" /\ key[c] = f}

OutsideWrite(f) ==
  /\ Touch(f) /\ dir[f] # 0
  /\ \E content \in Contents : disk' = [disk EXCEPT ![f] = content]
  /\ UNCHANGED <<dir, lastDir, link>>

OutsideRemoveDir(f) ==
  /\ Touch(f) /\ dir[f] # 0
  /\ dir' = [dir EXCEPT ![f] = 0]
  /\ disk' = [disk EXCEPT ![f] = Missing]
  /\ UNCHANGED <<lastDir, link>>

OutsideReplaceDir(f) ==
  /\ Touch(f)
  /\ dir' = [dir EXCEPT ![f] = lastDir[f] + 1]
  /\ lastDir' = [lastDir EXCEPT ![f] = @ + 1]
  /\ \E content \in Contents : disk' = [disk EXCEPT ![f] = content]
  /\ UNCHANGED link

\* The link of a path that no call was given does not matter.
OutsideRetarget(p) ==
  /\ outside < MaxOutside /\ \E c \in Calls : path[c] = p
  /\ outside' = outside + 1
  /\ \E f \in Files \ {link[p]} : link' = [link EXCEPT ![p] = f]
  /\ UNCHANGED <<raced, disk, dir, lastDir>>

Outside ==
  /\ \/ \E f \in Files : OutsideWrite(f) \/ OutsideRemoveDir(f) \/ OutsideReplaceDir(f)
     \/ \E p \in Paths : OutsideRetarget(p)
  /\ UNCHANGED <<queueVars, callVars, committed, cancelled, mayRace, step, result>>

Resolve(c) == PrepareExhausted(c) \/ PrepareRefused(c) \/ Prepare(c)
Queued(c) == QueueRejected(c) \/ Enter(c) \/ EnterAborted(c)
Locked(c) == LockedRefused(c) \/ Rekey(c) \/ TakeSnapshot(c) \/ ParentMissing(c)
             \/ TransformRejects(c) \/ Transform(c)
Replace(c) == StageFails(c) \/ Stage(c) \/ Validate(c) \/ Rename(c) \/ IoError(c)
              \/ Cleanup(c) \/ Finish(c)
CallStep(c) == Resolve(c) \/ Queued(c) \/ Locked(c) \/ Replace(c)

Next ==
  \/ \E c \in Calls : CallStep(c) \/ Abort(c)
  \/ Shutdown
  \/ Outside

Spec == Init /\ [][Next]_vars

\* Native operations complete and continuations run.
FairSpec == Spec /\ \A c \in Calls : WF_vars(CallStep(c))

-----------------------------------------------------------------------------
\* No lost update: a commit replaces what is on disk at that moment by the
\* transform of exactly that content, unless another process slipped into the
\* window between the last validation and the rename. Aliases of one file,
\* retargeted links and replaced directories may not defeat the queue.
CommitIsUpdate ==
  [][\A c \in (committed' \ committed) \ raced :
       /\ disk[key[c]] = snap[c]
       /\ disk' = [disk EXCEPT ![key[c]] = Apply(c, snap[c])]]_vars

\* "Before the commit, a cancellation does not write" (contracts.md): wherever
\* the abort lands before the rename is issued, the call never commits.
CancelledNeverCommits == cancelled \intersect committed = {}

\* The result tells the truth: a failed or rejected call left its text in no
\* file, a committed one renamed; a late abort cannot turn one into the other.
ResultTellsCommit ==
  \A c \in Calls :
    /\ result[c] \in {"failed", "rejected"} =>
         c \notin committed /\ \A f \in Files : disk[f] = Missing \/ c \notin disk[f]
    /\ result[c] = "committed" => c \in committed

\* A temporary file exists only while its call holds the queue: no error path
\* returns with one left behind.
NoTempLeft == \A c \in Calls : temp[c] # 0 => phase[c] = "running"

\* No call's text ever reaches a blocked file, whichever way links are
\* retargeted between the checks and the rename.
BlockedUntouched == \A f \in Blocked : disk[f] = Missing \/ disk[f] \intersect Calls = {}

\* executeAtomicMutation: what a call leaves behind is what its result says, and what
\* its cancellation and the blocked files allow.
OutcomesTrue ==
  TypeOK /\ CancelledNeverCommits /\ ResultTellsCommit /\ NoTempLeft /\ BlockedUntouched

\* Every call returns and the queue is left empty: no key survives its calls.
EveryCallReturns == <>[]((\A c \in Calls : step[c] = "done") /\ entries = {})

\* Without a process in the last window, the service is the abstract store.
Outcome == [c \in Calls |->
  IF c \in committed THEN "committed" ELSE IF step[c] = "done" THEN "failed" ELSE "pending"]
StoreDisk == IF mayRace THEN [f \in Files |-> Missing] ELSE disk
StoreOutcome == IF mayRace THEN [c \in Calls |-> "pending"] ELSE Outcome
Store == INSTANCE AtomicFiles WITH
  disk <- StoreDisk, outcome <- StoreOutcome, Outsiders <- Contents
ImplementsAtomicFiles == Store!Spec
=============================================================================

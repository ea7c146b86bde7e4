# A TLA+ model of o-pi

o-pi is a set of extensions for the Pi coding agent: file tools, a bash tool, web tools, a language
server bridge, subagents, a repository map, telemetry and the glue between them. This directory
holds TLA+ modules for the parts of it whose difficulty is in the order of steps, TLC
configurations that check them on small instances, and TLAPS proofs for any instance.

Paths such as `filesystem/services/mutation.ts` are below `src/src/` in the repository; `docs/` is
`src/docs/`. [PROJECT.json](PROJECT.json) has the exact lines every definition stands for, the list
of hazards, and what each run and theorem is for.

1. [The system](#1-the-system)
2. [The modules](#2-the-modules)
3. [The runs](#3-the-runs)
4. [Fairness](#4-fairness)
5. [What is proved](#5-what-is-proved)
6. [Disagreements between the code and its documentation](#6-disagreements-between-the-code-and-its-documentation)
7. [Assumptions and what is left out](#7-assumptions-and-what-is-left-out)
8. [Plan](#8-plan)

## 1. The system

Everything runs in the Node process of the agent: one event loop, so a synchronous piece of code is
atomic and everything that happens across an `await`, a timer or an event handler interleaves. Worker
threads parse and match; language servers, subagents, editors and shells are other processes that
work on the same files.

```
 Pi agent loop ── read / write / edit ──> file tools ──> workspace mutation ──> mutation queue
     │      │         │    (one message)     │  │              │
     │      │         │                      │  └─ configuration ─┐
     │      │         └── mutation batch ────┼──> language servers, repository map
     │      ├── grep / find / ls ──> grep index ──> worker pool │  └──> disk <── other processes
     │      │              └──> traversal ──> visibility ───────┴─────────┘
     │      ├── websearch ──> result cache ──> provider router ──> search gate ──> DuckDuckGo
     │      ├── subagent ──> child processes          repository map ──> cache directory on disk
     │      └── bash ──> output capture
     └── around every call: approval gate, telemetry
```

### Modelled

**Mutation queue** (`filesystem/platform/node/mutation-queue.ts`). State: a map from canonical path to
an array of waiters, a disposed flag. Operations: run (acquire, hand-over, release), abort of a
waiter, dispose. Hard: the signal may fire between the hand-over of a key and the continuation that
uses it; releases, aborts and dispose meet on one array. Correct: one holder per key, an entry exists
exactly while its key is held, no settled waiter stays in an array, a waiter is served or rejected.

**Mutation service** (`filesystem/services/mutation.ts`, `atomicReplace` of
`platform/node/native-filesystem.ts`). State per call: the lexical path, attempts, the snapshot, the
identity of the parent directory, the temporary file. Operations: resolve the path to a canonical
key, queue on it, resolve again (and change the key when it moved), snapshot, transform, write a
temporary file, validate, rename. Hard: links are retargeted, directories replaced and files written
by other processes between any two steps; aborts land anywhere; every step may fail. Correct: no
update is lost, an aborted call never commits, the result tells what happened, nothing is left in the
user's directory, a blocked file is never written.

**Read, write and edit** (`file-tools/runtime`, `file-tools/{read,write,edit}`). State: one
observation store per session, naming the version of every file the session has seen; the host's
accepting flag. Operations: open and close of a call, read, write, edit, shutdown. They interact
through the store, which a call gets on open, and through the mutation service, whose callback
records the committed version. Hard: two calls of one session overlap, a call fails after others were
given its store, other sessions and processes change the file. Correct: an edit replaces only what
its session has seen, and replaces exactly what it was asked to; pages of a read add up to the file.

**Layered configuration** (`file-tools/config.ts`, `web-tools/config.ts`). State: a cache keyed by the
fingerprint of all layers, the load that is shared. Operations: load (join, lead, up to three
attempts), dispose. Hard: the layers are edited between the fingerprint before, the reads and the
fingerprint after. Correct: what is handed out are the layers of one moment, and it is valid.

**Reading of files** (`filesystem/services/content`, `text.ts`, the guarded opening of
`native-filesystem.ts`). State: a handle, an offset, the version before. Hard: the file is
overwritten, replaced or removed between two reads of one handle. Correct: a stable read returns the
content of one moment; lines and limits are exact; the handle is released.

**Mutation batch** (`file-tools/pi/mutation-batch.ts`). State: the write and edit calls of one
assistant message, their submissions and order, a mode decided by the first invocation. Operations:
capture, start, invoke, submit, settle, finalize, end, dispose. Hard: the calls wait for one another,
and the agent loop may run them in parallel or one by one, block them, or be aborted half way.
Correct: nobody waits forever; post-processing starts after the last commit and sees the last text.

**Worker task pool** (`worker-runtime/worker-task-pool.ts`), used by grep, find and the repository
map. State: a queue of tasks, a set of slots. Operations: run, dispatch, finish, fail, abort, dispose.
Hard: threads die at any time, a spawn or a post fails inside the dispatch loop, which is then entered
again from within. Correct: no task is stranded in the queue, no thread computes for nobody, every
task is answered.

**Grep index** (`file-tools/grep/indexer.ts`, `parser-pool.ts`). State: shared builds with a count of
consumers and an abort timer, a cache of parsed files. Operations: get (create or join), leave, the
steps of a build, store, dispose. Hard: consumers come and go around the timer; builds of different
keys fill one cache while files change; a build reads through the lease of the call that made it.
Correct: the cache never serves a text that is not the file's under its stamp; a build nobody waits
for is cancelled; every search returns.

**Workspace visibility** (`filesystem/services/visibility`) and **traversal**
(`filesystem/services/traversal.ts`). State: one shared build per policy, the cache of compiled
snapshots, the cache of the git index, an epoch for each. Operations: snapshot (hit, join, build),
invalidate, load of the git index, discovery and compilation of rule files, the walk. Hard: an
invalidation or an abort while a build is shared; listings, stamps and the git index are read side by
side with edits. Correct: a snapshot whose stamps match the disk is that of the disk, what was built
before an invalidation never enters a cache, a walk yields exactly what the rules leave visible.

**Repository map** (`repo-map/runtime`, `repo-map/storage`, `repo-map/query/file-tool-query.ts`). The
store keeps generations in a cache directory that processes share, with a pointer file `CURRENT` and an
update lock; the service queues updates and scans the worktree; the session keeps the activation of the
map for its branch, with refreshes that mutations, queries and `/init` ask for. Hard: crashes between
rename, verification and the replacement of the pointer; checkouts and edits during a scan; refreshes
that are shared, stale or told to stop; `/init off` while one is under way. Correct: `CURRENT` names a
complete generation, newer scans win, a query after a mutation answers from a map that has it.

**Language server bridge** (`lsp/manager.ts`, `lsp/client.ts`, `lsp/documents.ts`,
`lsp/diagnostics.ts`). The manager keeps clients, restarts crashed ones, stops idle ones, drains them
on reload. A client keeps a bounded set of documents open, each with a queue of tasks. Hard: reload and
idle timer against operations that have begun; writes, reads and evictions of one document; publishes
for an older text. Correct: no counted operation loses its client, client and server agree on what is
open and at which text, the limit is kept, nobody waits for an eviction forever.

**Web search** (`web-tools/search`, `web-tools/search-providers`). State: result cache, flights,
provider health, negative cache, the gate's promise chain, its interval and its cooldown. Operations:
start (hit, join or lead), the router's answers, the gate's sleep, grant and refusal, abort. Hard:
sleepers, aborts and a challenge that arrives while somebody sleeps. Correct: one flight per key,
requests are spaced, none goes out in the cooldown, every search returns.

**Subagents** (`subagent/executor.ts`, `process.ts`). State: the tasks of a call, their attempts, the
child of each, the fork directory. Hard: timeouts, cancellation and retries against children that ignore
signals or end late. Correct: never more children than configured, no second attempt after one that
changed something, nothing left when the call answers, every task ends.

**Telemetry** (`telemetry/service.ts`, `writer.ts`). State: the run of the session, its file, records
that wait for it. Hard: a run follows another whose file is still being closed; files fail. Correct:
every call that ended in a run is recorded once and in order, unless the file failed.

**Approval gate** (`approval/gate.ts`, `policy.ts`, `store.ts`). State: rules of the session, the shared
rules file as each process has read it. Hard: processes, failed saves, crashes, a changing
configuration. Correct: no rule without consent of the user, saved rules stay.

**Bash tool** (`bash-tool/bash-tool.ts`, `output-capture.ts`, `output-view.ts`). State: the log, a head
and a tail window. Hard: limits that cut at several places. Correct: what is missing is reported.

### Not modelled

| component | why |
|---|---|
| repository map indexing and queries, code index | functions from file contents to graphs and from graphs to text: their correctness is about languages, not about steps |
| telemetry report, usage, stats, thinking level, notification | displays: one pass over finished data for each command |
| web fetch | each fetch is sequential; redirects and addresses are a policy on data, conversion is layout |
| other filesystem services | what a read or a walk returns is a nondeterministic snapshot in the modules that use it |
| find and ls | ranking and layout over one traversal; no state between calls |
| prune, skill context, openai compatible provider | one synchronous pass per request |
| tool repair and schemas, token counter and paths | pure functions on JSON, characters and paths |
| user interface and renderers, extension entry points | layout and registration |

## 2. The modules

| module | what it is | uses |
|---|---|---|
| `KeyedLock` | abstract: a lock per key | |
| `MutationQueue` | the queue; refines `KeyedLock` | `KeyedLock` |
| `AtomicFiles` | abstract: a mutation is one atomic read-modify-write or nothing | |
| `WorkspaceMutation` | the service over the queue and the disk; refines `AtomicFiles` | `MutationQueue`, `AtomicFiles` |
| `FileTools` | read, write, edit, sessions and observations, over mutations as atomic as `WorkspaceMutation` shows them | |
| `ConfigLayers` | fingerprints, cache and shared loads of a layered configuration | |
| `FileReads` | one `readBytes` or `scanLines` on a file that changes meanwhile | |
| `EditTexts` | the replacements of an edit and the hints it answers, over texts | |
| `ReadPages` | a text read page by page under limits | |
| `MutationBatch` | the batch of one message and the agent loop around it | |
| `WorkerTaskPool` | the pool and its threads | |
| `GrepIndex` | shared builds and the cache, over a pool reduced to one promise | |
| `Visibility` | shared builds of snapshots, the two caches, epochs, the git index | |
| `VisibilityRules` | what a snapshot decides about a path | |
| `Traversal` | the walk | `VisibilityRules` |
| `RepoMapStore` | generations on disk, the pointer, the lock, crashes | |
| `RepoMapSession` | activation, refreshes and queries of a session, over a store that publishes or fails | |
| `LspManager` | the clients of one server: starts, crashes, restarts, idle timer, reload | |
| `LspDocuments` | the documents of one client: queues, synchronization, eviction, diagnostics | |
| `SearchGate` | the gate in front of DuckDuckGo | |
| `WebSearch` | cache, flights and router; instantiates the gate | `SearchGate` |
| `Subagents` | one call of the subagent tool with its children | |
| `Telemetry` | runs and their files | |
| `ApprovalGate` | rules of processes and the file they share | |
| `BashOutput` | the output of one command | |
| `ToolCalls` | subagents, telemetry, approval gate and web search side by side | those four |
| `MC…` | instances for TLC | |
| `…Proofs` | theorems and their proofs, see section 5 | |

**How code becomes actions.** An action is what one call does between two points where somebody else
can get in: a synchronous block of JavaScript, up to its next `await` of something that is really
asynchronous. A native operation that has been issued and not completed is a state of its own where
its effect can be observed (`step = "rename"`). Steps that run in one microtask chain without I/O are
one action, because no callback of another call runs between them in a way that matters; where one
does (a granted key whose continuation has not run, `phase = "granted"`) it is a state.

**`MutationQueue`.** `entries` and `waiters` are the map and its arrays; `phase` and `key` the state
of a call's promise. `Acquire` has the three outcomes of `acquire`; `Release` is `releaseFor`, which
either hands the key over or deletes the entry, and is called by `Leave` (the `finally` of `run`) and
by `EnterAborted` (the check after `await acquire`). `Abort` is `onAbort`; `Dispose` is `dispose`.

**`WorkspaceMutation`.** Follows `run` with its loop over keys (`Prepare`, `Rekey`,
`PrepareExhausted`), `runLocked` (`TakeSnapshot`, `Transform`), and `atomicReplace` (`Stage`,
`Validate`, `Rename`, `Cleanup`, `Finish`), with the queue's own actions conjoined where the code
calls it. A content is the set of the calls whose text it carries: an edit adds its own, a write
leaves only its own; this is all a lost update needs to be seen. Directories have identities, so a
replaced parent is told from the old one. `Outside` is everybody else.

**`FileTools`.** A store is named by the call that created it. A version is the content itself (the
code keeps a hash). `Load` and `Remember` are the two ends of `read`, with file type detection and
image processing between them. `EnterEdit` reads the observation under the target resolved before the
queue, as `edit/command.ts` does. The queue is reduced to `Exclusive`, what `MutationQueue` shows of
it. `EditTexts` and `ReadPages` are the functions on texts behind an edit and a read: an edit looks
for all its replacements in the text as it was; a page is cut once for the limits and once more for
the context that is added.

**`ConfigLayers`.** A fingerprint and the layers read are one number per layer, the number of its
edits; a load takes a fingerprint, reads the layers one by one, takes another fingerprint, and starts
again when they differ (`Begin`, `Join`, `Lead`; `StatBefore`, `ReadLayer`, `StatAfter`, `Restart`,
`Succeed`, `Fail`). `keeps` tells the caches of the two users
of the loader apart: file tools keep a failure, web tools do not.

**`FileReads`.** Resolution, `open`, the comparison of the opened file with the path, reads of one
piece, the comparison of size and time at the end, and the release, each a step; between them the
path is written in place, replaced, removed or hidden behind a link. The clock is the millisecond of
the time stamps, so two changes may share one.

**`MutationBatch`.** `parallel` is the agent loop's mode; `Start`, `Invoke` and `End` its events.
`CommitBatched` is the rename together with its continuation, in which both inputs are submitted;
`Resume` is the rest of a call after its submission was answered. `MaybeFinalize` is called from every
place the code calls it.

**`WorkerTaskPool`.** A handler is followed by the turns of `dispatch` while `dispatching` is TRUE;
no other handler runs meanwhile. `SpawnFails` and `PostFails` are the two failures inside the loop.
Threads answer, answer something unreadable, die, or are terminated.

**`GrepIndex`.** `Join` is `get`, `Leave` the return of `consumePending`, `TimerFires` the
`setImmediate`. A build goes `Walk`, `Load`, then `ParseHere` or `ParseInPool` and `PoolAnswers`, and
`Store`s under the stamp of its walk. `LeaseEnded` is the lease of the creating call.

**`Visibility`.** A build and a git load bear the name of the call that created them. The disk is
three versions (git index, directory listing, text of the rule files), a stamp is the version that
was current when the metadata was read, and a snapshot is the versions of what it was compiled from.
A build discovers and loads the git index side by side, compiles, and is stored when its epoch is the
present one.

**`VisibilityRules`, `Traversal`.** A pattern is the node it names, together with what is below it;
rule sets are sorted by source and depth as the compiler sorts them, and the last rule that matches
decides. The walk is a stack of entries that are still to visit, with the mandatory gate, visibility,
pruning and the budget in the order of `traversal.ts`. `TreeAssumption` says that the paths are a finite
tree, `WalkAssumption` that a listing names each entry of a directory once.

**`RepoMapStore`.** One step for every file operation of a commit: take the lock, write the temporary
directory, look at the place, quarantine, rename, verify, write and rename the pointer, prune, release.
A crash may come at any of them. A generation is the pair of the HEAD and the contents it was computed
from, as its id is a hash of that.

**`RepoMapSession`.** The branch is reduced to its last entry, which decides what is active and
whether automatic activation is disabled. A job queues, scans and publishes or fails, and keeps its
turn until its caller has gone on, because what the caller does follows in the microtasks of its end.

**`LspManager`.** An operation is a `withClientOperation` call. Clients are numbered as they are made;
a start is shared by those who wait for it; a search that is aborted returns and leaves what it waited
for behind, uncounted. A reload drains the counted operations before it stops the clients.

**`LspDocuments`.** A text is the number of the write that produced it. A document has a queue of
tasks, of which the first runs: `sync` for a write, `symbols` for a read, `evict` and `transient` to
close. Which of two documents was used longer ago is a relation (`older`), since no more is asked of
`lastUsed`. Messages travel in order both ways (`wire`, `posts`); the server answers for the text it
has and publishes once per text.

**`SearchGate`, `WebSearch`.** Time is in ticks and every clock is kept as what is left of it, so the
state space is finite. The router's loop runs without a break from one answer to the next request and
is therefore part of the action of that answer (`Continue`). `lock` is the chain of promises in the
gate; its head is inside the exclusive section.

**`Subagents`.** A child is up, told to end, killed or gone; a task starts, waits for its child or for
the delay before a retry, and settles. `Cleanup` is the `finally` block that removes the fork
directory.

**`Telemetry`, `ApprovalGate`, `BashOutput`.** A record is the call it is about; a run is memory, a
file being opened, a file, or disabled. A session's rules and those of the file are sets of requests;
saving is a rewrite that may fail or be cut by a crash. Output is a sequence of characters of one or
two bytes, plain, hidden or folded, and a window is a sequence of places in it.

## 3. The runs

A check instance often runs several components: the MC module extends all of them, the variable `part`
names the component whose steps a behaviour takes, and the variables of the others keep one initial
value. The state space is the sum of the parts, never their product, and every part keeps its own
initial states, actions and fairness.

| run | instance | what it shows |
|---|---|---|
| `mutation` | 2 calls (a write, an edit), 2 paths, 3 files (one blocked), 2 attempts, 2 outside steps | results tell what happened, no lost update, refinement of `AtomicFiles`, every mutation returns and the queue ends empty |
| `services` | queue: 3 calls, 2 keys; pool: 3 tasks, limit 2; batch: 3 calls, 2 paths, both loop modes; language servers: 3 operations (one a search), 3 clients, 2 crashes, 2 reloads, 1 restart | exact entries and waiters and refinement of `KeyedLock`; nothing stranded, nothing loose; processing of the last texts; no operation disturbed, reloads close; everything ends |
| `files` | tools: 3 calls, 2 sessions, 1 path, 2 files, 1 outside step; configuration: 2 calls, 2 layers, 2 attempts, 1 edit; reads: 2 files, 5 texts, limit 1 byte, pieces of 2, 2 changes; edits: texts of up to 5 characters, 2 replacements; pages: texts of up to 4 characters | an edit replaces only known contents and as asked, a session may edit after its own commit, a configuration and a stable read are of one moment, pages add up |
| `discovery` | grep: 3 calls, 2 keys, 2 versions; visibility: 2 calls, 1 edit, 1 invalidation; walks: 7 nodes, 1836 snapshots, limits 2 and 7 | coherent caches, fresh answers, abandoned builds cancelled, walks exact, everything returns |
| `repomap_store` | 3 calls of 2 processes, 1 kept generation, 1 change, 1 damage, 1 crash | `CURRENT` is whole, outcomes tell what was published, newer scans win, every call ends |
| `sessions` | map: 1 mutation, 2 queries, 1 session start, 1 `/init`, 1 off, 1 checkout; documents: 2 documents, room for 1, two of three overlapping calls | no stale answer, off holds against what begins later; client and server in step, the limit kept, no call stuck, pulls of the own text |
| `tools` | subagents: 3 tasks, width 2, 2 attempts; telemetry: 3 calls, 3 runs, 1 broken file; approval: 2 processes, 2 requests, 1 crash; bash: 5 characters; web: 3 searches, 2 keys | children accounted, records exact, rules kept, nothing lost silently, nothing done twice, everything ends |
| `tools_overlap`, `visibility_listing`, `repomap_off`, `lsp_stale`, `fork_left` | smaller instances of the same modules | the disagreements of section 6 |

Deadlock is not checked anywhere: each model stops when its calls are used up. That they do not stop
earlier is what the liveness properties say, and `OpenCallsGoOn` for the documents.

**Why these bounds.** Three calls are the smallest number with a holder, a waiter and somebody who
arrives during the hand-over (queue), with two that join one build and one of another key (grep), or
with one asleep at the gate, one behind it and one that is being challenged (web search). The pool
needs more tasks than slots. In `mutation` two calls already race on one file under two names, and two
outside steps allow a change and the change back (a retargeted link that returns, a directory replaced
twice), which is what a check that compares too little would miss; `MaxAttempts = 2` (4 in the code)
lets the key change once and the attempts run out. In `files` a behaviour of the tools has an outside
step, a third call, or the end of the session, one of them: each alone reaches the exceptions that
`CommitKeepsObservation` makes. A file that is read is longer than a piece, so a change can come between
two pieces, and two changes can share a millisecond. Configuration: one edit of each of two layers
reaches a fingerprint that is half old and half new. `discovery`: the epochs need a build that began
before the invalidation and one after. `repomap_store`: the crash may leave each kind of debris, the
second process finds it. `sessions`: a limit of one document makes every second document evict the
first; two calls that share one of them make an eviction wait in a queue that a call waits for.
`Linked` (how a linked worktree finds its index) is FALSE in the run; the theorems cover both.
Symmetry is used for the queries of `sessions` only, a run without liveness.

Every property is one that a plausible mistake in the code would break: PROJECT.json lists one for
each, as an operator that stands beside the definition it replaces (`EnterAbortedKeepsKey`: a granted
call that finds its signal fired forgets to release; `EntryStampedLate`: a cache entry takes the stamp
of the moment it is stored; …).

## 4. Fairness

All fairness is weak, on steps the runtime takes by itself. Nobody is obliged to call, to abort, to
dispose, or to touch a file.

| module | weakly fair | because |
|---|---|---|
| `MutationQueue` | `Enter`/`EnterAborted`, `Leave` of each call | resolved promises run; the operations under the queue are finite file operations |
| `WorkspaceMutation` | `CallStep` of each call | native operations complete, with a result or an error |
| `MutationBatch` | `BatchStep` of each call, the two post-processings | the agent loop executes what it started; language servers and repository map answer or time out |
| `WorkerTaskPool` | `Dispatch`; for each thread its reply, its handlers and its end | parsing one text terminates or its thread dies |
| `LspManager` | `OpStep`, `ClientStep`, `IdleTimeout`, `Restart`, `ReloadStep` | timers and promises run; every request and shutdown has a timeout |
| `GrepIndex` | `Leave`, `TimerFires`, `BuildStep` of each call | timers and settled promises run; the pool settles its tasks (`EveryTaskSettles`) |
| `Visibility` | `SnapshotStep`, `LoadStep` of each call | file reads and the git process end |
| `RepoMapStore` | `Step` of each call | file operations end; the lock is waited for with a bound |
| `WebSearch` | `Tick`, each call's `Step` | providers answer or run into their timeout, time passes |
| `Subagents` | `Cleanup`; for each task its steps, its timeout, the end of the grace period, the end of a killed child | timers fire, a process that was killed ends |
| `Telemetry` | `RunStep` of each run | appends end, with a result or an error |
| `BashOutput` | `Update` | the timer of the throttle fires |

`FileTools`, `ConfigLayers`, `FileReads`, `RepoMapSession` and `LspDocuments` state no fairness and
have no liveness property. In `WorkspaceMutation` calls exist from the start, so `CallStep` also
obliges them to begin; nothing depends on it. Where a call is made once, "it ends" is written as
`<>[]` of its being over. A search at the gate waits for those before it without being able to abort;
that it returns follows because each of them leaves.

## 5. What is proved

TLAPS checks the theorems for every value of the constants, under the assumptions the modules name.
TLC evaluates the assumptions on every run. Every inductive invariant was first checked by TLC on the
instance of its run.

**`MutationQueueProofs`** (any calls, any keys): `TypeCorrect`, `Exclusive`, `EntriesAreExact`
(`EntriesExact`), and `QueueImplementsLock`: every behaviour of the queue is one of `KeyedLock`. The
inductive invariant is `TypeOK /\ MutualExclusion /\ EntryIffHeld /\ WaitersExact`. Mutual exclusion is
not inductive: a free key is safe to grant only because an entry exists exactly while its key is held,
and a hand-over is safe only because the first waiter is really waiting, for this key, and is in the
array once. The refinement maps a grant to `Take`, a release to `Give` (with or without a successor),
and everything else to a stutter.

**`WorkspaceMutationProofs`** (any calls, paths, files, contents, aborts and steps of other processes,
of which the assumption is that they never write a call's own text): `OutcomesAreTrue`,
`CommitsAreUpdates`, `ServiceImplementsAtomicFiles`. The invariant `IInv` is the types, the queue's
invariant (each action of the service is one of the queue's or leaves it alone), where a call stands
with the key it holds (`StepInv`), what it carries (`CarryInv`), that the file is the one it was since
the last validation unless the call is marked as raced (`WindowInv`), which texts are on disk
(`DiskInv`), the blocked files (`BlockedUntouched`), and that only other processes race (`RaceInv`).

**`FileToolsProofs`.** `ConfigsOfOneMoment`: versions only grow, so when the fingerprint before the
layers equals the one after, both are the disk at one moment, and what was read between them is that
too; a call that began later and found the same fingerprint began while the disk was still there
(`LayersInv` with `MomentsInv`, `LeaderInv`, `LoadInv`, `MiddleInv`, `CacheInv`, `AnswerInv`).
`ConfigsAreSound`: a kept failure is of layers that were broken, unless an edit met the load
(`SoundInv`). `ReadsAreSound`: a file whose stamp is the one the call began with has not changed
since, or twice in a millisecond; what was read so far is the beginning of that text (`ReadsInv`). A
buffer is asked for at most one byte more than the limit leaves, whatever the file has grown to
(`LimitInv`), and each way out of a call passes the closing of its handle, but for the abort that
finds the handle already on its way (`HandleInv`).
`CommitsAreRemembered`, `EditsAreOfKnownContent`: a store is given to calls of one session only and holds what the
session knows; it is disposed by the call that made it, before anything is recorded in it
(`ToolsInv`).

**`ServiceProofs`.** The pool: `PoolTypeCorrect`, `NothingStranded`, `NothingLoose`. They need that a
queued task is pending, queued once and in no slot (`QueueExact`); that a slot's thread has not been
terminated, its task is pending and in no other slot, its message answers that task (`SlotsExact`); a
disposed pool is empty (`ClosedEmpty`). The batch: `BatchesFinalizeWhole`. The numbers of the submissions
count them (`OrdersExact`), the text on disk is that of the highest number (`LatestOnDisk`), and when the
shared work begins every call has submitted or settled (`FinalizedLatest`).

**`LspProofs`.** The manager (any operations, clients, crashes, reloads): `NobodyIsDisturbed` and
`ReloadsClose`. Only the idle timer and a drained reload stop a client, each when nobody counted uses it
(`Undisturbed`, `DrainedInv`); that the reload reaches every server needs to know where a server can be
at all (`ClientsOK`, `StartsAwaited`, `AloneInv`). The documents (any documents, writes, reads, limit and
capabilities of the server): `DocumentsStayInStep`, `DocumentsKeepTheLimit`, `PullsAreOfTheirText`,
together `DocumentsAreAgreed`.
`DocumentsInStep` only looks at the first message and at a wire without messages of a document, so it is
not inductive; the invariant (`DocsInv`) says that the messages about a document lead one by one from
what the server has to what the client believes it will have (`WiresExact`), where the running task of a
document is (`StepsExact`), that a request or its answer belongs to the task that waits for it, with no
message about the document behind it, or to one that is over (`AsksExact`, `AnswersExact`), and that each
queued task is queued once and for a call, or a document, that waits for it (`QueuesExact`). The limit
needs one thing more: while it is passed some call is open that will trim (`TrimsToCome`). A call that
finds nothing to evict may stop, because then every other document has a task in its queue, and the tasks
of the call itself are done.

**`DiscoveryProofs`.** The grep index (any calls, keys and number of versions): `TypeCorrect`, `CacheIsCoherent`,
`NothingAbandoned` and the action property `AnswersAreFresh`. The cache is coherent because a text is
read after the stamp it is stored under: creation, stamp, text and file are ordered (`BuildOrdered`,
`CacheOrdered`), so an entry whose stamp is the file's has the file's text between the two. The same
order shows that an answer is no older than its build. `NothingAbandoned` needs that a call that waits
has joined a build and a new one has none.

The visibility service (any calls, policies, edits, invalidations, linked worktree or not):
`OldEpochsStayOut`, `SnapshotsAreCoherent`, `AnswersAreOfTheBuild`, `NothingIsOrphaned`. `EpochInv` follows
the epoch of everything that can enter a cache; `VisInv` orders, for each build and load, the creation,
the parts read, and the disk, as in the grep index but for three versions at once; `KeptInv` says the
same of what is cached.

The walk (any finite tree, listings without repetitions, any rules, blocked and failing entries, budgets):
`WalksAreSound`, `WalksMissOnlyThePruned`. What is left of the listings on the stack was not reached yet
and stands there once (`StackExact`); whatever was reached was reached through directories that were
walked into (`EventsExact`); and what such a directory holds was reached or is still on the stack, unless
the budget is spent (`NothingForgotten`). A visible entry that a finished walk did not reach has then a
missed directory above it, and another above that, up to the first one the walk pruned: the directories
above an entry are the least set closed under "the directory of" (`Above`), so this takes no induction.
That what a pruned directory hides is only what its rules could not see (`HiddenByPruning`), and that
`explain` agrees, is a fact about folds over the rules and stays with the runs.

**`RepoMapProofs`.** The store (any calls, processes, crashes, cancellations, kept generations):
`CurrentStaysWhole`, `CommitsAreAccounted`, `NewerScansWin`. Between taking the lock and releasing it a
call is the only one that renames or removes directories, so what it placed or found is still there
when it renames `CURRENT`, and what it prunes is not what it has just made current (`StoreInv`);
`CallsInv` follows what a call has left on disk to its outcome, and to the damaged directories it has
moved aside for good (`Aside`). The session (any mutations, queries, session starts, checkouts,
failures): `AnswersAreFresh`, `OffHoldsAgainstWhatBegins`. Jobs run one at a time
and each until its caller went on (`QueueExact`, `CallersExact`), so `CURRENT` only gains contents
(`InOrder`), a mutation's job scans what it wrote (`MutationsSeen`), and whatever a query takes to answer
from is `CURRENT` at that moment (`AnswersFresh`). While the branch is off no mutation and no query
gets as far as an append, so whoever turns the map on again without the user was under way when it
was turned off (`OffInv`).

**`ToolCallProofs`.** Telemetry (any calls, runs, failures): `RecordsAreExact`; a run is disabled only
when its file failed, and in every other run the records are in its file, its queue or its memory, in the
order of the ends (`TelInv`). Approval (any processes, requests, restarts, failed saves): `RulesAreKept`; every
rule a process holds or the file has is one somebody consented to (`GateInv`). Subagents (any tasks,
retries, timeouts): `ChildrenAreAccounted` and `NothingIsWrittenTwice`; a child belongs to the task that
waits for it, and the tasks under way are counted by the width (`TaskInv`). Web search (any searches,
keys, candidates and durations): `FlightsAreShared`, `WaitersAreLed`, `RequestsArePaced`. A key is freed
in the step in which its leader and its followers return (`FlightsExact`); only the head of the gate's
chain sleeps or is let in (`ChainExact`), a sleeper's timer is never shorter than what is left of the
interval, and no sleep begins in a cooldown (`PacingExact`). `NothingIsDoneTwice` puts the two together:
the parts share no state, so the conjunction of their specifications composes them.

**Only model-checked.** Liveness under fairness, and everything that needs ENABLED (`OpenCallsGoOn`),
is out of the prover's reach. So are properties of functions that are computed along data, whose
proofs would be inductions over texts and rules: `TextsExact` (edits, pages, lines), `NothingLostSilently`,
and of `WalksExact` what it says of rules; what it says of the walk is proved.

## 6. Disagreements between the code and its documentation

Five runs end in a counterexample to something the documentation says.

- **`tools_overlap`** (`file-tools/read/command.ts:129`). A read loads bytes, awaits file type
  detection and then records them as the session's observation. A write of the same session that
  commits in between records its version first and is overwritten by the older one; the next edit is
  refused as `STALE_READ`, where `docs/file-tools/contracts.md:67` says that an edit can directly
  follow a write. `CommitKeepsObservation` is that claim with exactly the exceptions the code makes, and
  holds.
- **`visibility_listing`** (`filesystem/services/visibility/rule-discovery.ts:91`). A directory is
  listed and stamped by two concurrent reads; a rule file created between them is missing from the
  snapshot while its stamp is already the new one, so later calls answer the old snapshot.
  `docs/file-tools/ignore.md:64` says that a change of a directory makes a new snapshot.
- **`repomap_off`** (`repo-map/query/file-tool-query.ts:251`). A mutation appends an activation entry
  after its refresh without looking at the branch again: a user who said `/init off` meanwhile finds the
  map active, and an automatic activation that was under way proceeds.
  `repo-map/runtime/activation.ts:85` says that off holds until the user initializes again. What does
  hold is `OffHoldsAgainstLater`: only what was under way at that moment, or an `/init`, turns it on.
- **`lsp_stale`** (`lsp/manager.ts:355`). Anything published after the revision was captured counts as
  the diagnostics of the write, also what was published for the text before, when it arrives before
  `didChange` is under way. `docs/lsp.md:45` says that without a result of this write the status is
  `timeout`, also when there is an old snapshot.
- **`fork_left`** (`subagent/executor.ts:363`). Two forked tasks ask for a confirmation each; one is
  declined, so its task throws, `Promise.all` rejects and the fork directory is removed. The other is
  then accepted and launched: its session directory is made again with its parents and removed by
  nobody. `docs/subagent.md:183` says everything is cleaned up when the execution ends.

Others were seen on the way. Earlier versions of the models showed them, or reading did; the properties
that are checked make room for them, and no run is kept for them.

- `file-tools/runtime/host.ts:75`: the call that created a session's store disposes it when its own
  open fails, although others were given it; `docs/file-tools/contracts.md:67` is violated with
  `READ_REQUIRED`.
- `web-tools/search/search-request-gate.ts:31`: the cooldown is tested before the sleep and not after
  it, so one request may go out in the cooldown (`docs/web-tools.md:83`); it is never more than one.
- `file-tools/grep/indexer.ts:132`: a shared build reads through the lease of the call that created
  it; when that call is aborted, a second search that waits is answered `OPERATION_ABORTED`
  (`docs/file-tools/grep.md:105`).
- `file-tools/edit/command.ts:274`: overlapping occurrences of `old` count as one, where `edit.md:20`
  asks for a unique one, and the hints for them may edit another place; `HintsWork` and `EditsAsAsked` except them.
- `filesystem/services/visibility/snapshot.ts:71`: a tracked file in an ignored directory
  (`docs/file-tools/ignore.md:70`) is pruned with the directory; `HiddenByPruning` states what is hidden.
- `lsp/manager.ts:514` and `:173`: a search that was abandoned leaves a start behind that a reload does
  not close (`docs/lsp.md:258`); `ReloadClosesCounted` excepts it. `:566` may keep a stale configuration
  after a reload.
- `lsp/client.ts`: a read that loaded a text before a write, and queues after it, sends the old text
  back (`docs/lsp.md:239`); two trims may each evict a document although one was enough.
- `repo-map/storage/storage.ts:568`: a directory whose removal stopped half way gets a new time stamp
  and counts as the newest. A damaged generation is moved aside as `.corrupt-` (`:388`), a process that
  dies leaves `.tmp-` behind, and nothing removes either, although
  `docs/repo-map/storage-and-errors.md:78` speaks of cleaning up what was marked; the model keeps them
  (`corrupt`, `temps`), `LeftoversOnlyByCrash` says what stays. `repo-map/runtime/service.ts:524`:
  results of different processes may be published in another order than they were scanned; a HEAD that
  moves away and back during a scan is unseen.
- `file-tools/config.ts:155` caches a failure under a fingerprint taken after the failed load
  (`docs/file-tools/configuration.md:93`).
- `filesystem/services/text.ts:85`: a line longer than the limit refuses the page even when earlier
  lines fit. `native-filesystem.ts:301`: an abort during `open` leaks the handle (`docs/file-tools/read.md:67`);
  `:150`: a `.pi-*.tmp` file stays after a crash. Two changes of the same size in one millisecond are
  unseen by a read.
- `subagent/executor.ts`: with `retry_delay_ms` 0 a cancelled call may try again. `subagent/process.ts:168`: a
  child killed by a signal has no exit code, which counts as success.
- `telemetry/service.ts:450`: a rejection of the new file while the old one is awaited is unhandled.
- `approval/store.ts`: two processes that save at once lose one of the rules; the file is not replaced
  atomically.
- `bash-tool/output-view.ts`: text repeated in head and tail is shown twice when the cleaning of
  control sequences makes it fit (`docs/bash-tool.md:88`); with invalid bytes the source may be called
  complete although bytes were lost. `bash-tool.ts`: a run that throws never ends its log.
- `web-tools` (not modelled): a second fetch at offset 0 replaces the snapshot while pages of the first
  are read (`docs/web-tools.md:103`). `router.ts:107`: a late success overwrites the health of a provider.

## 7. Assumptions and what is left out

- *Mutation.* `validateBeforeCommit` reads several things with awaits between them; it is one action.
  The time between it and the rename is a window in which other processes can write: the
  documentation excludes transactions across processes, `raced` marks the calls it happened to, and
  the refinement of `AtomicFiles` is stated for behaviours in which `mayRace` is FALSE. Removing the
  temporary file succeeds. Each file has a directory of its own, and a replaced directory loses its
  contents. File modes, byte limits and the Windows retries are left out.
- *File tools.* Text decoding, diffs, images and presentation are left out; in `FileTools` an edit whose
  text does not match is a nondeterministic failure, `EditTexts` says which do.
- *Configuration.* How layers are merged and what schemas say; several working directories in one
  provider; a layer that cannot be read.
- *Reads.* Decoding beyond byte order marks and NUL, hashes.
- *Batch.* One batch; the contents of the post-processing are left out.
- *Pool.* The order of the slots is left out: any idle slot may take the next task. Messages of a
  worker that has left the slots are dropped with the thread, as the pool ignores them.
- *Grep.* One file stands for the scope, so traversal, deletion, several scopes of one search, the
  semantic prefilter, ranking and fusion are left out. A stamp identifies a version: a write that
  keeps size and time stamps is outside the model, as it is outside what the cache can see.
- *Visibility.* One workspace; case sensitivity, reads that fail (they fail open), diagnostics. The
  `ignore` library is modelled from its use: a pattern matches a node and everything below it.
- *Repository map.* What the indexers compute, the cached reader, ranking; one repository per session.
  The session takes from the store only that a job publishes what it scanned or fails, in the order
  `NewerScanWins` shows.
- *Language servers.* One server; configuration, routing, requests of the server, dynamic
  registrations. The connection of `LspDocuments` does not break, that of `LspManager` does.
- *Web search.* One router and one gate: rebuilding them when the configuration changes, closing, the
  search corpus, merging and scoring of results and LRU eviction are left out, and so is a follower's
  own abort, which the code does not look at. What a provider returns is one of the classes the
  router tells apart.
- *Subagents.* Of agents and their tools only whether a task may write; texts and token counts.
- *Telemetry, approval, bash.* Projections and repairs; how requests match rules (an oracle per
  request), the safety check before the gate; denied commands, the environment, the wording of markers.
- Ticks, versions, attempts, crashes and outside steps are bounded by the constants of the runs
  (`MaxOutside`, `MaxAttempts`, `MaxVersion`, `MaxEdits`, `MaxInvalid`, `MaxCrashes`, `MaxReloads`,
  `MaxClients`, `MaxRestarts`, `MaxHeads`, `MaxOffs`, `MaxFiles`, `MaxDamage`, `MaxChanges`, `MaxNow`,
  `MaxRuns`, `MaxBroken`, `MaxConfigs`, `MaxSpoils`, `MaxOutput` and the durations of `WebSearch`).

## 8. Plan

The order followed what a wrong order of steps would cost: first the user's files, then the shared
builds and pools every search depends on, then other processes, then what surrounds a call. All the
components of section 1 that have state of their own are modelled. What is left:

| step | what | why |
|---|---|---|
| 1 | the types and exclusion of `SearchGate` as a specification that `WebSearch` refines | the gate is used through its promise chain only |
| 2 | several scopes of one search in `GrepIndex`, and deletion of files | one file stands for the scope |
| 3 | rebuilding of router and gate when the configuration of the web tools changes | a search may then meet two gates |
| 4 | the snapshots of web fetch | pages of one document that is fetched again |

`WorkspaceMutation` composes the queue; `FileTools` stands on what it shows. A composition of
`GrepIndex` with the whole pool was not worth its states: the index sees one promise of the pool,
and `EveryTaskSettles` shows that promise settles.

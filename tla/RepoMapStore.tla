---------------------------- MODULE RepoMapStore ----------------------------
(***************************************************************************)
(* The generations of one repository map on disk: initializeRepoMap reads  *)
(* the previous generation, scans the worktree and commits what it built   *)
(* (repo-map/runtime/service.ts, repo-map/storage/storage.ts).  The calls  *)
(* of one process queue up per map; processes only meet at COMMIT_LOCK.    *)
(* A process may crash at any step and leave the lock, a temporary         *)
(* directory or a pointer file behind.  A generation is the pair of the    *)
(* HEAD and the worktree contents it was computed from: its id is a hash   *)
(* of exactly that.                                                        *)
(***************************************************************************)
EXTENDS Naturals, Sequences, FiniteSets

CONSTANTS
  Calls,        \* calls of initializeRepoMap
  Processes,    \* processes that share the cache directory
  None,
  ProcessOf,    \* the process a call runs in
  Rebuilds,     \* calls of /init rebuild, which read no previous generation
  Supplied,     \* refreshes after a mutation, which bring the previous one
  Cancellable,  \* bound: calls the user may cancel
  Keep,         \* config.cache.max_generations
  MaxFiles,     \* bound: changes of the worktree
  MaxDamage,    \* bound: generations damaged by an outsider
  MaxCrashes    \* bound: crashes of processes

ASSUME StoreAssumption ==
  /\ ProcessOf \in [Calls -> Processes]
  /\ Rebuilds \subseteq Calls /\ Supplied \subseteq Calls /\ Cancellable \subseteq Calls
  /\ Keep \in Nat \ {0} /\ MaxFiles \in Nat /\ MaxDamage \in Nat /\ MaxCrashes \in Nat
  /\ None \notin Calls /\ None \notin {0, 1} \X (0 .. MaxFiles)

Gens == {0, 1} \X (0 .. MaxFiles)

VARIABLES
  work,       \* <<HEAD, contents>> of the worktree
  current,    \* the generation the file CURRENT names
  dirs,       \* "absent", "whole" or "damaged" for every generation directory
  made,       \* made[g]: the time (mtime) of its directory
  clock,      \* the last of these times
  hurt,       \* generations an outsider damaged since they were placed
  corrupt,    \* <<g, c>>: call c moved a damaged directory g aside, to .corrupt-g-<uuid>
  temps,      \* calls whose temporary directory exists
  pointers,   \* calls whose temporary pointer file exists
  holder,     \* the call that took COMMIT_LOCK
  tails,      \* mapUpdateTails of every process: the calls in order
  call,       \* what every call holds in its variables
  aborted,    \* calls whose signal is aborted
  published,  \* calls that renamed CURRENT
  crashes     \* crashes so far

disk == <<current, dirs, made, clock, hurt, corrupt, temps, pointers, holder>>
storeVars == <<work, disk, tails, call, aborted, published, crashes>>

Idle == [pc |-> "idle", head |-> 0, prev |-> None, seen |-> 0, out |-> "none"]

StoreInit ==
  /\ work = <<0, 0>> /\ current = None
  /\ dirs = [g \in Gens |-> "absent"] /\ made = [g \in Gens |-> 0] /\ clock = 0
  /\ hurt = {} /\ corrupt = {}
  /\ temps = {} /\ pointers = {} /\ holder = None
  /\ tails = [p \in Processes |-> <<>>]
  /\ call = [c \in Calls |-> Idle]
  /\ aborted = {} /\ published = {} /\ crashes = 0

\* The generation a call computes: HEAD as it was detected, files as scanned.
generation(c) == <<call[c].head, call[c].seen>>

\* All snapshots of the directory pass the validators and hash to its id.
Valid(g) == dirs[g] = "whole"

At(c, pc) == call[c].pc = pc
Goto(c, pc) == call' = [call EXCEPT ![c].pc = pc]
Finish(c, out) == call' = [call EXCEPT ![c].pc = "finally", ![c].out = out]

-----------------------------------------------------------------------------
(* service.ts: identity, queue, previous generation, scan, HEAD check.      *)

\* detectRepository, then the call joins the tail of its map.
initializeRepoMap(c) ==
  /\ At(c, "idle")
  /\ call' = [call EXCEPT ![c].pc = "queued", ![c].head = work[1]]
  /\ tails' = [tails EXCEPT ![ProcessOf[c]] = Append(@, c)]
  /\ UNCHANGED <<work, disk, aborted, published, crashes>>

\* Mutant: once a process has died, a call does not wait for the calls before it.
withoutMapUpdateLock(c) ==
  /\ At(c, "queued") /\ (crashes = MaxCrashes \/ Head(tails[ProcessOf[c]]) = c)
  /\ IF c \in aborted
       THEN Finish(c, "failed")
       ELSE Goto(c, IF c \in Rebuilds THEN "scan" ELSE "pointer")
  /\ UNCHANGED <<work, disk, tails, aborted, published, crashes>>

\* withMapUpdateLock: the call runs when all calls before it have ended.
withMapUpdateLock(c) ==
  /\ At(c, "queued") /\ Head(tails[ProcessOf[c]]) = c
  /\ IF c \in aborted
       THEN Finish(c, "failed")
       ELSE Goto(c, IF c \in Rebuilds THEN "scan" ELSE "pointer")
  /\ UNCHANGED <<work, disk, tails, aborted, published, crashes>>

\* readCurrentGenerationId.  A mutation that brings the generation CURRENT
\* names uses it as it is; everyone else goes on to read the directory.
readCurrentGenerationId(c) ==
  /\ At(c, "pointer")
  /\ \E pc \in {IF current = None THEN "scan" ELSE "previous"}
               \cup (IF c \in Supplied THEN {"scan"} ELSE {}) :
       call' = [call EXCEPT ![c].prev = current, ![c].pc = pc]
  /\ UNCHANGED <<work, disk, tails, aborted, published, crashes>>

\* readGeneration: the snapshots of the directory if they are all valid.
readGeneration(c) ==
  /\ At(c, "previous")
  /\ call' = [call EXCEPT ![c].pc = "scan",
                          ![c].prev = IF Valid(@) THEN @ ELSE None]
  /\ UNCHANGED <<work, disk, tails, aborted, published, crashes>>

\* The scan sees the files as they are now.
scan(c) ==
  /\ At(c, "scan")
  /\ IF c \in aborted
       THEN Finish(c, "failed")
       ELSE call' = [call EXCEPT ![c].pc = "head", ![c].seen = work[2]]
  /\ UNCHANGED <<work, disk, tails, aborted, published, crashes>>

\* canReusePreviousGeneration: nothing the generation depends on has changed.
canReusePreviousGeneration(c) == call[c].prev = generation(c)

\* readHeadRevision once more: a changed HEAD rejects the call, an unchanged
\* worktree ends it without a commit, and the rest is committed.
checkEndingRevision(c) ==
  /\ At(c, "head")
  /\ IF c \in aborted \/ work[1] # call[c].head
       THEN Finish(c, "failed")
       ELSE IF canReusePreviousGeneration(c)
              THEN Finish(c, "reused")
              ELSE Goto(c, "lock")
  /\ UNCHANGED <<work, disk, tails, aborted, published, crashes>>

-----------------------------------------------------------------------------
(* storage.ts: commitGeneration.                                           *)

\* acquireCommitLock does not wait: a taken lock is an error.
acquireCommitLock(c) ==
  /\ At(c, "lock")
  /\ IF c \in aborted \/ holder # None
       THEN Finish(c, "failed") /\ UNCHANGED holder
       ELSE Goto(c, "existing") /\ holder' = c
  /\ UNCHANGED <<work, current, dirs, made, clock, hurt, corrupt, temps, pointers, tails,
                 aborted, published, crashes>>

\* A valid directory of this id is reused, anything else is written again.
readExisting(c) ==
  /\ At(c, "existing")
  /\ Goto(c, IF Valid(generation(c)) THEN "switch" ELSE "temp")
  /\ UNCHANGED <<work, disk, tails, aborted, published, crashes>>

\* mkdtemp and writeGenerationSnapshots, which may fail or be cancelled.
writeGenerationSnapshots(c) ==
  /\ At(c, "temp")
  /\ temps' = temps \cup {c}
  /\ \/ c \notin aborted /\ Goto(c, "place")
     \/ Finish(c, "failed")
  /\ UNCHANGED <<work, current, dirs, made, clock, hurt, corrupt, pointers, holder, tails,
                 aborted, published, crashes>>

\* What is in the way at the destination is read again: a valid directory is
\* used, an invalid one is moved aside for good (quarantineCorruptGeneration),
\* then the new one moves in.  Any of this may fail, or be cancelled.
placeGeneration(c) ==
  LET g == generation(c) IN
  /\ At(c, "place")
  /\ \/ Finish(c, "failed") /\ UNCHANGED <<dirs, made, clock, hurt, corrupt, temps>>
     \/ /\ Valid(g) /\ Goto(c, "switch")
        /\ UNCHANGED <<dirs, made, clock, hurt, corrupt, temps>>
     \/ /\ dirs[g] = "damaged" /\ dirs' = [dirs EXCEPT ![g] = "absent"]
        /\ corrupt' = corrupt \cup {<<g, c>>} /\ made' = [made EXCEPT ![g] = 0]
        /\ UNCHANGED <<call, clock, hurt, temps>>
     \/ /\ dirs[g] = "absent" /\ Goto(c, "verify") /\ dirs' = [dirs EXCEPT ![g] = "whole"]
        /\ clock' = clock + 1 /\ made' = [made EXCEPT ![g] = clock']
        /\ hurt' = hurt \ {g} /\ temps' = temps \ {c} /\ UNCHANGED corrupt
  /\ UNCHANGED <<work, current, pointers, holder, tails, aborted, published, crashes>>

\* verifyGenerationSnapshots hashes the renamed directory.
verifyGenerationSnapshots(c) ==
  /\ At(c, "verify")
  /\ IF c \in aborted \/ ~Valid(generation(c))
       THEN Finish(c, "failed")
       ELSE Goto(c, "switch")
  /\ UNCHANGED <<work, disk, tails, aborted, published, crashes>>

\* The last look at the signal, then the pointer file is written and synced.
writePointer(c) ==
  /\ At(c, "switch")
  /\ \/ c \notin aborted /\ pointers' = pointers \cup {c} /\ Goto(c, "rename")
     \/ Finish(c, "failed") /\ UNCHANGED pointers
  /\ UNCHANGED <<work, current, dirs, made, clock, hurt, corrupt, temps, holder, tails,
                 aborted, published, crashes>>

\* replaceCurrent: the rename publishes the generation.
replaceCurrent(c) ==
  /\ At(c, "rename")
  /\ pointers' = pointers \ {c}
  /\ \/ current' = generation(c) /\ published' = published \cup {c} /\ Goto(c, "prune")
     \/ Finish(c, "failed") /\ UNCHANGED <<current, published>>
  /\ UNCHANGED <<work, dirs, made, clock, hurt, corrupt, temps, holder, tails, aborted,
                 crashes>>

\* Mutant: the generation that is about to be current is a candidate, too.
DoomedWithCurrent(c) ==
  LET present == {g \in Gens : dirs[g] # "absent"}
  IN  {g \in present : Cardinality({h \in present : made[h] > made[g]}) >= Keep - 1}

\* The directories cleanupGenerations removes: every generation but the one of
\* the call and the newest Keep - 1 others.
Doomed(c) ==
  LET others == {g \in Gens : dirs[g] # "absent" /\ g # generation(c)}
  IN  {g \in others : Cardinality({h \in others : made[h] > made[g]}) >= Keep - 1}

\* The removal goes from the newer to the older directories, down to some time;
\* a directory of which a part is removed is damaged, and has a new time.
Prune(gone, torn) ==
  /\ dirs' = [g \in Gens |-> IF g \in gone THEN "absent"
                             ELSE IF g \in torn THEN "damaged" ELSE dirs[g]]
  /\ clock' = IF torn = {} THEN clock ELSE clock + 1
  /\ made' = [g \in Gens |-> IF g \in gone THEN 0
                             ELSE IF g \in torn THEN clock' ELSE made[g]]
  /\ hurt' = hurt \ gone

\* Mutant: pruning that stops half way fails the commit.
cleanupFailsCommit(c) ==
  /\ At(c, "prune")
  /\ \E time \in 0 .. clock :
       LET torn == {g \in Doomed(c) : made[g] = time} IN
       /\ Prune({g \in Doomed(c) : made[g] > time}, torn)
       /\ Finish(c, IF torn # {} THEN "failed" ELSE "saved")
  /\ UNCHANGED <<work, current, corrupt, temps, pointers, holder, tails, aborted,
                 published, crashes>>

\* cleanupGenerations is best effort: it may stop after any removal, in the middle
\* of a directory, and its failure is nobody's failure.
cleanupGenerations(c) ==
  /\ At(c, "prune")
  /\ \E time \in 0 .. clock :
       \E torn \in SUBSET {g \in Doomed(c) : made[g] = time} :
         Prune({g \in Doomed(c) : made[g] > time}, torn)
  /\ Finish(c, "saved")
  /\ UNCHANGED <<work, current, corrupt, temps, pointers, holder, tails, aborted,
                 published, crashes>>

\* Mutant: the error of a commit that was cancelled skips the cleaning up.
releaseKeepsTemp(c) ==
  /\ At(c, "finally")
  /\ Goto(c, "ended")
  /\ temps' = IF call[c].out = "failed" THEN temps ELSE temps \ {c}
  /\ holder' = IF holder = c THEN None ELSE holder
  /\ tails' = [tails EXCEPT ![ProcessOf[c]] = Tail(@)]
  /\ UNCHANGED <<work, current, dirs, made, clock, hurt, corrupt, pointers, aborted, published,
                 crashes>>

\* Mutant: only a call that succeeds lets the next one run.
releaseOnSuccess(c) ==
  /\ At(c, "finally")
  /\ Goto(c, "ended")
  /\ temps' = temps \ {c}
  /\ holder' = IF holder = c THEN None ELSE holder
  /\ tails' = IF call[c].out = "failed" THEN tails
              ELSE [tails EXCEPT ![ProcessOf[c]] = Tail(@)]
  /\ UNCHANGED <<work, current, dirs, made, clock, hurt, corrupt, pointers, aborted, published,
                 crashes>>

\* finally: the temporary directory goes, the lock is released if it was
\* taken, and the next call of the map may run.
release(c) ==
  /\ At(c, "finally")
  /\ Goto(c, "ended")
  /\ temps' = temps \ {c}
  /\ holder' = IF holder = c THEN None ELSE holder
  /\ tails' = [tails EXCEPT ![ProcessOf[c]] = Tail(@)]
  /\ UNCHANGED <<work, current, dirs, made, clock, hurt, corrupt, pointers, aborted, published,
                 crashes>>

-----------------------------------------------------------------------------
(* The surroundings.                                                       *)

\* The user cancels a call.
abort(c) ==
  /\ c \in Cancellable
  /\ call[c].pc \notin {"idle", "finally", "ended", "dead"} /\ c \notin aborted
  /\ aborted' = aborted \cup {c}
  /\ UNCHANGED <<work, disk, tails, call, published, crashes>>

\* A file changes, or another revision is checked out.
ChangeWorktree ==
  /\ work[2] < MaxFiles
  /\ \E h \in {0, 1} : work' = <<h, work[2] + 1>>
  /\ UNCHANGED <<disk, tails, call, aborted, published, crashes>>

\* Something outside the program damages a generation.
Damage ==
  /\ Cardinality(hurt) < MaxDamage
  /\ \E g \in Gens :
       /\ dirs[g] = "whole"
       /\ dirs' = [dirs EXCEPT ![g] = "damaged"]
       /\ hurt' = hurt \cup {g}
  /\ UNCHANGED <<work, current, made, clock, corrupt, temps, pointers, holder, tails, call,
                 aborted, published, crashes>>

\* A process dies; what its calls left on disk stays there.
Crash(p) ==
  /\ tails[p] # <<>> /\ crashes < MaxCrashes
  /\ crashes' = crashes + 1
  /\ call' = [c \in Calls |-> IF \E i \in 1 .. Len(tails[p]) : tails[p][i] = c
                                THEN [call[c] EXCEPT !.pc = "dead"] ELSE call[c]]
  /\ tails' = [tails EXCEPT ![p] = <<>>]
  /\ UNCHANGED <<work, disk, aborted, published>>

\* proper-lockfile: a lock nobody refreshes is stale after ten minutes and
\* may be taken.
LockGoesStale ==
  /\ holder # None /\ At(holder, "dead")
  /\ holder' = None
  /\ UNCHANGED <<work, current, dirs, made, clock, hurt, corrupt, temps, pointers, tails, call,
                 aborted, published, crashes>>

Step(c) ==
  \/ withMapUpdateLock(c) \/ readCurrentGenerationId(c) \/ readGeneration(c)
  \/ scan(c) \/ checkEndingRevision(c) \/ acquireCommitLock(c) \/ readExisting(c)
  \/ writeGenerationSnapshots(c) \/ placeGeneration(c) \/ verifyGenerationSnapshots(c)
  \/ writePointer(c) \/ replaceCurrent(c) \/ cleanupGenerations(c) \/ release(c)

StoreNext ==
  \/ \E c \in Calls : initializeRepoMap(c) \/ Step(c) \/ abort(c)
  \/ ChangeWorktree \/ Damage \/ LockGoesStale
  \/ \E p \in Processes : Crash(p)

StoreSpec == StoreInit /\ [][StoreNext]_storeVars

\* Every running call goes on: all it awaits is the file system or git.
StoreFairSpec == StoreSpec /\ \A c \in Calls : WF_storeVars(Step(c))

-----------------------------------------------------------------------------

Places == {"idle", "queued", "pointer", "previous", "scan", "head", "lock", "existing",
           "temp", "place", "verify", "switch", "rename", "prune", "finally", "ended",
           "dead"}
Outcomes == {"none", "reused", "saved", "failed"}
Record == [pc : Places, head : {0, 1}, prev : Gens \cup {None},
           seen : 0 .. MaxFiles, out : Outcomes]

\* Types of the store, and where every unfinished call stands.
StoreTypeOK ==
  /\ work \in Gens /\ current \in Gens \cup {None}
  /\ dirs \in [Gens -> {"absent", "whole", "damaged"}]
  /\ made \in [Gens -> Nat] /\ clock \in Nat
  /\ hurt \subseteq Gens /\ corrupt \subseteq Gens \X Calls
  /\ temps \subseteq Calls /\ pointers \subseteq Calls
  /\ holder \in Calls \cup {None} /\ tails \in [Processes -> Seq(Calls)]
  /\ aborted \subseteq Calls /\ published \subseteq Calls /\ crashes \in Nat
  /\ call \in [Calls -> Record]

\* "A failure, a cancellation or a race must not make half a generation
\* current": CURRENT names a directory that is complete, through crashes at
\* every step and the pruning of other processes, unless an outsider damaged
\* the directory.
CurrentWhole == current = None \/ dirs[current] = "whole" \/ current \in hurt

\* A call that fails has left CURRENT alone, and one that says it saved has
\* published what it built; pruning that fails is not a failure.
OutcomeTellsPublication ==
  /\ StoreTypeOK
  /\ \A c \in Calls : call[c].out # "none" => (call[c].out = "saved" <=> c \in published)

\* The temporary directory and the pointer file of a call are gone once it has ended,
\* unless its process died (that the file system does remove them is assumed).  What
\* stays besides, and is never removed, is at most one directory per call: the damaged
\* one it found in the place of its own generation.
LeftoversOnlyByCrash ==
  /\ \A c \in temps \cup pointers :
       call[c].pc \in {"place", "switch", "rename", "finally", "dead"}
  /\ corrupt \subseteq {<<generation(c), c>> : c \in Calls}

\* A call that ends tells whether it published, and removes its temporary directory and
\* its pointer file whatever failed; it leaves a damaged generation aside, nothing else.
CommitsAccounted == OutcomeTellsPublication /\ LeftoversOnlyByCrash

\* The refreshes of one process publish in the order of their scans: an older
\* view of the worktree never replaces a newer one.
NewerScanWins ==
  [][\A c \in published' \ published, d \in published :
       ProcessOf[c] = ProcessOf[d] => call[d].seen <= call[c].seen]_storeVars

\* No failure, cancellation or crash leaves the calls behind it waiting.
EveryCallEnds ==
  \A c \in Calls : At(c, "queued") ~> call[c].pc \in {"ended", "dead"}

=============================================================================

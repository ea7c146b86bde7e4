--------------------------- MODULE RepoMapProofs ---------------------------
(***************************************************************************)
(* The store: CURRENT never names half a generation, a call that ends      *)
(* tells whether it published, and the calls of a process publish in the   *)
(* order of their scans, for any calls, processes, number of kept          *)
(* generations, crashes, cancellations and edits of the worktree.          *)
(* The argument: between taking COMMIT_LOCK and releasing it a call is the *)
(* only one that renames or removes directories, so what it placed or      *)
(* found is still there when it renames CURRENT, and what it prunes is not *)
(* what it has just made current.  Between its turn in the queue of its    *)
(* process and its end it is the only one of its process that scans or     *)
(* publishes.                                                              *)
(*                                                                         *)
(* The session: for any calls, sessions, checkouts and failing refreshes,  *)
(* no query answers from a map that misses what had returned before it     *)
(* began, and nothing that begins after /init off undoes it.               *)
(* The argument: the jobs of a session run one at a time and each until    *)
(* its caller went on (QueueExact, CallersExact), so CURRENT only ever     *)
(* gains contents (InOrder); a mutation's job scans what it wrote          *)
(* (MutationsSeen), and whatever a query takes to answer from is CURRENT   *)
(* at that moment (AnswersFresh).  While the branch is off no mutation and *)
(* no query gets so far that it could append, so whoever does was under    *)
(* way when it was switched off (OffInv).                                  *)
(***************************************************************************)
EXTENDS RepoMapStore, RepoMapSession, FiniteSetTheorems, TLAPS


\* Where a call owns the lock, and where its generation is in place.
Committing == {"existing", "temp", "place", "verify", "switch", "rename", "prune"}
Renamed == {"verify", "switch", "rename", "prune"}

LockHeld == \A c \in Calls : call[c].pc \in Committing => holder = c

InPlace(g) == dirs[g] = "whole" \/ g \in hurt

Placed == \A c \in Calls : call[c].pc \in {"switch", "rename", "prune"} => InPlace(generation(c))

PrunesOthers == \A c \in Calls : call[c].pc = "prune" => current = generation(c)

Shapes ==
  /\ dirs \in [Gens -> {"absent", "whole", "damaged"}]
  /\ call \in [Calls -> Record]
  /\ work \in Gens /\ current \in Gens \cup {None} /\ hurt \subseteq Gens

StoreInv == Shapes /\ LockHeld /\ Placed /\ PrunesOthers /\ CurrentWhole

-----------------------------------------------------------------------------

\* Every call's generation is one.
LEMMA GenerationType ==
  ASSUME StoreAssumption, Shapes, NEW c \in Calls
  PROVE  generation(c) \in Gens
BY DEF Shapes, generation, Gens, Record

\* A step of a call that neither publishes nor touches a directory, and that
\* goes to a place the invariant allows it to be.
LEMMA QuietStep ==
  ASSUME StoreAssumption, StoreInv, NEW c \in Calls,
         dirs' = dirs, hurt' = hurt, current' = current,
         NEW r \in Record,
         call' = [call EXCEPT ![c] = r], work' \in Gens,
         \A d \in Calls : d # c /\ call[d].pc \in Committing => holder' = d,
         r.pc \in Committing => holder' = c,
         r.pc \in {"switch", "rename", "prune"} => InPlace(<<r.head, r.seen>>),
         r.pc # "prune"
  PROVE  StoreInv'
<1>1. Shapes'
  BY DEF StoreInv, Shapes
<1>2. \A d \in Calls : call'[d] = IF d = c THEN r ELSE call[d]
  BY DEF StoreInv, Shapes
<1>3. LockHeld'
  BY <1>2 DEF StoreInv, LockHeld
<1>4. Placed'
  BY <1>2 DEF StoreInv, Placed, InPlace, generation
<1>5. PrunesOthers'
  BY <1>2 DEF StoreInv, PrunesOthers, generation
<1>6. CurrentWhole'
  BY DEF StoreInv, CurrentWhole
<1> QED BY <1>1, <1>3, <1>4, <1>5, <1>6 DEF StoreInv

\* What every step of a call has to say about the locks of the others.
LEMMA OthersKeep ==
  ASSUME StoreInv, holder' = holder
  PROVE  \A d \in Calls : call[d].pc \in Committing => holder' = d
BY DEF StoreInv, LockHeld

\* Going somewhere quiet, with the lock as it was.
LEMMA Going ==
  ASSUME StoreAssumption, StoreInv, NEW c \in Calls, NEW place \in Places,
         dirs' = dirs, hurt' = hurt, current' = current, holder' = holder, work' = work,
         call' = [call EXCEPT ![c].pc = place],
         place \in Committing => holder = c,
         place \in {"switch", "rename", "prune"} => InPlace(generation(c)),
         place # "prune"
  PROVE  StoreInv'
<1> DEFINE r == [call[c] EXCEPT !.pc = place]
<1>1. call[c] \in Record
  BY DEF StoreInv, Shapes
<1>2. /\ r \in Record /\ r.pc = place /\ r.head = call[c].head /\ r.seen = call[c].seen
      /\ call' = [call EXCEPT ![c] = r]
  BY <1>1 DEF Goto, Record, Places, Outcomes
<1>3. work' \in Gens
  BY DEF StoreInv, Shapes
<1> HIDE DEF r
<1> QED BY <1>2, <1>3, QuietStep, OthersKeep DEF Record, generation

\* Finishing, with the lock as it was.
LEMMA Finishing ==
  ASSUME StoreAssumption, StoreInv, NEW c \in Calls, NEW out \in Outcomes,
         dirs' = dirs, hurt' = hurt, current' = current, holder' = holder, work' = work,
         call' = [call EXCEPT ![c].pc = "finally", ![c].out = out]
  PROVE  StoreInv'
<1> DEFINE r == [call[c] EXCEPT !.pc = "finally", !.out = out]
<1>1. call \in [Calls -> Record] /\ call[c] \in Record
  BY DEF StoreInv, Shapes
<1>2. r \in Record /\ r.pc = "finally" /\ call' = [call EXCEPT ![c] = r]
  BY <1>1 DEF Finish, Record, Places, Outcomes
<1>3. work' \in Gens
  BY DEF StoreInv, Shapes
<1> HIDE DEF r
<1> QED BY <1>2, <1>3, QuietStep, OthersKeep DEF Record, Committing

-----------------------------------------------------------------------------
(* The steps before the commit. *)

LEMMA InitStoreInv == StoreAssumption /\ StoreInit => StoreInv
BY DEF StoreAssumption, StoreInit, StoreInv, Record, Places, Outcomes, Shapes, Idle, Gens, LockHeld, Placed,
       PrunesOthers, CurrentWhole, Committing

LEMMA BeforeCommit ==
  ASSUME StoreAssumption, StoreInv, NEW c \in Calls,
         \/ initializeRepoMap(c) \/ withMapUpdateLock(c) \/ readCurrentGenerationId(c)
         \/ readGeneration(c) \/ scan(c) \/ checkEndingRevision(c)
  PROVE  StoreInv'
<1>0. call \in [Calls -> Record] /\ call[c] \in Record /\ work \in Gens /\ current \in Gens \cup {None}
  BY DEF StoreInv, Shapes
<1>w. work[1] \in {0, 1} /\ work[2] \in 0 .. MaxFiles
  BY <1>0 DEF Gens
<1>1. ASSUME initializeRepoMap(c) PROVE StoreInv'
  <2> DEFINE r == [call[c] EXCEPT !.pc = "queued", !.head = work[1]]
  <2>1. r \in Record /\ r.pc = "queued" /\ call' = [call EXCEPT ![c] = r]
    BY <1>0, <1>1, <1>w DEF initializeRepoMap, Record, Places, Outcomes
  <2> HIDE DEF r
  <2> QED BY <1>0, <1>1, <2>1, QuietStep, OthersKeep
          DEF initializeRepoMap, disk, Record, Places, Outcomes, Committing
<1>2. ASSUME withMapUpdateLock(c) PROVE StoreInv'
  BY <1>2, Going, Finishing DEF Goto, Finish, Places, Outcomes, withMapUpdateLock, disk, Committing
<1>3. ASSUME readCurrentGenerationId(c) PROVE StoreInv'
  <2>1. PICK place \in {"scan", "previous"} :
          call' = [call EXCEPT ![c].prev = current, ![c].pc = place]
    BY <1>3 DEF readCurrentGenerationId
  <2> DEFINE r == [call[c] EXCEPT !.prev = current, !.pc = place]
  <2>2. r \in Record /\ r.pc = place /\ call' = [call EXCEPT ![c] = r]
    BY <1>0, <2>1 DEF Record, Places, Outcomes
  <2> HIDE DEF r
  <2> QED BY <1>0, <1>3, <2>2, QuietStep, OthersKeep
          DEF readCurrentGenerationId, disk, Record, Places, Outcomes, Committing
<1>4. ASSUME readGeneration(c) PROVE StoreInv'
  <2> DEFINE r == [call[c] EXCEPT !.pc = "scan",
                     !.prev = IF dirs[call[c].prev] = "whole" THEN call[c].prev ELSE None]
  <2>1. r \in Record /\ r.pc = "scan" /\ call' = [call EXCEPT ![c] = r]
    BY <1>0, <1>4 DEF Valid, readGeneration, Record, Places, Outcomes
  <2> HIDE DEF r
  <2> QED BY <1>0, <1>4, <2>1, QuietStep, OthersKeep
          DEF Valid, readGeneration, disk, Record, Places, Outcomes, Committing
<1>5. ASSUME scan(c) PROVE StoreInv'
  <2>1. CASE c \in aborted
    BY <1>5, <2>1, Finishing DEF Goto, Finish, Places, Outcomes, scan, disk
  <2>2. CASE c \notin aborted
    <3> DEFINE r == [call[c] EXCEPT !.pc = "head", !.seen = work[2]]
    <3>1. r \in Record /\ r.pc = "head" /\ call' = [call EXCEPT ![c] = r]
      BY <1>0, <1>w, <1>5, <2>2 DEF scan, Record, Places, Outcomes
    <3> HIDE DEF r
    <3> QED BY <1>0, <1>5, <3>1, QuietStep, OthersKeep
            DEF scan, disk, Record, Places, Outcomes, Committing
  <2> QED BY <2>1, <2>2
<1>6. ASSUME checkEndingRevision(c) PROVE StoreInv'
  BY <1>6, Going, Finishing DEF Goto, Finish, Places, Outcomes, checkEndingRevision, disk, Committing
<1> QED BY <1>1, <1>2, <1>3, <1>4, <1>5, <1>6

-----------------------------------------------------------------------------
(* The steps of a commit. *)

\* Only one call is between taking the lock and releasing it.
LEMMA OnlyOne ==
  ASSUME StoreInv, NEW c \in Calls, NEW d \in Calls,
         call[c].pc \in Committing, call[d].pc \in Committing
  PROVE  c = d
BY DEF StoreInv, LockHeld

LEMMA AcquireKeeps ==
  ASSUME StoreAssumption, StoreInv, NEW c \in Calls, acquireCommitLock(c)
  PROVE  StoreInv'
<1>1. CASE c \in aborted \/ holder # None
  BY <1>1, Finishing DEF Goto, Finish, Places, Outcomes, acquireCommitLock
<1>2. CASE ~(c \in aborted \/ holder # None)
  <2> DEFINE r == [call[c] EXCEPT !.pc = "existing"]
  <2>1. call \in [Calls -> Record] /\ call[c] \in Record /\ work \in Gens
    BY DEF StoreInv, Shapes
  <2>2. r \in Record /\ r.pc = "existing" /\ call' = [call EXCEPT ![c] = r]
    BY <1>2, <2>1 DEF acquireCommitLock, Goto, Record, Places, Outcomes
  <2>3. \A d \in Calls : call[d].pc \notin Committing
    BY <1>2 DEF StoreInv, LockHeld, StoreAssumption
  <2> HIDE DEF r
  <2> QED BY <1>2, <2>1, <2>2, <2>3, QuietStep DEF acquireCommitLock, Record, Places, Outcomes
<1> QED BY <1>1, <1>2

LEMMA WriteKeeps ==
  ASSUME StoreAssumption, StoreInv, NEW c \in Calls,
         readExisting(c) \/ writeGenerationSnapshots(c) \/ writePointer(c)
  PROVE  StoreInv'
<1>0. call[c].pc \in Committing => holder = c
  BY DEF StoreInv, LockHeld
<1>1. ASSUME readExisting(c) PROVE StoreInv'
  BY <1>0, <1>1, Going DEF Goto, Places, Valid, readExisting, At, disk, Committing, InPlace
<1>2. ASSUME writeGenerationSnapshots(c) PROVE StoreInv'
  BY <1>0, <1>2, Going, Finishing DEF Goto, Finish, Places, Outcomes, writeGenerationSnapshots, At, Committing
<1>3. ASSUME writePointer(c) PROVE StoreInv'
  <2>1. InPlace(generation(c))
    BY <1>3 DEF writePointer, At, StoreInv, Placed
  <2> QED BY <1>0, <1>3, <2>1, Going, Finishing DEF Goto, Finish, Places, Outcomes, writePointer, At, Committing
<1> QED BY <1>1, <1>2, <1>3

LEMMA VerifyKeeps ==
  ASSUME StoreAssumption, StoreInv, NEW c \in Calls, verifyGenerationSnapshots(c)
  PROVE  StoreInv'
<1>0. holder = c
  BY DEF StoreInv, LockHeld, verifyGenerationSnapshots, At, Committing
<1> QED BY <1>0, Going, Finishing DEF Goto, Finish, Places, Outcomes, Valid, verifyGenerationSnapshots, disk, Committing, InPlace

\* Whatever stands between switch and prune is the committing call itself, which
\* is at "place", so no other call's generation is disturbed.
LEMMA PlaceKeeps ==
  ASSUME StoreAssumption, StoreInv, NEW c \in Calls, placeGeneration(c)
  PROVE  StoreInv'
<1> DEFINE g == generation(c)
<1>0. call[c].pc = "place" /\ holder = c /\ g \in Gens /\ call[c] \in Record
  BY GenerationType DEF Valid, placeGeneration, At, StoreInv, LockHeld, Committing, Shapes, Record, Places, Outcomes
<1>1. CASE Finish(c, "failed") /\ UNCHANGED <<dirs, hurt>>
  BY <1>1, Finishing DEF Goto, Finish, Places, Outcomes, placeGeneration
<1>2. CASE dirs[g] = "whole" /\ Goto(c, "switch") /\ UNCHANGED <<dirs, hurt>>
  BY <1>0, <1>2, Going DEF Goto, Places, Valid, placeGeneration, InPlace, Committing
<1>n. \A d \in Calls : call[d].pc \notin {"switch", "rename", "prune"}
  BY <1>0, OnlyOne DEF Committing
<1>3. CASE dirs[g] = "damaged" /\ UNCHANGED <<call, clock, hurt, temps>>
           /\ dirs' = [dirs EXCEPT ![g] = "absent"]
  <2>1. Shapes' /\ LockHeld' /\ Placed' /\ PrunesOthers'
    BY <1>3, <1>n DEF Valid, placeGeneration, StoreInv, Shapes, LockHeld, Placed, PrunesOthers
  <2>2. CurrentWhole'
    BY <1>3 DEF Valid, placeGeneration, StoreInv, Shapes, CurrentWhole
  <2> QED BY <2>1, <2>2 DEF StoreInv
<1>4. CASE /\ dirs[g] = "absent" /\ Goto(c, "verify")
           /\ dirs' = [dirs EXCEPT ![g] = "whole"] /\ hurt' = hurt \ {g}
  <2>0. /\ \A d \in Calls : call'[d].pc = IF d = c THEN "verify" ELSE call[d].pc
        /\ call' \in [Calls -> Record]
    BY <1>0, <1>4 DEF Goto, StoreInv, Shapes, Record, Places, Outcomes
  <2>1. Shapes'
    BY <1>0, <1>4, <2>0 DEF Valid, placeGeneration, StoreInv, Shapes, Record, Places, Outcomes
  <2>2. LockHeld'
    BY <1>0, <2>0 DEF Valid, placeGeneration, StoreInv, LockHeld
  <2>3. Placed' /\ PrunesOthers'
    BY <2>0, <1>n DEF Placed, PrunesOthers
  <2>4. CurrentWhole'
    BY <1>4 DEF Valid, placeGeneration, StoreInv, Shapes, CurrentWhole
  <2> QED BY <2>1, <2>2, <2>3, <2>4 DEF StoreInv
<1> QED BY <1>1, <1>2, <1>3, <1>4 DEF placeGeneration, Valid

LEMMA ReplaceKeeps ==
  ASSUME StoreAssumption, StoreInv, NEW c \in Calls, replaceCurrent(c)
  PROVE  StoreInv'
<1>0. call[c].pc = "rename" /\ holder = c /\ generation(c) \in Gens
      /\ InPlace(generation(c)) /\ call[c] \in Record
  BY GenerationType
     DEF replaceCurrent, At, StoreInv, LockHeld, Placed, Committing, Shapes, Record, Places, Outcomes
<1>1. CASE Finish(c, "failed") /\ UNCHANGED <<current, published>>
  BY <1>1, Finishing DEF Goto, Finish, Places, Outcomes, replaceCurrent
<1>2. CASE current' = generation(c) /\ Goto(c, "prune")
  <2>0. /\ \A d \in Calls : d # c => call'[d] = call[d]
        /\ call'[c].pc = "prune" /\ generation(c)' = generation(c)
        /\ call' \in [Calls -> Record]
    BY <1>0, <1>2 DEF Goto, Places, StoreInv, Shapes, Record, generation
  <2>1. Shapes'
    BY <1>0, <1>2, <2>0 DEF replaceCurrent, StoreInv, Shapes, Record, Places, Outcomes
  <2>2. LockHeld'
    BY <1>0, <2>0 DEF replaceCurrent, StoreInv, LockHeld
  <2>3. Placed'
    <3>1. ASSUME NEW d \in Calls, d # c PROVE generation(d)' = generation(d)
      BY <2>0, <3>1 DEF generation
    <3> QED BY <1>0, <2>0, <3>1 DEF replaceCurrent, StoreInv, Placed, InPlace
  <2>4. PrunesOthers'
    BY <1>0, <1>2, <2>0, OnlyOne DEF PrunesOthers, Committing
  <2>5. CurrentWhole'
    BY <1>0, <1>2 DEF replaceCurrent, CurrentWhole, InPlace
  <2> QED BY <2>1, <2>2, <2>3, <2>4, <2>5 DEF StoreInv
<1> QED BY <1>1, <1>2 DEF replaceCurrent

LEMMA PruneKeeps ==
  ASSUME StoreAssumption, StoreInv, NEW c \in Calls, cleanupGenerations(c)
  PROVE  StoreInv'
<1>0. call[c].pc = "prune" /\ holder = c /\ current = generation(c)
      /\ call[c] \in Record /\ current \in Gens
  BY GenerationType
     DEF cleanupGenerations, At, StoreInv, LockHeld, PrunesOthers, Committing, Shapes, Record, Places, Outcomes
<1>1. PICK time \in 0 .. clock : \E torn \in SUBSET {g \in Doomed(c) : made[g] = time} :
        Prune({g \in Doomed(c) : made[g] > time}, torn)
  BY DEF cleanupGenerations
<1> DEFINE gone == {g \in Doomed(c) : made[g] > time}
<1>2. PICK torn \in SUBSET {g \in Doomed(c) : made[g] = time} : Prune(gone, torn)
  BY <1>1
<1>3. current \notin gone /\ current \notin torn
  BY <1>0 DEF Doomed
<1>4. /\ \A d \in Calls : call'[d].pc = IF d = c THEN "finally" ELSE call[d].pc
      /\ call' \in [Calls -> Record]
  BY <1>0 DEF cleanupGenerations, Finish, StoreInv, Shapes, Record, Places, Outcomes
<1>5. dirs' \in [Gens -> {"absent", "whole", "damaged"}]
  BY <1>2 DEF Prune, StoreInv, Shapes
<1>6. hurt' = hurt \ gone
  BY <1>2 DEF Prune
<1> HIDE DEF gone
<1>7. Shapes'
  BY <1>4, <1>5, <1>6 DEF cleanupGenerations, StoreInv, Shapes, Record, Places, Outcomes
<1>8. LockHeld'
  BY <1>4 DEF cleanupGenerations, StoreInv, LockHeld, Committing
<1>9. Placed' /\ PrunesOthers'
  <2>1. \A d \in Calls : call'[d].pc \notin {"switch", "rename", "prune"}
    BY <1>0, <1>4, OnlyOne DEF Committing
  <2> QED BY <2>1 DEF Placed, PrunesOthers
<1>10. CurrentWhole'
  BY <1>0, <1>2, <1>3, <1>6 DEF Prune, cleanupGenerations, StoreInv, CurrentWhole
<1> QED BY <1>7, <1>8, <1>9, <1>10 DEF StoreInv

LEMMA ReleaseKeeps ==
  ASSUME StoreAssumption, StoreInv, NEW c \in Calls, release(c)
  PROVE  StoreInv'
<1> DEFINE r == [call[c] EXCEPT !.pc = "ended"]
<1>1. call \in [Calls -> Record] /\ call[c] \in Record /\ work \in Gens
  BY DEF StoreInv, Shapes
<1>2. r \in Record /\ r.pc = "ended" /\ call' = [call EXCEPT ![c] = r]
  BY <1>1 DEF release, Goto, Record, Places, Outcomes
<1>3. \A d \in Calls : d # c /\ call[d].pc \in Committing => holder' = d
  BY DEF release, StoreInv, LockHeld
<1> HIDE DEF r
<1> QED BY <1>1, <1>2, <1>3, QuietStep DEF release, Record, Committing

-----------------------------------------------------------------------------
(* The surroundings. *)

LEMMA SurroundingsKeep ==
  ASSUME StoreAssumption, StoreInv,
         \/ \E c \in Calls : abort(c)
         \/ ChangeWorktree \/ Damage \/ LockGoesStale
         \/ \E p \in Processes : Crash(p)
  PROVE  StoreInv'
<1>1. ASSUME NEW c \in Calls, abort(c) PROVE StoreInv'
  BY <1>1 DEF abort, disk, StoreInv, Shapes, LockHeld, Placed, PrunesOthers,
              CurrentWhole, InPlace, generation
<1>2. ASSUME ChangeWorktree PROVE StoreInv'
  <2>1. work' \in Gens
    BY <1>2 DEF ChangeWorktree, StoreInv, Shapes, StoreAssumption, Gens
  <2> QED BY <1>2, <2>1 DEF ChangeWorktree, disk, StoreInv, Shapes, LockHeld, Placed,
              PrunesOthers, CurrentWhole, InPlace, generation
<1>3. ASSUME Damage PROVE StoreInv'
  <2>1. PICK g \in Gens : dirs[g] = "whole" /\ dirs' = [dirs EXCEPT ![g] = "damaged"]
                          /\ hurt' = hurt \cup {g}
    BY <1>3 DEF Damage
  <2> QED BY <1>3, <2>1 DEF Damage, StoreInv, Shapes, LockHeld, Placed, PrunesOthers,
              CurrentWhole, InPlace, generation
<1>4. ASSUME LockGoesStale PROVE StoreInv'
  <2>1. \A c \in Calls : call[c].pc \notin Committing
    BY <1>4 DEF LockGoesStale, At, StoreInv, LockHeld, Committing
  <2> QED BY <1>4, <2>1 DEF LockGoesStale, StoreInv, Shapes, LockHeld, Placed,
              PrunesOthers, CurrentWhole, InPlace, generation
<1>5. ASSUME NEW p \in Processes, Crash(p) PROVE StoreInv'
  <2>1. \A c \in Calls : call'[c] = call[c] \/ call'[c] = [call[c] EXCEPT !.pc = "dead"]
    BY <1>5 DEF Crash
  <2>3. \A c \in Calls : call[c] \in Record /\ [call[c] EXCEPT !.pc = "dead"] \in Record
    BY DEF StoreInv, Shapes, Record, Places, Outcomes
  <2>2. call' \in [Calls -> Record]
    <3>1. DOMAIN call' = Calls /\ call' = [c \in Calls |-> call'[c]]
      BY <1>5 DEF Crash
    <3> QED BY <2>1, <2>3, <3>1
  <2>4. \A c \in Calls : call'[c] = call[c] \/ call'[c].pc = "dead"
    BY <2>1, <2>3 DEF Record, Places, Outcomes
  <2>5. Shapes'
    BY <1>5, <2>2 DEF Crash, disk, StoreInv, Shapes, Record, Places, Outcomes
  <2>6. LockHeld'
    BY <1>5, <2>4 DEF Crash, disk, StoreInv, LockHeld, Committing
  <2>7. Placed' /\ PrunesOthers' /\ CurrentWhole'
    BY <1>5, <2>4 DEF Crash, disk, StoreInv, Placed, PrunesOthers, CurrentWhole, InPlace,
                      generation
  <2> QED BY <2>5, <2>6, <2>7 DEF StoreInv
<1> QED BY <1>1, <1>2, <1>3, <1>4, <1>5

LEMMA NextStoreInv == StoreAssumption /\ StoreInv /\ [StoreNext]_storeVars => StoreInv'
<1> SUFFICES ASSUME StoreAssumption, StoreInv, [StoreNext]_storeVars PROVE StoreInv'
  OBVIOUS
<1>1. ASSUME NEW c \in Calls, initializeRepoMap(c) \/ Step(c) PROVE StoreInv'
  BY <1>1, BeforeCommit, AcquireKeeps, WriteKeeps, VerifyKeeps, PlaceKeeps, ReplaceKeeps,
     PruneKeeps, ReleaseKeeps DEF Step
<1>2. CASE UNCHANGED storeVars
  BY <1>2 DEF storeVars, disk, StoreInv, Shapes, LockHeld, Placed, PrunesOthers,
              CurrentWhole, InPlace, generation
<1> QED BY <1>1, <1>2, SurroundingsKeep DEF StoreNext

\* CURRENT never names half a generation: whatever calls race, fail, are
\* cancelled or die, the directory it names is complete unless an outsider
\* damaged it.
THEOREM CurrentStaysWhole == StoreSpec => []CurrentWhole
<1>1. StoreInit => StoreInv
  BY StoreAssumption, InitStoreInv
<1>2. StoreInv /\ [StoreNext]_storeVars => StoreInv'
  BY StoreAssumption, NextStoreInv
<1>3. StoreInv => CurrentWhole
  BY DEF StoreInv
<1> QED BY <1>1, <1>2, <1>3, PTL DEF StoreSpec

-----------------------------------------------------------------------------
(* What a call says when it ends, what it leaves behind, and the order in   *)
(* which the calls of a process publish.                                    *)

\* Where a call has not yet published or failed, and where it has scanned and
\* may still publish.
Undecided == Places \ {"prune", "finally", "ended", "dead"}
Scanned == {"head", "lock"} \cup Committing

\* How far a call is tells whether it has published.
Told ==
  \A c \in Calls :
    /\ call[c].pc \in Undecided => call[c].out = "none" /\ c \notin published
    /\ call[c].pc = "prune" => call[c].out = "none" /\ c \in published
    /\ call[c].out # "none" => (call[c].out = "saved" <=> c \in published)

\* Who still writes or moves finds no whole directory in the way: the lock keeps
\* the others from placing it.
Left ==
  /\ \A c \in temps : call[c].pc \in {"place", "finally", "dead"}
  /\ \A c \in pointers : call[c].pc \in {"rename", "dead"}
  /\ \A c \in Calls : call[c].pc \in {"temp", "place"} => dirs[generation(c)] # "whole"

\* Where a call knows the generation it computed; what is moved aside has its name.
Later == Places \ {"idle", "queued", "pointer", "previous", "scan"}
Aside == \A g \in Gens, c \in Calls :
           <<g, c>> \in corrupt => call[c].pc \in Later /\ g = generation(c)

\* A call that has asked for its turn is in the queue of its process, and a call
\* that has its turn is the first of it.
Waits(c) == \E i \in 1 .. Len(tails[ProcessOf[c]]) : tails[ProcessOf[c]][i] = c
Turns ==
  \A c \in Calls :
    /\ call[c].pc \notin {"idle", "ended", "dead"} => Waits(c)
    /\ call[c].pc \notin {"idle", "queued", "ended", "dead"} =>
         Head(tails[ProcessOf[c]]) = c

\* What was published was seen before the calls that may still publish looked.
ScanOrder ==
  /\ \A c \in Calls : call[c].seen <= work[2]
  /\ \A c \in Calls, d \in published :
       call[c].pc \in Scanned /\ ProcessOf[c] = ProcessOf[d] => call[d].seen <= call[c].seen

CallsInv == StoreInv /\ StoreTypeOK /\ Told /\ Left /\ Aside /\ Turns /\ ScanOrder

-----------------------------------------------------------------------------
(* A step of a call changes its own record. *)

Only(c) == call' \in [Calls -> Record] /\ \A d \in Calls \ {c} : call'[d] = call[d]

\* What c holds after a step: where it is, what it says, and what it was computed from.
Now(c, place, out, rev, seen) ==
  call'[c].pc = place /\ call'[c].out = out /\ call'[c].head = rev /\ call'[c].seen = seen

LEMMA Goes ==
  ASSUME StoreTypeOK, NEW c \in Calls, NEW place \in Places, Goto(c, place)
  PROVE  Only(c) /\ Now(c, place, call[c].out, call[c].head, call[c].seen)
<1> DEFINE r == [call[c] EXCEPT !.pc = place]
<1>1. call \in [Calls -> Record] /\ call[c] \in Record
  BY DEF StoreTypeOK
<1>2. /\ r \in Record /\ r.pc = place /\ r.out = call[c].out /\ r.head = call[c].head
      /\ r.seen = call[c].seen /\ call' = [call EXCEPT ![c] = r]
  BY <1>1 DEF Goto, Record
<1> HIDE DEF r
<1> QED BY <1>1, <1>2 DEF Only, Now

LEMMA Finishes ==
  ASSUME StoreTypeOK, NEW c \in Calls, NEW out \in Outcomes, Finish(c, out)
  PROVE  Only(c) /\ Now(c, "finally", out, call[c].head, call[c].seen)
<1> DEFINE r == [call[c] EXCEPT !.pc = "finally", !.out = out]
<1>1. call \in [Calls -> Record] /\ call[c] \in Record
  BY DEF StoreTypeOK
<1>2. /\ r \in Record /\ r.pc = "finally" /\ r.out = out /\ r.head = call[c].head
      /\ r.seen = call[c].seen /\ call' = [call EXCEPT ![c] = r]
  BY <1>1 DEF Finish, Record, Places
<1> HIDE DEF r
<1> QED BY <1>1, <1>2 DEF Only, Now

\* The steps up to the rename of CURRENT: the call says nothing yet or fails, and has
\* seen the worktree as it was at its scan.
Advances(c) ==
  /\ Only(c) /\ UNCHANGED <<work, tails, aborted, published, crashes>>
  /\ call[c].pc \in Undecided \ {"idle"}
  /\ call[c].pc = "queued" => Head(tails[ProcessOf[c]]) = c
  /\ \/ call'[c].pc \in Undecided \ {"idle"} /\ call'[c].out = call[c].out
     \/ call'[c].pc = "finally" /\ call'[c].out \in {"failed", "reused"}
  /\ \/ call'[c].seen = work[2]
     \/ call'[c].seen = call[c].seen /\ (call'[c].pc \in Scanned => call[c].pc \in Scanned)
  /\ call'[c].pc \in {"temp", "place"} => call[c].pc \in {"existing", "temp", "place"}

LEMMA StepAdvances ==
  ASSUME StoreTypeOK, NEW c \in Calls,
         \/ withMapUpdateLock(c) \/ readCurrentGenerationId(c) \/ readGeneration(c)
         \/ scan(c) \/ checkEndingRevision(c) \/ acquireCommitLock(c) \/ readExisting(c)
         \/ writeGenerationSnapshots(c) \/ placeGeneration(c)
         \/ verifyGenerationSnapshots(c) \/ writePointer(c)
  PROVE  Advances(c)
<1> USE DEF At, Undecided, Scanned, Committing, Places, Outcomes
<1>0. /\ call \in [Calls -> Record] /\ call[c] \in Record
      /\ work[2] \in 0 .. MaxFiles /\ current \in Gens \cup {None}
  BY DEF StoreTypeOK, Gens
<1>1. CASE withMapUpdateLock(c)
  BY <1>1, Goes, Finishes DEF withMapUpdateLock, Advances, Now
<1>2. CASE readCurrentGenerationId(c)
  <2>1. PICK place \in {"scan", "previous"} :
          call' = [call EXCEPT ![c].prev = current, ![c].pc = place]
    BY <1>2 DEF readCurrentGenerationId
  <2> DEFINE r == [call[c] EXCEPT !.prev = current, !.pc = place]
  <2>2. /\ r \in Record /\ r.pc = place /\ r.out = call[c].out /\ r.seen = call[c].seen
        /\ call' = [call EXCEPT ![c] = r]
    BY <1>0, <2>1 DEF Record
  <2> HIDE DEF r
  <2>3. Only(c) /\ call'[c] = r
    BY <1>0, <2>2 DEF Only
  <2> QED BY <1>2, <2>2, <2>3 DEF readCurrentGenerationId, Advances
<1>3. CASE readGeneration(c)
  <2> DEFINE r == [call[c] EXCEPT !.pc = "scan",
                     !.prev = IF dirs[call[c].prev] = "whole" THEN call[c].prev ELSE None]
  <2>1. /\ r \in Record /\ r.pc = "scan" /\ r.out = call[c].out /\ r.seen = call[c].seen
        /\ call' = [call EXCEPT ![c] = r]
    BY <1>0, <1>3 DEF readGeneration, Valid, Record
  <2> HIDE DEF r
  <2>2. Only(c) /\ call'[c] = r
    BY <1>0, <2>1 DEF Only
  <2> QED BY <1>3, <2>1, <2>2 DEF readGeneration, Advances
<1>4. CASE scan(c)
  <2>1. CASE c \in aborted
    BY <1>4, <2>1, Finishes DEF scan, Advances, Now
  <2>2. CASE c \notin aborted
    <3> DEFINE r == [call[c] EXCEPT !.pc = "head", !.seen = work[2]]
    <3>1. /\ r \in Record /\ r.pc = "head" /\ r.out = call[c].out /\ r.seen = work[2]
          /\ call' = [call EXCEPT ![c] = r]
      BY <1>0, <1>4, <2>2 DEF scan, Record
    <3> HIDE DEF r
    <3>2. Only(c) /\ call'[c] = r
      BY <1>0, <3>1 DEF Only
    <3> QED BY <1>4, <3>1, <3>2 DEF scan, Advances
  <2> QED BY <2>1, <2>2
<1>5. CASE checkEndingRevision(c)
  BY <1>5, Goes, Finishes DEF checkEndingRevision, Advances, Now
<1>6. CASE acquireCommitLock(c)
  BY <1>6, Goes, Finishes DEF acquireCommitLock, Advances, Now
<1>7. CASE readExisting(c)
  BY <1>7, Goes, Finishes DEF readExisting, Advances, Now
<1>8. CASE writeGenerationSnapshots(c)
  BY <1>8, Goes, Finishes DEF writeGenerationSnapshots, Advances, Now
<1>9. CASE placeGeneration(c)
  <2>1. \/ Finish(c, "failed") \/ Goto(c, "switch") \/ Goto(c, "verify")
        \/ call' = call
    BY <1>9 DEF placeGeneration
  <2>2. CASE call' = call
    BY <1>0, <1>9, <2>2 DEF placeGeneration, Advances, Only
  <2> QED BY <1>9, <2>1, <2>2, Goes, Finishes DEF placeGeneration, Advances, Now
<1>10. CASE verifyGenerationSnapshots(c)
  BY <1>10, Goes, Finishes DEF verifyGenerationSnapshots, Advances, Now
<1>11. CASE writePointer(c)
  BY <1>11, Goes, Finishes DEF writePointer, Advances, Now
<1> QED BY <1>1, <1>2, <1>3, <1>4, <1>5, <1>6, <1>7, <1>8, <1>9, <1>10, <1>11

\* Such a step keeps what the calls say, their turns and the order of the scans.
LEMMA AdvanceKeeps ==
  ASSUME StoreAssumption, CallsInv, NEW c \in Calls, Advances(c)
  PROVE  Told' /\ Turns' /\ ScanOrder'
<1> USE DEF CallsInv, Advances, Only
<1>1. Told'
  BY DEF Told, Undecided, Places
<1>2. Turns'
  BY DEF Turns, Waits, Undecided, Places
<1>3. ScanOrder'
  <2>1. \A d \in Calls : call[d].seen \in Nat
    BY DEF StoreTypeOK, Record, StoreAssumption
  <2>2. work[2] \in Nat
    BY DEF StoreTypeOK, Gens, StoreAssumption
  <2>3. c \notin published /\ published \subseteq Calls
    BY DEF Told, StoreTypeOK
  <2> QED BY <2>1, <2>2, <2>3 DEF ScanOrder
<1> QED BY <1>1, <1>2, <1>3

\* The steps that ask for a turn, publish, prune and give the turn back.
LEMMA AskKeeps ==
  ASSUME StoreAssumption, CallsInv, NEW c \in Calls, initializeRepoMap(c)
  PROVE  StoreTypeOK' /\ Told' /\ Left' /\ Turns' /\ ScanOrder'
<1> DEFINE r == [call[c] EXCEPT !.pc = "queued", !.head = work[1]]
           p == ProcessOf[c]
<1>0. /\ call \in [Calls -> Record] /\ call[c] \in Record /\ p \in Processes
      /\ work[1] \in {0, 1} /\ tails \in [Processes -> Seq(Calls)]
  BY DEF CallsInv, StoreTypeOK, Gens, StoreAssumption
<1>1. /\ r \in Record /\ r.pc = "queued" /\ r.out = call[c].out /\ r.seen = call[c].seen
      /\ call' = [call EXCEPT ![c] = r]
  BY <1>0 DEF initializeRepoMap, Record, Places
<1> HIDE DEF r
<1>2. Only(c) /\ call'[c] = r /\ call[c].pc = "idle"
  <2>1. /\ call'[c] = r /\ call' \in [Calls -> Record]
        /\ \A d \in Calls : d # c => call'[d] = call[d]
    BY <1>0, <1>1
  <2>2. call[c].pc = "idle"
    BY DEF initializeRepoMap, At
  <2> QED BY <2>1, <2>2 DEF Only
<1>3. tails'[p] = Append(tails[p], c) /\ \A q \in Processes \ {p} : tails'[q] = tails[q]
  BY <1>0 DEF initializeRepoMap
<1>4. tails' \in [Processes -> Seq(Calls)]
  BY <1>0 DEF initializeRepoMap
<1>5. StoreTypeOK'
  BY <1>2, <1>4 DEF CallsInv, StoreTypeOK, Only, initializeRepoMap, disk
<1>6. Told'
  BY <1>1, <1>2 DEF CallsInv, Told, Only, initializeRepoMap, Undecided, Places
<1>7. Left'
  <2>1. \A d \in Calls \ {c} : generation(d)' = generation(d)
    BY <1>2 DEF Only, generation
  <2> QED BY <1>1, <1>2, <2>1 DEF CallsInv, Left, Only, initializeRepoMap, disk, StoreTypeOK
<1>8. Turns'
  <2>1. ASSUME NEW d \in Calls \ {c}, Waits(d)
        PROVE  Waits(d)' /\ Head(tails'[ProcessOf[d]]) = Head(tails[ProcessOf[d]])
    <3>1. ProcessOf[d] \in Processes
      BY DEF StoreAssumption
    <3>2. CASE ProcessOf[d] # p
      BY <1>3, <2>1, <3>1, <3>2 DEF Waits
    <3>3. CASE ProcessOf[d] = p
      <4>1. PICK i \in 1 .. Len(tails[p]) : tails[p][i] = d
        BY <2>1, <3>3 DEF Waits
      <4>2. /\ Len(tails'[p]) = Len(tails[p]) + 1 /\ tails'[p][i] = d
            /\ Len(tails[p]) \in Nat /\ Head(tails'[p]) = Head(tails[p])
        BY <1>0, <1>3, <4>1
      <4> QED BY <3>3, <4>1, <4>2 DEF Waits
    <3> QED BY <3>2, <3>3
  <2>2. Waits(c)'
    <3>1. tails'[p][Len(tails[p]) + 1] = c /\ Len(tails'[p]) = Len(tails[p]) + 1
          /\ Len(tails[p]) \in Nat
      BY <1>0, <1>3
    <3> QED BY <3>1 DEF Waits
  <2> QED BY <1>1, <1>2, <2>1, <2>2 DEF CallsInv, Turns, Only
<1>9. ScanOrder'
  BY <1>1, <1>2 DEF CallsInv, ScanOrder, Only, initializeRepoMap, Scanned, Committing,
                    StoreTypeOK
<1> QED BY <1>5, <1>6, <1>7, <1>8, <1>9

\* While a call publishes, no other call of its process has scanned.
LEMMA OneScans ==
  ASSUME CallsInv, NEW c \in Calls, NEW d \in Calls, ProcessOf[c] = ProcessOf[d],
         call[c].pc \in Scanned \cup {"finally"}, call[d].pc \in Scanned \cup {"finally"}
  PROVE  c = d
BY DEF CallsInv, Turns, Scanned, Committing

LEMMA PublishKeeps ==
  ASSUME StoreAssumption, CallsInv, NEW c \in Calls, replaceCurrent(c)
  PROVE  StoreTypeOK' /\ Told' /\ Left' /\ Turns' /\ ScanOrder'
<1> USE DEF CallsInv, Places, Outcomes, At
<1>0. call[c].pc = "rename" /\ generation(c) \in Gens /\ published \subseteq Calls
      /\ call[c].out = "none"
  BY GenerationType DEF replaceCurrent, StoreInv, StoreTypeOK, Told, Undecided
<1>1. /\ Only(c) /\ pointers' = pointers \ {c}
      /\ \/ /\ current' = generation(c) /\ published' = published \cup {c}
            /\ Now(c, "prune", call[c].out, call[c].head, call[c].seen)
         \/ /\ UNCHANGED <<current, published>>
            /\ Now(c, "finally", "failed", call[c].head, call[c].seen)
  BY Goes, Finishes DEF replaceCurrent
<1>2. StoreTypeOK'
  BY <1>0, <1>1 DEF StoreTypeOK, replaceCurrent, Only
<1>3. Told'
  BY <1>0, <1>1 DEF Told, Only, Now, Undecided
<1>4. Left'
  <2>1. \A d \in Calls \ {c} : generation(d)' = generation(d)
    BY <1>1 DEF Only, generation
  <2>2. /\ temps' = temps /\ dirs' = dirs /\ temps \subseteq Calls /\ pointers \subseteq Calls
        /\ call'[c].pc \in {"prune", "finally"} /\ c \notin temps
    BY <1>0, <1>1 DEF Left, Now, replaceCurrent, StoreTypeOK
  <2>3. \A d \in temps' : call'[d].pc \in {"place", "finally", "dead"}
    BY <1>1, <2>2 DEF Left, Only
  <2>4. \A d \in pointers' : call'[d].pc \in {"rename", "dead"}
    BY <1>1, <2>2 DEF Left, Only
  <2>5. \A d \in Calls : call'[d].pc \in {"temp", "place"} => dirs'[generation(d)'] # "whole"
    BY <1>1, <2>1, <2>2 DEF Left, Only
  <2> QED BY <2>3, <2>4, <2>5 DEF Left
<1>5. Turns'
  BY <1>0, <1>1 DEF Turns, Waits, Only, Now, replaceCurrent
<1>6. ScanOrder'
  <2>1. \A d \in Calls : call'[d].seen = call[d].seen
    BY <1>1 DEF Only, Now
  <2>5. \A d \in Calls : call[d].seen \in Nat
    BY DEF StoreTypeOK, Record, StoreAssumption
  <2>2. published' \subseteq published \cup {c} /\ work' = work
    BY <1>1 DEF replaceCurrent
  <2>3. \A d \in Calls \ {c} : call'[d].pc \in Scanned /\ ProcessOf[d] = ProcessOf[c] => FALSE
    BY <1>0, <1>1, OneScans DEF Only, Scanned, Committing
  <2>4. \A d \in Calls : call'[d].pc \in Scanned => call[d].pc \in Scanned
    BY <1>0, <1>1 DEF Only, Scanned, Committing
  <2> QED BY <1>0, <2>1, <2>2, <2>3, <2>4, <2>5 DEF ScanOrder
<1> QED BY <1>2, <1>3, <1>4, <1>5, <1>6

LEMMA CleanupKeeps ==
  ASSUME StoreAssumption, CallsInv, NEW c \in Calls, cleanupGenerations(c)
  PROVE  StoreTypeOK' /\ Told' /\ Left' /\ Turns' /\ ScanOrder'
<1> USE DEF CallsInv, Places, Outcomes, At
<1>0. call[c].pc = "prune" /\ c \in published /\ published \subseteq Calls
  BY DEF cleanupGenerations, StoreTypeOK, Told
<1>1. Only(c) /\ Now(c, "finally", "saved", call[c].head, call[c].seen)
  BY Finishes DEF cleanupGenerations
<1>2. PICK gone \in SUBSET Gens, torn \in SUBSET Gens : Prune(gone, torn)
  <2>1. PICK time \in 0 .. clock : \E torn \in SUBSET {g \in Doomed(c) : made[g] = time} :
          Prune({g \in Doomed(c) : made[g] > time}, torn)
    BY DEF cleanupGenerations
  <2> DEFINE gone == {g \in Doomed(c) : made[g] > time}
  <2>2. PICK torn \in SUBSET {g \in Doomed(c) : made[g] = time} : Prune(gone, torn)
    BY <2>1
  <2>3. gone \in SUBSET Gens /\ torn \in SUBSET Gens
    BY DEF Doomed
  <2> QED BY <2>2, <2>3
<1>3. StoreTypeOK'
  <2>1. /\ dirs' \in [Gens -> {"absent", "whole", "damaged"}] /\ clock' \in Nat
        /\ made' \in [Gens -> Nat] /\ hurt' \subseteq Gens
    BY <1>2 DEF Prune, StoreTypeOK
  <2> QED BY <1>1, <2>1 DEF StoreTypeOK, cleanupGenerations, Only
<1>4. Told'
  BY <1>0, <1>1 DEF Told, Only, Now, cleanupGenerations, Undecided
<1>5. Left'
  <2>1. \A d \in Calls : call'[d].pc \notin {"temp", "place"}
    BY <1>0, <1>1, OnlyOne DEF Only, Now, Committing
  <2> QED BY <1>0, <1>1, <2>1 DEF Left, Only, Now, cleanupGenerations, StoreTypeOK
<1>6. Turns'
  BY <1>0, <1>1 DEF Turns, Waits, Only, Now, cleanupGenerations
<1>7. ScanOrder'
  BY <1>0, <1>1 DEF ScanOrder, Only, Now, cleanupGenerations, Scanned, Committing
<1> QED BY <1>3, <1>4, <1>5, <1>6, <1>7

LEMMA ReleaseAccounts ==
  ASSUME StoreAssumption, CallsInv, NEW c \in Calls, release(c)
  PROVE  StoreTypeOK' /\ Told' /\ Left' /\ Turns' /\ ScanOrder'
<1> DEFINE p == ProcessOf[c]
<1> USE DEF CallsInv, Places, Outcomes, At
<1>0. /\ call[c].pc = "finally" /\ p \in Processes /\ published \subseteq Calls
      /\ tails \in [Processes -> Seq(Calls)] /\ Head(tails[p]) = c /\ Waits(c)
  BY DEF release, StoreTypeOK, StoreAssumption, Turns
<1>1. Only(c) /\ Now(c, "ended", call[c].out, call[c].head, call[c].seen)
  BY Goes DEF release
<1>2. tails[p] # <<>> /\ tails[p] \in Seq(Calls)
  BY <1>0 DEF Waits
<1>3. /\ tails'[p] = Tail(tails[p]) /\ \A q \in Processes \ {p} : tails'[q] = tails[q]
      /\ tails' \in [Processes -> Seq(Calls)]
  BY <1>0, <1>2 DEF release
<1>4. StoreTypeOK'
  BY <1>1, <1>3 DEF StoreTypeOK, release, Only
<1>5. Told'
  BY <1>0, <1>1 DEF Told, Only, Now, release, Undecided
<1>6. Left'
  <2>1. \A d \in Calls \ {c} : generation(d)' = generation(d)
    BY <1>1 DEF Only, generation
  <2>2. temps' = temps \ {c} /\ UNCHANGED <<pointers, dirs>>
    BY DEF release
  <2>3. c \notin pointers /\ temps \subseteq Calls /\ pointers \subseteq Calls
    BY <1>0 DEF Left, StoreTypeOK
  <2>4. call'[c].pc = "ended" /\ \A d \in Calls \ {c} : call'[d] = call[d]
    BY <1>1 DEF Only, Now
  <2> QED BY <2>1, <2>2, <2>3, <2>4 DEF Left
<1>7. Turns'
  <2>1. ASSUME NEW d \in Calls \ {c}, Waits(d)
        PROVE  Waits(d)'
    <3>1. ProcessOf[d] \in Processes
      BY DEF StoreAssumption
    <3>2. CASE ProcessOf[d] # p
      BY <1>3, <2>1, <3>1, <3>2 DEF Waits
    <3>3. CASE ProcessOf[d] = p
      <4>1. PICK i \in 1 .. Len(tails[p]) : tails[p][i] = d
        BY <2>1, <3>3 DEF Waits
      <4>2. i # 1 /\ Len(tails[p]) \in Nat
        BY <1>0, <1>2, <4>1
      <4>3. /\ Len(Tail(tails[p])) = Len(tails[p]) - 1
            /\ Tail(tails[p])[i - 1] = tails[p][i] /\ i - 1 \in 1 .. Len(tails[p]) - 1
        BY <1>2, <4>1, <4>2
      <4> QED BY <1>3, <3>3, <4>1, <4>3 DEF Waits
    <3> QED BY <3>2, <3>3
  <2>2. ASSUME NEW d \in Calls \ {c}, call[d].pc \notin {"idle", "queued", "ended", "dead"}
        PROVE  Head(tails'[ProcessOf[d]]) = d
    <3>1. ProcessOf[d] \in Processes /\ ProcessOf[d] # p
      BY <1>0, <2>2 DEF StoreAssumption, Turns
    <3> QED BY <1>3, <2>2, <3>1 DEF Turns
  <2> QED BY <1>1, <2>1, <2>2 DEF Turns, Only, Now
<1>8. ScanOrder'
  <2>1. /\ \A d \in Calls : call'[d].seen = call[d].seen
        /\ \A d \in Calls : call'[d].pc \in Scanned => call[d].pc \in Scanned
    BY <1>1 DEF Only, Now, Scanned, Committing
  <2>2. UNCHANGED <<work, published>>
    BY DEF release
  <2> QED BY <1>0, <2>1, <2>2 DEF ScanOrder
<1> QED BY <1>4, <1>5, <1>6, <1>7, <1>8

\* What writing, placing and verifying leave behind.
LEMMA AdvanceLeaves ==
  ASSUME StoreAssumption, CallsInv, NEW c \in Calls, Advances(c),
         \/ withMapUpdateLock(c) \/ readCurrentGenerationId(c) \/ readGeneration(c)
         \/ scan(c) \/ checkEndingRevision(c) \/ acquireCommitLock(c) \/ readExisting(c)
         \/ writeGenerationSnapshots(c) \/ placeGeneration(c)
         \/ verifyGenerationSnapshots(c) \/ writePointer(c)
  PROVE  StoreTypeOK' /\ Left'
<1> USE DEF CallsInv, At
<1>0. /\ call' \in [Calls -> Record] /\ \A d \in Calls \ {c} : call'[d] = call[d]
      /\ UNCHANGED <<work, tails, aborted, published, crashes>>
      /\ generation(c) \in Gens
      /\ \A d \in Calls \ {c} : generation(d)' = generation(d)
  BY GenerationType DEF Advances, Only, StoreInv, generation
<1>1. /\ call[c].pc \notin {"finally", "dead"}
      /\ c \in temps => call[c].pc = "place"
      /\ c \in pointers => call[c].pc = "rename"
      /\ temps \subseteq Calls /\ pointers \subseteq Calls
  BY DEF Advances, Undecided, Left, StoreTypeOK
\* The types follow when what is on disk keeps its type.
<1>2. ASSUME UNCHANGED current, dirs' \in [Gens -> {"absent", "whole", "damaged"}],
             made' \in [Gens -> Nat], clock' \in Nat, hurt' \subseteq Gens,
             corrupt' \subseteq Gens \X Calls,
             temps' \subseteq Calls, pointers' \subseteq Calls, holder' \in Calls \cup {None}
      PROVE  StoreTypeOK'
  BY <1>0, <1>2 DEF StoreTypeOK
\* The steps that touch neither directories nor pointer files.
<1>3. ASSUME UNCHANGED <<current, dirs, made, clock, hurt, corrupt, temps, pointers>>,
             holder' \in {holder, c},
             call[c].pc \notin {"existing", "temp", "place", "rename"}
      PROVE  StoreTypeOK' /\ Left'
  <2>1. StoreTypeOK'
    BY <1>2, <1>3 DEF StoreTypeOK
  <2>2. call'[c].pc \notin {"temp", "place"} /\ c \notin temps /\ c \notin pointers
    BY <1>1, <1>3 DEF Advances
  <2> QED BY <1>0, <1>1, <1>3, <2>1, <2>2 DEF Left
<1>4. CASE withMapUpdateLock(c) \/ readCurrentGenerationId(c) \/ readGeneration(c)
           \/ scan(c) \/ checkEndingRevision(c)
  <2>1. UNCHANGED disk /\ call[c].pc \in {"queued", "pointer", "previous", "scan", "head"}
    BY <1>4 DEF withMapUpdateLock, readCurrentGenerationId, readGeneration, scan,
                checkEndingRevision
  <2> QED BY <1>3, <2>1 DEF disk
<1>5. CASE acquireCommitLock(c) \/ verifyGenerationSnapshots(c)
  <2>1. /\ UNCHANGED <<current, dirs, made, clock, hurt, corrupt, temps, pointers>>
        /\ holder' \in {holder, c} /\ call[c].pc \in {"lock", "verify"}
    BY <1>5 DEF acquireCommitLock, verifyGenerationSnapshots, disk
  <2> QED BY <1>3, <2>1
<1>6. CASE readExisting(c)
  <2>1. UNCHANGED disk /\ call[c].pc = "existing"
        /\ Goto(c, IF dirs[generation(c)] = "whole" THEN "switch" ELSE "temp")
    BY <1>6 DEF readExisting, Valid
  <2>2. /\ call'[c].pc = IF dirs[generation(c)] = "whole" THEN "switch" ELSE "temp"
        /\ generation(c)' = generation(c)
    BY <2>1, Goes DEF Now, Places, generation
  <2>3. StoreTypeOK'
    BY <1>2, <2>1 DEF disk, StoreTypeOK
  <2> QED BY <1>0, <1>1, <2>1, <2>2, <2>3 DEF Left, disk
<1>7. CASE writeGenerationSnapshots(c)
  <2>1. /\ UNCHANGED <<current, dirs, made, clock, hurt, corrupt, pointers, holder>>
        /\ temps' = temps \cup {c} /\ call[c].pc = "temp"
        /\ (Goto(c, "place") \/ Finish(c, "failed"))
    BY <1>7 DEF writeGenerationSnapshots
  <2>2. call'[c].pc \in {"place", "finally"} /\ generation(c)' = generation(c)
    BY <2>1, Goes, Finishes DEF Now, Places, Outcomes, generation
  <2>3. StoreTypeOK'
    BY <1>1, <1>2, <2>1 DEF StoreTypeOK
  <2> QED BY <1>0, <1>1, <2>1, <2>2, <2>3 DEF Left
<1>8. CASE placeGeneration(c)
  <2> DEFINE g == generation(c)
  <2>0. call[c].pc = "place" /\ dirs[g] # "whole" /\ UNCHANGED <<current, pointers, holder>>
    BY <1>8 DEF placeGeneration, Left
  <2>1. \A d \in Calls \ {c} : call[d].pc \notin {"temp", "place"}
    BY <2>0, OnlyOne DEF Committing
  <2>2. CASE Finish(c, "failed") /\ UNCHANGED <<dirs, made, clock, hurt, corrupt, temps>>
    <3>1. call'[c].pc = "finally"
      BY <2>2, Finishes DEF Now, Outcomes
    <3>2. StoreTypeOK'
      BY <1>2, <2>0, <2>2 DEF StoreTypeOK
    <3> QED BY <1>0, <1>1, <2>0, <2>1, <2>2, <3>1, <3>2 DEF Left
  <2>3. CASE /\ UNCHANGED <<call, clock, hurt, temps>>
             /\ dirs' = [dirs EXCEPT ![g] = "absent"] /\ made' = [made EXCEPT ![g] = 0]
             /\ corrupt' = corrupt \cup {<<g, c>>}
    <3>1. StoreTypeOK'
      <4>1. dirs' \in [Gens -> {"absent", "whole", "damaged"}] /\ made' \in [Gens -> Nat]
        BY <1>0, <2>3 DEF StoreTypeOK
      <4>2. corrupt' \subseteq Gens \X Calls
        BY <1>0, <2>3 DEF StoreTypeOK
      <4> QED BY <1>2, <2>0, <2>3, <4>1, <4>2 DEF StoreTypeOK
    <3>2. generation(c)' = g /\ dirs'[g] = "absent"
      BY <1>0, <2>3 DEF generation, StoreTypeOK
    <3> QED BY <1>0, <1>1, <2>0, <2>1, <2>3, <3>1, <3>2 DEF Left
  <2>4. CASE /\ Goto(c, "verify") /\ dirs' = [dirs EXCEPT ![g] = "whole"]
             /\ clock' = clock + 1 /\ made' = [made EXCEPT ![g] = clock']
             /\ hurt' = hurt \ {g} /\ temps' = temps \ {c} /\ UNCHANGED corrupt
    <3>1. call'[c].pc = "verify"
      BY <2>4, Goes DEF Now, Places
    <3>2. StoreTypeOK'
      <4>1. /\ dirs' \in [Gens -> {"absent", "whole", "damaged"}] /\ clock' \in Nat
            /\ made' \in [Gens -> Nat] /\ hurt' \subseteq Gens
        BY <1>0, <2>4 DEF StoreTypeOK
      <4> QED BY <1>1, <1>2, <2>0, <2>4, <4>1 DEF StoreTypeOK
    <3> QED BY <1>0, <1>1, <2>0, <2>1, <2>4, <3>1, <3>2 DEF Left
  <2> QED BY <1>8, <2>0, <2>2, <2>3, <2>4 DEF placeGeneration, Valid
<1>9. CASE writePointer(c)
  <2>1. /\ UNCHANGED <<current, dirs, made, clock, hurt, corrupt, temps, holder>>
        /\ call[c].pc = "switch"
        /\ \/ pointers' = pointers \cup {c} /\ Goto(c, "rename")
           \/ pointers' = pointers /\ Finish(c, "failed")
    BY <1>9 DEF writePointer
  <2>2. call'[c].pc \in {"rename", "finally"} /\ (call'[c].pc # "rename" => pointers' = pointers)
    <3>1. CASE Goto(c, "rename")
      BY <3>1, Goes DEF Now, Places
    <3>2. CASE pointers' = pointers /\ Finish(c, "failed")
      BY <3>2, Finishes DEF Now, Outcomes
    <3> QED BY <2>1, <3>1, <3>2
  <2>3. StoreTypeOK'
    BY <1>1, <1>2, <2>1 DEF StoreTypeOK
  <2> QED BY <1>0, <1>1, <2>1, <2>2, <2>3 DEF Left
<1> QED BY <1>4, <1>5, <1>6, <1>7, <1>8, <1>9

\* What was moved aside keeps its name: its call has scanned already.
LEMMA AsideStays ==
  ASSUME Aside, corrupt' = corrupt,
         \A d \in Calls : call[d].pc \in Later =>
           call'[d].pc \in Later /\ generation(d)' = generation(d)
  PROVE  Aside'
BY DEF Aside

LEMMA StepAside ==
  ASSUME StoreAssumption, CallsInv, NEW c \in Calls, initializeRepoMap(c) \/ Step(c)
  PROVE  Aside'
<1> USE DEF CallsInv, At
<1>0. call \in [Calls -> Record] /\ call[c] \in Record /\ generation(c) \in Gens
  BY GenerationType DEF StoreTypeOK, StoreInv
\* The steps before the call knows its generation.
<1>1. ASSUME corrupt' = corrupt, call[c].pc \notin Later,
             \A d \in Calls \ {c} : call'[d] = call[d]
      PROVE  Aside'
  BY <1>1, AsideStays DEF generation
\* The steps after it.
<1>2. ASSUME NEW place \in Later, NEW out \in Outcomes, Only(c),
             Now(c, place, out, call[c].head, call[c].seen)
      PROVE  /\ \A d \in Calls : call[d].pc \in Later => call'[d].pc \in Later
             /\ \A d \in Calls : generation(d)' = generation(d)
  BY <1>2 DEF Only, Now, generation
<1>3. CASE \/ initializeRepoMap(c) \/ withMapUpdateLock(c) \/ readCurrentGenerationId(c)
           \/ readGeneration(c) \/ scan(c)
  <2>1. corrupt' = corrupt /\ call[c].pc \in {"idle", "queued", "pointer", "previous", "scan"}
    BY <1>3 DEF initializeRepoMap, withMapUpdateLock, readCurrentGenerationId, readGeneration,
                scan, disk
  <2>2. \A d \in Calls \ {c} : call'[d] = call[d]
    BY <1>0, <1>3 DEF initializeRepoMap, withMapUpdateLock, readCurrentGenerationId,
                      readGeneration, scan, Goto, Finish
  <2> QED BY <1>1, <2>1, <2>2 DEF Later
<1>4. CASE \/ checkEndingRevision(c) \/ acquireCommitLock(c) \/ readExisting(c)
           \/ writeGenerationSnapshots(c) \/ verifyGenerationSnapshots(c) \/ writePointer(c)
           \/ replaceCurrent(c) \/ cleanupGenerations(c) \/ release(c)
  <2>1. corrupt' = corrupt
    BY <1>4 DEF checkEndingRevision, acquireCommitLock, readExisting, writeGenerationSnapshots,
                verifyGenerationSnapshots, writePointer, replaceCurrent, cleanupGenerations,
                release, disk
  <2>2. \/ \E place \in Later : Goto(c, place)
        \/ \E out \in Outcomes : Finish(c, out)
    BY <1>4 DEF checkEndingRevision, acquireCommitLock, readExisting, writeGenerationSnapshots,
                verifyGenerationSnapshots, writePointer, replaceCurrent, cleanupGenerations,
                release, Later, Places, Outcomes
  <2>3. Later \subseteq Places /\ "finally" \in Later /\ call[c].out \in Outcomes
    BY <1>0 DEF Later, Places, Record
  <2>4. PICK place \in Later, out \in Outcomes :
          Only(c) /\ Now(c, place, out, call[c].head, call[c].seen)
    BY <2>2, <2>3, Goes, Finishes
  <2> QED BY <1>2, <2>1, <2>4, AsideStays
<1>5. CASE placeGeneration(c)
  <2> DEFINE g == generation(c)
  <2>0. call[c].pc = "place"
    BY <1>5 DEF placeGeneration
  <2>1. CASE corrupt' = corrupt /\ (Finish(c, "failed") \/ Goto(c, "switch") \/ Goto(c, "verify"))
    <3>1. PICK place \in Later, out \in Outcomes :
            Only(c) /\ Now(c, place, out, call[c].head, call[c].seen)
      <4>1. call[c].out \in Outcomes /\ "failed" \in Outcomes
        BY <1>0 DEF Record, Outcomes
      <4> QED BY <2>1, <4>1, Goes, Finishes DEF Later, Places
    <3> QED BY <1>2, <2>1, <3>1, AsideStays
  <2>2. CASE corrupt' = corrupt \cup {<<g, c>>} /\ call' = call
    <3>1. \A d \in Calls : generation(d)' = generation(d)
      BY <2>2 DEF generation
    <3> QED BY <2>0, <2>2, <3>1 DEF Aside, Later, Places
  <2> QED BY <1>5, <2>1, <2>2 DEF placeGeneration
<1> QED BY <1>3, <1>4, <1>5 DEF Step

LEMMA StepAccounts ==
  ASSUME StoreAssumption, CallsInv, NEW c \in Calls, initializeRepoMap(c) \/ Step(c)
  PROVE  StoreTypeOK' /\ Told' /\ Left' /\ Turns' /\ ScanOrder'
<1>1. CASE \/ withMapUpdateLock(c) \/ readCurrentGenerationId(c) \/ readGeneration(c)
           \/ scan(c) \/ checkEndingRevision(c) \/ acquireCommitLock(c) \/ readExisting(c)
           \/ writeGenerationSnapshots(c) \/ placeGeneration(c)
           \/ verifyGenerationSnapshots(c) \/ writePointer(c)
  <2>1. Advances(c)
    BY <1>1, StepAdvances DEF CallsInv
  <2> QED BY <1>1, <2>1, AdvanceKeeps, AdvanceLeaves
<1> QED BY <1>1, AskKeeps, PublishKeeps, CleanupKeeps, ReleaseAccounts DEF Step

-----------------------------------------------------------------------------
(* The surroundings of the calls. *)

LEMMA SurroundingsAccount ==
  ASSUME StoreAssumption, CallsInv,
         \/ \E c \in Calls : abort(c)
         \/ ChangeWorktree \/ Damage \/ LockGoesStale
         \/ \E p \in Processes : Crash(p)
  PROVE  StoreTypeOK' /\ Told' /\ Left' /\ Turns' /\ ScanOrder'
<1> USE DEF CallsInv
<1>1. ASSUME NEW c \in Calls, abort(c) PROVE StoreTypeOK' /\ Told' /\ Left' /\ Turns' /\ ScanOrder'
  BY <1>1 DEF abort, disk, StoreTypeOK, Told, Left, Turns, Waits, ScanOrder, generation
<1>2. CASE ChangeWorktree
  <2>1. UNCHANGED <<disk, tails, call, aborted, published, crashes>>
        /\ work' \in Gens /\ work[2] <= work'[2] /\ work[2] \in Nat /\ work'[2] \in Nat
    BY <1>2 DEF ChangeWorktree, StoreTypeOK, Gens, StoreAssumption
  <2>2. \A d \in Calls : call[d].seen \in Nat
    BY DEF StoreTypeOK, Record, StoreAssumption
  <2> QED BY <2>1, <2>2 DEF disk, StoreTypeOK, Told, Left, Turns, Waits, ScanOrder, generation
<1>3. CASE Damage
  <2>1. PICK g \in Gens : dirs[g] = "whole" /\ dirs' = [dirs EXCEPT ![g] = "damaged"]
                          /\ hurt' = hurt \cup {g}
    BY <1>3 DEF Damage
  <2>2. \A d \in Calls : generation(d) \in Gens /\ generation(d)' = generation(d)
    BY <1>3, GenerationType DEF Damage, StoreInv, generation
  <2>3. StoreTypeOK'
    BY <1>3, <2>1 DEF Damage, StoreTypeOK
  <2>4. UNCHANGED <<work, temps, pointers, tails, call, published>>
    BY <1>3 DEF Damage
  <2>5. \A h \in Gens : dirs[h] # "whole" => dirs'[h] # "whole"
    BY <2>1 DEF StoreTypeOK
  <2>6. Left'
    BY <2>2, <2>4, <2>5 DEF Left
  <2> QED BY <2>3, <2>4, <2>6 DEF Told, Turns, Waits, ScanOrder
<1>4. CASE LockGoesStale
  BY <1>4 DEF LockGoesStale, StoreTypeOK, Told, Left, Turns, Waits, ScanOrder, generation
<1>5. ASSUME NEW p \in Processes, Crash(p)
      PROVE  StoreTypeOK' /\ Told' /\ Left' /\ Turns' /\ ScanOrder'
  <2>1. /\ tails' = [tails EXCEPT ![p] = <<>>] /\ crashes' = crashes + 1
        /\ UNCHANGED <<work, disk, aborted, published>>
        /\ call' = [c \in Calls |-> IF \E i \in 1 .. Len(tails[p]) : tails[p][i] = c
                                      THEN [call[c] EXCEPT !.pc = "dead"] ELSE call[c]]
    BY <1>5 DEF Crash
  <2>2. \A c \in Calls : call[c] \in Record
    BY DEF StoreTypeOK
  <2>3. ASSUME NEW c \in Calls
        PROVE  /\ call'[c] \in Record /\ call'[c].out = call[c].out
               /\ call'[c].seen = call[c].seen /\ call'[c].head = call[c].head
               /\ call'[c].pc \in {call[c].pc, "dead"}
               /\ ProcessOf[c] = p /\ Waits(c) => call'[c].pc = "dead"
    <3> DEFINE r == [call[c] EXCEPT !.pc = "dead"]
    <3>1. /\ r \in Record /\ r.out = call[c].out /\ r.seen = call[c].seen
          /\ r.head = call[c].head /\ r.pc = "dead"
      BY <2>2 DEF Record, Places
    <3>2. call'[c] = IF \E i \in 1 .. Len(tails[p]) : tails[p][i] = c THEN r ELSE call[c]
      BY <2>1
    <3> HIDE DEF r
    <3> QED BY <2>2, <3>1, <3>2 DEF Waits
  <2>4. StoreTypeOK'
    <3>1. call' \in [Calls -> Record]
      BY <2>1, <2>3
    <3>2. tails' \in [Processes -> Seq(Calls)]
      BY <2>1 DEF StoreTypeOK
    <3>3. crashes' \in Nat
      BY <2>1 DEF StoreTypeOK
    <3> QED BY <2>1, <3>1, <3>2, <3>3 DEF StoreTypeOK, disk
  <2>5. Told'
    BY <2>1, <2>3 DEF Told, Undecided
  <2>6. Left'
    <3>1. \A c \in Calls : generation(c)' = generation(c)
      BY <2>3 DEF generation
    <3> QED BY <2>1, <2>3, <3>1 DEF Left, disk, StoreTypeOK
  <2>7. Turns'
    <3>1. \A c \in Calls : ProcessOf[c] # p =>
            tails'[ProcessOf[c]] = tails[ProcessOf[c]] /\ (Waits(c) => Waits(c)')
      BY <2>1 DEF StoreAssumption, StoreTypeOK, Waits
    <3> QED BY <2>3, <3>1 DEF Turns
  <2>8. ScanOrder'
    BY <2>1, <2>3 DEF ScanOrder, Scanned, Committing, StoreTypeOK
  <2> QED BY <2>4, <2>5, <2>6, <2>7, <2>8
<1> QED BY <1>1, <1>2, <1>3, <1>4, <1>5

\* Nothing around the calls moves a directory aside.
LEMMA SurroundingsAside ==
  ASSUME CallsInv, \/ \E c \in Calls : abort(c)
                   \/ ChangeWorktree \/ Damage \/ LockGoesStale
                   \/ \E p \in Processes : Crash(p)
  PROVE  Aside'
<1>1. ASSUME NEW p \in Processes, Crash(p) PROVE Aside'
  <2>1. corrupt' = corrupt
    BY <1>1 DEF Crash, disk
  <2>2. ASSUME NEW d \in Calls, call[d].pc \in Later
        PROVE  call'[d].pc \in Later /\ generation(d)' = generation(d)
    <3> DEFINE r == [call[d] EXCEPT !.pc = "dead"]
    <3>1. r.pc = "dead" /\ r.head = call[d].head /\ r.seen = call[d].seen
      BY DEF CallsInv, StoreTypeOK, Record
    <3>2. call'[d] = r \/ call'[d] = call[d]
      BY <1>1 DEF Crash
    <3> HIDE DEF r
    <3> QED BY <2>2, <3>1, <3>2 DEF generation, Later, Places
  <2> QED BY <2>1, <2>2, AsideStays DEF CallsInv
<1>2. CASE \/ \E c \in Calls : abort(c)
           \/ ChangeWorktree \/ Damage \/ LockGoesStale
  <2>1. UNCHANGED <<corrupt, call>>
    BY <1>2 DEF abort, ChangeWorktree, Damage, LockGoesStale, disk
  <2> QED BY <2>1 DEF CallsInv, Aside, generation
<1> QED BY <1>1, <1>2

LEMMA InitCallsInv == StoreAssumption /\ StoreInit => CallsInv
<1> SUFFICES ASSUME StoreAssumption, StoreInit PROVE CallsInv
  OBVIOUS
<1>1. StoreInv
  BY InitStoreInv
<1>2. \A c \in Calls : call[c] = Idle
  BY DEF StoreInit
<1>3. Idle \in Record /\ <<0, 0>> \in Gens
  BY DEF Idle, Record, Places, Outcomes, Gens, StoreAssumption
<1>4. StoreTypeOK
  BY <1>3 DEF StoreInit, StoreTypeOK
<1>5. Told /\ Left /\ Aside /\ Turns /\ ScanOrder
  BY <1>2 DEF StoreInit, Told, Left, Aside, Turns, ScanOrder, Idle, Undecided, Scanned, Committing
<1> QED BY <1>1, <1>4, <1>5 DEF CallsInv

LEMMA NextCallsInv == StoreAssumption /\ CallsInv /\ [StoreNext]_storeVars => CallsInv'
<1> SUFFICES ASSUME StoreAssumption, CallsInv, [StoreNext]_storeVars PROVE CallsInv'
  OBVIOUS
<1>1. StoreInv'
  BY NextStoreInv DEF CallsInv
<1>2. CASE UNCHANGED storeVars
  <2>1. StoreTypeOK' /\ Told' /\ Left' /\ Aside' /\ Turns' /\ ScanOrder'
    BY <1>2 DEF CallsInv, storeVars, disk, StoreTypeOK, Told, Left, Aside, Turns, Waits, ScanOrder,
                generation
  <2> QED BY <1>1, <2>1 DEF CallsInv
<1>3. ASSUME NEW c \in Calls, initializeRepoMap(c) \/ Step(c) PROVE CallsInv'
  BY <1>1, <1>3, StepAccounts, StepAside DEF CallsInv
<1> QED BY <1>1, <1>2, <1>3, SurroundingsAccount, SurroundingsAside DEF StoreNext, CallsInv

\* commitGeneration, updateRepoMap: a call that ends tells whether it published, and
\* leaves neither a temporary directory nor a pointer file behind unless it died; what it
\* has moved aside for good is the damaged generation it was to write.
THEOREM CommitsAreAccounted == StoreSpec => []CommitsAccounted
<1>1. StoreInit => CallsInv
  BY StoreAssumption, InitCallsInv
<1>2. CallsInv /\ [StoreNext]_storeVars => CallsInv'
  BY StoreAssumption, NextCallsInv
<1>3. CallsInv => CommitsAccounted
  <2>1. CallsInv => corrupt \subseteq {<<generation(c), c>> : c \in Calls}
    BY DEF CallsInv, StoreTypeOK, Aside
  <2> QED BY <2>1 DEF CallsInv, Told, Left, CommitsAccounted, OutcomeTellsPublication,
                      LeftoversOnlyByCrash
<1> QED BY <1>1, <1>2, <1>3, PTL DEF StoreSpec

\* Only the rename of CURRENT publishes, and the call that does it has scanned after
\* every call of its process that published before.
LEMMA PublishesInOrder ==
  ASSUME StoreAssumption, CallsInv, [StoreNext]_storeVars,
         NEW c \in published' \ published, NEW d \in published, ProcessOf[c] = ProcessOf[d]
  PROVE  call[d].seen <= call[c].seen
<1>1. PICK b \in Calls : replaceCurrent(b) /\ published' \in {published, published \cup {b}}
  <2>1. ASSUME NEW b \in Calls, initializeRepoMap(b) \/ Step(b), ~replaceCurrent(b)
        PROVE  published' = published
    BY <2>1 DEF Step, initializeRepoMap, withMapUpdateLock, readCurrentGenerationId,
         readGeneration, scan, checkEndingRevision, acquireCommitLock, readExisting,
         writeGenerationSnapshots, placeGeneration, verifyGenerationSnapshots, writePointer,
         cleanupGenerations, release
  <2>2. ASSUME \/ \E b \in Calls : abort(b)
               \/ ChangeWorktree \/ Damage \/ LockGoesStale
               \/ (\E p \in Processes : Crash(p)) \/ UNCHANGED storeVars
        PROVE  published' = published
    BY <2>2 DEF abort, ChangeWorktree, Damage, LockGoesStale, Crash, storeVars
  <2>3. \E b \in Calls : replaceCurrent(b)
    BY <2>1, <2>2 DEF StoreNext, Step
  <2> QED BY <2>3 DEF replaceCurrent
<1>2. b = c /\ call[c].pc = "rename" /\ published \subseteq Calls
  BY <1>1 DEF replaceCurrent, At, CallsInv, StoreTypeOK
<1> QED BY <1>1, <1>2 DEF CallsInv, ScanOrder, Scanned, Committing

\* withMapUpdateLock: the refreshes of one process publish in the order of their scans,
\* so that an older view of the worktree never replaces a newer one.
THEOREM NewerScansWin == StoreSpec => NewerScanWins
<1>1. StoreInit => CallsInv
  BY StoreAssumption, InitCallsInv
<1>2. CallsInv /\ [StoreNext]_storeVars => CallsInv'
  BY StoreAssumption, NextCallsInv
<1>3. CallsInv /\ [StoreNext]_storeVars
        => [\A c \in published' \ published, d \in published :
              ProcessOf[c] = ProcessOf[d] => call[d].seen <= call[c].seen]_storeVars
  BY StoreAssumption, PublishesInOrder
<1> QED BY <1>1, <1>2, <1>3, PTL DEF StoreSpec, NewerScanWins

-----------------------------------------------------------------------------
(* The session.                                                            *)

\* Where an operation and a job can be, and the types.
Whereabouts == {"idle", "written", "before", "refresh", "updated", "done", "read", "verify",
           "stale", "answered", "timer", "found", "outdated"}
Running == {"scanned", "compared", "ok", "failed"}
JobState ==
  [at : {"none", "queued"} \cup Running, head : 0 .. MaxHeads, files : 0 .. MaxWrites]

SessionShapes ==
  /\ head \in 0 .. MaxHeads /\ files \in 0 .. MaxWrites
  /\ cur \in Generations \cup {Nothing} /\ entry \in Generations \cup {Nothing, Off}
  /\ queue \in Seq(Jobs) /\ cancelled \subseteq Jobs
  /\ job \in [Jobs -> JobState] /\ pc \in [Jobs -> Whereabouts]
  /\ act \in [Jobs -> Generations \cup {Nothing}]
  /\ gen \in [Queries -> Generations \cup {Nothing}]
  /\ wrote \in [Mutations -> 0 .. MaxWrites]
  /\ waits \in [Queries -> Queries \cup {Nothing}]
  /\ known \in [Queries -> SUBSET Mutations]
  /\ stale \in Queries \cup {Nothing} /\ pending \in Runs \cup {Nothing}

\* The contents of the worktree count the mutations that wrote.
FilesCounted == files = Cardinality({m \in Mutations : pc[m] # "idle"})

\* A job is queued once, from the time it is started until its caller has gone on, and
\* only the first one runs.
QueueExact ==
  /\ \A i, k \in 1 .. Len(queue) : queue[i] = queue[k] => i = k
  /\ \A i \in 1 .. Len(queue) : job[queue[i]].at # "none"
  /\ \A j \in Jobs : job[j].at # "none" => \E i \in 1 .. Len(queue) : queue[i] = j
  /\ \A j \in Jobs : job[j].at \in Running => queue # <<>> /\ queue[1] = j

\* A caller that is not a query stays with its job; a query starts at most one.
CallersExact ==
  /\ \A j \in Jobs \ Queries : job[j].at # "none" <=> pc[j] = "refresh"
  /\ \A q \in Queries : pc[q] \in {"idle", "read"} => job[q].at = "none" /\ q \notin cancelled

\* Every job scans what the ones before it published, or more.
InOrder ==
  /\ cur # Nothing => cur.files <= files
  /\ \A j \in Jobs :
       /\ job[j].at \in {"scanned", "compared"} =>
            job[j].files <= files /\ (cur # Nothing => cur.files <= job[j].files)
       /\ job[j].at = "ok" => cur = Built(j)

\* A mutation's job scans what the mutation wrote; once the mutation has returned it
\* is in CURRENT.
MutationsSeen ==
  \A m \in Mutations :
    /\ wrote[m] <= files
    /\ job[m].at \in {"scanned", "compared", "ok"} => wrote[m] <= job[m].files
    /\ pc[m] = "updated" => cur # Nothing /\ wrote[m] <= cur.files

\* A query began after what it knows of had returned, and answers with all of it.
AnswersFresh ==
  \A q \in Queries :
    /\ \A m \in known[q] : pc[m] = "updated"
    /\ pc[q] \in {"verify", "answered"} =>
         \A m \in known[q] : wrote[m] <= gen[q].files

\* Whoever waits waits for a refresh that is queued and not aborted, and the refresh
\* that is shared is one.
WaitersKept ==
  /\ \A q \in Queries :
       /\ waits[q] # Nothing <=> pc[q] = "stale"
       /\ waits[q] # Nothing => job[waits[q]].at # "none" /\ waits[q] \notin cancelled
  /\ stale # Nothing => job[stale].at # "none" /\ stale \notin cancelled

SessionInv ==
  /\ SessionShapes /\ FilesCounted /\ QueueExact /\ CallersExact /\ InOrder
  /\ MutationsSeen /\ AnswersFresh /\ WaitersKept

-----------------------------------------------------------------------------

\* Of the jobs, and of the types.
LEMMA JobsApart ==
  ASSUME SessionAssumption
  PROVE  /\ Mutations \subseteq Jobs \ Queries /\ Runs \subseteq Jobs \ Queries
         /\ Manual \subseteq Jobs \ Queries /\ Queries \subseteq Jobs
         /\ Mutations \cap Runs = {} /\ Mutations \cap Manual = {}
         /\ MaxWrites \in Nat /\ MaxHeads \in Nat /\ Nothing \notin Jobs
BY FS_CardinalityType DEF SessionAssumption, Jobs, MaxWrites

\* What a job that ends leaves behind.
LEMMA TurnEnded ==
  ASSUME SessionAssumption, SessionInv, NEW j \in Jobs, Settled(j), TurnEnds(j)
  PROVE  /\ QueueExact' /\ queue' \in Seq(Jobs) /\ job' \in [Jobs -> JobState]
         /\ job'[j] = NoJob /\ \A k \in Jobs : k # j => job'[k] = job[k]
         /\ \A k \in Jobs : job'[k].at \notin Running
<1> USE DEF SessionInv
<1>1. queue \in Seq(Jobs) /\ queue # <<>> /\ queue[1] = j
  BY DEF Settled, Running, QueueExact, SessionShapes
<1>2. /\ queue' = Tail(queue) /\ queue' \in Seq(Jobs) /\ Len(queue') = Len(queue) - 1
      /\ \A i \in 1 .. Len(queue') : i + 1 \in 1 .. Len(queue) /\ queue'[i] = queue[i + 1]
  BY <1>1 DEF TurnEnds
<1>3. /\ job' \in [Jobs -> JobState] /\ job'[j] = NoJob
      /\ \A k \in Jobs : k # j => job'[k] = job[k]
  <2>1. NoJob \in JobState
    BY JobsApart DEF NoJob, JobState
  <2> QED BY <2>1 DEF TurnEnds, SessionShapes
<1>4. \A k \in Jobs : job'[k].at \notin Running
  BY <1>1, <1>3 DEF QueueExact, NoJob, Running
<1>5. QueueExact'
  <2>1. \A i, k \in 1 .. Len(queue') : queue'[i] = queue'[k] => i = k
    BY <1>2 DEF QueueExact
  <2>2. \A i \in 1 .. Len(queue') : queue'[i] \in Jobs /\ queue'[i] # j
    BY <1>1, <1>2 DEF QueueExact
  <2>3. \A i \in 1 .. Len(queue') : job'[queue'[i]].at # "none"
    BY <1>2, <1>3, <2>2 DEF QueueExact
  <2>4. ASSUME NEW k \in Jobs, job'[k].at # "none" PROVE \E i \in 1 .. Len(queue') : queue'[i] = k
    <3>1. k # j /\ job[k].at # "none"
      BY <1>3, <2>4 DEF NoJob
    <3>2. PICK i \in 1 .. Len(queue) : queue[i] = k
      BY <3>1 DEF QueueExact
    <3>3. i # 1
      BY <1>1, <3>1, <3>2
    <3>4. i - 1 \in 1 .. Len(queue') /\ queue'[i - 1] = k
      BY <1>1, <1>2, <3>2, <3>3
    <3> QED BY <3>4
  <2> QED BY <1>4, <2>1, <2>3, <2>4 DEF QueueExact
<1> QED BY <1>2, <1>3, <1>4, <1>5

\* What a job that is started adds.
LEMMA Started ==
  ASSUME SessionAssumption, SessionInv, NEW j \in Jobs, job[j].at = "none", Enqueue(j)
  PROVE  /\ QueueExact' /\ queue' \in Seq(Jobs) /\ job' \in [Jobs -> JobState]
         /\ job'[j].at = "queued" /\ \A k \in Jobs : k # j => job'[k] = job[k]
         /\ cancelled' = cancelled /\ cur' = cur
<1> USE DEF SessionInv
<1>1. queue \in Seq(Jobs) /\ Len(queue) \in Nat
  BY DEF SessionShapes
<1>2. /\ queue' \in Seq(Jobs) /\ Len(queue') = Len(queue) + 1 /\ queue'[Len(queue) + 1] = j
      /\ \A i \in 1 .. Len(queue) : queue'[i] = queue[i] /\ i \in 1 .. Len(queue')
  BY <1>1 DEF Enqueue
<1>3. /\ job' \in [Jobs -> JobState] /\ job'[j].at = "queued"
      /\ \A k \in Jobs : k # j => job'[k] = job[k]
  <2>1. job[j] \in JobState /\ head \in 0 .. MaxHeads
    BY DEF SessionShapes
  <2>2. [job[j] EXCEPT !.at = "queued", !.head = head] \in JobState
    BY <2>1 DEF JobState
  <2>3. job' = [job EXCEPT ![j] = [job[j] EXCEPT !.at = "queued", !.head = head]]
    BY <2>1 DEF Enqueue, SessionShapes, JobState
  <2>4. [job[j] EXCEPT !.at = "queued", !.head = head].at = "queued"
    BY <2>1 DEF JobState
  <2> QED BY <2>2, <2>3, <2>4 DEF SessionShapes
<1>4. \A i \in 1 .. Len(queue) : queue[i] \in Jobs /\ queue[i] # j
  BY <1>1 DEF QueueExact
<1>5. QueueExact'
  <2>1. \A i \in 1 .. Len(queue') : i \in 1 .. Len(queue) \/ i = Len(queue) + 1
    BY <1>1, <1>2
  <2>2. \A i, k \in 1 .. Len(queue') : queue'[i] = queue'[k] => i = k
    BY <1>2, <1>4, <2>1 DEF QueueExact
  <2>3. \A i \in 1 .. Len(queue') : job'[queue'[i]].at # "none"
    BY <1>2, <1>3, <1>4, <2>1 DEF QueueExact
  <2>4. \A k \in Jobs : job'[k].at # "none" => \E i \in 1 .. Len(queue') : queue'[i] = k
    <3>1. Len(queue) + 1 \in 1 .. Len(queue')
      BY <1>1, <1>2
    <3> QED BY <1>2, <1>3, <3>1 DEF QueueExact
  <2>5. ASSUME NEW k \in Jobs, job'[k].at \in Running PROVE queue' # <<>> /\ queue'[1] = k
    <3>1. job[k].at \in Running
      BY <1>3, <2>5 DEF Running
    <3>2. queue # <<>> /\ queue[1] = k
      BY <3>1 DEF QueueExact
    <3> QED BY <1>1, <1>2, <3>2
  <2> QED BY <2>2, <2>3, <2>4, <2>5 DEF QueueExact
<1> QED BY <1>2, <1>3, <1>5 DEF Enqueue

\* The conjuncts about who wrote what and who answers, when no mutation writes and
\* CURRENT does not move back.
LEMMA CallersGoOn ==
  ASSUME SessionAssumption, SessionInv,
         UNCHANGED <<worktree, wrote>>,
         pc' \in [Jobs -> Whereabouts],
         \A m \in Mutations :
           /\ pc'[m] = "idle" <=> pc[m] = "idle"
           /\ pc[m] = "updated" => pc'[m] = "updated",
         \A m \in Mutations : pc'[m] = "updated" /\ pc[m] # "updated" =>
           cur # Nothing /\ wrote[m] <= cur.files,
         cur' \in Generations \cup {Nothing},
         cur # Nothing => cur' # Nothing /\ cur.files <= cur'.files
  PROVE  /\ FilesCounted'
         /\ \A m \in Mutations : /\ wrote'[m] <= files'
                                 /\ pc'[m] = "updated" => cur' # Nothing /\ wrote'[m] <= cur'.files
<1>1. {m \in Mutations : pc'[m] # "idle"} = {m \in Mutations : pc[m] # "idle"}
  OBVIOUS
<1>2. FilesCounted'
  BY <1>1 DEF SessionInv, FilesCounted, worktree
<1>3. \A m \in Mutations : wrote[m] \in Nat
  BY JobsApart DEF SessionInv, SessionShapes
<1>4. cur \in Generations \cup {Nothing}
  BY DEF SessionInv, SessionShapes
<1>5. \A g \in Generations : g.files \in Nat
  BY JobsApart DEF Generations
<1> QED BY <1>2, <1>3, <1>4, <1>5 DEF SessionInv, MutationsSeen, worktree

\* A step of one operation that neither touches a job nor shares a refresh.
LEMMA OneMoves ==
  ASSUME SessionAssumption, SessionInv, NEW j \in Jobs, NEW p \in Whereabouts,
         pc' = [pc EXCEPT ![j] = p],
         UNCHANGED <<worktree, queue, job, cur, wrote, waits, stale>>,
         cancelled' \subseteq Jobs, \A q \in Queries : q \in cancelled' => q \in cancelled,
         entry' \in Generations \cup {Nothing, Off}, pending' \in Runs \cup {Nothing},
         act' \in [Jobs -> Generations \cup {Nothing}],
         gen' \in [Queries -> Generations \cup {Nothing}],
         known' \in [Queries -> SUBSET Mutations],
         \A q \in Queries : q # j => gen'[q] = gen[q] /\ known'[q] = known[q],
         p # "stale", pc[j] # "stale",
         j \in Mutations => pc[j] # "idle" /\ p # "idle" /\ p # "updated" /\ pc[j] # "updated",
         j \notin Queries => p # "refresh" /\ pc[j] # "refresh",
         j \in Queries =>
           /\ p \in {"idle", "read"} => pc[j] \in {"idle", "read"}
           /\ \A m \in known'[j] : pc[m] = "updated"
           /\ p \in {"verify", "answered"} =>
                \A m \in known'[j] : wrote[m] <= gen'[j].files
  PROVE  SessionInv'
<1> USE DEF worktree
<1>1. /\ pc' \in [Jobs -> Whereabouts] /\ pc'[j] = p
      /\ \A k \in Jobs : k # j => pc'[k] = pc[k]
  BY DEF SessionInv, SessionShapes
<1>2. /\ Queries \subseteq Jobs /\ Mutations \subseteq Jobs \ Queries
      /\ \A g \in Generations : g.files \in Nat
  BY JobsApart DEF Generations
<1>3. SessionShapes'
  BY <1>1 DEF SessionInv, SessionShapes
<1>4. FilesCounted' /\ MutationsSeen'
  <2>1. cur # Nothing => cur \in Generations
    BY DEF SessionInv, SessionShapes
  <2>2. cur # Nothing => cur' # Nothing /\ cur.files <= cur'.files
    BY <1>2, <2>1
  <2>3. \A m \in Mutations : pc'[m] = "updated" => pc[m] = "updated"
    BY <1>1, <1>2
  <2>4. \A m \in Mutations :
          (pc'[m] = "idle" <=> pc[m] = "idle") /\ (pc[m] = "updated" => pc'[m] = "updated")
    BY <1>1, <1>2
  <2>5. cur' \in Generations \cup {Nothing}
    BY DEF SessionInv, SessionShapes
  <2>6. FilesCounted'
    BY <1>1, <2>2, <2>3, <2>4, <2>5, CallersGoOn
  <2> QED BY <2>3, <2>6 DEF SessionInv, MutationsSeen
<1>5. QueueExact'
  BY DEF SessionInv, QueueExact
<1>6. CallersExact'
  BY <1>1, <1>2 DEF SessionInv, CallersExact
<1>7. InOrder'
  BY DEF SessionInv, InOrder, Built
<1>8. AnswersFresh'
  <2>1. \A m \in Mutations : pc[m] = "updated" => pc'[m] = "updated"
    BY <1>1, <1>2
  <2>2. ASSUME NEW q \in Queries, NEW m \in known'[q] PROVE pc'[m] = "updated"
    <3>1. m \in Mutations
      BY <2>2
    <3>2. pc[m] = "updated"
      BY <2>2 DEF SessionInv, AnswersFresh
    <3> QED BY <2>1, <3>1, <3>2
  <2>3. ASSUME NEW q \in Queries, pc'[q] \in {"verify", "answered"}
        PROVE  \A m \in known'[q] : wrote'[m] <= gen'[q].files
    BY <1>1, <1>2, <2>3 DEF SessionInv, AnswersFresh
  <2> QED BY <2>2, <2>3 DEF AnswersFresh
<1>9. WaitersKept'
  BY <1>1, <1>2 DEF SessionInv, WaitersKept, SessionShapes
<1> QED BY <1>3, <1>4, <1>5, <1>6, <1>7, <1>8, <1>9 DEF SessionInv

\* A step that starts the operation's job.
LEMMA StartMoves ==
  ASSUME SessionAssumption, SessionInv, NEW j \in Jobs, NEW p \in {"refresh", "stale"},
         job[j].at = "none", Enqueue(j), pc' = [pc EXCEPT ![j] = p],
         UNCHANGED <<worktree, entry, wrote, gen, known>>,
         pending' \in Runs \cup {Nothing}, act' \in [Jobs -> Generations \cup {Nothing}],
         waits' \in [Queries -> Queries \cup {Nothing}], stale' \in Queries \cup {Nothing},
         pc[j] \notin {"updated", "refresh"}, j \in Mutations => pc[j] # "idle",
         j \notin Queries => p = "refresh", WaitersKept'
  PROVE  SessionInv'
<1> USE DEF worktree
<1>1. /\ pc' \in [Jobs -> Whereabouts] /\ pc'[j] = p
      /\ \A k \in Jobs : k # j => pc'[k] = pc[k]
  BY DEF SessionInv, SessionShapes, Whereabouts
<1>2. /\ Queries \subseteq Jobs /\ Mutations \subseteq Jobs \ Queries
      /\ \A g \in Generations : g.files \in Nat
  BY JobsApart DEF Generations
<1>3. /\ QueueExact' /\ queue' \in Seq(Jobs) /\ job' \in [Jobs -> JobState]
      /\ job'[j].at = "queued" /\ \A k \in Jobs : k # j => job'[k] = job[k]
      /\ cancelled' = cancelled /\ cur' = cur
  BY Started
<1>4. SessionShapes'
  BY <1>1, <1>3 DEF SessionInv, SessionShapes
<1>5. FilesCounted'
  <2>1. {m \in Mutations : pc'[m] # "idle"} = {m \in Mutations : pc[m] # "idle"}
    BY <1>1, <1>2
  <2> QED BY <2>1 DEF SessionInv, FilesCounted
<1>6. MutationsSeen'
  BY <1>1, <1>2, <1>3 DEF SessionInv, MutationsSeen
<1>7. CallersExact'
  BY <1>1, <1>2, <1>3 DEF SessionInv, CallersExact
<1>8. InOrder'
  <2>1. \A k \in Jobs : job'[k].at \in {"scanned", "compared", "ok"} => job'[k] = job[k]
    BY <1>3
  <2> QED BY <1>3, <2>1 DEF SessionInv, InOrder, Built
<1>9. AnswersFresh'
  <2>1. \A q \in Queries : \A m \in known[q] : m \in Mutations /\ pc[m] = "updated"
    BY DEF SessionInv, AnswersFresh, SessionShapes
  <2>2. \A m \in Mutations : pc[m] = "updated" => pc'[m] = "updated"
    BY <1>1, <1>2
  <2>3. \A q \in Queries : pc'[q] \in {"verify", "answered"} => pc[q] \in {"verify", "answered"}
    BY <1>1, <1>2
  <2> QED BY <2>1, <2>2, <2>3 DEF SessionInv, AnswersFresh
<1> QED BY <1>3, <1>4, <1>5, <1>6, <1>7, <1>8, <1>9 DEF SessionInv

\* A step of an operation that is no query: its job is over, and it goes on.
LEMMA TurnMoves ==
  ASSUME SessionAssumption, SessionInv, NEW j \in Jobs \ Queries, NEW p \in {"updated", "done"},
         Settled(j), TurnEnds(j), pc[j] = "refresh", pc' = [pc EXCEPT ![j] = p],
         UNCHANGED <<worktree, cancelled, cur, wrote, gen, known, waits, stale>>,
         entry' \in Generations \cup {Nothing, Off},
         pending' \in Runs \cup {Nothing}, act' \in [Jobs -> Generations \cup {Nothing}],
         p = "updated" => j \in Mutations /\ job[j].at = "ok"
  PROVE  SessionInv'
<1> USE DEF worktree
<1>1. /\ pc' \in [Jobs -> Whereabouts] /\ pc'[j] = p
      /\ \A k \in Jobs : k # j => pc'[k] = pc[k]
  BY DEF SessionInv, SessionShapes, Whereabouts
<1>2. /\ Queries \subseteq Jobs /\ Mutations \subseteq Jobs \ Queries
      /\ \A g \in Generations : g.files \in Nat
  BY JobsApart DEF Generations
<1>3. /\ QueueExact' /\ queue' \in Seq(Jobs) /\ job' \in [Jobs -> JobState]
      /\ job'[j] = NoJob /\ \A k \in Jobs : k # j => job'[k] = job[k]
      /\ \A k \in Jobs : job'[k].at \notin Running
  BY TurnEnded
<1>4. SessionShapes'
  BY <1>1, <1>3 DEF SessionInv, SessionShapes
<1>5. FilesCounted'
  <2>1. {m \in Mutations : pc'[m] # "idle"} = {m \in Mutations : pc[m] # "idle"}
    BY <1>1, <1>2
  <2> QED BY <2>1 DEF SessionInv, FilesCounted
<1>6. MutationsSeen'
  <2>1. p = "updated" => cur # Nothing /\ wrote[j] <= cur.files
    <3>1. SUFFICES ASSUME p = "updated" PROVE cur # Nothing /\ wrote[j] <= cur.files
      OBVIOUS
    <3>2. cur = Built(j) /\ wrote[j] <= job[j].files /\ job[j] \in JobState
      BY <3>1 DEF SessionInv, InOrder, MutationsSeen, SessionShapes
    <3>3. Built(j) \in Generations /\ Built(j).files = job[j].files
      BY <3>2 DEF Built, Generations, JobState
    <3> QED BY <3>2, <3>3 DEF SessionAssumption
  <2> QED BY <1>1, <1>2, <1>3, <2>1 DEF SessionInv, MutationsSeen, Running
<1>7. CallersExact'
  BY <1>1, <1>2, <1>3 DEF SessionInv, CallersExact, NoJob
<1>8. InOrder'
  BY <1>3 DEF SessionInv, InOrder, Running
<1>9. AnswersFresh'
  <2>1. \A q \in Queries : \A m \in known[q] : m \in Mutations /\ pc[m] = "updated"
    BY DEF SessionInv, AnswersFresh, SessionShapes
  <2>2. \A m \in Mutations : pc[m] = "updated" => pc'[m] = "updated"
    BY <1>1, <1>2
  <2>3. \A q \in Queries : pc'[q] = pc[q]
    BY <1>1, <1>2
  <2> QED BY <2>1, <2>2, <2>3 DEF SessionInv, AnswersFresh
<1>10. WaitersKept'
  <2>1. \A q \in Queries : pc'[q] = pc[q] /\ job'[q] = job[q]
    BY <1>1, <1>2, <1>3
  <2>2. /\ \A q \in Queries : waits[q] # Nothing => waits[q] \in Queries
        /\ stale # Nothing => stale \in Queries
    BY DEF SessionInv, SessionShapes
  <2> QED BY <2>1, <2>2 DEF SessionInv, WaitersKept
<1> QED BY <1>3, <1>4, <1>5, <1>6, <1>7, <1>8, <1>9, <1>10 DEF SessionInv

\* A step of one job: the first in the queue scans, compares or publishes.
LEMMA JobMoves ==
  ASSUME SessionAssumption, SessionInv, NEW j \in Jobs, NEW x \in JobState,
         job' = [job EXCEPT ![j] = x], job[j].at # "none", x.at \in Running,
         queue # <<>>, queue[1] = j,
         UNCHANGED <<worktree, queue, cancelled, session, opers>>,
         cur' \in Generations \cup {Nothing},
         cur' = cur \/ (job[j].at = "compared" /\ cur' = Built(j)),
         x.at \in {"scanned", "compared"} =>
           x.files <= files /\ (cur' # Nothing => cur'.files <= x.files),
         x.at = "ok" => cur' = [head |-> x.head, files |-> x.files],
         \/ x.files = files
         \/ x.files = job[j].files /\ job[j].at \in {"scanned", "compared"}
         \/ x.at = "failed"
  PROVE  SessionInv'
<1> USE DEF worktree, session, opers
<1>1. job' \in [Jobs -> JobState] /\ job'[j] = x /\ \A k \in Jobs : k # j => job'[k] = job[k]
  BY DEF SessionInv, SessionShapes
<1>2. /\ Queries \subseteq Jobs /\ Mutations \subseteq Jobs \ Queries
      /\ \A g \in Generations : g.files \in Nat /\ MaxWrites \in Nat
  BY JobsApart DEF Generations
<1>3. x.at # "none"
  BY DEF Running
<1>4. SessionShapes'
  BY <1>1 DEF SessionInv, SessionShapes
<1>5. QueueExact'
  <2>1. \A k \in Jobs : job'[k].at # "none" <=> job[k].at # "none"
    BY <1>1, <1>3
  <2>2. \A i \in 1 .. Len(queue) : queue[i] \in Jobs
    BY DEF SessionInv, SessionShapes
  <2>3. \A k \in Jobs : job'[k].at \in Running => queue[1] = k
    BY <1>1 DEF SessionInv, QueueExact
  <2> QED BY <2>1, <2>2, <2>3 DEF SessionInv, QueueExact
<1>6. CallersExact'
  BY <1>1, <1>2, <1>3 DEF SessionInv, CallersExact
<1>7. \A k \in Jobs : k # j => job[k].at \notin Running
  BY DEF SessionInv, QueueExact
<1>8. cur # Nothing => cur' # Nothing /\ cur.files <= cur'.files
  <2>1. cur # Nothing => cur.files \in Nat
    BY <1>2 DEF SessionInv, SessionShapes
  <2>2. Built(j) # Nothing /\ Built(j).files = job[j].files
    <3>1. Built(j) \in Generations
      BY DEF Built, Generations, SessionInv, SessionShapes, JobState
    <3> QED BY <3>1 DEF SessionAssumption, Built
  <2>3. cur # Nothing /\ job[j].at = "compared" => cur.files <= job[j].files
    BY DEF SessionInv, InOrder
  <2> QED BY <2>1, <2>2, <2>3
<1>9. cur' # Nothing => cur'.files <= files'
  <2>1. cur # Nothing => cur.files <= files
    BY DEF SessionInv, InOrder
  <2>2. job[j].at = "compared" => job[j].files <= files
    BY DEF SessionInv, InOrder
  <2> QED BY <2>1, <2>2 DEF Built
<1>10. InOrder'
  BY <1>1, <1>7, <1>9 DEF InOrder, Built, Running
<1>11. FilesCounted'
  BY DEF SessionInv, FilesCounted
<1>12. MutationsSeen'
  <2>1. ASSUME NEW m \in Mutations PROVE wrote[m] <= files
    BY DEF SessionInv, MutationsSeen
  <2>2. ASSUME NEW m \in Mutations, job'[m].at \in {"scanned", "compared", "ok"}
        PROVE  wrote[m] <= job'[m].files
    <3>1. m = j
      BY <1>1, <1>2, <1>7, <2>2 DEF Running
    <3>2. CASE x.files = files
      BY <1>1, <2>1, <3>1, <3>2
    <3>3. CASE x.files = job[j].files /\ job[j].at \in {"scanned", "compared"}
      BY <1>1, <3>1, <3>3 DEF SessionInv, MutationsSeen
    <3> QED BY <1>1, <2>2, <3>1, <3>2, <3>3
  <2>3. ASSUME NEW m \in Mutations, pc[m] = "updated" PROVE cur' # Nothing /\ wrote[m] <= cur'.files
    <3>1. cur # Nothing /\ wrote[m] <= cur.files /\ wrote[m] \in Nat
      BY <1>2, <2>3 DEF SessionInv, MutationsSeen, SessionShapes
    <3>2. cur.files \in Nat /\ cur'.files \in Nat
      BY <1>2, <1>8, <3>1 DEF SessionInv, SessionShapes
    <3> QED BY <1>8, <3>1, <3>2
  <2> QED BY <2>1, <2>2, <2>3 DEF MutationsSeen
<1>13. AnswersFresh'
  BY DEF SessionInv, AnswersFresh
<1>14. WaitersKept'
  <2>1. \A k \in Jobs : job'[k].at # "none" <=> job[k].at # "none"
    BY <1>1, <1>3
  <2>2. /\ \A q \in Queries : waits[q] # Nothing => waits[q] \in Jobs
        /\ stale # Nothing => stale \in Jobs
    BY <1>2 DEF SessionInv, SessionShapes
  <2> QED BY <2>1, <2>2 DEF SessionInv, WaitersKept
<1> QED BY <1>4, <1>5, <1>6, <1>10, <1>11, <1>12, <1>13, <1>14 DEF SessionInv

\* A job of an operation that is no query disturbs no waiter.
LEMMA WaitersUndisturbed ==
  ASSUME SessionAssumption, SessionInv, NEW j \in Jobs \ Queries, job[j].at = "none", Enqueue(j),
         NEW p, pc' = [pc EXCEPT ![j] = p], UNCHANGED <<waits, stale>>
  PROVE  WaitersKept'
<1>1. \A q \in Queries : pc'[q] = pc[q] /\ job'[q] = job[q]
  BY Started, JobsApart DEF SessionInv, SessionShapes
<1>2. cancelled' = cancelled /\ \A q \in Queries : waits[q] # Nothing => waits[q] \in Queries
  BY DEF Enqueue, SessionInv, SessionShapes
<1>3. stale # Nothing => stale \in Queries
  BY DEF SessionInv, SessionShapes
<1> QED BY <1>1, <1>2, <1>3 DEF SessionInv, WaitersKept

-----------------------------------------------------------------------------
(* The actions.                                                            *)

LEMMA SessionStarts == ASSUME SessionAssumption, SessionInit PROVE SessionInv
<1> USE DEF SessionInit
<1>1. 0 \in 0 .. MaxHeads /\ 0 \in 0 .. MaxWrites
  BY JobsApart
<1>2. SessionShapes
  <2>1. cur \in Generations \cup {Nothing}
    BY <1>1 DEF Generations
  <2>2. NoJob \in JobState
    BY <1>1 DEF NoJob, JobState
  <2> QED BY <1>1, <2>1, <2>2 DEF SessionShapes, Whereabouts
<1>3. FilesCounted
  <2>1. {m \in Mutations : pc[m] # "idle"} = {}
    BY JobsApart
  <2> QED BY <2>1, FS_EmptySet DEF FilesCounted
<1>4. QueueExact
  BY DEF QueueExact, NoJob, Running
<1>5. CallersExact
  BY JobsApart DEF CallersExact, NoJob
<1>6. cur # Nothing => cur.files = 0
  OBVIOUS
<1>7. InOrder /\ MutationsSeen
  BY <1>6, JobsApart DEF InOrder, MutationsSeen, NoJob, Built
<1>8. AnswersFresh /\ WaitersKept
  BY JobsApart DEF AnswersFresh, WaitersKept
<1> QED BY <1>2, <1>3, <1>4, <1>5, <1>7, <1>8 DEF SessionInv

LEMMA ScanKeeps ==
  ASSUME SessionAssumption, SessionInv, NEW j \in Jobs, Scan(j) PROVE SessionInv'
<1> DEFINE x == [job[j] EXCEPT !.at = "scanned", !.files = files]
<1>1. job[j] \in JobState /\ files \in 0 .. MaxWrites /\ queue \in Seq(Jobs)
  BY DEF SessionInv, SessionShapes
<1>2. x \in JobState /\ x.at = "scanned" /\ x.files = files
  BY <1>1 DEF JobState, Running
<1>3. job' = [job EXCEPT ![j] = x]
  BY <1>1 DEF Scan, SessionInv, SessionShapes, JobState
<1>4. queue # <<>> /\ queue[1] = j
  <2>1. PICK i \in 1 .. Len(queue) : queue[i] = j
    BY DEF Scan, SessionInv, QueueExact
  <2> QED BY <1>1, <2>1 DEF Scan
<1>5. files <= files /\ (cur # Nothing => cur.files <= files)
  BY <1>1, JobsApart DEF SessionInv, InOrder
<1>6. /\ UNCHANGED <<worktree, queue, cancelled, session, opers>> /\ cur' = cur
      /\ job[j].at # "none" /\ cur \in Generations \cup {Nothing}
  BY DEF Scan, SessionInv, SessionShapes
<1> HIDE DEF x
<1> QED BY <1>2, <1>3, <1>4, <1>5, <1>6, JobMoves DEF Running

LEMMA CompareKeeps ==
  ASSUME SessionAssumption, SessionInv, NEW j \in Jobs, Compare(j) PROVE SessionInv'
<1> DEFINE p == IF j \notin cancelled /\ job[j].head = head THEN "compared" ELSE "failed"
           x == [job[j] EXCEPT !.at = p]
<1>1. job[j] \in JobState /\ job[j].at = "scanned"
  BY DEF SessionInv, SessionShapes, Compare
<1>2. x \in JobState /\ x.at \in {"compared", "failed"} /\ x.files = job[j].files
  BY <1>1 DEF JobState, Running
<1>3. job' = [job EXCEPT ![j] = x]
  BY <1>1 DEF Compare, SessionInv, SessionShapes, JobState
<1>4. queue # <<>> /\ queue[1] = j
  BY <1>1 DEF SessionInv, QueueExact, Running
<1>5. job[j].files <= files /\ (cur # Nothing => cur.files <= job[j].files)
  BY <1>1 DEF SessionInv, InOrder
<1>6. /\ UNCHANGED <<worktree, queue, cancelled, session, opers>> /\ cur' = cur
      /\ cur \in Generations \cup {Nothing}
  BY DEF Compare, SessionInv, SessionShapes
<1> HIDE DEF x, p
<1> QED BY <1>1, <1>2, <1>3, <1>4, <1>5, <1>6, JobMoves DEF Running

LEMMA JobPublishKeeps ==
  ASSUME SessionAssumption, SessionInv, NEW j \in Jobs, Publish(j) PROVE SessionInv'
<1>1. job[j] \in JobState /\ job[j].at = "compared" /\ job \in [Jobs -> JobState]
  BY DEF SessionInv, SessionShapes, Publish
<1>2. queue # <<>> /\ queue[1] = j
  BY <1>1 DEF SessionInv, QueueExact, Running
<1>3. UNCHANGED <<worktree, queue, cancelled, session, opers>>
  BY DEF Publish
<1>4. Built(j) \in Generations /\ cur \in Generations \cup {Nothing}
  BY <1>1 DEF Built, Generations, JobState, SessionInv, SessionShapes
<1>5. CASE cur' = Built(j) /\ job' = [job EXCEPT ![j].at = "ok"]
  <2> DEFINE x == [job[j] EXCEPT !.at = "ok"]
  <2>1. x \in JobState /\ x.at = "ok" /\ x.files = job[j].files /\ x.head = job[j].head
    BY <1>1 DEF JobState, Running
  <2>2. job' = [job EXCEPT ![j] = x]
    BY <1>1, <1>5 DEF JobState
  <2>3. cur' = [head |-> x.head, files |-> x.files] /\ cur' \in Generations \cup {Nothing}
    BY <1>4, <1>5, <2>1 DEF Built
  <2> HIDE DEF x
  <2> QED BY <1>1, <1>2, <1>3, <1>5, <2>1, <2>2, <2>3, JobMoves DEF Running
<1>6. CASE cur' = cur /\ job' = [job EXCEPT ![j].at = "failed"]
  <2> DEFINE x == [job[j] EXCEPT !.at = "failed"]
  <2>1. x \in JobState /\ x.at = "failed"
    BY <1>1 DEF JobState, Running
  <2>2. job' = [job EXCEPT ![j] = x]
    BY <1>1, <1>6 DEF JobState
  <2> HIDE DEF x
  <2> QED BY <1>1, <1>2, <1>3, <1>4, <1>6, <2>1, <2>2, JobMoves DEF Running
<1> QED BY <1>5, <1>6 DEF Publish, Built

\* The activation is a generation or nothing.
LEMMA ActivationType ==
  ASSUME SessionInv PROVE activation \in Generations \cup {Nothing}
BY DEF SessionInv, SessionShapes, activation

LEMMA MutationWriteKeeps ==
  ASSUME SessionAssumption, SessionInv, NEW m \in Mutations, Write(m) PROVE SessionInv'
<1> USE DEF worktree, jobs, session
<1>1. /\ Queries \subseteq Jobs /\ Mutations \subseteq Jobs \ Queries
      /\ \A g \in Generations : g.files \in Nat /\ MaxWrites \in Nat
  BY JobsApart DEF Generations
<1>2. /\ pc' \in [Jobs -> Whereabouts] /\ pc'[m] = "written" /\ pc[m] = "idle"
      /\ \A k \in Jobs : k # m => pc'[k] = pc[k]
  BY <1>1 DEF SessionInv, SessionShapes, Write, GoOn, Whereabouts
<1>3. FilesCounted' /\ files' \in 0 .. MaxWrites /\ files' = files + 1
  <2> DEFINE S == {k \in Mutations : pc[k] # "idle"}
  <2>1. {k \in Mutations : pc'[k] # "idle"} = S \cup {m} /\ m \notin S
    BY <1>1, <1>2
  <2>2. IsFiniteSet(S) /\ IsFiniteSet(S \cup {m})
    BY FS_Subset, FS_AddElement DEF SessionAssumption
  <2>3. Cardinality(S \cup {m}) = Cardinality(S) + 1
    BY <2>1, <2>2, FS_AddElement
  <2>4. Cardinality(S \cup {m}) <= MaxWrites
    BY FS_Subset DEF SessionAssumption, MaxWrites
  <2>5. files = Cardinality(S) /\ files \in Nat /\ files' = files + 1
    BY <1>1 DEF SessionInv, SessionShapes, FilesCounted, Write
  <2>6. Cardinality(S) + 1 \in 0 .. MaxWrites
    BY <1>1, <2>3, <2>4, <2>5
  <2>7. {k \in Mutations : pc'[k] # "idle"} = S \cup {m}
    BY <2>1
  <2> HIDE DEF S
  <2> QED BY <2>3, <2>5, <2>6, <2>7 DEF FilesCounted
<1>4. wrote' \in [Mutations -> 0 .. MaxWrites] /\ wrote'[m] = files'
      /\ \A k \in Mutations : k # m => wrote'[k] = wrote[k]
  BY <1>3 DEF SessionInv, SessionShapes, Write
<1>5. SessionShapes'
  BY <1>2, <1>3, <1>4 DEF SessionInv, SessionShapes, Write
<1>6. QueueExact'
  BY DEF SessionInv, QueueExact, Write
<1>7. job[m].at = "none"
  BY <1>1, <1>2 DEF SessionInv, CallersExact
<1>8. CallersExact'
  BY <1>1, <1>2, <1>7 DEF SessionInv, CallersExact, Write
<1>9. InOrder'
  <2>1. files \in Nat /\ \A j \in Jobs : job[j].files \in Nat
    BY <1>1 DEF SessionInv, SessionShapes, JobState
  <2>2. cur # Nothing => cur.files \in Nat
    BY <1>1 DEF SessionInv, SessionShapes
  <2> QED BY <1>3, <2>1, <2>2 DEF SessionInv, InOrder, Write, Built
<1>10. MutationsSeen'
  <2>1. files \in Nat /\ \A k \in Mutations : wrote[k] \in Nat
    BY <1>1 DEF SessionInv, SessionShapes
  <2> QED BY <1>1, <1>2, <1>3, <1>4, <1>7, <2>1 DEF SessionInv, MutationsSeen, Write
<1>11. AnswersFresh'
  <2>1. \A q \in Queries : pc'[q] = pc[q]
    BY <1>1, <1>2
  <2>2. \A q \in Queries : \A k \in known[q] : k \in Mutations /\ pc[k] = "updated" /\ k # m
    BY <1>2 DEF SessionInv, AnswersFresh, SessionShapes
  <2>3. \A q \in Queries : \A k \in known[q] : pc'[k] = "updated" /\ wrote'[k] = wrote[k]
    BY <1>1, <1>2, <1>4, <2>2
  <2>4. known' = known /\ gen' = gen
    BY DEF Write
  <2> QED BY <2>1, <2>3, <2>4 DEF SessionInv, AnswersFresh
<1>12. WaitersKept'
  <2>1. \A q \in Queries : pc'[q] = pc[q]
    BY <1>1, <1>2
  <2> QED BY <2>1 DEF SessionInv, WaitersKept, Write
<1> QED BY <1>3, <1>5, <1>6, <1>8, <1>9, <1>10, <1>11, <1>12 DEF SessionInv

LEMMA SyncKeeps ==
  ASSUME SessionAssumption, SessionInv, NEW m \in Mutations, syncMutations(m) PROVE SessionInv'
<1> DEFINE p == IF activation = Nothing THEN "done" ELSE "before"
<1>1. /\ pc' = [pc EXCEPT ![m] = p] /\ p \in {"done", "before"} /\ p \in Whereabouts
      /\ pc[m] = "written" /\ m \in Jobs \ Queries
  BY JobsApart DEF syncMutations, GoOn, Whereabouts
<1>2. act' \in [Jobs -> Generations \cup {Nothing}]
  BY <1>1, ActivationType DEF SessionInv, SessionShapes, syncMutations
<1>3. /\ UNCHANGED <<worktree, queue, job, cur, wrote, waits, stale>>
      /\ UNCHANGED <<cancelled, entry, pending, gen, known>>
  BY DEF syncMutations, jobs, session
<1>4. /\ cancelled \subseteq Jobs /\ entry \in Generations \cup {Nothing, Off}
      /\ pending \in Runs \cup {Nothing} /\ gen \in [Queries -> Generations \cup {Nothing}]
      /\ known \in [Queries -> SUBSET Mutations]
  BY DEF SessionInv, SessionShapes
<1> HIDE DEF p
<1> QED BY <1>1, <1>2, <1>3, <1>4, OneMoves

LEMMA RefreshKeeps ==
  ASSUME SessionAssumption, SessionInv, NEW m \in Mutations, refresh(m) PROVE SessionInv'
<1>1. m \in Jobs \ Queries /\ pc[m] = "before" /\ pc' = [pc EXCEPT ![m] = "refresh"] /\ Enqueue(m)
  BY JobsApart DEF refresh, GoOn
<1>2. job[m].at = "none"
  BY <1>1 DEF SessionInv, CallersExact
<1>3. UNCHANGED <<worktree, entry, wrote, gen, known>> /\ UNCHANGED <<pending, act, waits, stale>>
  BY DEF refresh, session
<1>4. WaitersKept'
  BY <1>1, <1>2, <1>3, WaitersUndisturbed
<1>5. /\ pending \in Runs \cup {Nothing} /\ act \in [Jobs -> Generations \cup {Nothing}]
      /\ waits \in [Queries -> Queries \cup {Nothing}] /\ stale \in Queries \cup {Nothing}
  BY DEF SessionInv, SessionShapes
<1> QED BY <1>1, <1>2, <1>3, <1>4, <1>5, StartMoves

LEMMA AppendKeeps ==
  ASSUME SessionAssumption, SessionInv, NEW m \in Mutations, appendRefreshed(m) PROVE SessionInv'
<1>1. /\ m \in Jobs \ Queries /\ pc[m] = "refresh" /\ TurnEnds(m) /\ Settled(m)
      /\ UNCHANGED <<worktree, cancelled, cur, wrote, gen, known, waits, stale>> /\ pending' = pending
  BY JobsApart DEF appendRefreshed, Settled
<1>2. /\ Built(m) \in Generations /\ act[m] \in Generations \cup {Nothing}
      /\ act' \in [Jobs -> Generations \cup {Nothing}] /\ pending \in Runs \cup {Nothing}
  BY <1>1 DEF SessionInv, SessionShapes, Built, Generations, JobState, appendRefreshed
<1>3. CASE job[m].at = "ok" /\ entry' = Built(m) /\ pc' = [pc EXCEPT ![m] = "updated"]
  BY <1>1, <1>2, <1>3, TurnMoves
<1>4. CASE entry' = act[m] /\ pc' = [pc EXCEPT ![m] = "done"]
  BY <1>1, <1>2, <1>4, TurnMoves
<1> QED BY <1>3, <1>4 DEF appendRefreshed, GoOn

LEMMA BeginQueryKeeps ==
  ASSUME SessionAssumption, SessionInv, NEW q \in Queries, beginQuery(q) PROVE SessionInv'
<1> DEFINE p == IF activation = Nothing THEN "done" ELSE "read"
<1>1. /\ pc' = [pc EXCEPT ![q] = p] /\ p \in {"done", "read"} /\ p \in Whereabouts
      /\ pc[q] = "idle" /\ q \in Jobs /\ q \notin Mutations
  BY JobsApart DEF beginQuery, GoOn, Whereabouts
<1>2. act' \in [Jobs -> Generations \cup {Nothing}]
  BY <1>1, ActivationType DEF SessionInv, SessionShapes, beginQuery
<1>3. /\ known' \in [Queries -> SUBSET Mutations] /\ \A m \in known'[q] : pc[m] = "updated"
      /\ \A r \in Queries : r # q => known'[r] = known[r]
  BY DEF SessionInv, SessionShapes, beginQuery
<1>4. /\ UNCHANGED <<worktree, queue, job, cur, wrote, waits, stale>>
      /\ UNCHANGED <<cancelled, entry, pending, gen>>
  BY DEF beginQuery, jobs, session
<1>5. /\ cancelled \subseteq Jobs /\ entry \in Generations \cup {Nothing, Off}
      /\ pending \in Runs \cup {Nothing} /\ gen \in [Queries -> Generations \cup {Nothing}]
  BY DEF SessionInv, SessionShapes
<1> HIDE DEF p
<1> QED BY <1>1, <1>2, <1>3, <1>4, <1>5, OneMoves

\* What is in CURRENT has all that had returned when the query began.
LEMMA CurrentIsFresh ==
  ASSUME SessionAssumption, SessionInv, NEW q \in Queries
  PROVE  \A m \in known[q] : pc[m] = "updated" /\ cur # Nothing /\ wrote[m] <= cur.files
BY DEF SessionInv, SessionShapes, AnswersFresh, MutationsSeen

LEMMA ReadActivatedKeeps ==
  ASSUME SessionAssumption, SessionInv, NEW q \in Queries, readActivated(q) PROVE SessionInv'
<1>1. /\ pc[q] = "read" /\ q \in Jobs /\ q \notin Mutations
      /\ UNCHANGED <<worktree, wrote, known, entry, pending, act>>
  BY JobsApart DEF readActivated, session
<1>2. /\ cancelled \subseteq Jobs /\ entry \in Generations \cup {Nothing, Off}
      /\ pending \in Runs \cup {Nothing} /\ gen \in [Queries -> Generations \cup {Nothing}]
      /\ known \in [Queries -> SUBSET Mutations] /\ act \in [Jobs -> Generations \cup {Nothing}]
      /\ cur \in Generations \cup {Nothing}
      /\ waits \in [Queries -> Queries \cup {Nothing}] /\ stale \in Queries \cup {Nothing}
      /\ pc \in [Jobs -> Whereabouts]
  BY DEF SessionInv, SessionShapes
<1>3. {"done", "verify"} \subseteq Whereabouts
  BY DEF Whereabouts
<1>4. \A m \in known[q] : pc[m] = "updated"
  BY CurrentIsFresh
<1>5. CASE pc' = [pc EXCEPT ![q] = "done"] /\ UNCHANGED <<jobs, gen, stale, waits>>
  BY <1>1, <1>2, <1>3, <1>4, <1>5, OneMoves DEF jobs
<1>6. CASE /\ cur = act[q] /\ cur.head = head /\ pc' = [pc EXCEPT ![q] = "verify"]
           /\ gen' = [gen EXCEPT ![q] = cur] /\ UNCHANGED <<jobs, stale, waits>>
  <2>1. gen' \in [Queries -> Generations \cup {Nothing}] /\ gen'[q] = cur
        /\ \A r \in Queries : r # q => gen'[r] = gen[r]
    BY <1>2, <1>6
  <2>2. \A m \in known'[q] : pc[m] = "updated" /\ wrote[m] <= gen'[q].files
    BY <1>1, <2>1, CurrentIsFresh
  <2> QED BY <1>1, <1>2, <1>3, <1>6, <2>1, <2>2, OneMoves DEF jobs
<1>7. CASE /\ pc' = [pc EXCEPT ![q] = "stale"] /\ gen' = gen
           /\ stale = Nothing /\ Enqueue(q) /\ stale' = q /\ waits' = [waits EXCEPT ![q] = q]
  <2>1. job[q].at = "none" /\ q \notin cancelled
    BY <1>1 DEF SessionInv, CallersExact
  <2>2. /\ job'[q].at = "queued" /\ cancelled' = cancelled
        /\ \A k \in Jobs : k # q => job'[k] = job[k]
    BY <1>1, <1>7, <2>1, Started
  <2>3. waits' \in [Queries -> Queries \cup {Nothing}] /\ stale' \in Queries \cup {Nothing}
    BY <1>2, <1>7
  <2>4. WaitersKept'
    <3>1. /\ pc'[q] = "stale" /\ waits'[q] = q /\ q # Nothing /\ q \in Jobs
          /\ \A r \in Queries : r # q => pc'[r] = pc[r] /\ waits'[r] = waits[r] /\ r \in Jobs
      BY <1>2, <1>7, JobsApart
    <3>2. \A r \in Queries : waits[r] # Nothing => waits[r] \in Queries
      BY <1>2
    <3>3. \A r \in Jobs : job[r].at # "none" => job'[r].at # "none"
      BY <2>1, <2>2
    <3>4. job'[q].at # "none" /\ stale' = q
      BY <1>7, <2>2
    <3> QED BY <2>1, <2>2, <3>1, <3>2, <3>3, <3>4, JobsApart DEF SessionInv, WaitersKept
  <2> QED BY <1>1, <1>2, <1>7, <2>1, <2>3, <2>4, StartMoves
<1>8. CASE /\ pc' = [pc EXCEPT ![q] = "stale"] /\ gen' = gen
           /\ stale # Nothing /\ UNCHANGED <<jobs, stale>> /\ waits' = [waits EXCEPT ![q] = stale]
  <2>1. /\ pc' \in [Jobs -> Whereabouts] /\ pc'[q] = "stale"
        /\ \A k \in Jobs : k # q => pc'[k] = pc[k]
    BY <1>1, <1>2, <1>8 DEF Whereabouts
  <2>2. /\ waits' \in [Queries -> Queries \cup {Nothing}] /\ waits'[q] = stale
        /\ \A r \in Queries : r # q => waits'[r] = waits[r]
    BY <1>2, <1>8
  <2>3. SessionShapes'
    BY <1>1, <1>8, <2>1, <2>2 DEF SessionInv, SessionShapes, worktree, jobs
  <2>4. FilesCounted' /\ MutationsSeen'
    <3>1. \A m \in Mutations : pc'[m] = pc[m]
      BY <1>1, <2>1, JobsApart
    <3>2. {m \in Mutations : pc'[m] # "idle"} = {m \in Mutations : pc[m] # "idle"}
      BY <3>1
    <3> QED BY <1>1, <1>8, <3>1, <3>2 DEF SessionInv, FilesCounted, MutationsSeen, worktree, jobs
  <2>5. QueueExact' /\ InOrder'
    BY <1>1, <1>8 DEF SessionInv, QueueExact, InOrder, Built, worktree, jobs
  <2>6. CallersExact'
    BY <1>1, <1>8, <2>1, JobsApart DEF SessionInv, CallersExact, jobs
  <2>7. AnswersFresh'
    <3>1. \A m \in Mutations : pc'[m] = pc[m]
      BY <1>1, <2>1, JobsApart
    <3>2. \A r \in Queries : pc'[r] \in {"verify", "answered"} => pc[r] \in {"verify", "answered"}
      BY <2>1, JobsApart
    <3> QED BY <1>1, <1>2, <1>8, <3>1, <3>2 DEF SessionInv, AnswersFresh
  <2>8. WaitersKept'
    BY <1>8, <2>1, <2>2, JobsApart DEF SessionInv, WaitersKept, jobs
  <2> QED BY <2>3, <2>4, <2>5, <2>6, <2>7, <2>8 DEF SessionInv
<1> QED BY <1>5, <1>6, <1>7, <1>8 DEF readActivated, GoOn

LEMMA LeaveKeeps ==
  ASSUME SessionAssumption, SessionInv, NEW q \in Queries, leave(q) PROVE SessionInv'
<1>1. /\ pc[q] = "stale" /\ q \in Jobs /\ q \notin Mutations
      /\ UNCHANGED <<worktree, queue, job, cur, session, act, gen, wrote, known>>
  BY JobsApart DEF leave
<1>2. /\ pc \in [Jobs -> Whereabouts] /\ waits \in [Queries -> Queries \cup {Nothing}]
      /\ cancelled \subseteq Jobs /\ stale \in Queries \cup {Nothing}
  BY DEF SessionInv, SessionShapes
<1>3. /\ pc' \in [Jobs -> Whereabouts] /\ pc'[q] = "done"
      /\ \A k \in Jobs : k # q => pc'[k] = pc[k]
  BY <1>1, <1>2 DEF leave, GoOn, Whereabouts
<1>4. /\ waits' \in [Queries -> Queries \cup {Nothing}] /\ waits'[q] = Nothing
      /\ \A r \in Queries : r # q => waits'[r] = waits[r]
  BY <1>2 DEF leave
<1>5. waits[q] \in Queries /\ job[waits[q]].at # "none"
  BY <1>1, <1>2 DEF SessionInv, WaitersKept
<1>6. pc[waits[q]] \notin {"idle", "read"}
  BY <1>5 DEF SessionInv, CallersExact
<1>7. /\ cancelled' \subseteq Jobs /\ stale' \in Queries \cup {Nothing}
      /\ stale' = stale \/ stale' = Nothing
      /\ cancelled' = cancelled
         \/ /\ cancelled' = cancelled \cup {waits[q]} /\ stale' # waits[q]
            /\ \A p \in Queries : waits'[p] # waits[q]
  BY <1>2, <1>5, JobsApart DEF leave
<1>8. SessionShapes'
  BY <1>1, <1>3, <1>4, <1>7 DEF SessionInv, SessionShapes, worktree, session
<1>9. FilesCounted' /\ MutationsSeen'
  <2>1. \A m \in Mutations : pc'[m] = pc[m]
    BY <1>1, <1>3, JobsApart
  <2>2. {m \in Mutations : pc'[m] # "idle"} = {m \in Mutations : pc[m] # "idle"}
    BY <2>1
  <2> QED BY <1>1, <2>1, <2>2 DEF SessionInv, FilesCounted, MutationsSeen, worktree
<1>10. QueueExact' /\ InOrder'
  BY <1>1 DEF SessionInv, QueueExact, InOrder, Built, worktree
<1>11. CallersExact'
  BY <1>1, <1>3, <1>6, <1>7, JobsApart DEF SessionInv, CallersExact
<1>12. AnswersFresh'
  <2>1. \A m \in Mutations : pc'[m] = pc[m]
    BY <1>1, <1>3, JobsApart
  <2>2. \A r \in Queries : pc'[r] \in {"verify", "answered"} => pc[r] \in {"verify", "answered"}
    BY <1>3, JobsApart
  <2>3. \A r \in Queries : known[r] \subseteq Mutations
    BY DEF SessionInv, SessionShapes
  <2> QED BY <1>1, <2>1, <2>2, <2>3 DEF SessionInv, AnswersFresh
<1>13. WaitersKept'
  <2>1. ASSUME NEW r \in Queries
        PROVE  /\ waits'[r] # Nothing <=> pc'[r] = "stale"
               /\ waits'[r] # Nothing => job'[waits'[r]].at # "none" /\ waits'[r] \notin cancelled'
    BY <1>1, <1>3, <1>4, <1>7, <2>1, JobsApart DEF SessionInv, WaitersKept
  <2>2. stale' # Nothing => job'[stale'].at # "none" /\ stale' \notin cancelled'
    BY <1>1, <1>7 DEF SessionInv, WaitersKept
  <2> QED BY <2>1, <2>2 DEF WaitersKept
<1> QED BY <1>8, <1>9, <1>10, <1>11, <1>12, <1>13 DEF SessionInv

LEMMA SettleKeeps ==
  ASSUME SessionAssumption, SessionInv, NEW o \in Queries, staleRefreshSettles(o) PROVE SessionInv'
<1>1. /\ o \in Jobs /\ Settled(o) /\ TurnEnds(o) /\ Queries \subseteq Jobs
      /\ UNCHANGED <<worktree, cancelled, cur, pending, wrote, known>>
  BY JobsApart DEF staleRefreshSettles
<1>2. /\ QueueExact' /\ queue' \in Seq(Jobs) /\ job' \in [Jobs -> JobState]
      /\ job'[o] = NoJob /\ \A k \in Jobs : k # o => job'[k] = job[k]
      /\ \A k \in Jobs : job'[k].at \notin Running
  BY <1>1, TurnEnded
<1>3. /\ pc \in [Jobs -> Whereabouts] /\ waits \in [Queries -> Queries \cup {Nothing}]
      /\ gen \in [Queries -> Generations \cup {Nothing}] /\ job[o] \in JobState
      /\ act \in [Jobs -> Generations \cup {Nothing}] /\ known \in [Queries -> SUBSET Mutations]
      /\ stale \in Queries \cup {Nothing} /\ entry \in Generations \cup {Nothing, Off}
  BY <1>1 DEF SessionInv, SessionShapes
<1>4. /\ Built(o) \in Generations
      /\ job[o].at = "ok" => cur = Built(o)
  BY <1>1, <1>3 DEF SessionInv, InOrder, Built, Generations, JobState
<1>5. /\ pc' \in [Jobs -> Whereabouts]
      /\ \A j \in Jobs \ Queries : pc'[j] = pc[j]
      /\ \A q \in Queries : waits[q] # o => pc'[q] = pc[q]
      /\ \A q \in Queries : waits[q] = o => pc'[q] = IF job[o].at = "ok" THEN "verify" ELSE "done"
  BY <1>1, <1>3 DEF staleRefreshSettles, Whereabouts
<1>6. /\ waits' \in [Queries -> Queries \cup {Nothing}]
      /\ \A q \in Queries : waits'[q] = IF waits[q] = o THEN Nothing ELSE waits[q]
  BY <1>3 DEF staleRefreshSettles
<1>7. /\ gen' \in [Queries -> Generations \cup {Nothing}]
      /\ \A q \in Queries : gen'[q] = IF waits[q] = o /\ job[o].at = "ok" THEN Built(o) ELSE gen[q]
  BY <1>3, <1>4 DEF staleRefreshSettles
<1>8. /\ act' \in [Jobs -> Generations \cup {Nothing}]
      /\ stale' = IF stale = o THEN Nothing ELSE stale
      /\ entry' \in Generations \cup {Nothing, Off}
  BY <1>3, <1>4 DEF staleRefreshSettles
<1>9. SessionShapes'
  BY <1>1, <1>2, <1>3, <1>5, <1>6, <1>7, <1>8 DEF SessionInv, SessionShapes, worktree
<1>10. \A m \in Mutations : pc'[m] = pc[m] /\ job'[m] = job[m]
  BY <1>1, <1>2, <1>5, JobsApart
<1>11. FilesCounted' /\ MutationsSeen'
  <2>1. {m \in Mutations : pc'[m] # "idle"} = {m \in Mutations : pc[m] # "idle"}
    BY <1>10
  <2> QED BY <1>1, <1>10, <2>1 DEF SessionInv, FilesCounted, MutationsSeen, worktree
<1>12. \A q \in Queries : waits[q] = o => pc[q] = "stale"
  BY <1>1, JobsApart DEF SessionInv, WaitersKept
<1>13. CallersExact'
  <2>1. \A j \in Jobs \ Queries : pc'[j] = pc[j] /\ job'[j] = job[j]
    BY <1>1, <1>2, <1>5
  <2>2. ASSUME NEW q \in Queries, pc'[q] \in {"idle", "read"}
        PROVE  job'[q].at = "none" /\ q \notin cancelled'
    <3>1. pc[q] \in {"idle", "read"}
      BY <1>5, <2>2
    <3> QED BY <1>1, <1>2, <3>1 DEF SessionInv, CallersExact, NoJob
  <2> QED BY <2>1, <2>2 DEF SessionInv, CallersExact
<1>14. InOrder'
  BY <1>1, <1>2 DEF SessionInv, InOrder, Running, worktree
<1>15. AnswersFresh'
  <2>1. \A q \in Queries : \A m \in known[q] : m \in Mutations /\ pc'[m] = "updated"
    BY <1>3, <1>10 DEF SessionInv, AnswersFresh
  <2>2. ASSUME NEW q \in Queries, pc'[q] \in {"verify", "answered"}
        PROVE  \A m \in known[q] : wrote[m] <= gen'[q].files
    <3>1. CASE waits[q] = o
      <4>1. job[o].at = "ok" /\ gen'[q] = cur
        BY <1>4, <1>5, <1>7, <2>2, <3>1
      <4> QED BY <4>1, CurrentIsFresh
    <3>2. CASE waits[q] # o
      BY <1>5, <1>7, <2>2, <3>2 DEF SessionInv, AnswersFresh
    <3> QED BY <3>1, <3>2
  <2> QED BY <1>1, <2>1, <2>2 DEF AnswersFresh
<1>16. WaitersKept'
  <2>1. ASSUME NEW q \in Queries
        PROVE  /\ waits'[q] # Nothing <=> pc'[q] = "stale"
               /\ waits'[q] # Nothing => job'[waits'[q]].at # "none" /\ waits'[q] \notin cancelled'
    <3>1. CASE waits[q] = o
      BY <1>5, <1>6, <3>1
    <3>2. CASE waits[q] # o
      BY <1>1, <1>2, <1>3, <1>5, <1>6, <3>2 DEF SessionInv, WaitersKept
    <3> QED BY <3>1, <3>2
  <2>2. stale' # Nothing => job'[stale'].at # "none" /\ stale' \notin cancelled'
    BY <1>1, <1>2, <1>3, <1>8 DEF SessionInv, WaitersKept
  <2> QED BY <2>1, <2>2 DEF WaitersKept
<1> QED BY <1>2, <1>9, <1>11, <1>13, <1>14, <1>15, <1>16 DEF SessionInv

LEMMA QueryVerifyKeeps ==
  ASSUME SessionAssumption, SessionInv, NEW q \in Queries, verify(q) PROVE SessionInv'
<1>1. /\ pc[q] = "verify" /\ pc' = [pc EXCEPT ![q] = "answered"] /\ "answered" \in Whereabouts
      /\ q \in Jobs /\ q \notin Mutations
  BY JobsApart DEF verify, GoOn, Whereabouts
<1>2. /\ UNCHANGED <<worktree, queue, job, cur, wrote, waits, stale>>
      /\ UNCHANGED <<cancelled, pending, gen, known>>
  BY DEF verify, jobs
<1>3. /\ cancelled \subseteq Jobs /\ entry' \in Generations \cup {Nothing, Off}
      /\ pending \in Runs \cup {Nothing} /\ gen \in [Queries -> Generations \cup {Nothing}]
      /\ known \in [Queries -> SUBSET Mutations] /\ act' \in [Jobs -> Generations \cup {Nothing}]
  BY <1>1 DEF SessionInv, SessionShapes, verify
<1>4. /\ \A m \in known[q] : pc[m] = "updated" /\ wrote[m] <= gen[q].files
  BY <1>1 DEF SessionInv, AnswersFresh
<1> QED BY <1>1, <1>2, <1>3, <1>4, OneMoves

\* A step of an automatic activation, or of a session, that starts and ends no job.
LEMMA RunMoves ==
  ASSUME SessionAssumption, SessionInv, NEW r \in Runs,
         NEW p \in {"done", "timer", "found", "outdated"}, pc' = [pc EXCEPT ![r] = p],
         pc[r] \in {"idle", "timer", "found", "outdated"},
         UNCHANGED <<worktree, queue, job, cur, gen, wrote, stale, waits, known>>,
         cancelled' = cancelled \/ cancelled' = cancelled \cup ({pending} \ {Nothing}),
         entry' \in Generations \cup {Nothing, Off}, pending' \in Runs \cup {Nothing},
         act' \in [Jobs -> Generations \cup {Nothing}]
  PROVE  SessionInv'
<1>1. r \in Jobs /\ r \notin Mutations /\ r \notin Queries /\ p \in Whereabouts
  BY JobsApart DEF Whereabouts
<1>2. /\ cancelled \subseteq Jobs /\ pending \in Runs \cup {Nothing}
      /\ gen \in [Queries -> Generations \cup {Nothing}] /\ known \in [Queries -> SUBSET Mutations]
  BY DEF SessionInv, SessionShapes
<1>3. cancelled' \subseteq Jobs /\ \A q \in Queries : q \in cancelled' => q \in cancelled
  BY <1>2, JobsApart
<1>4. \A q \in Queries : q # r => gen'[q] = gen[q] /\ known'[q] = known[q]
  OBVIOUS
<1>5. p # "stale" /\ pc[r] # "stale" /\ p # "refresh" /\ pc[r] # "refresh"
  OBVIOUS
<1>6. gen' \in [Queries -> Generations \cup {Nothing}] /\ known' \in [Queries -> SUBSET Mutations]
  BY <1>2
<1> QED BY <1>1, <1>3, <1>4, <1>5, <1>6, OneMoves

\* What an automatic activation may set.
LEMMA RunTypes ==
  ASSUME SessionAssumption, SessionInv, NEW r \in Runs
  PROVE  /\ r \in Jobs \ Queries /\ r \notin Mutations /\ pending \in Runs \cup {Nothing}
         /\ entry \in Generations \cup {Nothing, Off} /\ cur \in Generations \cup {Nothing}
         /\ act \in [Jobs -> Generations \cup {Nothing}] /\ act[r] \in Generations \cup {Nothing}
         /\ [act EXCEPT ![r] = Nothing] \in [Jobs -> Generations \cup {Nothing}]
         /\ [act EXCEPT ![r] = cur] \in [Jobs -> Generations \cup {Nothing}]
         /\ Built(r) \in Generations
BY JobsApart DEF SessionInv, SessionShapes, Built, Generations, JobState

LEMMA SessionStartKeeps ==
  ASSUME SessionAssumption, SessionInv, NEW r \in Runs, sessionStart(r) PROVE SessionInv'
<1>1. /\ pc[r] = "idle" /\ cancelled' = cancelled \cup ({pending} \ {Nothing})
      /\ UNCHANGED <<worktree, queue, job, cur, gen, wrote, stale, waits, known>>
      /\ UNCHANGED <<entry, act>>
  BY DEF sessionStart
<1>2. PICK p \in {"done", "timer"} : pc' = [pc EXCEPT ![r] = p] /\ pending' \in Runs \cup {Nothing}
  BY DEF sessionStart, GoOn
<1> QED BY <1>1, <1>2, RunMoves, RunTypes

LEMMA DiscoverKeeps ==
  ASSUME SessionAssumption, SessionInv, NEW r \in Runs, discover(r) PROVE SessionInv'
<1>1. /\ pc[r] = "timer" /\ cancelled' = cancelled /\ entry' = entry
      /\ UNCHANGED <<worktree, queue, job, cur, gen, wrote, stale, waits, known>>
  BY DEF discover, jobs
<1>2. PICK p \in {"done", "found", "outdated"} : pc' = [pc EXCEPT ![r] = p]
  BY DEF discover, GoOn, EndRun
<1>3. pending' \in Runs \cup {Nothing} /\ act' \in [Jobs -> Generations \cup {Nothing}]
  BY RunTypes DEF discover, EndRun
<1> QED BY <1>1, <1>2, <1>3, RunMoves, RunTypes

LEMMA ActivateKeeps ==
  ASSUME SessionAssumption, SessionInv, NEW r \in Runs, activate(r) PROVE SessionInv'
<1>1. /\ pc[r] = "found" /\ cancelled' = cancelled /\ pc' = [pc EXCEPT ![r] = "done"]
      /\ UNCHANGED <<worktree, queue, job, cur, gen, wrote, stale, waits, known>>
  BY DEF activate, jobs, EndRun, GoOn
<1>2. /\ pending' \in Runs \cup {Nothing} /\ act' \in [Jobs -> Generations \cup {Nothing}]
      /\ entry' \in Generations \cup {Nothing, Off}
  BY RunTypes DEF activate, EndRun
<1> QED BY <1>1, <1>2, RunMoves

LEMMA StartRefreshKeeps ==
  ASSUME SessionAssumption, SessionInv, NEW r \in Runs, startRefresh(r) PROVE SessionInv'
<1>1. /\ pc[r] = "outdated" /\ entry' = entry /\ act' = [act EXCEPT ![r] = Nothing]
      /\ UNCHANGED <<worktree, gen, wrote, stale, waits, known>>
  BY DEF startRefresh
<1>2. /\ stale \in Queries \cup {Nothing} /\ waits \in [Queries -> Queries \cup {Nothing}]
      /\ job[r].at = "none"
  BY <1>1, RunTypes DEF SessionInv, SessionShapes, CallersExact
<1>3. CASE pc' = [pc EXCEPT ![r] = "refresh"] /\ Enqueue(r) /\ pending' = pending
  <2>1. WaitersKept'
    BY <1>1, <1>2, <1>3, RunTypes, WaitersUndisturbed
  <2> QED BY <1>1, <1>2, <1>3, <2>1, RunTypes, StartMoves
<1>4. CASE EndRun(r) /\ UNCHANGED jobs
  <2>1. /\ pc' = [pc EXCEPT ![r] = "done"] /\ pending' \in Runs \cup {Nothing}
        /\ cancelled' = cancelled /\ UNCHANGED <<queue, job, cur>>
    BY <1>4, RunTypes DEF EndRun, GoOn, jobs
  <2> QED BY <1>1, <2>1, RunMoves, RunTypes
<1> QED BY <1>3, <1>4 DEF startRefresh, GoOn

LEMMA RefreshedKeeps ==
  ASSUME SessionAssumption, SessionInv, NEW r \in Runs, refreshed(r) PROVE SessionInv'
<1>1. /\ pc[r] = "refresh" /\ Settled(r) /\ TurnEnds(r) /\ pc' = [pc EXCEPT ![r] = "done"]
      /\ UNCHANGED <<worktree, cancelled, cur, wrote, gen, known, waits, stale>> /\ act' = act
  BY DEF refreshed, EndRun, GoOn
<1>2. pending' \in Runs \cup {Nothing} /\ entry' \in Generations \cup {Nothing, Off}
  BY RunTypes DEF refreshed, EndRun
<1> QED BY <1>1, <1>2, RunTypes, TurnMoves

LEMMA InitializeKeeps ==
  ASSUME SessionAssumption, SessionInv, NEW i \in Manual, initialize(i) PROVE SessionInv'
<1>1. /\ pc[i] = "idle" /\ pc' = [pc EXCEPT ![i] = "refresh"] /\ Enqueue(i)
      /\ i \in Jobs \ Queries /\ i \notin Mutations
      /\ UNCHANGED <<worktree, entry, wrote, gen, known>> /\ UNCHANGED <<pending, act, waits, stale>>
  BY JobsApart DEF initialize, GoOn
<1>2. /\ stale \in Queries \cup {Nothing} /\ waits \in [Queries -> Queries \cup {Nothing}]
      /\ job[i].at = "none" /\ pending \in Runs \cup {Nothing}
      /\ act \in [Jobs -> Generations \cup {Nothing}]
  BY <1>1 DEF SessionInv, SessionShapes, CallersExact
<1>3. WaitersKept'
  BY <1>1, <1>2, WaitersUndisturbed
<1> QED BY <1>1, <1>2, <1>3, StartMoves

LEMMA InitializedKeeps ==
  ASSUME SessionAssumption, SessionInv, NEW i \in Manual, initialized(i) PROVE SessionInv'
<1>1. /\ pc[i] = "refresh" /\ Settled(i) /\ TurnEnds(i) /\ pc' = [pc EXCEPT ![i] = "done"]
      /\ i \in Jobs \ Queries /\ act' = act /\ pending' = pending
      /\ UNCHANGED <<worktree, cancelled, cur, wrote, gen, known, waits, stale>>
  BY JobsApart DEF initialized, GoOn
<1>2. /\ pending \in Runs \cup {Nothing} /\ entry' \in Generations \cup {Nothing, Off}
      /\ act \in [Jobs -> Generations \cup {Nothing}]
  BY <1>1 DEF initialized, SessionInv, SessionShapes, Built, Generations, JobState
<1> QED BY <1>1, <1>2, TurnMoves

\* A step that leaves the operations alone: the session ends, the map is switched off,
\* another revision is checked out.
LEMMA CommandsKeep ==
  ASSUME SessionAssumption, SessionInv,
         UNCHANGED <<files, queue, job, cur, opers>>,
         head' \in 0 .. MaxHeads, entry' \in Generations \cup {Nothing, Off},
         pending' \in Runs \cup {Nothing}, cancelled' \subseteq Jobs,
         \A q \in Queries : q \in cancelled' => q \in cancelled
  PROVE  SessionInv'
<1> USE DEF opers
<1>1. SessionShapes'
  BY DEF SessionInv, SessionShapes
<1>2. FilesCounted' /\ MutationsSeen' /\ QueueExact'
  BY DEF SessionInv, FilesCounted, MutationsSeen, QueueExact
<1>3. CallersExact' /\ InOrder' /\ AnswersFresh'
  BY DEF SessionInv, CallersExact, InOrder, AnswersFresh, Built
<1>4. WaitersKept'
  BY DEF SessionInv, WaitersKept, SessionShapes
<1> QED BY <1>1, <1>2, <1>3, <1>4 DEF SessionInv

LEMMA SessionKeeps ==
  ASSUME SessionAssumption, SessionInv, [SessionNext]_sessionVars PROVE SessionInv'
<1>0. /\ head \in 0 .. MaxHeads /\ entry \in Generations \cup {Nothing, Off} /\ MaxHeads \in Nat
      /\ pending \in Runs \cup {Nothing} /\ cancelled \subseteq Jobs
  BY JobsApart DEF SessionInv, SessionShapes
<1>1. CASE sessionShutdown
  <2>1. /\ UNCHANGED <<files, queue, job, cur, opers>> /\ head' = head /\ entry' = entry
        /\ pending' = Nothing /\ cancelled' = cancelled \cup {pending} /\ pending \in Runs
    BY <1>0, <1>1 DEF sessionShutdown, worktree
  <2> QED BY <1>0, <2>1, JobsApart, CommandsKeep
<1>2. CASE turnOff
  <2>1. /\ UNCHANGED <<files, queue, job, cur, opers>> /\ head' = head /\ entry' = Off
        /\ pending' = pending /\ cancelled' = cancelled
    BY <1>2 DEF turnOff, worktree, jobs
  <2> QED BY <1>0, <2>1, CommandsKeep
<1>3. CASE Checkout
  <2>1. /\ UNCHANGED <<files, queue, job, cur, opers>> /\ entry' = entry
        /\ pending' = pending /\ cancelled' = cancelled /\ head' \in 0 .. MaxHeads
    BY <1>0, <1>3 DEF Checkout, session, jobs
  <2> QED BY <1>0, <2>1, CommandsKeep
<1>4. CASE UNCHANGED sessionVars
  <2>1. /\ UNCHANGED <<files, queue, job, cur, opers>> /\ head' = head /\ entry' = entry
        /\ pending' = pending /\ cancelled' = cancelled
    BY <1>4 DEF sessionVars, worktree, jobs, session
  <2> QED BY <1>0, <2>1, CommandsKeep
<1>5. ASSUME NEW j \in Jobs, Scan(j) \/ Compare(j) \/ Publish(j) PROVE SessionInv'
  BY <1>5, ScanKeeps, CompareKeeps, JobPublishKeeps
<1>6. ASSUME NEW m \in Mutations, Write(m) \/ MutationStep(m) PROVE SessionInv'
  BY <1>6, MutationWriteKeeps, SyncKeeps, RefreshKeeps, AppendKeeps DEF MutationStep
<1>7. ASSUME NEW q \in Queries, beginQuery(q) \/ QueryStep(q) \/ leave(q) PROVE SessionInv'
  BY <1>7, BeginQueryKeeps, ReadActivatedKeeps, QueryVerifyKeeps, SettleKeeps, LeaveKeeps DEF QueryStep
<1>8. ASSUME NEW r \in Runs, sessionStart(r) \/ RunStep(r) PROVE SessionInv'
  BY <1>8, SessionStartKeeps, DiscoverKeeps, ActivateKeeps, StartRefreshKeeps, RefreshedKeeps DEF RunStep
<1>9. ASSUME NEW i \in Manual, initialize(i) \/ initialized(i) PROVE SessionInv'
  BY <1>9, InitializeKeeps, InitializedKeeps
<1> QED BY <1>1, <1>2, <1>3, <1>4, <1>5, <1>6, <1>7, <1>8, <1>9 DEF SessionNext

LEMMA SessionAlways == SessionSpec => []SessionInv
<1>1. SessionAssumption
  BY SessionAssumption
<1> QED BY <1>1, SessionStarts, SessionKeeps, PTL DEF SessionSpec

\* For any calls, sessions, checkouts and failures: a query that began after a mutation
\* had returned answers from a generation that was scanned after the mutation wrote, and
\* the refresh a query waits for was not aborted by the others that left it.
THEOREM AnswersAreFresh == SessionSpec => []NoStaleAnswer
<1>1. ASSUME SessionInv PROVE NoStaleAnswer
  <2>1. SessionTypeOK
    BY <1>1 DEF SessionInv, SessionShapes, SessionTypeOK
  <2>2. NoStaleWindow
    <3>1. ASSUME NEW q \in Queries, pc[q] = "answered", NEW m \in known[q]
          PROVE  wrote[m] <= gen[q].files
      BY <1>1, <3>1 DEF SessionInv, AnswersFresh
    <3> QED BY <3>1 DEF NoStaleWindow
  <2>3. WaitersNotAborted
    BY <1>1 DEF SessionInv, WaitersKept, WaitersNotAborted
  <2> QED BY <2>1, <2>2, <2>3 DEF NoStaleAnswer
<1> QED BY <1>1, SessionAlways, PTL

-----------------------------------------------------------------------------
(* /init off.                                                              *)

\* Who may still append an activation was under way when the user said off: while the
\* branch is off nothing begins that could.
OffInv == entry = Off => Begun \subseteq wish.during

UnderWay(j) == pc[j] \in {"before", "refresh", "read", "stale", "verify"} \/ job[j].at # "none"

\* What a step does about off, when it is not /init off itself.
OffKept ==
  /\ wish'.during = wish.during /\ (entry' = Off => entry = Off)
  /\ entry = Off => \A j \in Mutations \cup Queries : UnderWay(j)' => UnderWay(j)
  /\ entry = Off /\ entry' # Off => \E j \in Manual \cup Begun : Acts(j)

\* What can be activated is not off.
LEMMA NeverOff ==
  ASSUME SessionAssumption, SessionInv, NEW j \in Jobs
  PROVE  /\ Built(j) # Off /\ act[j] # Off
         /\ pc \in [Jobs -> Whereabouts] /\ job \in [Jobs -> JobState]
  BY DEF SessionAssumption, SessionInv, SessionShapes, Built, Generations, JobState

LEMMA JobKeepsOff ==
  ASSUME SessionAssumption, SessionInv, NEW j \in Jobs, Scan(j) \/ Compare(j) \/ Publish(j)
  PROVE  OffKept
<1>1. job \in [Jobs -> JobState] /\ job[j].at # "none"
  BY NeverOff DEF Scan, Compare, Publish
<1>2. UNCHANGED <<entry, wish, pc>> /\ \A k \in Jobs : k # j => job'[k] = job[k]
  BY <1>1 DEF Scan, Compare, Publish, session, opers
<1> QED BY <1>1, <1>2, JobsApart DEF OffKept, UnderWay

\* A step of an operation whose job stays as it is.
LEMMA OneKeepsOff ==
  ASSUME SessionAssumption, SessionInv, NEW j \in Jobs, NEW place,
         pc' = [pc EXCEPT ![j] = place], UNCHANGED <<job, wish>>, pc[j] # place,
         entry' \in {entry, act[j]},
         entry' # entry => j \in Begun,
         entry = Off /\ place \in {"before", "refresh", "read", "stale", "verify"} =>
           UnderWay(j) \/ j \notin Mutations \cup Queries
  PROVE  OffKept
<1>1. pc'[j] = place /\ \A k \in Jobs : k # j => pc'[k] = pc[k]
  BY NeverOff
<1>2. Acts(j)
  BY <1>1 DEF Acts
<1> QED BY <1>1, <1>2, NeverOff, JobsApart DEF OffKept, UnderWay

\* A step in which an operation starts its job; the branch stays as it is.
LEMMA StartKeepsOff ==
  ASSUME SessionAssumption, SessionInv, NEW j \in Jobs, NEW place,
         pc' = [pc EXCEPT ![j] = place], Enqueue(j), entry' = entry,
         wish'.during = wish.during, UnderWay(j) \/ j \notin Mutations \cup Queries
  PROVE  OffKept
<1>1. \A k \in Jobs : k # j => pc'[k] = pc[k] /\ job'[k] = job[k]
  BY NeverOff DEF Enqueue
<1> QED BY <1>1, JobsApart DEF OffKept, UnderWay

\* A step in which a job ends.
LEMMA TurnKeepsOff ==
  ASSUME SessionAssumption, SessionInv, NEW j \in Jobs, Settled(j), TurnEnds(j),
         wish'.during = wish.during,
         \A k \in Mutations \cup Queries :
           pc'[k] \in {"before", "refresh", "read", "stale", "verify"} => UnderWay(k),
         entry' \in {entry, Built(j), act[j]},
         entry = Off /\ entry' # Off => j \in Manual \cup Mutations \cup Queries
  PROVE  OffKept
<1>1. /\ job[j].at # "none" /\ job'[j].at = "none" /\ \A k \in Jobs : k # j => job'[k] = job[k]
  BY TurnEnded DEF Settled, NoJob
<1>2. Acts(j) /\ (j \in Mutations \cup Queries => j \in Begun)
  BY <1>1 DEF Acts, Begun
<1> QED BY <1>1, <1>2, NeverOff, JobsApart DEF OffKept, UnderWay

LEMMA MutationKeepsOff ==
  ASSUME SessionAssumption, SessionInv, NEW m \in Mutations, Write(m) \/ MutationStep(m)
  PROVE  OffKept
<1>0. m \in Jobs /\ pc \in [Jobs -> Whereabouts]
  BY NeverOff, JobsApart
<1>1. CASE Write(m)
  BY <1>0, <1>1, OneKeepsOff DEF Write, GoOn, jobs, session
<1>2. CASE syncMutations(m)
  <2>1. entry = Off => activation = Nothing
    BY DEF activation
  <2> DEFINE place == IF activation = Nothing THEN "done" ELSE "before"
  <2>2. pc' = [pc EXCEPT ![m] = place] /\ pc[m] = "written" /\ UNCHANGED <<job, wish, entry>>
    BY <1>2 DEF syncMutations, GoOn, jobs, session
  <2>3. pc[m] # place /\ (entry = Off => place = "done")
    BY <2>1, <2>2
  <2> HIDE DEF place
  <2> QED BY <1>0, <2>2, <2>3, OneKeepsOff
<1>3. CASE refresh(m)
  BY <1>0, <1>3, StartKeepsOff DEF refresh, GoOn, session, UnderWay
<1>4. CASE appendRefreshed(m)
  <2>1. PICK place \in {"updated", "done"} : pc' = [pc EXCEPT ![m] = place]
    BY <1>4 DEF appendRefreshed, GoOn
  <2>2. \A k \in Mutations \cup Queries :
          pc'[k] \in {"before", "refresh", "read", "stale", "verify"} => UnderWay(k)
    BY <1>0, <2>1, JobsApart DEF UnderWay
  <2>3. Settled(m) /\ TurnEnds(m) /\ wish' = wish /\ entry' \in {Built(m), act[m]}
    BY <1>4 DEF appendRefreshed, Settled
  <2> QED BY <1>0, <2>2, <2>3, TurnKeepsOff
<1> QED BY <1>1, <1>2, <1>3, <1>4 DEF MutationStep

LEMMA QueryKeepsOff ==
  ASSUME SessionAssumption, SessionInv, NEW q \in Queries,
         beginQuery(q) \/ QueryStep(q) \/ leave(q)
  PROVE  OffKept
<1>0. q \in Jobs /\ pc \in [Jobs -> Whereabouts]
  BY NeverOff, JobsApart
<1>1. CASE beginQuery(q)
  <2>1. entry = Off => activation = Nothing
    BY DEF activation
  <2> DEFINE place == IF activation = Nothing THEN "done" ELSE "read"
  <2>2. pc' = [pc EXCEPT ![q] = place] /\ pc[q] = "idle" /\ UNCHANGED <<job, wish, entry>>
    BY <1>1 DEF beginQuery, GoOn, jobs, session
  <2>3. pc[q] # place /\ (entry = Off => place = "done")
    BY <2>1, <2>2
  <2> HIDE DEF place
  <2> QED BY <1>0, <2>2, <2>3, OneKeepsOff
<1>2. CASE readActivated(q)
  <2>1. pc[q] = "read" /\ UNCHANGED <<entry, wish>> /\ UnderWay(q)
    BY <1>2 DEF readActivated, session, UnderWay
  <2>2. PICK place \in {"done", "verify", "stale"} :
          pc' = [pc EXCEPT ![q] = place] /\ (Enqueue(q) \/ UNCHANGED jobs)
    BY <1>2 DEF readActivated, GoOn
  <2>3. CASE Enqueue(q)
    BY <1>0, <2>1, <2>2, <2>3, StartKeepsOff
  <2>4. CASE UNCHANGED jobs
    <3>1. job' = job /\ pc[q] # place
      BY <2>1, <2>2, <2>4 DEF jobs
    <3> QED BY <1>0, <2>1, <2>2, <3>1, OneKeepsOff
  <2> QED BY <2>2, <2>3, <2>4
<1>3. CASE verify(q)
  <2>1. /\ pc' = [pc EXCEPT ![q] = "answered"] /\ pc[q] = "verify" /\ UNCHANGED <<job, wish>>
        /\ entry' \in {entry, act[q]}
    BY <1>3 DEF verify, GoOn, jobs
  <2>2. q \in Begun
    BY <2>1 DEF Begun
  <2> QED BY <1>0, <2>1, <2>2, OneKeepsOff
<1>4. CASE staleRefreshSettles(q)
  <2>1. ASSUME NEW k \in Mutations \cup Queries,
               pc'[k] \in {"before", "refresh", "read", "stale", "verify"}
        PROVE  UnderWay(k)
    <3>1. k \in Jobs /\ q # Nothing
      BY <2>1, JobsApart
    <3>2. k \in Queries /\ waits[k] = q => pc[k] = "stale"
      BY <3>1 DEF SessionInv, WaitersKept
    <3>3. ~(k \in Queries /\ waits[k] = q) => pc'[k] = pc[k]
      BY <1>4, <3>1 DEF staleRefreshSettles
    <3> QED BY <2>1, <3>2, <3>3 DEF UnderWay
  <2>2. Settled(q) /\ TurnEnds(q) /\ wish' = wish /\ entry' \in {entry, Built(q)}
    BY <1>4 DEF staleRefreshSettles
  <2> QED BY <1>0, <2>1, <2>2, TurnKeepsOff
<1>5. CASE leave(q)
  BY <1>0, <1>5, OneKeepsOff DEF leave, GoOn, session
<1> QED BY <1>1, <1>2, <1>3, <1>4, <1>5 DEF QueryStep

\* An automatic activation looks at the branch before it appends.
LEMMA RunKeepsOff ==
  ASSUME SessionAssumption, SessionInv, NEW r \in Runs, sessionStart(r) \/ RunStep(r)
  PROVE  OffKept
<1>0. /\ r \in Jobs /\ r \notin Mutations \cup Queries /\ pc \in [Jobs -> Whereabouts]
      /\ \A k \in Mutations \cup Queries : k \in Jobs /\ k # r
  BY NeverOff, JobsApart, SessionAssumption DEF SessionAssumption
<1>1. CASE sessionStart(r) \/ discover(r) \/ activate(r)
  <2>1. PICK place \in Whereabouts : pc' = [pc EXCEPT ![r] = place]
    BY <1>1 DEF sessionStart, discover, activate, EndRun, GoOn, Whereabouts
  <2>2. UNCHANGED <<job, wish>> /\ \A k \in Mutations \cup Queries : pc'[k] = pc[k]
    BY <1>0, <1>1, <2>1 DEF sessionStart, discover, activate, jobs
  <2>3. entry = Off => entry' = entry
    BY <1>1 DEF sessionStart, discover, activate, Proceeds, disabled
  <2>4. entry' \in {entry, act[r]}
    BY <1>1 DEF sessionStart, discover, activate
  <2> QED BY <1>0, <2>2, <2>3, <2>4, NeverOff DEF OffKept, UnderWay
<1>2. CASE startRefresh(r)
  <2>1. UNCHANGED <<entry, wish>>
    BY <1>2 DEF startRefresh
  <2>2. PICK place \in {"refresh", "done"} : pc' = [pc EXCEPT ![r] = place]
    BY <1>2 DEF startRefresh, EndRun, GoOn
  <2>3. Enqueue(r) \/ job' = job
    BY <1>2 DEF startRefresh, jobs
  <2>4. \A k \in Mutations \cup Queries : pc'[k] = pc[k] /\ job'[k] = job[k]
    BY <1>0, <2>2, <2>3, NeverOff DEF Enqueue
  <2> QED BY <2>1, <2>4 DEF OffKept, UnderWay
<1>3. CASE refreshed(r)
  <2>1. /\ Settled(r) /\ TurnEnds(r) /\ wish' = wish /\ entry' \in {entry, Built(r)}
        /\ pc' = [pc EXCEPT ![r] = "done"] /\ (entry = Off => entry' = Off)
    BY <1>3 DEF refreshed, EndRun, GoOn, Proceeds, disabled
  <2>2. \A k \in Mutations \cup Queries :
          pc'[k] \in {"before", "refresh", "read", "stale", "verify"} => UnderWay(k)
    BY <1>0, <2>1 DEF UnderWay
  <2> QED BY <1>0, <2>1, <2>2, TurnKeepsOff
<1> QED BY <1>1, <1>2, <1>3 DEF RunStep

LEMMA ManualKeepsOff ==
  ASSUME SessionAssumption, SessionInv, NEW i \in Manual, initialize(i) \/ initialized(i)
  PROVE  OffKept
<1>0. /\ i \in Jobs /\ i \notin Mutations \cup Queries /\ pc \in [Jobs -> Whereabouts]
      /\ \A k \in Mutations \cup Queries : k \in Jobs /\ k # i
  BY NeverOff, JobsApart, SessionAssumption DEF SessionAssumption
<1>1. CASE initialize(i)
  <2>1. pc' = [pc EXCEPT ![i] = "refresh"] /\ Enqueue(i) /\ entry' = entry
        /\ wish'.during = wish.during
    BY <1>1 DEF initialize, GoOn, Wanted
  <2> QED BY <1>0, <2>1, StartKeepsOff
<1>2. CASE initialized(i)
  <2>1. /\ pc' = [pc EXCEPT ![i] = "done"] /\ Settled(i) /\ TurnEnds(i)
        /\ entry' \in {entry, Built(i)} /\ wish'.during = wish.during
    BY <1>2 DEF initialized, GoOn, Wanted
  <2>2. \A k \in Mutations \cup Queries :
          pc'[k] \in {"before", "refresh", "read", "stale", "verify"} => UnderWay(k)
    BY <1>0, <2>1 DEF UnderWay
  <2> QED BY <1>0, <2>1, <2>2, TurnKeepsOff
<1> QED BY <1>1, <1>2

LEMMA EveryStepKeepsOff ==
  ASSUME SessionAssumption, SessionInv, [SessionNext]_sessionVars, ~turnOff
  PROVE  OffKept
<1>1. CASE sessionShutdown \/ Checkout \/ UNCHANGED sessionVars
  <2>1. UNCHANGED <<entry, wish, pc, job>>
    BY <1>1 DEF sessionShutdown, Checkout, sessionVars, jobs, session, opers
  <2> QED BY <2>1 DEF OffKept, UnderWay
<1> QED BY <1>1, JobKeepsOff, MutationKeepsOff, QueryKeepsOff, RunKeepsOff, ManualKeepsOff
        DEF SessionNext

\* For any calls, sessions, checkouts and failures: when the branch was switched off, it
\* leaves off only by an /init, or by a mutation, a query or a stale refresh that was under
\* way at that moment; nothing that began since undoes it.
THEOREM OffHoldsAgainstWhatBegins == SessionSpec => OffHoldsAgainstLater
<1>1. SessionInit => OffInv
  <2>1. \A h \in 0 .. MaxHeads : [head |-> h, files |-> 0] \in Generations
    BY SessionAssumption, JobsApart DEF Generations
  <2> QED BY <2>1, SessionAssumption DEF SessionInit, SessionAssumption, OffInv
<1>2. ASSUME SessionInv, OffInv, [SessionNext]_sessionVars PROVE OffInv'
  <2>1. CASE turnOff
    <3>1. Begun' = Begun /\ wish'.during = Begun
      BY <2>1 DEF turnOff, Begun, jobs, opers
    <3> QED BY <3>1 DEF OffInv
  <2>2. CASE ~turnOff
    <3>1. OffKept
      BY <1>2, <2>2, SessionAssumption, EveryStepKeepsOff
    <3> QED BY <1>2, <3>1 DEF OffKept, OffInv, Begun, UnderWay
  <2> QED BY <2>1, <2>2
<1>3. ASSUME SessionInv, OffInv, [SessionNext]_sessionVars, entry = Off, entry' # Off
      PROVE  \E j \in Manual \cup wish.during : Acts(j)
  <2>1. OffKept
    BY <1>3, SessionAssumption, EveryStepKeepsOff DEF turnOff
  <2> QED BY <1>3, <2>1 DEF OffKept, OffInv
<1>4. ASSUME SessionInv, OffInv, [SessionNext]_sessionVars
      PROVE  [entry = Off /\ entry' # Off =>
                \E j \in Manual \cup wish.during : Acts(j)]_sessionVars
  BY <1>3, <1>4
<1> QED BY <1>1, <1>2, <1>4, SessionAlways, PTL DEF SessionSpec, OffHoldsAgainstLater

=============================================================================

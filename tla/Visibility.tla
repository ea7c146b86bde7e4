----------------------------- MODULE Visibility -----------------------------
(* Snapshots of what the workspace hides (src/filesystem/services/visibility):
   one shared build per policy (shared-build.ts), the cache of the built snapshots
   with the epochs that protect it (service.ts), the loader of the git index with
   a shared load and a cache of its own (git-tracked-files.ts), and the discovery
   of rule files (rule-discovery.ts).

   A build bears the name of the call that created it, and so does a git load.
   The disk is three versions: of the git index, of the directory listing (which
   rule files there are) and of the text of the rule files.  A stamp is the
   version that was current when the metadata was read; a snapshot is the versions
   of what it was compiled from.  One workspace; rules of case, reads that fail
   (they fail open) and the rules themselves are left out. *)
EXTENDS Naturals, FiniteSets

CONSTANTS
  NRequests,       \* calls of createSnapshot, numbered in the order they come; they
                \* name the builds and loads they create
  Policies,
  PolicyOf,     \* the policy of each call
  Linked,       \* .git is the file of a linked worktree: the index is elsewhere
  NoRequest,
  NoSnapshot,
  Cancelled,      \* the outcome of a cancelled call or build
  MaxEdits,     \* bound: changes of the disk
  MaxInvalid    \* bound: invalidations

Requests == 1..NRequests

ASSUME VisibilityAssumption ==
  /\ NRequests \in Nat /\ NoRequest \notin Requests /\ PolicyOf \in [Requests -> Policies]
  /\ Linked \in BOOLEAN /\ MaxEdits \in Nat /\ MaxInvalid \in Nat

Parts == {"git", "tree", "rules"}
Disks == [Parts -> 0..MaxEdits]
Snapshots == Disks
Marks == [marker : 0..MaxEdits, state : 0..MaxEdits]

(* seen: the stamps the build saw; born: the epoch of the build (history). *)
SnapEntries == [snapshot : Snapshots, mark : Marks, tree : 0..MaxEdits,
            rules : 0..MaxEdits, born : 0..MaxInvalid]
GitEntries == [mark : Marks, paths : 0..MaxEdits, born : 0..MaxInvalid]

ASSUME ValueAssumption ==
  /\ NoSnapshot \notin SnapEntries \union GitEntries
  /\ Cancelled \notin Snapshots \union {NoSnapshot}

VARIABLES
  world,     \* the versions on disk
  pendingSnap,  \* WorkspaceVisibilityService.pending: the build of a policy
  snapCache,    \* WorkspaceVisibilityService.cache: the entry of a policy
  loading,  \* GitTrackedFilesLoader.pending
  gitCache, \* GitTrackedFilesLoader.cache
  epoch,    \* generation and workspace epoch: every invalidation makes a new pair
  gitEpoch, \* GitTrackedFilesLoader.epoch
  request,     \* per call: where it stands, the build it joined, its answer
  snapBuild,    \* per build: where it stands and what it has read
  load,     \* per git load: the same
  abortTimer     \* shared builds, by kind and name, whose abort timer is set

cacheVars == <<pendingSnap, snapCache, epoch>>
gitVars == <<loading, gitCache, gitEpoch, load>>
visVars == <<world, pendingSnap, snapCache, loading, gitCache, epoch, gitEpoch,
             request, snapBuild, load, abortTimer>>

Zero == [p \in Parts |-> 0]
NewMark == [marker |-> 0, state |-> 0]
NewSnapBuild == [at |-> "none", ended |-> "no", born |-> 0, since |-> Zero, mark |-> NewMark,
             base |-> NoSnapshot, got |-> Zero, tree |-> 0, rules |-> 0, load |-> NoRequest]
NewLoad == [at |-> "none", ended |-> "no", born |-> 0, mark |-> NewMark, paths |-> 0, todo |-> {}]

(* ended: why the controller of the shared build has been aborted, if it has. *)
Endings == {"no", "abandoned", "invalidated"}

Requested == [at : {"new", "waits", "done"}, joined : Requests \union {NoRequest},
              answer : Snapshots \union {NoSnapshot, Cancelled}]
SnapBuilds ==
  [at : {"none", "marker", "state", "git", "check", "scan", "listed", "stamped", "files",
         "compile", "settled"},
   ended : Endings, born : 0..MaxInvalid, since : Disks, mark : Marks,
   base : SnapEntries \union {NoSnapshot}, got : Snapshots, tree : 0..MaxEdits,
   rules : 0..MaxEdits, load : Requests \union {NoRequest}]
Loads == [at : {"none", "reads", "settled", "failed"}, ended : Endings, born : 0..MaxInvalid,
          mark : Marks, paths : 0..MaxEdits, todo : SUBSET {"paths", "state"}]

VisTypeOK ==
  /\ world \in Disks
  /\ pendingSnap \in [Policies -> Requests \union {NoRequest}]
  /\ snapCache \in [Policies -> SnapEntries \union {NoSnapshot}]
  /\ loading \in Requests \union {NoRequest}
  /\ gitCache \in GitEntries \union {NoSnapshot}
  /\ epoch \in 0..MaxInvalid /\ gitEpoch \in 0..MaxInvalid
  /\ request \in [Requests -> Requested]
  /\ snapBuild \in [Requests -> SnapBuilds]
  /\ load \in [Requests -> Loads]
  /\ abortTimer \subseteq ({"build", "load"} \X Requests)

VisInit ==
  /\ world = Zero
  /\ pendingSnap = [p \in Policies |-> NoRequest] /\ snapCache = [p \in Policies |-> NoSnapshot]
  /\ loading = NoRequest /\ gitCache = NoSnapshot
  /\ epoch = 0 /\ gitEpoch = 0
  /\ request = [c \in Requests |-> [at |-> "new", joined |-> NoRequest, answer |-> NoSnapshot]]
  /\ snapBuild = [c \in Requests |-> NewSnapBuild] /\ load = [c \in Requests |-> NewLoad]
  /\ abortTimer = {}

Waiting(b) == {c \in Requests : request[c].at = "waits" /\ request[c].joined = b}
GitConsumers(l) == {b \in Requests : snapBuild[b].at = "git" /\ snapBuild[b].load = l}
Running(b) == snapBuild[b].at \notin {"none", "settled"}
Loading(l) == load[l].at = "reads"

----------------------------------------------------------------------------
(* Calls. *)

(* createSnapshot: join the pending build of the policy, or create it under the
   epoch of this moment; joining cancels the abort timer. *)
CreateSnapshot(c) ==
  /\ request[c].at = "new" /\ \A d \in Requests : d < c => request[d].at # "new"
  /\ LET p == PolicyOf[c]
         b == IF pendingSnap[p] = NoRequest THEN c ELSE pendingSnap[p] IN
     /\ request' = [request EXCEPT ![c].at = "waits", ![c].joined = b]
     /\ pendingSnap' = [pendingSnap EXCEPT ![p] = b]
     /\ abortTimer' = abortTimer \ {<<"build", b>>}
     /\ snapBuild' = IF b # c THEN snapBuild
                 ELSE [snapBuild EXCEPT ![c] = [snapBuild[c] EXCEPT !.at = "marker", !.born = epoch, !.since = world]]
  /\ UNCHANGED <<world, snapCache, epoch>> /\ UNCHANGED gitVars

(* consume: the signal of a waiting call fires, and the call leaves at once.  The
   last one to leave an unsettled build sets its abort timer. *)
CancelCall(c) ==
  /\ request[c].at = "waits"
  /\ request' = [request EXCEPT ![c] = [at |-> "done", joined |-> NoRequest, answer |-> Cancelled]]
  /\ abortTimer' = IF Waiting(request[c].joined) = {c}
              THEN abortTimer \union {<<"build", request[c].joined>>} ELSE abortTimer
  /\ UNCHANGED <<world, snapBuild>> /\ UNCHANGED cacheVars /\ UNCHANGED gitVars

(* The abort timer of a build: nobody has joined since, so its controller is
   aborted.  The build stays in pending until it settles. *)
AbandonBuild(b) ==
  /\ <<"build", b>> \in abortTimer
  /\ abortTimer' = abortTimer \ {<<"build", b>>}
  /\ snapBuild' = [snapBuild EXCEPT ![b].ended = IF @ = "no" THEN "abandoned" ELSE @]
  /\ UNCHANGED <<world, request>> /\ UNCHANGED cacheVars /\ UNCHANGED gitVars

AbandonLoad(l) ==
  /\ <<"load", l>> \in abortTimer
  /\ abortTimer' = abortTimer \ {<<"load", l>>}
  /\ load' = [load EXCEPT ![l].ended = IF @ = "no" THEN "abandoned" ELSE @]
  /\ UNCHANGED <<world, request, snapBuild, loading, gitCache, gitEpoch>> /\ UNCHANGED cacheVars

----------------------------------------------------------------------------
(* Invalidation. *)

PendingBuilds == {pendingSnap[p] : p \in Policies} \ {NoRequest}

(* abort: the controller of every pending build, unless it has been aborted, with
   its timer; and the git load of ls likewise. *)
AbortPending(ls) ==
  /\ snapBuild' = [b \in Requests |-> IF b \in PendingBuilds /\ snapBuild[b].ended = "no"
                               THEN [snapBuild[b] EXCEPT !.ended = "invalidated"] ELSE snapBuild[b]]
  /\ load' = [l \in Requests |-> IF l \in ls /\ load[l].ended = "no"
                              THEN [load[l] EXCEPT !.ended = "invalidated"] ELSE load[l]]
  /\ abortTimer' = abortTimer \ (({"build"} \X PendingBuilds) \union ({"load"} \X ls))

(* Mutant: the builds are aborted, but the finished entries stay. *)
InvalidateKeepsEntries ==
  /\ epoch < MaxInvalid
  /\ epoch' = epoch + 1 /\ pendingSnap' = [p \in Policies |-> NoRequest]
  /\ AbortPending({})
  /\ UNCHANGED <<world, snapCache, request, loading, gitCache, gitEpoch>>

(* invalidate(root): a new workspace epoch; entries and pending builds go. *)
InvalidateWorkspace ==
  /\ epoch < MaxInvalid
  /\ epoch' = epoch + 1
  /\ snapCache' = [p \in Policies |-> NoSnapshot] /\ pendingSnap' = [p \in Policies |-> NoRequest]
  /\ AbortPending({})
  /\ UNCHANGED <<world, request, loading, gitCache, gitEpoch>>

(* invalidate(): a new generation, and the git loader is cleared too. *)
InvalidateAll ==
  /\ epoch < MaxInvalid
  /\ epoch' = epoch + 1 /\ gitEpoch' = gitEpoch + 1
  /\ snapCache' = [p \in Policies |-> NoSnapshot] /\ pendingSnap' = [p \in Policies |-> NoRequest]
  /\ gitCache' = NoSnapshot /\ loading' = NoRequest
  /\ AbortPending({loading} \ {NoRequest})
  /\ UNCHANGED <<world, request>>

----------------------------------------------------------------------------
(* The build: its steps, each a read of the disk under the build's controller. *)

(* The build settles: its policy is free again if it still holds it, its timer is
   cancelled, and the calls that wait for it have the outcome. *)
SettleBuild(b, o, timers) ==
  /\ snapBuild' = [snapBuild EXCEPT ![b] = [NewSnapBuild EXCEPT !.at = "settled"]]
  /\ pendingSnap' = [p \in Policies |-> IF pendingSnap[p] = b THEN NoRequest ELSE pendingSnap[p]]
  /\ request' = [c \in Requests |-> IF c \in Waiting(b)
                THEN [at |-> "done", joined |-> NoRequest, answer |-> o] ELSE request[c]]
  /\ abortTimer' = (abortTimer \ {<<"build", b>>}) \union timers

(* A step of a build whose controller is aborted fails: every native operation
   tests the signal before and after, and consume leaves a git load at once. *)
BuildAborted(b) ==
  /\ Running(b) /\ snapBuild[b].ended # "no"
  /\ LET l == snapBuild[b].load IN
     SettleBuild(b, Cancelled, IF snapBuild[b].at = "git" /\ Loading(l) /\ GitConsumers(l) = {b}
                             THEN {<<"load", l>>} ELSE {})
  /\ UNCHANGED <<world, snapCache, epoch>> /\ UNCHANGED gitVars

At(b, where) == snapBuild[b].at = where /\ snapBuild[b].ended = "no"

Step(b) == UNCHANGED <<world, request>> /\ UNCHANGED cacheVars

(* fileFingerprint of .git: a linked worktree has a file there, which never changes. *)
Marker == IF Linked THEN 0 ELSE world["git"]

(* Join the git load under way, or start one under this marker and git epoch. *)
JoinLoad(b, marker) ==
  LET l == IF loading = NoRequest THEN b ELSE loading IN
  /\ snapBuild' = [snapBuild EXCEPT ![b] =
                     [snapBuild[b] EXCEPT !.at = "git", !.load = l, !.mark = NewMark, !.got = Zero,
                                          !.since["git"] = IF l = b THEN @ ELSE 0]]
  /\ loading' = l
  /\ abortTimer' = abortTimer \ {<<"load", l>>}
  /\ load' = IF l # b THEN load
             ELSE [load EXCEPT ![b] = [NewLoad EXCEPT !.at = "reads", !.born = gitEpoch,
                        !.mark.marker = marker, !.todo = {"paths", "state"}]]

(* load of git-tracked-files.ts: the marker decides whether the cached entry is
   worth a look at the index and the config. *)
ReadMarker(b) ==
  /\ At(b, "marker") /\ Step(b) /\ UNCHANGED <<gitCache, gitEpoch>>
  /\ IF gitCache # NoSnapshot /\ gitCache.mark.marker = Marker
     THEN /\ snapBuild' = [snapBuild EXCEPT ![b] =
                            [snapBuild[b] EXCEPT !.at = "state", !.mark = gitCache.mark,
                                                 !.got["git"] = gitCache.paths]]
          /\ UNCHANGED <<abortTimer, load, loading>>
     ELSE JoinLoad(b, Marker)

(* With the tracked set at hand the cached snapshot of the policy is looked up. *)
Tracked(b, mark, paths) ==
  snapBuild' = [snapBuild EXCEPT ![b] =
    [snapBuild[b] EXCEPT !.at = "check", !.mark = mark, !.got["git"] = paths, !.load = NoRequest,
                         !.base = snapCache[PolicyOf[b]]]]

(* The cached tracked set is good if the index and the config have not changed. *)
ReadState(b) ==
  /\ At(b, "state") /\ Step(b) /\ UNCHANGED <<gitCache, gitEpoch>>
  /\ IF snapBuild[b].mark.state = world["git"]
     THEN Tracked(b, snapBuild[b].mark, snapBuild[b].got["git"]) /\ UNCHANGED <<abortTimer, load, loading>>
     ELSE JoinLoad(b, snapBuild[b].mark.marker)

(* Mutant: only a load that succeeds wakes the builds that wait for it. *)
TakesOnlySuccess(b) ==
  LET l == snapBuild[b].load IN
  /\ At(b, "git") /\ load[l].at = "settled"
  /\ Tracked(b, load[l].mark, load[l].paths)
  /\ load' = IF GitConsumers(l) = {b} THEN [load EXCEPT ![l] = NewLoad] ELSE load
  /\ UNCHANGED <<world, request, abortTimer, loading, gitCache, gitEpoch>> /\ UNCHANGED cacheVars

(* The build has the answer of the load it joined, or its failure.  A settled load
   without consumers is garbage. *)
TakeLoad(b) ==
  LET l == snapBuild[b].load IN
  /\ At(b, "git")
  /\ \/ /\ load[l].at = "settled"
        /\ Tracked(b, load[l].mark, load[l].paths) /\ UNCHANGED <<request, pendingSnap, abortTimer>>
     \/ /\ load[l].at = "failed"
        /\ SettleBuild(b, Cancelled, {})
  /\ load' = IF GitConsumers(l) = {b} THEN [load EXCEPT ![l] = NewLoad] ELSE load
  /\ UNCHANGED <<world, snapCache, epoch, loading, gitCache, gitEpoch>>

(* Mutant: only the directories are checked, not the rule files. *)
ChecksDirectoriesOnly(b) ==
  LET e == snapBuild[b].base IN
  /\ At(b, "check")
  /\ IF e # NoSnapshot /\ e.mark = snapBuild[b].mark /\ e.tree = world["tree"]
     THEN SettleBuild(b, e.snapshot, {})
     ELSE snapBuild' = [snapBuild EXCEPT ![b].at = "scan"] /\ UNCHANGED <<request, pendingSnap, abortTimer>>
  /\ UNCHANGED <<world, snapCache, epoch>> /\ UNCHANGED gitVars

(* visibilityStampsUnchanged: a cached snapshot of the same tracked set is answered
   if no directory and no rule file has changed its stamp. *)
CheckStamps(b) ==
  LET e == snapBuild[b].base IN
  /\ At(b, "check")
  /\ IF e # NoSnapshot /\ e.mark = snapBuild[b].mark /\ e.tree = world["tree"] /\ e.rules = world["rules"]
     THEN SettleBuild(b, e.snapshot, {})
     ELSE snapBuild' = [snapBuild EXCEPT ![b].at = "scan"] /\ UNCHANGED <<request, pendingSnap, abortTimer>>
  /\ UNCHANGED <<world, snapCache, epoch>> /\ UNCHANGED gitVars

(* scanRuleDirectory: the listing and the metadata of the directory are read side
   by side. *)
ListDirectory(b) ==
  /\ At(b, "scan") \/ At(b, "stamped")
  /\ snapBuild' = [snapBuild EXCEPT ![b].got["tree"] = world["tree"],
                            ![b].at = IF @ = "scan" THEN "listed" ELSE "files"]
  /\ Step(b) /\ UNCHANGED abortTimer /\ UNCHANGED gitVars

StampDirectory(b) ==
  /\ At(b, "scan") \/ At(b, "listed")
  /\ snapBuild' = [snapBuild EXCEPT ![b].tree = world["tree"],
                            ![b].at = IF @ = "scan" THEN "stamped" ELSE "files"]
  /\ Step(b) /\ UNCHANGED abortTimer /\ UNCHANGED gitVars

(* addRuleFile: the stamp of a rule file, before its text is read. *)
StampRuleFiles(b) ==
  /\ At(b, "files")
  /\ snapBuild' = [snapBuild EXCEPT ![b].rules = world["rules"], ![b].at = "compile"]
  /\ Step(b) /\ UNCHANGED abortTimer /\ UNCHANGED gitVars

(* Mutant: the fingerprint names the rule files without their stamps. *)
FingerprintWithoutStamps(e, b) ==
  e.snapshot["git"] = snapBuild[b].got["git"] /\ e.snapshot["tree"] = snapBuild[b].got["tree"]

(* The fingerprint of a snapshot: tracked set, rule files and their stamps. *)
SameFingerprint(e, b) ==
  /\ e.snapshot["git"] = snapBuild[b].got["git"] /\ e.snapshot["tree"] = snapBuild[b].got["tree"]
  /\ e.rules = snapBuild[b].rules

IsCurrent(b) == snapBuild[b].born = epoch

(* compileVisibilityRules reads the rule files; an equal fingerprint keeps the old
   snapshot; the cache takes the entry if the epoch is still that of the build. *)
Compile(b) ==
  LET e == snapBuild[b].base
      new == [snapBuild[b].got EXCEPT !["rules"] = world["rules"]]
      snapshot == IF e # NoSnapshot /\ SameFingerprint(e, b) THEN e.snapshot ELSE new IN
  /\ At(b, "compile")
  /\ snapCache' = IF ~IsCurrent(b) THEN snapCache
              ELSE [snapCache EXCEPT ![PolicyOf[b]] =
                     [snapshot |-> snapshot, mark |-> snapBuild[b].mark, tree |-> snapBuild[b].tree,
                      rules |-> snapBuild[b].rules, born |-> snapBuild[b].born]]
  /\ SettleBuild(b, snapshot, {})
  /\ UNCHANGED <<world, epoch>> /\ UNCHANGED gitVars

----------------------------------------------------------------------------
(* The git load: refreshGitState reads the tracked paths and the fingerprint of
   the index side by side. *)

SettleLoad(l, settled) ==
  /\ load' = [load EXCEPT ![l] = settled]
  /\ loading' = IF loading = l THEN NoRequest ELSE loading
  /\ abortTimer' = abortTimer \ {<<"load", l>>}

LoadRead(l, half) ==
  LET r == [load[l] EXCEPT !.todo = @ \ {half},
              !.paths = IF half = "paths" THEN world["git"] ELSE @,
              !.mark.state = IF half = "state" THEN world["git"] ELSE @] IN
  /\ load[l].at = "reads" /\ half \in load[l].todo /\ load[l].ended = "no"
  /\ IF r.todo # {}
     THEN load' = [load EXCEPT ![l] = r] /\ UNCHANGED <<loading, abortTimer, gitCache>>
     ELSE /\ SettleLoad(l, [r EXCEPT !.at = "settled"])
          /\ gitCache' = IF gitEpoch # r.born THEN gitCache
                         ELSE [mark |-> r.mark, paths |-> r.paths, born |-> r.born]
  /\ UNCHANGED <<world, request, snapBuild, gitEpoch>> /\ UNCHANGED cacheVars

(* An aborted load fails: its processes are killed, its reads test the signal. *)
LoadAborted(l) ==
  /\ load[l].at = "reads" /\ load[l].ended # "no"
  /\ SettleLoad(l, [NewLoad EXCEPT !.at = "failed"])
  /\ UNCHANGED <<world, request, snapBuild, gitCache, gitEpoch>> /\ UNCHANGED cacheVars

----------------------------------------------------------------------------
(* The workspace: any process commits to git, adds a rule file or edits one. *)
Edit(part) ==
  /\ world["git"] + world["tree"] + world["rules"] < MaxEdits
  /\ world' = [world EXCEPT ![part] = @ + 1]
  /\ UNCHANGED <<request, snapBuild, abortTimer>> /\ UNCHANGED cacheVars /\ UNCHANGED gitVars

SnapshotStep(b) ==
  \/ BuildAborted(b) \/ ReadMarker(b) \/ ReadState(b) \/ TakeLoad(b) \/ CheckStamps(b)
  \/ ListDirectory(b) \/ StampDirectory(b) \/ StampRuleFiles(b) \/ Compile(b)

LoadStep(l) == LoadAborted(l) \/ \E half \in {"paths", "state"} : LoadRead(l, half)

VisNext ==
  \/ \E c \in Requests : CreateSnapshot(c) \/ CancelCall(c) \/ SnapshotStep(c) \/ LoadStep(c)
                      \/ AbandonBuild(c) \/ AbandonLoad(c)
  \/ InvalidateWorkspace \/ InvalidateAll
  \/ \E part \in Parts : Edit(part)

VisSpec == VisInit /\ [][VisNext]_visVars

(* The operating system answers reads and git ends: every step of a build and of a
   load is taken in the end.  Edits, cancellations and invalidations need not come. *)
VisFairness == \A c \in Requests : WF_visVars(SnapshotStep(c)) /\ WF_visVars(LoadStep(c))

VisFairSpec == VisSpec /\ VisFairness

----------------------------------------------------------------------------
(* Properties. *)

(* The caches only hold what was built in the present epoch: an invalidation empties
   them, and a build that it caught running has not written its snapshot back. *)
EntriesOfThisEpoch ==
  /\ \A p \in Policies : snapCache[p] # NoSnapshot => snapCache[p].born = epoch
  /\ gitCache # NoSnapshot => gitCache.born = gitEpoch

(* A build nobody waits for has been told to stop, or its timer will tell it; so has
   a git load that no build waits for. *)
NoOrphanBuild ==
  /\ \A b \in Requests : Running(b) /\ Waiting(b) = {} =>
       snapBuild[b].ended # "no" \/ <<"build", b>> \in abortTimer
  /\ \A l \in Requests : Loading(l) /\ GitConsumers(l) = {} =>
       load[l].ended # "no" \/ <<"load", l>> \in abortTimer

(* An entry whose stamps all match the disk was compiled from the rule texts of the
   disk, and from its tracked set where .git is a directory: the stamps are read
   before what they stand for.  And no build that would cache one is left alone. *)
EntryCoherent(e) ==
  /\ e.rules = world["rules"] => e.snapshot["rules"] = world["rules"]
  /\ e.mark = [marker |-> world["git"], state |-> world["git"]] => e.snapshot["git"] = world["git"]
SnapshotsCoherent ==
  /\ VisTypeOK /\ NoOrphanBuild
  /\ ~Linked => \A p \in Policies : snapCache[p] # NoSnapshot => EntryCoherent(snapCache[p])

Answered(c) == request[c].at = "waits" /\ request'[c].at = "done"

(* A call is answered with rules that are not older than the moment its build began
   and, where .git is a directory and the build did not join a git load under way,
   a tracked set that is not older either. *)
AnswersOfBuild ==
  [][\A c \in Requests : Answered(c) /\ request'[c].answer # Cancelled =>
       LET since == snapBuild[request[c].joined].since IN
       /\ request'[c].answer["rules"] >= since["rules"]
       /\ Linked \/ request'[c].answer["git"] >= since["git"]]_visVars

(* Every call returns, with a snapshot or aborted: each waits once. *)
EveryCallReturns == <>[](\A c \in Requests : request[c].at # "waits")

(* A directory that changed before a build began is seen by its answer (ignore.md:64:
   a change of a directory makes a new snapshot). *)
DirectoryChangeSeen ==
  [][\A c \in Requests : Answered(c) /\ request'[c].answer # Cancelled =>
       request'[c].answer["tree"] >= snapBuild[request[c].joined].since["tree"]]_visVars
=============================================================================

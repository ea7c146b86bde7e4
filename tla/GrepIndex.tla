----------------------------- MODULE GrepIndex -----------------------------
(* The grep tool's derived index and its shared builds
   (src/file-tools/grep/indexer.ts and parser-pool.ts, with the lease of
   src/filesystem/runtime.ts).

   Calls of one key share one build.  A call may create a build; the build then
   has the call's name, and reads the workspace through that call's lease.  The
   scope is one file: its version is its stamp and its text.  A build sees the
   stamp when it walks, takes a current entry of the cache or reads the text,
   parses the text in a worker or in the process, and stores what it parsed
   under the stamp it saw.  Of the worker pool only the promise of run is here
   (WorkerTaskPool): it settles once, with a result or a failure, or with an abort
   when the build is cancelled.  A key of LiteralKeys filters by content and reads
   the text always; a key of the others takes a current entry unread. *)
EXTENDS Naturals, FiniteSets

CONSTANTS
  Calls,        \* calls of the grep tool; they name the builds they create
  Keys,         \* scope, query, glob and limits
  KeyOf,        \* the key of each call
  LiteralKeys,  \* keys with a content filter
  NoCall,
  NoEntry,
  Aborted,      \* the outcome OPERATION_ABORTED
  MaxVersion    \* bound: versions the file goes through

ASSUME GrepAssumption ==
  /\ NoCall \notin Calls
  /\ KeyOf \in [Calls -> Keys] /\ LiteralKeys \subseteq Keys
  /\ MaxVersion \in Nat

Versions == 0..MaxVersion
Entries == [stamp : Versions, text : Versions]

ASSUME EntryAssumption ==
  /\ NoEntry \notin Entries \union Versions
  /\ Aborted \notin Versions \union {NoEntry}

VARIABLES
  disk,      \* the version of the file
  cache,     \* cache.files: the entry of the file, or NoEntry
  pending,   \* pendingIndexes: the build of a key, or NoCall
  call,      \* per call: where it stands
  fired,     \* calls whose signal has fired (their lease's owner signal with it)
  timer,     \* builds with an abort timer set
  cancelled, \* builds whose controller has been aborted
  build,     \* per build: where it stands
  disposed,  \* the tool is disposed
  since      \* history: the version of the file when the build was created

vars == <<disk, cache, pending, call, fired, timer, cancelled, build, disposed, since>>

(* A call waits for a build (joined), then has an answer: the version of the
   text it searched, or aborted.  Its lease closes when it returns. *)
NewCall == [at |-> "new", joined |-> NoCall, outcome |-> NoEntry]
Outcomes == Versions \union {NoEntry, Aborted}

(* stamp and text are those of the walk and the read. *)
NewBuild == [at |-> "none", stamp |-> 0, text |-> 0, outcome |-> NoEntry]

TypeOK ==
  /\ disk \in Versions /\ cache \in Entries \union {NoEntry}
  /\ pending \in [Keys -> Calls \union {NoCall}]
  /\ call \in [Calls -> [at : {"new", "waits", "done"}, joined : Calls \union {NoCall},
                         outcome : Outcomes]]
  /\ fired \subseteq Calls /\ timer \subseteq Calls /\ cancelled \subseteq Calls
  /\ build \in [Calls -> [at : {"none", "walk", "load", "parse", "pool", "again", "settled"},
                          stamp : Versions, text : Versions,
                          outcome : Outcomes]]
  /\ disposed \in BOOLEAN /\ since \in [Calls -> Versions]

Init ==
  /\ disk = 0 /\ cache = NoEntry
  /\ pending = [k \in Keys |-> NoCall]
  /\ call = [c \in Calls |-> NewCall]
  /\ fired = {} /\ timer = {} /\ cancelled = {}
  /\ build = [c \in Calls |-> NewBuild]
  /\ disposed = FALSE
  /\ since = [c \in Calls |-> 0]

Consumers(b) == {c \in Calls : call[c].at = "waits" /\ call[c].joined = b}

Settle(b) == build[b].at = "settled"

(* get, as far as the join: a call creates the build of its key or joins it, and
   cancels an abort timer.  A disposed tool and a fired signal end it at once. *)
Join(c) ==
  /\ call[c].at = "new"
  /\ IF disposed \/ c \in fired
     THEN /\ call' = [call EXCEPT ![c] = [@ EXCEPT !.at = "done", !.outcome = Aborted]]
          /\ UNCHANGED <<pending, timer, build, since>>
     ELSE LET k == KeyOf[c]
              b == IF pending[k] = NoCall THEN c ELSE pending[k] IN
          /\ call' = [call EXCEPT ![c] = [@ EXCEPT !.at = "waits", !.joined = b]]
          /\ pending' = [pending EXCEPT ![k] = b]
          /\ timer' = timer \ {b}
          /\ build' = IF b = c THEN [build EXCEPT ![c] = [@ EXCEPT !.at = "walk"]]
                               ELSE build
          /\ since' = IF b = c THEN [since EXCEPT ![c] = disk] ELSE since
  /\ UNCHANGED <<disk, cache, fired, cancelled, disposed>>

(* The signal of a waiting call fires, and with it the owner signal of its lease. *)
Fire(c) ==
  /\ call[c].at = "waits" /\ c \notin fired
  /\ fired' = fired \union {c}
  /\ UNCHANGED <<disk, cache, pending, call, timer, cancelled, build, disposed, since>>

(* Mutant: the consumers are counted before the call is taken off. *)
LeaveCountsItself(c) ==
  /\ call[c].at = "waits"
  /\ LET b == call[c].joined IN
     /\ Settle(b) \/ c \in fired
     /\ call' = [call EXCEPT ![c] = [@ EXCEPT !.at = "done", !.joined = NoCall,
                  !.outcome = IF Settle(b) THEN build[b].outcome ELSE Aborted]]
     /\ timer' = IF Consumers(b) = {} /\ ~Settle(b) THEN timer \union {b} ELSE timer
  /\ UNCHANGED <<disk, cache, pending, fired, cancelled, build, disposed, since>>

(* consumePending returns: with the answer of the settled build, or because the
   signal fired.  The last consumer of an unsettled build sets the timer.  The
   adapter closes the lease when the call ends.  A settled build without consumers
   is garbage. *)
Leave(c) ==
  /\ call[c].at = "waits"
  /\ LET b == call[c].joined IN
     /\ \/ /\ Settle(b)
           /\ call' = [call EXCEPT ![c] = [@ EXCEPT !.at = "done", !.joined = NoCall,
                                            !.outcome = build[b].outcome]]
        \/ /\ c \in fired
           /\ call' = [call EXCEPT ![c] = [@ EXCEPT !.at = "done", !.joined = NoCall, !.outcome = Aborted]]
     /\ timer' = IF Consumers(b) = {c} /\ ~Settle(b) THEN timer \union {b} ELSE timer
     /\ build' = IF Consumers(b) = {c} /\ Settle(b)
                 THEN [build EXCEPT ![b] = [NewBuild EXCEPT !.at = "settled"]] ELSE build
  /\ UNCHANGED <<disk, cache, pending, fired, cancelled, disposed, since>>

(* The abort timer: setImmediate, one turn after the last consumer left. *)
TimerFires(b) ==
  /\ b \in timer
  /\ timer' = timer \ {b}
  /\ IF Consumers(b) = {} /\ ~Settle(b) THEN cancelled' = cancelled \union {b} ELSE UNCHANGED cancelled
  /\ UNCHANGED <<disk, cache, pending, call, fired, build, disposed, since>>

----------------------------------------------------------------------------
(* The build. *)

(* A read of the workspace is bound to the owner signal of the creator's lease,
   which fires with that call's signal and when that call returns. *)
LeaseEnded(b) == b \in fired \/ call[b].at = "done"

(* settle: the build is settled and its key is free again; the consumers learn
   of it in their own turn.  Only the outcome is left of the build. *)
SettleWith(b, o) ==
  /\ build' = [build EXCEPT ![b] = [NewBuild EXCEPT !.at = "settled", !.outcome = o]]
  /\ timer' = timer \ {b}
  /\ cancelled' = cancelled \ {b}
  /\ since' = [since EXCEPT ![b] = 0]
  /\ pending' = [k \in Keys |-> IF pending[k] = b THEN NoCall ELSE pending[k]]

BuildGoesOn(b, at) ==
  /\ build' = [build EXCEPT ![b] = [@ EXCEPT !.at = at]]
  /\ UNCHANGED <<timer, pending, cancelled, since>>

Reading(b) ==
  UNCHANGED <<disk, call, fired, disposed>>

(* discoverDirectory or queueExplicitFile: the walk takes the file's stamp. *)
Walk(b) ==
  /\ Reading(b) /\ build[b].at = "walk"
  /\ IF LeaseEnded(b) \/ b \in cancelled THEN SettleWith(b, Aborted)
     ELSE /\ build' = [build EXCEPT ![b] = [@ EXCEPT !.at = "load", !.stamp = disk]]
          /\ UNCHANGED <<timer, pending, cancelled, since>>
  /\ UNCHANGED cache

(* Mutant: an entry is taken whatever its stamp. *)
CacheAnyStamp(b) == cache # NoEntry

CacheCurrent(b) == cache # NoEntry /\ cache.stamp = build[b].stamp

(* prepareFile: a current entry answers without a read, unless the key filters
   by content; otherwise the text is read, and a current entry of the same text
   saves the parse. *)
Load(b) ==
  /\ Reading(b) /\ build[b].at = "load"
  /\ \/ /\ b \in cancelled
        /\ SettleWith(b, Aborted)
     \/ /\ b \notin cancelled /\ CacheCurrent(b) /\ KeyOf[b] \notin LiteralKeys
        /\ SettleWith(b, cache.text)
     \/ /\ b \notin cancelled /\ (CacheCurrent(b) => KeyOf[b] \in LiteralKeys)
        /\ IF LeaseEnded(b) THEN SettleWith(b, Aborted)
           ELSE IF CacheCurrent(b) /\ cache.text = disk THEN SettleWith(b, disk)
           ELSE /\ build' = [build EXCEPT ![b] = [@ EXCEPT !.at = "parse", !.text = disk]]
                /\ UNCHANGED <<timer, pending, cancelled, since>>
  /\ UNCHANGED cache

(* Mutant: the entry gets the stamp the file has when it is stored. *)
EntryStampedLate(b) == [stamp |-> disk, text |-> build[b].text]

(* storeAnalyzedFile, under the stamp of the walk. *)
Entry(b) == [stamp |-> build[b].stamp, text |-> build[b].text]

Store(b) ==
  /\ cache' = Entry(b)
  /\ SettleWith(b, build[b].text)

(* analyzeFiles and analyzeLocally: the text is parsed in the process. *)
ParseHere(b) ==
  /\ Reading(b) /\ build[b].at \in {"parse", "again"}
  /\ IF b \in cancelled \/ disposed THEN SettleWith(b, Aborted) /\ UNCHANGED cache
     ELSE Store(b)

(* analyzeFiles: the text is handed to the pool, ... *)
ParseInPool(b) ==
  /\ Reading(b) /\ build[b].at = "parse"
  /\ b \notin cancelled /\ ~disposed
  /\ BuildGoesOn(b, "pool")
  /\ UNCHANGED cache

(* Mutant: a task aborted in the pool is never answered. *)
PoolForgetsAborted(b) ==
  /\ Reading(b) /\ build[b].at = "pool" /\ b \notin cancelled /\ ~disposed
  /\ Store(b) \/ (BuildGoesOn(b, "again") /\ UNCHANGED cache)

(* ... whose answer ends the build, if it is an abort, or is stored; any other
   failure of a worker is made good by parsing in the process. *)
PoolAnswers(b) ==
  /\ Reading(b) /\ build[b].at = "pool"
  /\ \/ /\ b \in cancelled \/ disposed
        /\ SettleWith(b, Aborted)
        /\ UNCHANGED cache
     \/ /\ b \notin cancelled /\ ~disposed
        /\ Store(b)
     \/ /\ b \notin cancelled /\ ~disposed
        /\ BuildGoesOn(b, "again")
        /\ UNCHANGED cache

BuildStep(b) ==
  Walk(b) \/ Load(b) \/ ParseHere(b) \/ ParseInPool(b) \/ PoolAnswers(b)

(* GrepTool.dispose: the owner signal fires in every call, every pending build is
   cancelled, the parser disposes its pool. *)
Dispose ==
  /\ ~disposed
  /\ disposed' = TRUE
  /\ fired' = Calls
  /\ cache' = NoEntry
  /\ timer' = timer \ {pending[k] : k \in Keys}
  /\ pending' = [k \in Keys |-> NoCall]
  /\ cancelled' = cancelled \union ({pending[k] : k \in Keys} \ {NoCall})
  /\ UNCHANGED <<disk, call, build, since>>

(* Somebody writes the file. *)
Write ==
  /\ disk < MaxVersion
  /\ disk' = disk + 1
  /\ UNCHANGED <<cache, pending, call, fired, timer, cancelled, build, disposed, since>>

Next ==
  \/ \E c \in Calls : Join(c) \/ Fire(c) \/ Leave(c) \/ TimerFires(c) \/ BuildStep(c)
  \/ Dispose
  \/ Write

Spec == Init /\ [][Next]_vars

(* The event loop runs timers, settled promises and the steps of a build, and the
   pool settles its tasks. *)
FairSpec ==
  /\ Spec
  /\ \A c \in Calls : WF_vars(Leave(c)) /\ WF_vars(TimerFires(c)) /\ WF_vars(BuildStep(c))

----------------------------------------------------------------------------
(* An entry whose stamp is the file's present stamp holds the file's present
   text, whatever builds of different keys stored into the cache in whatever
   order while the file changed: prepareFile may trust it unread. *)
CacheCoherent ==
  cache # NoEntry /\ cache.stamp = disk => cache.text = disk

(* A build never answers its consumers with a text older than its creation:
   neither the cache nor a parse that ended late takes it back. *)
AnswersNotBeforeBuild ==
  [][\A b \in Calls : build[b].at # "settled" /\ build'[b].outcome \in Versions =>
       build'[b].outcome >= since[b]]_vars

(* A build nobody waits for does not go on: it has a timer, is cancelled, or is
   about to settle, and nobody's build is never in the table without one of
   these.  It is about the counting of consumers across joins and departures. *)
NoAbandonedBuild ==
  \A b \in Calls :
    build[b].at \notin {"none", "settled"} /\ Consumers(b) = {} =>
      b \in timer \/ b \in cancelled \/ disposed

(* Every call that waits returns, through aborts of others, failures of workers
   and dispose; each waits once. *)
EverySearchReturns == <>[](\A c \in Calls : call[c].at # "waits")
=============================================================================

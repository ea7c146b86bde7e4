--------------------------- MODULE RepoMapSession ---------------------------
(***************************************************************************)
(* Who may use the repository map of a session, and with which generation: *)
(* the activation entries of the session branch (runtime/activation.ts),   *)
(* /init, /init off and the automatic activation at session start          *)
(* (runtime/commands.ts), and the queries and mutation refreshes of the    *)
(* file tools (query/file-tool-query.ts).  Building and committing a       *)
(* generation is RepoMapStore's matter; here a job of one process queues,  *)
(* scans, and publishes or fails.  What its caller does with the result    *)
(* follows in the microtasks of its end: the next job reads files before   *)
(* it scans, so a job keeps its turn until its caller has gone on.         *)
(*                                                                         *)
(* One repository: the last entry of the branch decides both what is       *)
(* active and whether automatic activation is disabled.                    *)
(***************************************************************************)
EXTENDS Naturals, Sequences, FiniteSets

CONSTANTS
  Mutations,   \* write and edit calls
  Queries,     \* tool calls that ask the map
  Runs,        \* automatic activations, one per session start
  Manual,      \* /init calls
  Flaky,       \* bound: jobs that may fail for no reason of their own
  Nothing, Off,   \* no entry; a deactivation entry
  MaxHeads,    \* bound: checkouts of another revision
  MaxOffs      \* bound: /init off commands

Jobs == Mutations \cup Queries \cup Runs \cup Manual
MaxWrites == Cardinality(Mutations)
Generations == [head : 0 .. MaxHeads, files : 0 .. MaxWrites]

ASSUME SessionAssumption ==
  /\ MaxHeads \in Nat /\ MaxOffs \in Nat /\ Off # Nothing
  /\ Nothing \notin Generations \cup Jobs /\ Off \notin Generations
  /\ IsFiniteSet(Mutations) /\ Flaky \subseteq Jobs
  /\ Mutations \cap (Queries \cup Runs \cup Manual) = {}
  /\ Queries \cap (Runs \cup Manual) = {} /\ Runs \cap Manual = {}

VARIABLES
  head, files,  \* the worktree: checked out revision and contents
  cur,          \* CURRENT: the published generation
  entry,        \* the last Repo Map entry of the branch: a generation, Off, Nothing
  queue,        \* mapUpdateTails: the jobs of the map in order
  job,          \* every job: where it is, the HEAD it detected, what it scanned
  cancelled,    \* jobs whose signal is aborted
  pc,           \* where every operation is
  act,          \* the activation an operation computed when it began
  gen,          \* the generation a query answers from
  wrote,        \* the contents a mutation made
  stale,        \* staleRefresh: the query that started it
  waits,        \* the stale refresh a query consumes
  pending,      \* the automatic activation of the current session
  offs,         \* /init off commands so far
  wish,         \* history: what the user last asked for, and what was under way when it
                \* was off
  known         \* history: mutations that had returned when a query began

worktree == <<head, files>>
jobs == <<queue, job, cancelled, cur>>
session == <<entry, offs, wish, pending>>
opers == <<pc, act, gen, wrote, stale, waits, known>>
sessionVars == <<worktree, jobs, session, opers>>

NoJob == [at |-> "none", head |-> 0, files |-> 0]

SessionInit ==
  /\ head = 0 /\ files = 0
  /\ cur \in {Nothing} \cup {[head |-> h, files |-> 0] : h \in 0 .. MaxHeads}
  /\ entry \in {Nothing, cur}
  /\ queue = <<>> /\ cancelled = {}
  /\ job = [j \in Jobs |-> NoJob]
  /\ pc = [j \in Jobs |-> "idle"] /\ act = [j \in Jobs |-> Nothing]
  /\ gen = [q \in Queries |-> Nothing] /\ wrote = [m \in Mutations |-> 0]
  /\ stale = Nothing /\ waits = [q \in Queries |-> Nothing] /\ pending = Nothing
  /\ offs = 0 /\ wish = [on |-> TRUE, during |-> {}] /\ known = [q \in Queries |-> {}]

\* computeRepoMapActivation and isRepoMapAutoActivationDisabled.
activationDespiteOff == IF entry = Off THEN cur ELSE entry
activation == IF entry = Off THEN Nothing ELSE entry
disabled == entry = Off

GoOn(j, place) == pc' = [pc EXCEPT ![j] = place]

-----------------------------------------------------------------------------
(* The job of a refresh: service.ts, initializeRepoMapWithPrevious.        *)

\* The identity with its HEAD is detected before the job queues up.
Enqueue(j) ==
  /\ queue' = Append(queue, j)
  /\ job' = [job EXCEPT ![j].at = "queued", ![j].head = head]
  /\ UNCHANGED <<cancelled, cur>>

\* Mutant: a job does not wait for the jobs before it.
ScanAtOnce(j) ==
  /\ job[j].at = "queued"
  /\ job' = [job EXCEPT ![j].at = "scanned", ![j].files = files]
  /\ UNCHANGED <<worktree, queue, cancelled, cur, session, opers>>

\* withMapUpdateLock: one job at a time scans and publishes.
Scan(j) ==
  /\ job[j].at = "queued" /\ Head(queue) = j
  /\ job' = [job EXCEPT ![j].at = "scanned", ![j].files = files]
  /\ UNCHANGED <<worktree, queue, cancelled, cur, session, opers>>

\* HEAD is compared with the one the job detected; an aborted job gives up.
Compare(j) ==
  /\ job[j].at = "scanned"
  /\ job' = [job EXCEPT ![j].at =
       IF j \notin cancelled /\ job[j].head = head THEN "compared" ELSE "failed"]
  /\ UNCHANGED <<worktree, queue, cancelled, cur, session, opers>>

\* commitGeneration: CURRENT moves to the generation.  It may also fail, say at
\* COMMIT_LOCK, and an abort may come in time or too late.
Publish(j) ==
  /\ job[j].at = "compared"
  /\ \/ /\ cur' = [head |-> job[j].head, files |-> job[j].files]
        /\ job' = [job EXCEPT ![j].at = "ok"]
     \/ /\ j \in cancelled \cup Flaky
        /\ job' = [job EXCEPT ![j].at = "failed"] /\ UNCHANGED cur
  /\ UNCHANGED <<worktree, queue, cancelled, session, opers>>

\* The job is over and its caller goes on.
Settled(j) == job[j].at \in {"ok", "failed"}
TurnEnds(j) == queue' = Tail(queue) /\ job' = [job EXCEPT ![j] = NoJob]

Built(j) == [head |-> job[j].head, files |-> job[j].files]

-----------------------------------------------------------------------------
(* syncMutations of file-tool-query.ts.                                    *)

\* The file is written; its post-processing comes next.
Write(m) ==
  /\ pc[m] = "idle" /\ GoOn(m, "written")
  /\ files' = files + 1 /\ wrote' = [wrote EXCEPT ![m] = files + 1]
  /\ UNCHANGED <<head, jobs, session, act, gen, stale, waits, known>>

\* Without an activation there is nothing to refresh.
syncMutations(m) ==
  /\ pc[m] = "written"
  /\ GoOn(m, IF activation = Nothing THEN "done" ELSE "before")
  /\ act' = [act EXCEPT ![m] = activation]
  /\ UNCHANGED <<worktree, jobs, session, gen, wrote, stale, waits, known>>

\* The generation before the mutation has been read and the path is in scope.
refresh(m) ==
  /\ pc[m] = "before" /\ GoOn(m, "refresh")
  /\ Enqueue(m)
  /\ UNCHANGED <<worktree, session, act, gen, wrote, stale, waits, known>>

\* The refreshed generation is activated; a refresh that failed activates the
\* one the mutation began with, as partially stale.
appendRefreshed(m) ==
  /\ pc[m] = "refresh"
  /\ \/ job[m].at = "ok" /\ entry' = Built(m) /\ GoOn(m, "updated")
     \/ job[m].at = "failed" /\ entry' = act[m] /\ GoOn(m, "done")
  /\ act' = [act EXCEPT ![m] = Nothing] /\ TurnEnds(m)
  /\ UNCHANGED <<worktree, cancelled, cur, offs, wish, pending, gen, wrote,
                 stale, waits, known>>

-----------------------------------------------------------------------------
(* loadEnabled, refreshStale and the verification of a query.              *)

beginQuery(q) ==
  /\ pc[q] = "idle"
  /\ GoOn(q, IF activation = Nothing THEN "done" ELSE "read")
  /\ act' = [act EXCEPT ![q] = activation]
  /\ known' = [known EXCEPT ![q] = {m \in Mutations : pc[m] = "updated"}]
  /\ UNCHANGED <<worktree, jobs, session, gen, wrote, stale, waits>>

\* readActivatedRepoMapState and the gate: the activation must be CURRENT; one
\* whose HEAD has moved is stale and is refreshed by whoever asks first.
readActivated(q) ==
  /\ pc[q] = "read"
  /\ \/ /\ cur # act[q] /\ GoOn(q, "done")
        /\ UNCHANGED <<jobs, gen, stale, waits>>
     \/ /\ cur = act[q] /\ cur.head = head /\ GoOn(q, "verify")
        /\ gen' = [gen EXCEPT ![q] = cur] /\ UNCHANGED <<jobs, stale, waits>>
     \/ /\ cur = act[q] /\ cur.head # head /\ GoOn(q, "stale")
        /\ IF stale = Nothing
             THEN Enqueue(q) /\ stale' = q /\ waits' = [waits EXCEPT ![q] = q]
             ELSE UNCHANGED <<jobs, stale>> /\ waits' = [waits EXCEPT ![q] = stale]
        /\ UNCHANGED gen
  /\ UNCHANGED <<worktree, session, act, wrote, known>>

\* A consumer that is aborted leaves; the last one to leave takes the refresh
\* off and aborts it.
leave(q) ==
  /\ pc[q] = "stale"
  /\ GoOn(q, "done") /\ waits' = [waits EXCEPT ![q] = Nothing]
  /\ IF \E p \in Queries : waits'[p] = waits[q]
       THEN UNCHANGED <<stale, cancelled>>
       ELSE /\ stale' = IF stale = waits[q] THEN Nothing ELSE stale
            /\ cancelled' = cancelled \cup {waits[q]}
  /\ UNCHANGED <<worktree, queue, job, cur, session, act, gen, wrote, known>>

\* The refresh settles: its generation is activated, even if nobody waits for
\* it any more, and all consumers go on.
staleRefreshSettles(o) ==
  /\ Settled(o) /\ TurnEnds(o)
  /\ entry' = IF job[o].at = "ok" THEN Built(o) ELSE entry
  /\ stale' = IF stale = o THEN Nothing ELSE stale
  /\ pc' = [j \in Jobs |-> IF j \in Queries /\ waits[j] = o
                             THEN IF job[o].at = "ok" THEN "verify" ELSE "done"
                             ELSE pc[j]]
  /\ gen' = [q \in Queries |-> IF waits[q] = o /\ job[o].at = "ok" THEN Built(o) ELSE gen[q]]
  /\ act' = [j \in Jobs |-> IF j \in Queries /\ waits[j] = o /\ job[o].at = "ok"
                              THEN Built(o) ELSE act[j]]
  /\ waits' = [q \in Queries |-> IF waits[q] = o THEN Nothing ELSE waits[q]]
  /\ UNCHANGED <<worktree, cancelled, cur, offs, wish, pending, wrote, known>>

\* Candidates whose live file differs are dropped, and the activation the
\* query began with is written again as partially stale.
verify(q) ==
  /\ pc[q] = "verify" /\ GoOn(q, "answered")
  /\ entry' \in {entry} \cup (IF gen[q].files # files THEN {act[q]} ELSE {})
  /\ act' = [act EXCEPT ![q] = Nothing]
  /\ UNCHANGED <<worktree, jobs, offs, wish, pending, gen, wrote, stale, waits, known>>

-----------------------------------------------------------------------------
(* commands.ts.                                                            *)

\* session_start: the activation of the session before is cancelled; a branch
\* whose last word is off starts none.
sessionStart(r) ==
  /\ pc[r] = "idle"
  /\ IF disabled
       THEN GoOn(r, "done") /\ pending' = Nothing
       ELSE GoOn(r, "timer") /\ pending' = r
  /\ cancelled' = cancelled \cup ({pending} \ {Nothing})
  /\ UNCHANGED <<worktree, queue, job, cur, entry, offs, wish,
                 act, gen, wrote, stale, waits, known>>

\* session_shutdown cancels it, too.
sessionShutdown ==
  /\ pending # Nothing
  /\ pending' = Nothing /\ cancelled' = cancelled \cup {pending}
  /\ UNCHANGED <<worktree, queue, job, cur, entry, offs, wish, opers>>

Proceeds(r) == pending = r /\ ~disabled

\* The run ends; it is no longer pending.
EndRun(r) == GoOn(r, "done") /\ pending' = IF pending = r THEN Nothing ELSE pending

\* discoverCurrentRepoMap finds the published generation, if there is one, and
\* whether HEAD has moved since.
discover(r) ==
  /\ pc[r] = "timer"
  /\ \/ /\ Proceeds(r) /\ act' = [act EXCEPT ![r] = cur] /\ UNCHANGED pending
        /\ GoOn(r, IF cur = Nothing \/ cur.head = head THEN "found" ELSE "outdated")
     \/ ~Proceeds(r) /\ EndRun(r) /\ UNCHANGED act
  /\ UNCHANGED <<worktree, jobs, entry, offs, wish, gen, wrote, stale, waits, known>>

\* The run looks at the session again: what it found is activated ...
activate(r) ==
  /\ pc[r] = "found" /\ EndRun(r)
  /\ entry' = IF Proceeds(r) /\ act[r] # Nothing THEN act[r] ELSE entry
  /\ act' = [act EXCEPT ![r] = Nothing]
  /\ UNCHANGED <<worktree, jobs, offs, wish, gen, wrote, stale, waits, known>>

\* ... or refreshed first ...
startRefresh(r) ==
  /\ pc[r] = "outdated"
  /\ \/ Proceeds(r) /\ GoOn(r, "refresh") /\ Enqueue(r) /\ UNCHANGED pending
     \/ ~Proceeds(r) /\ EndRun(r) /\ UNCHANGED jobs
  /\ act' = [act EXCEPT ![r] = Nothing]
  /\ UNCHANGED <<worktree, entry, offs, wish, gen, wrote, stale, waits, known>>

\* Mutant: nobody looks at the session after the refresh.
refreshedAnyway(r) ==
  /\ pc[r] = "refresh" /\ Settled(r) /\ EndRun(r) /\ TurnEnds(r)
  /\ entry' = IF job[r].at = "ok" THEN Built(r) ELSE entry
  /\ UNCHANGED <<worktree, cancelled, cur, offs, wish, act, gen, wrote, stale, waits, known>>

\* ... and looked at once more before it is activated.
refreshed(r) ==
  /\ pc[r] = "refresh" /\ Settled(r) /\ EndRun(r) /\ TurnEnds(r)
  /\ entry' = IF job[r].at = "ok" /\ Proceeds(r) THEN Built(r) ELSE entry
  /\ UNCHANGED <<worktree, cancelled, cur, offs, wish, act, gen, wrote, stale, waits, known>>

Wanted == [on |-> TRUE, during |-> wish.during]
\* Who may append what it has read of the branch, or refreshes it: a stale refresh goes on
\* when all who waited for it have left.
Begun == {j \in Mutations \cup Queries :
            \/ pc[j] \in {"before", "refresh", "read", "stale", "verify"}
            \/ job[j].at # "none"}

\* /init: the user asks for the map; what is built is activated.
initialize(i) ==
  /\ pc[i] = "idle" /\ GoOn(i, "refresh") /\ Enqueue(i)
  /\ wish' = Wanted
  /\ UNCHANGED <<worktree, entry, offs, pending, act, gen, wrote, stale, waits, known>>

initialized(i) ==
  /\ pc[i] = "refresh" /\ Settled(i) /\ GoOn(i, "done") /\ TurnEnds(i)
  /\ entry' = IF job[i].at = "ok" THEN Built(i) ELSE entry
  /\ wish' = IF job[i].at = "ok" THEN Wanted ELSE wish
  /\ UNCHANGED <<worktree, cancelled, cur, offs, pending, act, gen, wrote, stale, waits, known>>

\* /init off.
turnOff ==
  /\ offs < MaxOffs /\ offs' = offs + 1
  /\ entry' = Off /\ wish' = [on |-> FALSE, during |-> Begun]
  /\ UNCHANGED <<worktree, jobs, pending, opers>>

\* Another revision is checked out.
Checkout ==
  /\ head < MaxHeads /\ head' = head + 1
  /\ UNCHANGED <<files, jobs, session, opers>>

-----------------------------------------------------------------------------

MutationStep(m) == syncMutations(m) \/ refresh(m) \/ appendRefreshed(m)
QueryStep(q) == readActivated(q) \/ verify(q) \/ staleRefreshSettles(q)
RunStep(r) == discover(r) \/ activate(r) \/ startRefresh(r) \/ refreshed(r)

SessionNext ==
  \/ \E j \in Jobs : Scan(j) \/ Compare(j) \/ Publish(j)
  \/ \E m \in Mutations : Write(m) \/ MutationStep(m)
  \/ \E q \in Queries : beginQuery(q) \/ QueryStep(q) \/ leave(q)
  \/ \E r \in Runs : sessionStart(r) \/ RunStep(r)
  \/ \E i \in Manual : initialize(i) \/ initialized(i)
  \/ sessionShutdown \/ turnOff \/ Checkout

SessionSpec == SessionInit /\ [][SessionNext]_sessionVars

-----------------------------------------------------------------------------

SessionTypeOK ==
  /\ head \in 0 .. MaxHeads /\ files \in 0 .. MaxWrites
  /\ cur \in Generations \cup {Nothing} /\ entry \in Generations \cup {Nothing, Off}
  /\ queue \in Seq(Jobs) /\ cancelled \subseteq Jobs
  /\ stale \in Queries \cup {Nothing} /\ pending \in Runs \cup {Nothing}

\* docs/repo-map/lifecycle.md: mutations leave no window in which a query sees
\* the map of before.  A query that began after a mutation reported its refresh
\* is never answered from a generation scanned before that mutation wrote.
NoStaleWindow ==
  \A q \in Queries : pc[q] = "answered" =>
    \A m \in known[q] : gen[q].files >= wrote[m]

\* A stale refresh that some query waits for is not the one that was aborted
\* because everybody had left it.
WaitersNotAborted ==
  \A q \in Queries : pc[q] = "stale" => waits[q] \notin cancelled

\* A query answers from a generation with all that was known when it began, and the
\* refresh it waits for is not aborted by another.
NoStaleAnswer == SessionTypeOK /\ NoStaleWindow /\ WaitersNotAborted

\* The operation that takes a step: the one whose job moves, or that goes on by itself.
Acts(j) == job'[j] # job[j] \/ (job' = job /\ pc'[j] # pc[j])

\* /init off holds against everything that comes later (activation.ts:85,
\* docs/repo-map/lifecycle.md:15): the branch does not leave off but by an /init, or by a
\* mutation, a query or a stale refresh that was under way when the user said off - not by
\* an automatic activation, nor by anything that began since, whose refresh it may share.
OffHoldsAgainstLater ==
  [][entry = Off /\ entry' # Off =>
       \E j \in Manual \cup wish.during : Acts(j)]_sessionVars

\* activation.ts: /init off wins over later automatic activations until the
\* user initialises again.  A refresh under way appends its activation without
\* looking at the branch again: off is forgotten.
OffHoldsUntilInit ==
  [][\A r \in Runs : pc[r] \in {"found", "refresh"} /\ pc'[r] = "done" /\ entry' # entry
       => wish.on]_sessionVars

=============================================================================

------------------------------ MODULE FileTools ------------------------------
(***************************************************************************)
(* The read, write and edit tools over FileToolsHost and the session's     *)
(* ObservationStore (src/file-tools). A mutation is what WorkspaceMutation *)
(* shows it to be: exclusive per canonical file from its snapshot on, and  *)
(* committed only if the file still has that snapshot. What is added here  *)
(* is who has observed which version, and when that was recorded.          *)
(***************************************************************************)
EXTENDS Naturals, FiniteSets

CONSTANTS
  ToolCalls,    \* tool calls
  Sessions,     \* session ids
  Paths,        \* lexical paths
  Files,        \* canonical paths
  Contents,     \* what another process may leave in a file
  Missing,      \* content of no file
  NoVersion,    \* no observation
  None,         \* no session, store, file or path
  MaxOutside    \* bound: steps of other processes


ToolNames == {"read", "write", "edit"}

VARIABLES
  disk, link, outside,       \* files, what each path resolves to, bound counter
  accepting, shut,           \* FileToolsHost.accepting, disposed
  sessions,     \* sessions[s]: the store of session s (named by the call that made it)
  closed,       \* stores that were disposed
  observed,     \* observed[st][f]: version the store st has of file f
  toolPc, tool, session, path,   \* the call and its arguments
  store,        \* store[c]: the store the call was given
  target,       \* target[c]: file the path resolved to, before the queue
  snap,         \* snap[c]: bytes a read loaded, or the snapshot of a mutation
  locked,       \* locked[c]: file whose queue the mutation holds
  toolResult,
  lastWriter,   \* history: session whose commit made the present content of f
  known,        \* history: contents session s was shown or wrote
  overtaken,    \* history: <<s, f>> whose last read recorded outdated bytes
  dropped       \* history: sessions whose store was disposed after others were given it

worldVars == <<disk, link, outside, lastWriter>>
hostVars == <<accepting, shut, sessions, closed, dropped>>
argVars == <<tool, session, path>>
callVars == <<toolPc, store, target, snap, locked, toolResult>>
obsVars == <<observed, known, overtaken>>
toolVars == <<worldVars, hostVars, argVars, callVars, obsVars>>

Apply(c, content) == IF tool[c] = "edit" THEN content \union {c} ELSE {c}

WriteMarks == ToolCalls \union UNION {m \in Contents : m # Missing}
FileContent == (SUBSET WriteMarks) \union {Missing}

ASSUME FileToolsAssumption ==
  /\ Missing \in Contents /\ MaxOutside \in Nat
  /\ None \notin ToolCalls \union Sessions \union Files \union Paths
  /\ \A content \in FileContent : content # NoVersion

PCs == {"idle", "opening", "resolve", "load", "remember", "enter", "commit", "done"}

ToolsTypeOK ==
  /\ disk \in [Files -> FileContent] /\ link \in [Paths -> Files]
  /\ outside \in 0..MaxOutside
  /\ accepting \in BOOLEAN /\ shut \in BOOLEAN
  /\ sessions \in [Sessions -> ToolCalls \union {None}]
  /\ closed \in SUBSET ToolCalls /\ dropped \in SUBSET Sessions
  /\ observed \in [ToolCalls -> [Files -> FileContent \union {NoVersion}]]
  /\ toolPc \in [ToolCalls -> PCs] /\ tool \in [ToolCalls -> ToolNames \union {None}]
  /\ session \in [ToolCalls -> Sessions \union {None}]
  /\ path \in [ToolCalls -> Paths \union {None}]
  /\ store \in [ToolCalls -> ToolCalls \union {None}]
  /\ target \in [ToolCalls -> Files \union {None}] /\ locked \in [ToolCalls -> Files \union {None}]
  /\ snap \in [ToolCalls -> FileContent]
  /\ toolResult \in [ToolCalls -> {"pending", "ok", "failed", "READ_REQUIRED", "STALE_READ"}]
  /\ lastWriter \in [Files -> Sessions \union {None}]
  /\ known \in [Sessions -> SUBSET FileContent]
  /\ overtaken \in SUBSET (Sessions \X Files)

ToolsInit ==
  /\ disk \in [Files -> Contents] /\ link \in [Paths -> Files] /\ outside = 0
  /\ accepting = TRUE /\ shut = FALSE
  /\ sessions = [s \in Sessions |-> None] /\ closed = {} /\ dropped = {}
  /\ observed = [c \in ToolCalls |-> [f \in Files |-> NoVersion]]
  /\ toolPc = [c \in ToolCalls |-> "idle"] /\ tool = [c \in ToolCalls |-> None]
  /\ session = [c \in ToolCalls |-> None] /\ path = [c \in ToolCalls |-> None]
  /\ store = [c \in ToolCalls |-> None] /\ target = [c \in ToolCalls |-> None]
  /\ locked = [c \in ToolCalls |-> None] /\ snap = [c \in ToolCalls |-> Missing]
  /\ toolResult = [c \in ToolCalls |-> "pending"]
  /\ lastWriter = [f \in Files |-> None]
  /\ known = [s \in Sessions |-> {}]
  /\ overtaken = {}

-----------------------------------------------------------------------------
Finish(c, r) ==
  /\ toolPc' = [toolPc EXCEPT ![c] = "done"]
  /\ toolResult' = [toolResult EXCEPT ![c] = r]
  /\ locked' = [locked EXCEPT ![c] = None]

Goto(c, p) == toolPc' = [toolPc EXCEPT ![c] = p] /\ UNCHANGED <<toolResult, locked>>

\* ObservationStore.remember: a disposed store records nothing.
Record(st, f, version) ==
  observed' = IF st \in closed THEN observed ELSE [observed EXCEPT ![st][f] = version]

Learn(c, f, version) ==
  /\ known' = [known EXCEPT ![session[c]] = @ \union {version}]
  /\ overtaken' = IF version = disk'[f] THEN overtaken \ {<<session[c], f>>}
                  ELSE overtaken \union {<<session[c], f>>}

\* A store that was given to another call than the one that made it.
Shared(st) == \E d \in ToolCalls \ {st} : store[d] = st

-----------------------------------------------------------------------------

\* FileToolsHost.open up to `await filesystem.open`: the session's store is
\* found or created.
Open(c, t, s, p) ==
  /\ toolPc[c] = "idle" /\ accepting
  /\ tool' = [tool EXCEPT ![c] = t] /\ session' = [session EXCEPT ![c] = s]
  /\ path' = [path EXCEPT ![c] = p]
  /\ sessions' = [sessions EXCEPT ![s] = IF @ = None THEN c ELSE @]
  /\ store' = [store EXCEPT ![c] = sessions'[s]]
  /\ Goto(c, "opening")
  /\ UNCHANGED <<worldVars, accepting, shut, closed, dropped, target, snap, obsVars>>

\* The lease cannot be opened (an abort, a bad root, a visibility error). The
\* call that created the store disposes it, whoever else was given it.
OpenRefused(c) ==
  /\ toolPc[c] = "opening"
  /\ Finish(c, "failed")
  /\ IF store[c] = c /\ sessions[session[c]] = c
     THEN /\ closed' = closed \union {c}
          /\ sessions' = [sessions EXCEPT ![session[c]] = None]
          /\ observed' = [observed EXCEPT ![c] = [f \in Files |-> NoVersion]]
          /\ dropped' = IF Shared(c) THEN dropped \union {session[c]} ELSE dropped
     ELSE UNCHANGED <<closed, sessions, observed, dropped>>
  /\ UNCHANGED <<worldVars, accepting, shut, argVars, store, target, snap,
                 known, overtaken>>

\* The lease is open; a host that has stopped meanwhile gives it back.
Opened(c) ==
  /\ toolPc[c] = "opening"
  /\ IF accepting THEN Goto(c, "resolve") ELSE Finish(c, "failed")
  /\ UNCHANGED <<worldVars, hostVars, argVars, store, target, snap, obsVars>>

\* resolveExisting for read, resolveTarget for write and edit; a read or an
\* edit of a missing file ends here.
Resolve(c) ==
  LET f == link[path[c]] IN
  /\ toolPc[c] = "resolve" /\ ~shut
  /\ target' = [target EXCEPT ![c] = f]
  /\ IF tool[c] # "write" /\ disk[f] = Missing THEN Finish(c, "failed")
     ELSE Goto(c, IF tool[c] = "read" THEN "load" ELSE "enter")
  /\ UNCHANGED <<worldVars, hostVars, argVars, store, snap, obsVars>>

-----------------------------------------------------------------------------
(* read                                                                      *)

\* readBytes, stable: the bytes the file had at one moment.
Load(c) ==
  /\ toolPc[c] = "load" /\ ~shut /\ disk[target[c]] # Missing
  /\ snap' = [snap EXCEPT ![c] = disk[target[c]]]
  /\ Goto(c, "remember")
  /\ UNCHANGED <<worldVars, hostVars, argVars, store, target, obsVars>>

\* After file type detection (and image processing) the bytes loaded before
\* are recorded as this session's observation.
Remember(c) ==
  /\ toolPc[c] = "remember" /\ ~shut
  /\ Record(store[c], target[c], snap[c])
  /\ Finish(c, "ok")
  /\ UNCHANGED <<worldVars, hostVars, argVars, store, target, snap>>
  /\ Learn(c, target[c], snap[c])

-----------------------------------------------------------------------------
(* write and edit                                                            *)

Exclusive(c, f) == \A d \in ToolCalls \ {c} : locked[d] # f

\* The mutation holds the queue of the file its path resolves to now, reads
\* the snapshot and runs the tool's transform on it.
EnterWrite(c) ==
  LET f == link[path[c]] IN
  /\ toolPc[c] = "enter" /\ tool[c] = "write" /\ ~shut /\ Exclusive(c, f)
  /\ snap' = [snap EXCEPT ![c] = disk[f]]
  /\ locked' = [locked EXCEPT ![c] = f]
  /\ toolPc' = [toolPc EXCEPT ![c] = "commit"]
  /\ UNCHANGED <<worldVars, hostVars, argVars, store, target, toolResult, obsVars>>

EditVerdictUnchecked(version, content) ==
  IF version = NoVersion \/ content = Missing THEN "READ_REQUIRED" ELSE "ok"

\* prepareSnapshot: the observation against the hash of the snapshot.
EditVerdict(version, content) ==
  CASE content = Missing -> "failed"
    [] content # Missing /\ version = NoVersion -> "READ_REQUIRED"
    [] content # Missing /\ version # NoVersion /\ version # content -> "STALE_READ"
    [] OTHER -> "ok"

\* The observation is looked up under the target resolved before the queue.
\* Replacements that do not match the text are rejected as well.
EnterEdit(c) ==
  LET f == link[path[c]]
      verdict == EditVerdict(observed[store[c]][target[c]], disk[f])
  IN
  /\ toolPc[c] = "enter" /\ tool[c] = "edit" /\ ~shut /\ Exclusive(c, f)
  /\ snap' = [snap EXCEPT ![c] = disk[f]]
  /\ \/ /\ verdict = "ok"
        /\ locked' = [locked EXCEPT ![c] = f]
        /\ toolPc' = [toolPc EXCEPT ![c] = "commit"]
        /\ UNCHANGED toolResult
     \/ Finish(c, IF verdict = "ok" THEN "failed" ELSE verdict)
  /\ UNCHANGED <<worldVars, hostVars, argVars, store, target, obsVars>>

CommitUnrecorded(c) ==
  /\ toolPc[c] = "commit" /\ ~shut
  /\ link[path[c]] = locked[c] /\ disk[locked[c]] = snap[c]
  /\ disk' = [disk EXCEPT ![locked[c]] = Apply(c, snap[c])]
  /\ lastWriter' = [lastWriter EXCEPT ![locked[c]] = session[c]]
  /\ Finish(c, "ok")
  /\ UNCHANGED <<link, outside, hostVars, argVars, store, target, snap, observed>>
  /\ Learn(c, locked[c], disk'[locked[c]])

\* validateBeforeCommit, the rename, and onCommitted, which records the new
\* version under the revalidated target before the queue is released.
Commit(c) ==
  /\ toolPc[c] = "commit" /\ ~shut
  /\ link[path[c]] = locked[c] /\ disk[locked[c]] = snap[c]
  /\ disk' = [disk EXCEPT ![locked[c]] = Apply(c, snap[c])]
  /\ lastWriter' = [lastWriter EXCEPT ![locked[c]] = session[c]]
  /\ Record(store[c], locked[c], disk'[locked[c]])
  /\ Finish(c, "ok")
  /\ UNCHANGED <<link, outside, hostVars, argVars, store, target, snap>>
  /\ Learn(c, locked[c], disk'[locked[c]])

\* An abort, an I/O error, a file that changed under the call, a closed host.
FailTool(c) ==
  /\ toolPc[c] \in {"resolve", "load", "remember", "enter", "commit"}
  /\ Finish(c, "failed")
  /\ UNCHANGED <<worldVars, hostVars, argVars, store, target, snap, obsVars>>

-----------------------------------------------------------------------------
\* session_shutdown: stop at once, dispose after the language servers are down.
StopHost ==
  /\ accepting
  /\ accepting' = FALSE
  /\ UNCHANGED <<worldVars, shut, sessions, closed, dropped, argVars, callVars, obsVars>>

DisposeHost ==
  /\ ~accepting /\ ~shut
  /\ shut' = TRUE
  /\ closed' = closed \union ({sessions[s] : s \in Sessions} \ {None})
  /\ observed' = [c \in ToolCalls |-> [f \in Files |-> NoVersion]]
  /\ sessions' = [s \in Sessions |-> None]
  /\ UNCHANGED <<worldVars, accepting, dropped, argVars, callVars, known, overtaken>>

\* Another process writes or removes a file, or retargets a link.
OutsideWrite(f) ==
  /\ outside < MaxOutside /\ outside' = outside + 1
  /\ \E content \in Contents : disk' = [disk EXCEPT ![f] = content]
  /\ lastWriter' = [lastWriter EXCEPT ![f] = None]
  /\ UNCHANGED <<link, hostVars, argVars, callVars, obsVars>>

OutsideRetarget(p) ==
  /\ outside < MaxOutside /\ outside' = outside + 1
  /\ \E f \in Files \ {link[p]} : link' = [link EXCEPT ![p] = f]
  /\ UNCHANGED <<disk, lastWriter, hostVars, argVars, callVars, obsVars>>

ToolsNext ==
  \/ \E c \in ToolCalls :
       \/ \E t \in ToolNames, s \in Sessions, p \in Paths : Open(c, t, s, p)
       \/ OpenRefused(c) \/ Opened(c) \/ Resolve(c) \/ Load(c) \/ Remember(c)
       \/ EnterWrite(c) \/ EnterEdit(c) \/ Commit(c) \/ FailTool(c)
  \/ StopHost \/ DisposeHost
  \/ \E f \in Files : OutsideWrite(f)
  \/ \E p \in Paths : OutsideRetarget(p)

ToolsSpec == ToolsInit /\ [][ToolsNext]_toolVars

-----------------------------------------------------------------------------
Committed(c) == toolPc[c] = "commit" /\ toolPc'[c] = "done" /\ toolResult'[c] = "ok"

\* An edit replaces only a content its session has been shown or has written
\* itself, whatever other sessions, processes and retargeted links did since.
EditOfKnownContent ==
  [][\A c \in ToolCalls : Committed(c) /\ tool[c] = "edit" =>
       disk[locked[c]] \in known[session[c]]]_toolVars

\* The version a session holds of a file
Observation(s, f) == IF sessions[s] = None THEN NoVersion ELSE observed[sessions[s]][f]

\* After its own commit a session can edit again at once: its observation is
\* what is on disk, until somebody else writes the file, unless a read that
\* overlapped the commit recorded older bytes or the store was disposed under it.
CommitKeepsObservation ==
  /\ ToolsTypeOK
  /\ \A c \in ToolCalls : toolPc[c] \notin {"idle", "done"} =>
       store[c] = sessions[session[c]] \/ store[c] \in closed
  /\ ~shut => \A s \in Sessions, f \in Files :
       lastWriter[f] = s /\ s \notin dropped /\ <<s, f>> \notin overtaken =>
         Observation(s, f) = disk[f]

\* "write -> edit can be executed directly" (contracts.md:67), claimed without
\* the read exception: an overlapping read of the session breaks it.
WriteThenEditDespiteReads ==
  ~shut => \A s \in Sessions, f \in Files :
    lastWriter[f] = s /\ s \notin dropped => Observation(s, f) = disk[f]
=============================================================================

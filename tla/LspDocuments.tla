--------------------------- MODULE LspDocuments ---------------------------
(* The documents one ready client of src/lsp/client.ts keeps open at its
   language server: the queue of each URI and the bounded document states of
   documents.ts, the synchronization, saving, closing and eviction of client.ts,
   and the diagnostics that manager.ts waits for after a write, from the ledger
   of diagnostics.ts.

   A text is a number: the position of the write that produced it, 0 for what
   was there before. A write is one didWriteBatch of a few URIs, a read is one
   documentSymbols call. Messages travel in order in both directions. The client
   stays connected here; LspManager models the connection that breaks.       *)
EXTENDS Naturals, Sequences, FiniteSets

CONSTANTS
  Uris, Writes, Reads,
  UrisOf,        \* [Writes -> SUBSET Uris], the files of a batch
  UriOf,         \* [Reads -> Uris]
  MaxDocuments,  \* max_open_documents
  Capabilities,  \* what a server may announce, records of `sync` and `pull`
  Plans,         \* the sets of calls that a behaviour makes, a bound
  NoDoc, Closed

ASSUME DocumentsAssumption ==
  /\ IsFiniteSet(Uris) /\ MaxDocuments \in Nat \ {0}
  /\ UrisOf \in [Writes -> SUBSET Uris] /\ UriOf \in [Reads -> Uris]
  /\ Writes \cap Reads = {} /\ Uris \cap (Writes \cup Reads) = {}
  /\ Closed \notin [version : Nat, text : Nat]
  /\ NoDoc \notin [version : Nat, text : Nat, open : BOOLEAN, persistent : BOOLEAN,
                   symbols : [version : Nat, text : Nat]]
  /\ Plans \subseteq SUBSET (Writes \cup Reads)
  /\ Capabilities \subseteq [sync : BOOLEAN, pull : BOOLEAN]

VARIABLES
  caps,            \* the capabilities of the server of this behaviour
  fileText,        \* the text of each file
  written,         \* how many texts were written
  doc,             \* LspDocuments.states
  older,           \* the pairs of URIs of doc of which the first has the lower lastUsed
  pendingVersion,  \* LspDocuments.pendingVersions, 0 for none
  docQueue,        \* LspDocuments.queues: tasks, the first one running
  step,            \* where the running task of a URI is
  wire,            \* messages to the server
  server,          \* the documents open at the server
  due,             \* the server has not yet published for its text
  posts,           \* messages from the server
  ledger,          \* the revision and the text of the last diagnostics of a URI
  revision,        \* DiagnosticsLedger.nextRevision
  call,            \* a write or read in progress
  told             \* what a write is told about each of its files

textVars == <<caps, fileText, written>>
docVars == <<doc, older, pendingVersion, docQueue, step>>
netVars == <<wire, server, due, posts>>
ledVars == <<ledger, revision>>
docsVars == <<textVars, docVars, netVars, ledVars, call, told>>

Calls == Writes \cup Reads
OwnUris(c) == IF c \in Writes THEN UrisOf[c] ELSE {UriOf[c]}
Outcome(is, text) == [is |-> is, text |-> text]

\* Either no document is open, or one that an earlier write left open.
InitDocuments(u0, open) ==
  LET here(u) == open /\ u = u0 IN
  /\ doc = [u \in Uris |-> IF here(u)
       THEN [version |-> 1, text |-> 0, open |-> TRUE, persistent |-> TRUE,
             symbols |-> [version |-> 0, text |-> 0]]
       ELSE NoDoc]
  /\ older = {}
  /\ server = [u \in Uris |-> IF here(u) THEN [version |-> 1, text |-> 0] ELSE Closed]
  /\ due = {u \in Uris : here(u)}

DocsInit ==
  /\ caps \in Capabilities
  /\ fileText = [u \in Uris |-> 0] /\ written = 0
  /\ \E u0 \in Uris, open \in BOOLEAN : InitDocuments(u0, open /\ caps.sync)
  /\ pendingVersion = [u \in Uris |-> 0]
  /\ docQueue = [u \in Uris |-> <<>>] /\ step = [u \in Uris |-> "start"]
  /\ wire = <<>> /\ posts = <<>>
  /\ ledger = [u \in Uris |-> [rev |-> 0, text |-> 0]] /\ revision = 0
  /\ \E plan \in Plans : call = [c \in Calls |-> [at |-> IF c \in plan THEN "idle" ELSE "done"]]
  /\ told = [w \in Writes |-> [u \in UrisOf[w] |-> Outcome("none", 0)]]

---------------------------------------------------------------------------
(* documents.ts. *)
Docs == {u \in Uris : doc[u] # NoDoc}

\* `lastUsed` without u, and when the value of u becomes the latest one.
Unused(u) == {e \in older : e[1] # u /\ e[2] # u}
Touched(u) == Unused(u) \cup ((Docs \ {u}) \X {u})

CurrentVersion(u) ==
  IF pendingVersion[u] # 0 THEN pendingVersion[u] ELSE IF doc[u] = NoDoc THEN 0 ELSE doc[u].version

\* evictionCandidate: the least recently used state without a queue.
EvictablePassing(x) == {u \in Docs \ {x} : docQueue[u] = <<>> /\ ~doc[u].persistent}
Evictable(x) == {u \in Docs \ {x} : docQueue[u] = <<>>}
EvictionCandidate(x, u) == u \in Evictable(x) /\ \A v \in Evictable(x) \ {u} : <<u, v>> \in older

\* commit: the symbols of an unchanged text move to the new version.
Committed(u, text, version, open, persistent) ==
  LET old == doc[u]
      same == old # NoDoc /\ old.text = text
  IN  [version |-> version, text |-> text, open |-> open,
       persistent |-> persistent \/ (old # NoDoc /\ old.persistent),
       symbols |-> IF same /\ old.symbols.version # 0
                     THEN [old.symbols EXCEPT !.version = version]
                     ELSE [version |-> 0, text |-> 0]]

Task(kind, by) == [kind |-> kind, by |-> by]
Running(u) == Head(docQueue[u])
Queued(t) == \E u \in Uris : \E i \in 1..Len(docQueue[u]) : docQueue[u][i] = t

\* What follows when the running task of u ends: the next one starts.
Popped(u) == [docQueue EXCEPT ![u] = Tail(@)]
Restarted(u) == [step EXCEPT ![u] = "start"]

---------------------------------------------------------------------------
(* A write, manager.didWriteBatch and client.saveAndCollectDiagnosticsBatch. *)

\* The files are committed, and the revisions of their diagnostics captured.
Capture(w) ==
  /\ call[w].at = "idle"
  /\ written' = written + 1
  /\ fileText' = [u \in Uris |-> IF u \in UrisOf[w] THEN written + 1 ELSE fileText[u]]
  /\ call' = [call EXCEPT ![w] = [at |-> "captured", text |-> written + 1,
       captured |-> [u \in UrisOf[w] |-> ledger[u].rev], left |-> UrisOf[w]]]
  /\ UNCHANGED <<caps, docVars, netVars, ledVars, told>>

\* All documents of the batch are queued in one go.
EnqueueBatch(w) ==
  /\ call[w].at = "captured"
  /\ docQueue' = [u \in Uris |->
       IF u \in UrisOf[w] THEN Append(docQueue[u], Task("sync", w)) ELSE docQueue[u]]
  /\ call' = [call EXCEPT ![w].at = "tasks"]
  /\ UNCHANGED <<textVars, doc, older, pendingVersion, step, netVars, ledVars, told>>

(* A read, client.documentSymbols: the text was loaded before the call. *)
LoadText(r) ==
  /\ call[r].at = "idle"
  /\ call' = [call EXCEPT ![r] = [at |-> "loaded", text |-> fileText[UriOf[r]]]]
  /\ UNCHANGED <<textVars, docVars, netVars, ledVars, told>>

EnqueueSymbols(r) ==
  /\ call[r].at = "loaded"
  /\ docQueue' = [docQueue EXCEPT ![UriOf[r]] = Append(@, Task("symbols", r))]
  /\ call' = [call EXCEPT ![r].at = "tasks"]
  /\ UNCHANGED <<textVars, doc, older, pendingVersion, step, netVars, ledVars, told>>

---------------------------------------------------------------------------
(* synchronizeDocument, in the running task of a URI. *)
Text(u) == call[Running(u).by].text
Synchronizing(u) ==
  /\ docQueue[u] # <<>> /\ Running(u).kind \in {"sync", "symbols"} /\ step[u] = "start"
  /\ ~Queued(Task("evict", u))

InStepAnyText(u) == doc[u] # NoDoc /\ (doc[u].open \/ ~caps.sync)
InStep(u) == doc[u] # NoDoc /\ doc[u].text = Text(u) /\ (doc[u].open \/ ~caps.sync)
\* A symbols task first looks for the symbols of this very text.
CachedSymbols(u) ==
  /\ Running(u).kind = "symbols" /\ doc[u] # NoDoc /\ doc[u].text = Text(u)
  /\ doc[u].symbols.version = doc[u].version

\* Where a task goes once its document is synchronized: a save leaves the set of
\* documents its batch waits for, symbols are asked for.
AfterSync(u) ==
  IF Running(u).kind = "sync"
    THEN /\ call' = [call EXCEPT ![Running(u).by].left = @ \ {u}]
         /\ step' = [step EXCEPT ![u] = "barrier"]
         /\ UNCHANGED wire
    ELSE /\ step' = [step EXCEPT ![u] = "asking"]
         /\ wire' = Append(wire, [kind |-> "ask", uri |-> u, task |-> Running(u)])
         /\ UNCHANGED call

UseCache(u) ==
  /\ Synchronizing(u) /\ CachedSymbols(u)
  /\ older' = Touched(u) /\ docQueue' = Popped(u) /\ step' = Restarted(u)
  /\ UNCHANGED <<textVars, doc, pendingVersion, netVars, ledVars, call, told>>

AlreadyInStep(u) ==
  /\ Synchronizing(u) /\ ~CachedSymbols(u) /\ InStep(u)
  /\ doc' = [doc EXCEPT ![u].persistent = @ \/ Running(u).kind = "sync"]
  /\ older' = Touched(u)
  /\ AfterSync(u)
  /\ UNCHANGED <<textVars, pendingVersion, docQueue, server, due, posts, ledVars, told>>

EvictForBusy(u) ==
  /\ Synchronizing(u) /\ doc[u] = NoDoc
  /\ Cardinality(Docs) >= MaxDocuments
  /\ \E v \in Docs : docQueue' = [docQueue EXCEPT ![v] = Append(@, Task("evict", u))]
  /\ UNCHANGED <<textVars, doc, older, pendingVersion, step, netVars, ledVars, call, told>>
\* A new document makes room first, if an idle one can be closed.
EvictFor(u) ==
  /\ Synchronizing(u) /\ doc[u] = NoDoc
  /\ Cardinality(Docs) >= MaxDocuments
  /\ \E v \in Docs : /\ EvictionCandidate(u, v)
                     /\ docQueue' = [docQueue EXCEPT ![v] = <<Task("evict", u)>>]
  /\ UNCHANGED <<textVars, doc, older, pendingVersion, step, netVars, ledVars, call, told>>

NeedsNoRoom(u) == doc[u] # NoDoc \/ Cardinality(Docs) < MaxDocuments \/ Evictable(u) = {}
NextVersion(u) == IF doc[u] = NoDoc THEN 1 ELSE doc[u].version + 1

SendText(u) ==
  /\ Synchronizing(u) /\ ~CachedSymbols(u) /\ ~InStep(u) /\ NeedsNoRoom(u) /\ caps.sync
  /\ pendingVersion' = [pendingVersion EXCEPT ![u] = NextVersion(u)]
  /\ wire' = Append(wire, [kind |-> IF doc[u] = NoDoc \/ ~doc[u].open THEN "open" ELSE "change",
                           uri |-> u, version |-> NextVersion(u), text |-> Text(u)])
  /\ step' = [step EXCEPT ![u] = "sending"]
  /\ UNCHANGED <<textVars, doc, older, docQueue, server, due, posts, ledVars, call, told>>

\* The notification was written.
TextSent(u) ==
  /\ step[u] = "sending"
  /\ doc' = [doc EXCEPT
       ![u] = Committed(u, Text(u), pendingVersion[u], TRUE, Running(u).kind = "sync")]
  /\ older' = Touched(u) /\ pendingVersion' = [pendingVersion EXCEPT ![u] = 0]
  /\ AfterSync(u)
  /\ UNCHANGED <<textVars, docQueue, server, due, posts, ledVars, told>>

\* The server wants no documents: only the state of the client moves.
CommitUnsent(u) ==
  /\ Synchronizing(u) /\ ~CachedSymbols(u) /\ ~InStep(u) /\ NeedsNoRoom(u) /\ ~caps.sync
  /\ doc' = [doc EXCEPT
       ![u] = Committed(u, Text(u), NextVersion(u), FALSE, Running(u).kind = "sync")]
  /\ older' = Touched(u)
  /\ AfterSync(u)
  /\ UNCHANGED <<textVars, pendingVersion, docQueue, server, due, posts, ledVars, told>>

---------------------------------------------------------------------------
(* The diagnostics of a batch: all documents are synchronized before the first
   request; without a diagnosticProvider the write waits for a publish.       *)
PassBarrier(u) ==
  /\ step[u] = "barrier" /\ call[Running(u).by].left = {}
  /\ IF caps.pull
       THEN /\ step' = [step EXCEPT ![u] = "asking"]
            /\ wire' = Append(wire, [kind |-> "ask", uri |-> u, task |-> Running(u)])
            /\ UNCHANGED <<docQueue, told>>
       ELSE /\ docQueue' = Popped(u) /\ step' = Restarted(u)
            /\ told' = [told EXCEPT ![Running(u).by][u] = Outcome("publish", 0)]
            /\ UNCHANGED wire
  /\ UNCHANGED <<textVars, doc, older, pendingVersion, server, due, posts, ledVars, call>>

\* A request that times out is over for the client; its answer will be ignored.
AskTimeout(u) ==
  /\ step[u] = "asking"
  /\ docQueue' = Popped(u) /\ step' = Restarted(u)
  /\ told' = IF Running(u).kind = "sync"
                THEN [told EXCEPT ![Running(u).by][u] = Outcome("unanswered", 0)] ELSE told
  /\ UNCHANGED <<textVars, doc, older, pendingVersion, netVars, ledVars, call>>

Update(u, text) ==
  /\ revision' = revision + 1
  /\ ledger' = [ledger EXCEPT ![u] = [rev |-> revision + 1, text |-> text]]

\* The answer to a pull, or to a symbols request, that is still waited for.
ReceiveAnswer ==
  /\ posts # <<>> /\ Head(posts).kind = "answer" /\ posts' = Tail(posts)
  /\ LET m == Head(posts) IN
     IF docQueue[m.uri] # <<>> /\ Running(m.uri) = m.task /\ step[m.uri] = "asking"
       THEN /\ docQueue' = Popped(m.uri) /\ step' = Restarted(m.uri)
            /\ IF m.task.kind = "sync"
                 THEN /\ Update(m.uri, m.text)
                      /\ told' = [told EXCEPT ![m.task.by][m.uri] = Outcome("told", m.text)]
                      /\ UNCHANGED <<doc, older>>
                 ELSE /\ doc' = [doc EXCEPT ![m.uri].symbols =
                                   [version |-> doc[m.uri].version, text |-> m.text]]
                      /\ older' = Touched(m.uri)
                      /\ UNCHANGED <<ledVars, told>>
       ELSE UNCHANGED <<docQueue, step, ledVars, told, doc, older>>
  /\ UNCHANGED <<textVars, pendingVersion, wire, server, due, call>>

\* publishDiagnostics: dropped when its version is older than the current one.
ReceivePublish ==
  /\ posts # <<>> /\ Head(posts).kind = "publish" /\ posts' = Tail(posts)
  /\ LET m == Head(posts) IN
     IF CurrentVersion(m.uri) # 0 /\ m.version < CurrentVersion(m.uri)
       THEN UNCHANGED ledVars
       ELSE Update(m.uri, m.text)
  /\ UNCHANGED <<textVars, docVars, wire, server, due, call, told>>

---------------------------------------------------------------------------
(* Closing: evictions, and the documents that a read opened. *)
Closing(u) == docQueue[u] # <<>> /\ Running(u).kind \in {"evict", "transient"}
ToClose(u) == doc[u] # NoDoc /\ ~(Running(u).kind = "transient" /\ doc[u].persistent)

NothingToClose(u) ==
  /\ Closing(u) /\ step[u] = "start" /\ ~ToClose(u)
  /\ docQueue' = Popped(u)
  /\ UNCHANGED <<textVars, doc, older, pendingVersion, step, netVars, ledVars, call, told>>

ForgottenStillOpen(u) ==
  IF Running(u).kind = "transient"
    THEN /\ doc' = [doc EXCEPT ![u].persistent = FALSE]
         /\ older' = Touched(u)
    ELSE /\ doc' = [doc EXCEPT ![u] = NoDoc]
         /\ older' = Unused(u)
\* markClosed keeps the text and the symbols, remove forgets the document.
Forgotten(u) ==
  IF Running(u).kind = "transient"
    THEN /\ doc' = [doc EXCEPT ![u] = [doc[u] EXCEPT !.open = FALSE, !.persistent = FALSE]]
         /\ older' = Touched(u)
    ELSE /\ doc' = [doc EXCEPT ![u] = NoDoc]
         /\ older' = Unused(u)

SendClose(u) ==
  /\ Closing(u) /\ step[u] = "start" /\ ToClose(u) /\ doc[u].open
  /\ wire' = Append(wire, [kind |-> "close", uri |-> u])
  /\ step' = [step EXCEPT ![u] = "closing"]
  /\ UNCHANGED <<textVars, doc, older, pendingVersion, docQueue, server, due, posts, ledVars,
                 call, told>>

CloseSent(u) ==
  /\ Closing(u) /\ \/ step[u] = "closing"
                   \/ step[u] = "start" /\ ToClose(u) /\ ~doc[u].open
  /\ Forgotten(u)
  /\ docQueue' = Popped(u) /\ step' = Restarted(u)
  /\ UNCHANGED <<textVars, pendingVersion, netVars, ledVars, call, told>>

---------------------------------------------------------------------------
(* After the tasks of a call: a read closes what it opened, every call trims the
   documents above the limit, a write collects what it was told.            *)
TasksDone(c) ==
  /\ call[c].at = "tasks" /\ \A k \in {"sync", "symbols"} : ~Queued(Task(k, c))
  /\ IF c \in Reads
       THEN /\ docQueue' = [docQueue EXCEPT ![UriOf[c]] = Append(@, Task("transient", c))]
            /\ call' = [call EXCEPT ![c].at = "closing"]
       ELSE /\ call' = [call EXCEPT ![c].at = "trimming"] /\ UNCHANGED docQueue
  /\ UNCHANGED <<textVars, doc, older, pendingVersion, step, netVars, ledVars, told>>

TransientClosed(r) ==
  /\ call[r].at = "closing" /\ ~Queued(Task("transient", r))
  /\ call' = [call EXCEPT ![r].at = "trimming"]
  /\ UNCHANGED <<textVars, docVars, netVars, ledVars, told>>

\* trimDocuments, for one URI of the call after the other; an eviction is awaited.
Trim(c) ==
  /\ call[c].at = "trimming" /\ ~Queued(Task("evict", c))
  /\ LET over == {x \in OwnUris(c) : Cardinality(Docs) > MaxDocuments /\ Evictable(x) # {}} IN
     IF over = {}
       THEN /\ call' = [call EXCEPT ![c].at = IF c \in Writes THEN "collecting" ELSE "done"]
            /\ UNCHANGED docQueue
       ELSE /\ \E x \in over, v \in Docs :
                 /\ EvictionCandidate(x, v)
                 /\ docQueue' = [docQueue EXCEPT ![v] = <<Task("evict", c)>>]
            /\ UNCHANGED call
  /\ UNCHANGED <<textVars, doc, older, pendingVersion, step, netVars, ledVars, told>>

\* waitForNewer, or the snapshot that stands in for a pull without an answer:
\* anything newer than what the write captured counts as its result.
Newer(w, u) == ledger[u].rev > call[w].captured[u]
Collect(w, u) ==
  /\ call[w].at = "collecting" /\ told[w][u].is \in {"publish", "unanswered"} /\ Newer(w, u)
  /\ told' = [told EXCEPT ![w][u] = Outcome("told", ledger[u].text)]
  /\ UNCHANGED <<textVars, docVars, netVars, ledVars, call>>
DeadlinePasses(w, u) ==
  /\ call[w].at = "collecting"
  /\ told[w][u].is = "publish" \/ (told[w][u].is = "unanswered" /\ ~Newer(w, u))
  /\ told' = [told EXCEPT ![w][u] = Outcome("timeout", 0)]
  /\ UNCHANGED <<textVars, docVars, netVars, ledVars, call>>

---------------------------------------------------------------------------
(* The server: it takes the messages in order, answers requests with the
   diagnostics or symbols of the text it has, and publishes once per text.  *)
ServerReads ==
  /\ wire # <<>> /\ wire' = Tail(wire)
  /\ LET m == Head(wire) IN
     CASE m.kind \in {"open", "change"} ->
            /\ server' = [server EXCEPT ![m.uri] = [version |-> m.version, text |-> m.text]]
            /\ due' = due \cup {m.uri} /\ UNCHANGED posts
       [] m.kind = "close" ->
            /\ server' = [server EXCEPT ![m.uri] = Closed]
            /\ due' = due \ {m.uri} /\ UNCHANGED posts
       [] m.kind = "ask" ->
            /\ posts' = Append(posts, [kind |-> "answer", uri |-> m.uri, task |-> m.task,
                 text |-> IF server[m.uri] = Closed THEN fileText[m.uri] ELSE server[m.uri].text])
            /\ UNCHANGED <<server, due>>
  /\ UNCHANGED <<textVars, docVars, ledVars, call, told>>

PublishDiagnostics(u) ==
  /\ u \in due /\ ~caps.pull
  /\ due' = due \ {u}
  /\ posts' = Append(posts, [kind |-> "publish", uri |-> u, version |-> server[u].version,
                             text |-> server[u].text])
  /\ UNCHANGED <<textVars, docVars, wire, server, ledVars, call, told>>

---------------------------------------------------------------------------
UriStep(u) ==
  \/ UseCache(u) \/ AlreadyInStep(u) \/ EvictFor(u) \/ SendText(u) \/ TextSent(u)
  \/ CommitUnsent(u) \/ PassBarrier(u) \/ AskTimeout(u)
  \/ NothingToClose(u) \/ SendClose(u) \/ CloseSent(u)
CallStep(c) ==
  \/ TasksDone(c) \/ Trim(c)
  \/ c \in Writes /\ \/ EnqueueBatch(c)
                     \/ \E u \in UrisOf[c] : Collect(c, u) \/ DeadlinePasses(c, u)
  \/ c \in Reads /\ (EnqueueSymbols(c) \/ TransientClosed(c))
DocsNext ==
  \/ \E w \in Writes : Capture(w)
  \/ \E r \in Reads : LoadText(r)
  \/ \E u \in Uris : UriStep(u) \/ PublishDiagnostics(u)
  \/ \E c \in Calls : CallStep(c)
  \/ ReceiveAnswer \/ ReceivePublish \/ ServerReads

DocsSpec == DocsInit /\ [][DocsNext]_docsVars
---------------------------------------------------------------------------
\* A write returns when it has an answer for every file.
Ended(c) ==
  \/ call[c].at = "done"
  \/ call[c].at = "collecting" /\ \A u \in UrisOf[c] : told[c][u].is \in {"told", "timeout"}

\* The shape of the state.
DocsTypeOK ==
  /\ doc \in [Uris -> {NoDoc} \cup [version : Nat, text : 0..written, open : BOOLEAN,
       persistent : BOOLEAN, symbols : [version : Nat, text : 0..written]]]
  /\ older \subseteq Docs \X Docs
  /\ \A u, v \in Docs : (<<u, v>> \in older) <=> u # v /\ <<v, u>> \notin older
  /\ \A u \in Uris : step[u] # "start" => docQueue[u] # <<>>

\* didOpen and didClose are balanced and versions grow: the server is never sent
\* an open document again, nor a change or a close of one that is not open,
\* whatever writes, reads and evictions of one URI follow each other.
BalancedMessages ==
  wire # <<>> =>
    LET m == Head(wire)  s == server[m.uri] IN
    CASE m.kind = "open"   -> s = Closed
      [] m.kind = "change" -> s # Closed /\ s.version < m.version
      [] m.kind = "close"  -> s # Closed
      [] OTHER             -> TRUE

\* Once the queue of a URI is empty and its messages have arrived, the server has
\* the text and version the client believes it has, and a document that a write
\* keeps is open there.
ServerInStep ==
  \A u \in Uris :
    (caps.sync /\ docQueue[u] = <<>> /\ \A i \in 1..Len(wire) : wire[i].uri # u) =>
      IF doc[u] # NoDoc /\ doc[u].open
        THEN server[u] = [version |-> doc[u].version, text |-> doc[u].text]
        ELSE server[u] = Closed /\ (doc[u] = NoDoc \/ ~doc[u].persistent)

\* The cached symbols of a version are those of its text, through reopened,
\* changed and evicted documents and answers that come after their timeout.
SymbolsOfText ==
  \A u \in Docs :
    (caps.sync /\ doc[u].symbols.version = doc[u].version) => doc[u].symbols.text = doc[u].text

\* The server and the client agree on what is open and at which text, and the symbols that
\* are cached are those of the text.
DocumentsInStep == DocsTypeOK /\ BalancedMessages /\ ServerInStep /\ SymbolsOfText

\* The limit may be passed while every other document is busy, never once the
\* calls are over.
LimitKeptAtRest ==
  (\A c \in Calls : call[c].at = "idle" \/ Ended(c)) => Cardinality(Docs) <= MaxDocuments

\* A pull is answered for the text of the write that asks, by a server that is sent texts:
\* nothing else changes the document between its synchronization and the answer.
PullsOfOwnText ==
  [][\A w \in Writes : \A u \in UrisOf[w] :
       (caps.sync /\ told[w][u].is = "none" /\ told'[w][u].is = "told") =>
         told'[w][u].text = call[w].text]_docsVars

\* What the calls of one client keep, whatever order they come in: both sides agree, the
\* limit is kept at rest, and a write is told of its own text.
DocumentsAgree == []DocumentsInStep /\ []LimitKeptAtRest /\ PullsOfOwnText

\* Batches that wait for each other's documents, evictions that wait in the queues
\* of others and a server that answers nothing leave no call waiting for ever: as
\* long as a call is open, the client can go on by itself.
OpenCallsGoOn ==
  (\E c \in Calls : call[c].at # "idle" /\ ~Ended(c)) =>
    ENABLED (\/ \E u \in Uris : UriStep(u)
             \/ \E c \in Calls : CallStep(c))

\* What a write reports are diagnostics of its own text or of a later one.
DiagnosticsOfThisWrite ==
  \A w \in Writes : \A u \in UrisOf[w] :
    told[w][u].is = "told" => told[w][u].text >= call[w].text
=============================================================================

---------------------------- MODULE LspManager ----------------------------
(* The language server of one root and one route: the manager of
   src/lsp/manager.ts with its map of clients, restarts and reload, and the life of
   the clients of src/lsp/client.ts with their shared start, bounded shutdown, cleanup
   and idle timer.

   An operation is a withClientOperation call: it is counted, finds or restarts
   the client, waits until it is ready and uses it. A search (workspaceSymbols) that
   is aborted or reaches its deadline returns at once; what it was waiting for goes on
   behind it, uncounted. The check of a reload and the count that follows are one
   step: only microtasks lie between them.                                   *)
EXTENDS Naturals, Sequences, FiniteSets

CONSTANTS
  Operations,   \* calls of the file tools
  Searches,     \* the operations with a deadline
  MaxRestarts,  \* max_restarts
  \* bounds of the behaviours
  MaxClients, MaxCrashes, MaxReloads

ASSUME ManagerAssumption ==
  /\ Searches \subseteq Operations
  /\ MaxRestarts \in Nat /\ MaxClients \in Nat /\ MaxCrashes \in Nat
  /\ MaxReloads \in Nat

VARIABLES
  entry,          \* LspManager.clients, the number of the current entry, 0 for none
  clientEntries,  \* the entries made: client, restarts, whether a restart is under way
  clients,        \* the LspClient objects made
  op,             \* where a call is
  reload,         \* LspManager.reloadPromise: "none", "draining", "closing"
  target,         \* the client a reload is shutting down, 0 for none
  alone,          \* history: no abandoned search was under way when a reload drained
  crashes, reloads

managerVars == <<entry, clientEntries, clients, op, reload, target, alone, crashes, reloads>>

Made == 1..Len(clients)
NewClient ==
  [status |-> "idle", server |-> "down", start |-> "none", stop |-> "none", cleaning |-> FALSE]

ManagerInit ==
  /\ entry = 0 /\ clientEntries = <<>> /\ clients = <<>>
  /\ op = [o \in Operations |-> [at |-> "idle", counted |-> FALSE, entry |-> 0, client |-> 0]]
  /\ reload = "none" /\ target = 0 /\ alone = TRUE /\ crashes = 0 /\ reloads = 0

\* activeClientOperations, and inFlightOperations of a client.
Active == {o \in Operations : op[o].counted}
Abandoned == {o \in Operations : op[o].at \notin {"idle", "done"} /\ ~op[o].counted}
InFlight(k) == {o \in Operations : op[o].at = "using" /\ op[o].client = k}

---------------------------------------------------------------------------
(* Finding the client: clientForServer, performClientRestart. *)

\* withClientOperation: new operations wait while a reload is requested.
Begin(o) ==
  /\ op[o].at = "idle" /\ reload = "none"
  /\ op' = [op EXCEPT ![o].counted = TRUE, ![o].at = "lookup"]
  /\ UNCHANGED <<entry, clientEntries, clients, reload, target, alone, crashes, reloads>>

CreateClient(o) ==
  /\ op[o].at = "lookup" /\ entry = 0 /\ Len(clients) < MaxClients
  /\ clients' = Append(clients, NewClient)
  /\ clientEntries' =
       Append(clientEntries, [client |-> Len(clients) + 1, restarts |-> 0, restarting |-> 0])
  /\ entry' = Len(clientEntries) + 1
  /\ op' = [op EXCEPT ![o].at = "ensure", ![o].entry = Len(clientEntries) + 1,
                      ![o].client = Len(clients) + 1]
  /\ UNCHANGED <<reload, target, alone, crashes, reloads>>

FindClient(o) ==
  /\ op[o].at = "lookup" /\ entry # 0
  /\ LET k == clientEntries[entry].client IN
     /\ clients[k].status # "crashed"
     /\ op' = [op EXCEPT ![o].at = "ensure", ![o].entry = entry, ![o].client = k]
  /\ UNCHANGED <<entry, clientEntries, clients, reload, target, alone, crashes, reloads>>

\* restartClient: the first that finds it crashed restarts it, others share.
JoinRestart(o) ==
  /\ op[o].at = "lookup" /\ entry # 0
  /\ clients[clientEntries[entry].client].status = "crashed"
  /\ clientEntries' = IF clientEntries[entry].restarting # 0 THEN clientEntries
                ELSE [clientEntries EXCEPT ![entry].restarting = clientEntries[entry].client]
  /\ op' = [op EXCEPT ![o].at = "restart", ![o].entry = entry]
  /\ UNCHANGED <<entry, clients, reload, target, alone, crashes, reloads>>

\* performClientRestart after the cleanup: a new client, unless the entry is gone or
\* its restarts are used up.
Restartable(e) ==
  /\ entry = e /\ clientEntries[e].client = clientEntries[e].restarting
  /\ clientEntries[e].restarts < MaxRestarts
Sharing(e) == {o \in Operations : op[o].at = "restart" /\ op[o].entry = e}
Restart(e) ==
  /\ e <= Len(clientEntries) /\ clientEntries[e].restarting # 0
  /\ ~clients[clientEntries[e].restarting].cleaning
  /\ IF Restartable(e)
       THEN /\ Len(clients) < MaxClients
            /\ clients' = Append(clients, NewClient)
            /\ clientEntries' = [clientEntries EXCEPT ![e] = [client |-> Len(clients) + 1,
                             restarts |-> @.restarts + 1, restarting |-> 0]]
            /\ op' = [o \in Operations |-> IF o \in Sharing(e)
                 THEN [op[o] EXCEPT !.at = "ensure", !.client = Len(clients) + 1] ELSE op[o]]
       ELSE /\ clientEntries' = [clientEntries EXCEPT ![e].restarting = 0]
            /\ op' = [o \in Operations |-> IF o \in Sharing(e)
                 THEN [op[o] EXCEPT !.at = "done", !.counted = FALSE] ELSE op[o]]
            /\ UNCHANGED clients
  /\ UNCHANGED <<entry, reload, target, alone, crashes, reloads>>

---------------------------------------------------------------------------
(* client.ensureReady and start. *)
\* What an operation does once ensureReady answered; an abandoned one is over.
Answered(o, ready) ==
  IF ready /\ op[o].counted THEN [op[o] EXCEPT !.at = "using"]
                            ELSE [op[o] EXCEPT !.at = "done", !.counted = FALSE]
Starting(k) == {o \in Operations : op[o].at = "starting" /\ op[o].client = k}
StartEnds(k, ready) ==
  op' = [o \in Operations |-> IF o \in Starting(k) THEN Answered(o, ready) ELSE op[o]]

\* It waits for a shutdown first, joins a start, or begins one.
EnsureReady(o) ==
  /\ op[o].at = "ensure"
  /\ LET k == op[o].client  c == clients[k] IN
     /\ c.stop = "none"
     /\ CASE c.status = "ready" -> op' = [op EXCEPT ![o] = Answered(o, TRUE)] /\ UNCHANGED clients
          [] c.status \in {"unavailable", "crashed"} ->
               op' = [op EXCEPT ![o] = Answered(o, FALSE)] /\ UNCHANGED clients
          [] OTHER ->
               /\ op' = [op EXCEPT ![o].at = "starting"]
               /\ clients' = IF c.start # "none" THEN clients
                             ELSE [clients EXCEPT ![k].start = "connect", ![k].status = "starting"]
  /\ UNCHANGED <<entry, clientEntries, reload, target, alone, crashes, reloads>>

Client(k, rest) == clients' = [clients EXCEPT ![k] = rest]
StartStep(k) == k \in Made /\ UNCHANGED <<entry, clientEntries, reload, target, alone, reloads>>

\* The process is started or the socket connected; a client that was told to stop
\* meanwhile closes the transport at once.
Connected(k) ==
  /\ StartStep(k) /\ clients[k].start = "connect"
  /\ IF clients[k].status = "starting"
       THEN Client(k, [clients[k] EXCEPT !.start = "initialize", !.server = "up"]) /\ UNCHANGED op
       ELSE Client(k, [clients[k] EXCEPT !.start = "none"]) /\ StartEnds(k, FALSE)
  /\ UNCHANGED crashes
ConnectFails(k) ==
  /\ StartStep(k) /\ clients[k].start = "connect" /\ crashes < MaxCrashes
  /\ crashes' = crashes + 1
  /\ Client(k, [clients[k] EXCEPT !.start = "none",
       !.status = IF @ = "stopped" THEN @ ELSE "unavailable"])
  /\ StartEnds(k, FALSE)
Initialized(k) ==
  /\ StartStep(k) /\ clients[k].start = "initialize" /\ clients[k].status = "starting"
  /\ Client(k, [clients[k] EXCEPT !.start = "none", !.status = "ready"])
  /\ StartEnds(k, TRUE) /\ UNCHANGED crashes
\* initialize was rejected by a shutdown, or the failure of the transport is cleaned up.
StartGivesUp(k) ==
  /\ StartStep(k) /\ clients[k].start = "initialize" /\ clients[k].status # "starting"
  /\ ~clients[k].cleaning
  /\ Client(k, [clients[k] EXCEPT !.start = "none"])
  /\ StartEnds(k, FALSE) /\ UNCHANGED crashes

\* markTransportFailure and cleanupCurrentSession: the server died, the stream
\* broke or initialize timed out. What was in flight fails.
TransportFails(k) ==
  /\ StartStep(k) /\ crashes < MaxCrashes
  /\ clients[k].server = "up" /\ clients[k].status \in {"starting", "ready"}
  /\ crashes' = crashes + 1
  /\ Client(k, [clients[k] EXCEPT !.cleaning = TRUE,
       !.status = IF @ = "ready" THEN "crashed" ELSE "unavailable"])
  /\ op' = [o \in Operations |-> IF o \in InFlight(k)
       THEN [op[o] EXCEPT !.at = "done", !.counted = FALSE] ELSE op[o]]
CleanedUp(k) ==
  /\ StartStep(k) /\ clients[k].cleaning
  /\ Client(k, [clients[k] EXCEPT !.cleaning = FALSE, !.server = "down"])
  /\ UNCHANGED <<op, alone, crashes>>

---------------------------------------------------------------------------
(* client.shutdown: it waits for a start and a cleanup, then says goodbye. *)
Stopping(c) == IF c.stop # "none" THEN c ELSE [c EXCEPT !.stop = "waiting", !.status = "stopped"]

IdleTimeoutUnchecked(k) ==
  /\ k \in Made /\ clients[k].status = "ready"
  /\ Client(k, Stopping(clients[k]))
  /\ UNCHANGED <<entry, clientEntries, op, reload, target, alone, crashes, reloads>>
IdleTimeout(k) ==
  /\ k \in Made /\ clients[k].status = "ready" /\ InFlight(k) = {}
  /\ Client(k, Stopping(clients[k]))
  /\ UNCHANGED <<entry, clientEntries, op, reload, target, alone, crashes, reloads>>
StopConnection(k) ==
  /\ StartStep(k) /\ clients[k].stop = "waiting"
  /\ clients[k].start = "none" /\ ~clients[k].cleaning
  /\ Client(k, [clients[k] EXCEPT !.stop = "closing"]) /\ UNCHANGED <<op, alone, crashes>>
StoppedKeepsPromise(k) ==
  /\ StartStep(k) /\ clients[k].stop = "closing"
  /\ Client(k, [clients[k] EXCEPT !.stop = "closed", !.server = "down"]) /\ UNCHANGED <<op, crashes>>
Stopped(k) ==
  /\ StartStep(k) /\ clients[k].stop = "closing"
  /\ Client(k, [clients[k] EXCEPT !.stop = "none", !.server = "down"]) /\ UNCHANGED <<op, alone, crashes>>

(* An operation uses the client, or leaves what it waited for behind. *)
UseEnds(o) ==
  /\ op[o].at = "using"
  /\ op' = [op EXCEPT ![o].at = "done", ![o].counted = FALSE]
  /\ UNCHANGED <<entry, clientEntries, clients, reload, target, alone, crashes, reloads>>
Abandon(o) ==
  /\ o \in Searches /\ op[o].counted
  /\ CASE op[o].at = "ensure" -> clients[op[o].client].stop # "none"
       [] OTHER -> op[o].at \in {"restart", "starting"}
  /\ op' = [op EXCEPT ![o].counted = FALSE]
  /\ UNCHANGED <<entry, clientEntries, clients, reload, target, alone, crashes, reloads>>

---------------------------------------------------------------------------
(* reload: it keeps new operations out, waits for the counted ones, shuts the
   clients down and forgets everything.                                      *)
RequestReload ==
  /\ reload = "none" /\ reloads < MaxReloads
  /\ reload' = "draining" /\ reloads' = reloads + 1
  /\ UNCHANGED <<entry, clientEntries, clients, op, target, alone, crashes>>
DrainedAtOnce ==
  /\ reload = "draining"
  /\ reload' = "closing" /\ alone' = (alone /\ Abandoned = {})
  /\ target' = IF entry = 0 THEN 0 ELSE clientEntries[entry].client
  /\ IF entry = 0 THEN UNCHANGED clients
     ELSE Client(clientEntries[entry].client, Stopping(clients[clientEntries[entry].client]))
  /\ UNCHANGED <<entry, clientEntries, op, crashes, reloads>>
Drained ==
  /\ reload = "draining" /\ Active = {}
  /\ reload' = "closing" /\ alone' = (alone /\ Abandoned = {})
  /\ target' = IF entry = 0 THEN 0 ELSE clientEntries[entry].client
  /\ IF entry = 0 THEN UNCHANGED clients
     ELSE Client(clientEntries[entry].client, Stopping(clients[clientEntries[entry].client]))
  /\ UNCHANGED <<entry, clientEntries, op, crashes, reloads>>
ReloadEnds ==
  /\ reload = "closing" /\ \A k \in Made : k = target => clients[k].stop = "none"
  /\ reload' = "none" /\ target' = 0 /\ entry' = 0
  /\ UNCHANGED <<clientEntries, clients, op, alone, crashes, reloads>>

---------------------------------------------------------------------------
OpStep(o) ==
  CreateClient(o) \/ FindClient(o) \/ JoinRestart(o) \/ EnsureReady(o) \/ UseEnds(o)
ClientStep(k) ==
  \/ Connected(k) \/ Initialized(k) \/ StartGivesUp(k) \/ CleanedUp(k)
  \/ StopConnection(k) \/ Stopped(k)
ReloadStep == Drained \/ ReloadEnds
ManagerNext ==
  \/ \E o \in Operations : Begin(o) \/ OpStep(o) \/ Abandon(o)
  \/ \E e \in 1..MaxClients : Restart(e)
  \/ \E k \in 1..MaxClients :
       ClientStep(k) \/ ConnectFails(k) \/ TransportFails(k) \/ IdleTimeout(k)
  \/ RequestReload \/ ReloadStep

ManagerSpec == ManagerInit /\ [][ManagerNext]_managerVars
(* Every promise chain goes on, a start ends (initialize has a timeout), and the
   idle timer fires.                                                         *)
ManagerFairness ==
  /\ \A o \in Operations : WF_managerVars(OpStep(o))
  /\ \A k \in 1..MaxClients : WF_managerVars(ClientStep(k)) /\ WF_managerVars(IdleTimeout(k))
  /\ \A e \in 1..MaxClients : WF_managerVars(Restart(e))
  /\ WF_managerVars(ReloadStep)
ManagerFairSpec == ManagerSpec /\ ManagerFairness

---------------------------------------------------------------------------
\* Clients with a server that the map does not know.
Orphans == {k \in Made : clients[k].server = "up" /\ \A e \in {entry} \ {0} : clientEntries[e].client # k}

\* The shape of the state.
ManagerTypeOK ==
  /\ \A k \in Made : clients[k].status \in
       {"idle", "starting", "ready", "unavailable", "crashed", "stopped"}
  /\ entry \in 0..Len(clientEntries) /\ target \in 0..Len(clients)

\* No counted operation loses its client to a shutdown: neither the idle timer nor
\* a reload stops a client that an operation is starting or using.
OperationsUndisturbed ==
  /\ ManagerTypeOK
  /\ \A o \in Active : op[o].at \in {"starting", "using"} => clients[op[o].client].stop = "none"

\* A reload that no abandoned search is behind leaves no server running.
ReloadClosesCounted ==
  [][ReloadEnds /\ alone => \A k \in Made :
        clients[k].server = "down" /\ clients[k].start = "none"]_managerVars

\* Every operation, every search and every reload comes back, and a server that a
\* reload did not close ends with the idle timer.
EverythingEnds ==
  /\ \A o \in Operations : (op[o].at # "idle") ~> (op[o].at = "done")
  /\ (reload # "none") ~> (reload = "none")
  /\ \A k \in 1..MaxClients : (k \in Orphans) ~> (k \notin Orphans)

===========================================================================

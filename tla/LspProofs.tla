----------------------------- MODULE LspProofs -----------------------------
(* The language servers of a session: the manager of their clients, and the documents
   that one client keeps open.

   For any operations, and any number of clients, crashes, reloads and restarts: no
   operation that is counted loses its client to a shutdown, and a reload no search was
   abandoned before leaves no server behind.  Only the idle timer and a drained reload
   stop a client, each when nobody counted uses it (Undisturbed, DrainedInv); that the
   reload reaches every server needs to know where a server can be at all (AloneInv).

   For any documents, writes, reads and any limit: what is sent to a server is balanced,
   the two sides come to the same documents, cached symbols and pulled diagnostics are of
   their text, and the limit is kept at rest.  The messages about a document lead step by
   step from what the server has to what the client believes it has (WiresExact), a
   request is followed by no message about its document while its task waits
   (AsksExact), and every queued task belongs to a call that is still open (QueuesExact):
   so a call that stops trimming above the limit leaves another one that will
   (TrimsToCome).                                                                     *)
EXTENDS LspManager, LspDocuments, FiniteSetTheorems, TLAPS

\* A sequence without its first element.
LEMMA TailSeq ==
  ASSUME NEW S, NEW s \in Seq(S), s # <<>>
  PROVE  /\ Head(s) \in S /\ Head(s) = s[1] /\ 1 \in 1..Len(s)
         /\ Tail(s) \in Seq(S) /\ Len(Tail(s)) = Len(s) - 1
         /\ \A i \in 1..Len(Tail(s)) : i + 1 \in 1..Len(s) /\ Tail(s)[i] = s[i + 1]
OBVIOUS

-----------------------------------------------------------------------------
(* The language server manager.

   The states of a client and of an operation, and the types: every entry names a
   client that was made, and so does every operation that is past its lookup. *)
ClientState ==
  [status : {"idle", "starting", "ready", "unavailable", "crashed", "stopped"},
   server : {"down", "up"}, start : {"none", "connect", "initialize"},
   stop : {"none", "waiting", "closing"}, cleaning : BOOLEAN]
EntryState == [client : Nat, restarts : Nat, restarting : Nat]
OpState == [at : {"idle", "lookup", "ensure", "restart", "starting", "using", "done"},
            counted : BOOLEAN, entry : Nat, client : Nat]
LspTypes ==
  /\ clients \in Seq(ClientState) /\ clientEntries \in Seq(EntryState)
  /\ op \in [Operations -> OpState]
  /\ entry \in 0..Len(clientEntries) /\ target \in 0..Len(clients)
  /\ reload \in {"none", "draining", "closing"} /\ alone \in BOOLEAN
  /\ \A e \in 1..Len(clientEntries) : clientEntries[e].client \in Made
  /\ \A o \in Operations : op[o].at \in {"ensure", "starting", "using"} => op[o].client \in Made

(* What a client's parts say of each other: a client that is stopped for good, or
   ready, has no start under way; one that is ready has its server; and a crashed one
   whose server still runs is being cleaned up. *)
ClientOK(c) ==
  /\ c.start # "none" => c.status \notin {"ready", "crashed"}
  /\ c.stop # "none" => c.status = "stopped"
  /\ c.stop = "closing" => c.start = "none" /\ ~c.cleaning
  /\ c.status = "stopped" /\ c.stop = "none" => c.start = "none" /\ ~c.cleaning /\ c.server = "down"
  /\ c.status \in {"idle", "starting", "ready"} => ~c.cleaning
  /\ c.status = "starting" /\ c.start = "initialize" => c.server = "up"
  /\ c.status = "ready" => c.server = "up"
  /\ c.status = "crashed" /\ c.server = "up" => c.cleaning
ClientsOK == \A k \in Made : ClientOK(clients[k])

(* An operation waits for a start that is under way, and no start goes on with nobody
   waiting for it. *)
StartsAwaited ==
  /\ \A o \in Operations : op[o].at = "starting" => clients[op[o].client].start # "none"
  /\ \A k \in Made : clients[k].start # "none" => Starting(k) # {}

(* Nobody stops the client of an operation that is counted. *)
Undisturbed ==
  \A o \in Operations : op[o].counted /\ op[o].at \in {"starting", "using"} =>
    clients[op[o].client].stop = "none"

(* A reload closes when nobody is counted. *)
DrainedInv == reload = "closing" => Active = {}

(* As long as no search was abandoned, only the current entry's client has a server or
   a start: every other is quiet, and an operation still on its way to one finds it
   crashed.  A client is replaced only once it crashed and was cleaned up, and a reload
   that closes has stopped the current one. *)
Current(k) == entry # 0 /\ clientEntries[entry].client = k
Quiet(k) ==
  /\ clients[k].server = "down" /\ clients[k].start = "none"
  /\ \A o \in Operations : op[o].at = "ensure" /\ op[o].client = k => clients[k].status = "crashed"
AloneInv == alone =>
  /\ \A k \in Made : ~Current(k) => Quiet(k)
  /\ \A e \in 1..Len(clientEntries) : clientEntries[e].restarting # 0 =>
       /\ e = entry /\ clients[clientEntries[e].client].status = "crashed" /\ clientEntries[e].client = clientEntries[e].restarting
       /\ \E o \in Operations : op[o].at = "restart" /\ op[o].entry = e
  /\ reload = "closing" =>
       /\ \A o \in Operations : op[o].at \in {"idle", "done"}
       /\ target = (IF entry = 0 THEN 0 ELSE clientEntries[entry].client)
       /\ target # 0 => clients[target].status = "stopped"

LspInv == LspTypes /\ ClientsOK /\ StartsAwaited /\ DrainedInv /\ Undisturbed /\ AloneInv

\* A list on which one element is replaced, or a last one added.
LEMMA ReplacedIn ==
  ASSUME NEW S, NEW s \in Seq(S), NEW i \in 1..Len(s), NEW x \in S
  PROVE  /\ [s EXCEPT ![i] = x] \in Seq(S) /\ Len([s EXCEPT ![i] = x]) = Len(s)
         /\ [s EXCEPT ![i] = x][i] = x
         /\ \A j \in 1..Len(s) : j # i => [s EXCEPT ![i] = x][j] = s[j]
OBVIOUS

LEMMA AddedTo ==
  ASSUME NEW S, NEW s \in Seq(S), NEW x \in S
  PROVE  /\ Append(s, x) \in Seq(S) /\ Len(Append(s, x)) = Len(s) + 1
         /\ Append(s, x)[Len(s) + 1] = x /\ Len(s) \in Nat
         /\ \A j \in 1..Len(s) : Append(s, x)[j] = s[j] /\ j \in 1..(Len(s) + 1)
OBVIOUS

\* The operations that wait for a start go on when it ends.
LEMMA StartOver ==
  ASSUME LspTypes, NEW k, NEW ready \in BOOLEAN, StartEnds(k, ready)
  PROVE  /\ op' \in [Operations -> OpState]
         /\ \A o \in Operations :
              /\ op[o].at = "starting" /\ op[o].client = k
                   => /\ op'[o].at \in {"using", "done"} /\ op'[o].client = k
                      /\ op'[o].counted => op[o].counted /\ op'[o].at = "using"
                      /\ op'[o].entry = op[o].entry
                      /\ ~ready => op'[o].at = "done"
              /\ ~(op[o].at = "starting" /\ op[o].client = k) => op'[o] = op[o]
<1>1. ASSUME NEW o \in Operations
      PROVE  /\ Answered(o, ready) \in OpState
             /\ Answered(o, ready).at \in {"using", "done"}
             /\ Answered(o, ready).client = op[o].client
             /\ Answered(o, ready).entry = op[o].entry
             /\ Answered(o, ready).counted => op[o].counted /\ Answered(o, ready).at = "using"
             /\ ~ready => Answered(o, ready).at = "done"
  <2>1. op[o] \in OpState
    BY DEF LspTypes
  <2> QED BY <2>1 DEF Answered, OpState
<1>2. \A o \in Operations : op[o] \in OpState
  BY DEF LspTypes
<1>3. \A o \in Operations : o \in Starting(k) <=> op[o].at = "starting" /\ op[o].client = k
  BY DEF Starting
<1>4. \A o \in Operations : op'[o] = IF o \in Starting(k) THEN Answered(o, ready) ELSE op[o]
  BY DEF StartEnds
<1>5. op' = [o \in Operations |-> IF o \in Starting(k) THEN Answered(o, ready) ELSE op[o]]
  BY DEF StartEnds
<1>6. op' \in [Operations -> OpState]
  BY <1>1, <1>2, <1>5
<1> QED BY <1>1, <1>3, <1>4, <1>6

LEMMA InitLsp == ManagerInit => LspInv
BY DEF ManagerInit, LspInv, LspTypes, ClientsOK, StartsAwaited, DrainedInv, AloneInv, Made,
       Undisturbed, Active, OpState, Current, Quiet

\* A step of one operation, on its way from a client it has found to the end.
LEMMA OperationMoves ==
  ASSUME LspInv, NEW o \in Operations, NEW x \in OpState, op' = [op EXCEPT ![o] = x],
         UNCHANGED <<entry, clientEntries, clients, reload, target, alone>>,
         x.at \in {"ensure", "starting", "using"} => x.client \in Made,
         x.at = "starting" <=> op[o].at = "starting",
         x.at = "starting" => x.client = op[o].client,
         x.at = "restart" <=> op[o].at = "restart",
         x.at = "restart" => x.entry = op[o].entry,
         x.counted /\ x.at \in {"starting", "using"} => clients[x.client].stop = "none",
         x.counted => reload # "closing",
         x.at = "ensure" /\ ~(op[o].at = "ensure" /\ op[o].client = x.client) => Current(x.client),
         reload = "closing" => x.at = "done" \/ op[o].at \notin {"idle", "done"}
  PROVE  LspInv'
<1>1. op[o] \in OpState
  BY DEF LspInv, LspTypes
<1>2. /\ op'[o] = x /\ op' \in [Operations -> OpState]
      /\ \A p \in Operations : p # o => op'[p] = op[p]
  BY DEF LspInv, LspTypes
<1> USE DEF LspInv
<1>3. LspTypes' /\ ClientsOK'
  BY <1>2 DEF LspTypes, ClientsOK, Made
<1>4. StartsAwaited'
  BY <1>2 DEF StartsAwaited, Starting, Made
<1>5. DrainedInv' /\ Undisturbed'
  BY <1>2 DEF DrainedInv, Undisturbed, Active
<1>6. AloneInv'
  <2> SUFFICES ASSUME alone PROVE AloneInv'
    BY DEF AloneInv
  <2>1. ASSUME NEW k \in Made, ~Current(k) PROVE Quiet(k)'
    BY <1>2, <2>1 DEF AloneInv, Made, Current, Quiet
  <2>2. \A e \in 1..Len(clientEntries) : clientEntries[e].restarting # 0 =>
          \E p \in Operations : op'[p].at = "restart" /\ op'[p].entry = e
    BY <1>2 DEF AloneInv
  <2>3. reload = "closing" => \A p \in Operations : op'[p].at \in {"idle", "done"}
    BY <1>2 DEF AloneInv
  <2> QED BY <2>1, <2>2, <2>3 DEF AloneInv, Made, Current
<1> QED BY <1>3, <1>4, <1>5, <1>6

LEMMA BeginKeeps == ASSUME LspInv, NEW o \in Operations, Begin(o) PROVE LspInv'
<1> DEFINE x == [op[o] EXCEPT !.counted = TRUE, !.at = "lookup"]
<1>1. op[o] \in OpState /\ op[o].at = "idle" /\ reload = "none"
  BY DEF LspInv, LspTypes, Begin
<1>2. x \in OpState /\ x.at = "lookup"
  BY <1>1 DEF OpState
<1>3. op' = [op EXCEPT ![o] = x]
  BY <1>1 DEF Begin, LspInv, LspTypes
<1> HIDE DEF x
<1> QED BY <1>1, <1>2, <1>3, OperationMoves DEF Begin

LEMMA FindKeeps == ASSUME LspInv, NEW o \in Operations, FindClient(o) PROVE LspInv'
<1> DEFINE k == clientEntries[entry].client
           x == [op[o] EXCEPT !.at = "ensure", !.entry = entry, !.client = k]
<1>1. op[o] \in OpState /\ op[o].at = "lookup" /\ entry \in Nat /\ entry # 0
  BY DEF LspInv, LspTypes, FindClient
<1>2. k \in Made /\ Current(k) /\ k \in Nat
  BY <1>1 DEF LspInv, LspTypes, Current, Made
<1>3. /\ x \in OpState /\ x.at = "ensure" /\ x.client = k /\ x.counted = op[o].counted
  BY <1>1, <1>2 DEF OpState
<1>4. op' = [op EXCEPT ![o] = x]
  BY <1>1 DEF FindClient, LspInv, LspTypes
<1>5. x.counted => reload # "closing"
  BY <1>3 DEF LspInv, DrainedInv, Active
<1> HIDE DEF x, k
<1> QED BY <1>1, <1>2, <1>3, <1>4, <1>5, OperationMoves DEF FindClient

LEMMA UseEndsKeeps == ASSUME LspInv, NEW o \in Operations, UseEnds(o) PROVE LspInv'
<1> DEFINE x == [op[o] EXCEPT !.at = "done", !.counted = FALSE]
<1>1. op[o] \in OpState /\ op[o].at = "using"
  BY DEF LspInv, LspTypes, UseEnds
<1>2. x \in OpState /\ x.at = "done" /\ ~x.counted
  BY <1>1 DEF OpState
<1>3. op' = [op EXCEPT ![o] = x]
  BY <1>1 DEF UseEnds, LspInv, LspTypes
<1> HIDE DEF x
<1> QED BY <1>1, <1>2, <1>3, OperationMoves DEF UseEnds

LEMMA AbandonKeeps == ASSUME LspInv, NEW o \in Operations, Abandon(o) PROVE LspInv'
<1> DEFINE x == [op[o] EXCEPT !.counted = FALSE]
<1>1. op[o] \in OpState
  BY DEF LspInv, LspTypes
<1>2. x \in OpState /\ ~x.counted /\ x.at = op[o].at /\ x.client = op[o].client /\ x.entry = op[o].entry
  BY <1>1 DEF OpState
<1>3. op' = [op EXCEPT ![o] = x]
  BY <1>1 DEF Abandon, LspInv, LspTypes
<1>4. op[o].at \notin {"idle", "done"}
  BY DEF Abandon
<1>5. x.at \in {"ensure", "starting", "using"} => x.client \in Made
  BY <1>2 DEF LspInv, LspTypes
<1> HIDE DEF x
<1>6. UNCHANGED <<entry, clientEntries, clients, reload, target, alone>>
  BY DEF Abandon
<1>7. /\ x.at = "starting" <=> op[o].at = "starting"
      /\ x.at = "starting" => x.client = op[o].client
      /\ x.at = "restart" <=> op[o].at = "restart"
      /\ x.at = "restart" => x.entry = op[o].entry
      /\ ~(x.at = "ensure" /\ ~(op[o].at = "ensure" /\ op[o].client = x.client))
  BY <1>2
<1>8. x \in OpState /\ ~x.counted
  BY <1>2
<1> QED BY <1>3, <1>4, <1>5, <1>6, <1>7, <1>8, OperationMoves

LEMMA CreateKeeps == ASSUME LspInv, NEW o \in Operations, CreateClient(o) PROVE LspInv'
<1> DEFINE k == Len(clients) + 1
           e == Len(clientEntries) + 1
           x == [op[o] EXCEPT !.at = "ensure", !.entry = e, !.client = k]
           y == [client |-> k, restarts |-> 0, restarting |-> 0]
<1> USE DEF LspInv
<1>1. /\ op[o] \in OpState /\ op[o].at = "lookup" /\ entry = 0 /\ k \in Nat /\ e \in Nat
      /\ clients \in Seq(ClientState) /\ clientEntries \in Seq(EntryState)
      /\ NewClient \in ClientState /\ y \in EntryState
  BY DEF LspTypes, CreateClient, NewClient, ClientState, EntryState
<1>2. /\ x \in OpState /\ x.at = "ensure" /\ x.client = k
      /\ x.counted = op[o].counted /\ op' = [op EXCEPT ![o] = x]
  BY <1>1 DEF OpState, CreateClient, LspTypes
<1>3. /\ op'[o] = x /\ op' \in [Operations -> OpState]
      /\ \A p \in Operations : p # o => op'[p] = op[p]
  BY <1>2 DEF LspTypes
<1>4. /\ clients' \in Seq(ClientState) /\ Len(clients') = k /\ clients'[k] = NewClient
      /\ \A j \in Made : clients'[j] = clients[j] /\ j \in Made' /\ j # k
      /\ Made' = Made \cup {k} /\ k \in Made'
  BY <1>1, AddedTo DEF CreateClient, Made
<1>5. /\ clientEntries' \in Seq(EntryState) /\ Len(clientEntries') = e /\ clientEntries'[e] = y
      /\ \A d \in 1..Len(clientEntries) : clientEntries'[d] = clientEntries[d] /\ d \in 1..e
      /\ \A d \in 1..Len(clientEntries') : d = e \/ d \in 1..Len(clientEntries)
      /\ entry' = e /\ e # 0
  BY <1>1, AddedTo DEF CreateClient
<1>6. UNCHANGED <<reload, target, alone>> /\ y.client = k /\ y.restarting = 0
  BY DEF CreateClient
<1>7. reload = "closing" => ~op[o].counted
  BY DEF DrainedInv, Active
<1> HIDE DEF x, y, k, e
<1>8. LspTypes'
  <2>1. \A d \in 1..Len(clientEntries') : clientEntries'[d].client \in Made'
    BY <1>4, <1>5, <1>6 DEF LspTypes
  <2>2. \A p \in Operations : op'[p].at \in {"ensure", "starting", "using"} => op'[p].client \in Made'
    BY <1>2, <1>3, <1>4 DEF LspTypes
  <2>3. entry' \in 0..Len(clientEntries') /\ target' \in 0..Len(clients')
    BY <1>1, <1>4, <1>5, <1>6 DEF LspTypes, k, e
  <2> QED BY <1>3, <1>4, <1>5, <1>6, <2>1, <2>2, <2>3 DEF LspTypes
<1>9. ClientsOK'
  BY <1>4 DEF ClientsOK, ClientOK, NewClient
<1>10. StartsAwaited'
  <2>1. \A j \in Made : clients'[j].start # "none" => \E p \in Operations : op'[p].at = "starting" /\ op'[p].client = j
    <3>1. ASSUME NEW j \in Made, clients'[j].start # "none"
          PROVE  \E p \in Operations : op'[p].at = "starting" /\ op'[p].client = j
      <4>1. clients[j].start # "none"
        BY <1>4, <3>1
      <4>2. PICK p \in Operations : op[p].at = "starting" /\ op[p].client = j
        BY <4>1 DEF StartsAwaited, Starting
      <4>3. op'[p] = op[p]
        BY <1>1, <1>3, <4>2
      <4> QED BY <4>2, <4>3
    <3> QED BY <3>1
  <2>2. clients'[k].start = "none"
    BY <1>4 DEF NewClient
  <2>3. \A p \in Operations : op'[p].at = "starting" => clients'[op'[p].client].start # "none"
    BY <1>2, <1>3, <1>4 DEF StartsAwaited, LspTypes
  <2> QED BY <1>4, <2>1, <2>2, <2>3 DEF StartsAwaited, Starting
<1>11. DrainedInv'
  BY <1>2, <1>3, <1>6, <1>7 DEF DrainedInv, Active
<1>12. Undisturbed'
  BY <1>2, <1>3, <1>4 DEF Undisturbed, LspTypes
<1>13. AloneInv'
  <2> SUFFICES ASSUME alone PROVE AloneInv'
    BY <1>6 DEF AloneInv
  <2>1. ASSUME NEW j \in Made', ~Current(j)' PROVE Quiet(j)'
    <3>1. j # k /\ j \in Made
      BY <1>4, <1>5, <1>6, <2>1 DEF Current
    <3>2. Quiet(j)
      BY <1>1, <3>1 DEF AloneInv, Current
    <3> QED BY <1>2, <1>3, <1>4, <3>1, <3>2 DEF Quiet
  <2>2. \A d \in 1..Len(clientEntries') : clientEntries'[d].restarting = 0
    <3>1. \A d \in 1..Len(clientEntries) : clientEntries[d].restarting = 0
      BY <1>1 DEF AloneInv
    <3> QED BY <1>5, <1>6, <3>1
  <2>3. reload # "closing"
    BY <1>1 DEF AloneInv
  <2> QED BY <1>6, <2>1, <2>2, <2>3 DEF AloneInv
<1> QED BY <1>8, <1>9, <1>10, <1>11, <1>12, <1>13

-----------------------------------------------------------------------------
(* A step of one client, and what becomes of the operations that wait for its start
   or use it.                                                                  *)

\* What an operation does when client k turns into c.
Follows(p, k, c) ==
  \/ op'[p] = op[p] /\ (op[p].at = "starting" /\ op[p].client = k => c.start # "none")
  \/ /\ op[p].at = "starting" /\ op[p].client = k /\ c.start = "none"
     /\ op'[p].at \in {"using", "done"} /\ op'[p].client = k
     /\ op'[p].counted => op[p].counted /\ c.stop = "none"
  \/ op[p].at = "using" /\ op'[p].at = "done" /\ ~op'[p].counted

LEMMA ClientMoves ==
  ASSUME LspInv, NEW k \in Made, NEW c \in ClientState, Client(k, c), ClientOK(c),
         UNCHANGED <<entry, clientEntries, reload, target, alone>>,
         op' \in [Operations -> OpState], \A p \in Operations : Follows(p, k, c),
         c.start # "none" => clients[k].start # "none",
         c.stop # "none" => clients[k].stop # "none" \/ (clients[k].status = "ready" /\ InFlight(k) = {}),
         clients[k].status = "crashed" => c.status = "crashed",
         clients[k].status = "stopped" => c.status = "stopped",
         alone /\ ~Current(k) => c.server = "down" /\ c.start = "none"
  PROVE  LspInv'
<1> USE DEF LspInv
<1>1. /\ clients' \in Seq(ClientState) /\ Len(clients') = Len(clients) /\ clients'[k] = c
      /\ \A j \in Made : j # k => clients'[j] = clients[j]
  BY ReplacedIn DEF Client, LspTypes, Made
<1>2. Made' = Made
  BY <1>1 DEF Made
<1>3. \A p \in Operations : op'[p].at \in {"ensure", "starting", "using"} =>
        /\ op[p].at \in {"ensure", "starting", "using"} /\ op'[p].client = op[p].client
        /\ op'[p].client \in Made
  BY DEF Follows, LspTypes
<1>4. LspTypes'
  BY <1>1, <1>2, <1>3 DEF LspTypes
<1>5. ClientsOK'
  BY <1>1, <1>2 DEF ClientsOK
<1>6. StartsAwaited'
  <2>1. ASSUME NEW p \in Operations, op'[p].at = "starting" PROVE clients'[op'[p].client].start # "none"
    <3>1. op[p].at = "starting" /\ op'[p].client = op[p].client /\ op[p].client \in Made
      BY <2>1, <1>3 DEF Follows, LspTypes
    <3> QED BY <1>1, <2>1, <3>1 DEF Follows, StartsAwaited
  <2>2. ASSUME NEW j \in Made, clients'[j].start # "none"
        PROVE \E p \in Operations : op'[p].at = "starting" /\ op'[p].client = j
    <3>1. clients[j].start # "none" /\ (j = k => c.start # "none")
      BY <1>1, <2>2
    <3>2. PICK p \in Operations : op[p].at = "starting" /\ op[p].client = j
      BY <3>1 DEF StartsAwaited, Starting
    <3>3. op'[p] = op[p]
      BY <3>1, <3>2 DEF Follows
    <3> QED BY <3>2, <3>3
  <2> QED BY <1>2, <2>1, <2>2 DEF StartsAwaited, Starting
<1>7. DrainedInv'
  <2>1. \A p \in Operations : op'[p].counted => op[p].counted
    BY DEF Follows
  <2> QED BY <2>1 DEF DrainedInv, Active
<1>8. Undisturbed'
  <2> SUFFICES ASSUME NEW p \in Operations, op'[p].counted, op'[p].at \in {"starting", "using"}
               PROVE  clients'[op'[p].client].stop = "none"
    BY DEF Undisturbed
  <2>1. op[p].counted /\ op[p].at \in {"starting", "using"} /\ op'[p].client = op[p].client /\ op[p].client \in Made
    BY <1>3 DEF Follows
  <2>2. clients[op[p].client].stop = "none"
    BY <2>1 DEF Undisturbed
  <2>3. CASE op[p].client # k
    BY <1>1, <2>1, <2>2, <2>3
  <2>4. CASE op[p].client = k
    <3>1. c.stop # "none" => clients[k].status = "ready" /\ op[p].at # "using"
      BY <2>1, <2>2, <2>4 DEF InFlight
    <3>2. op[p].at = "starting" => clients[k].status # "ready"
      BY <2>4 DEF StartsAwaited, ClientsOK, ClientOK
    <3> QED BY <1>1, <2>1, <2>4, <3>1, <3>2
  <2> QED BY <2>3, <2>4
<1>9. AloneInv'
  <2> SUFFICES ASSUME alone PROVE AloneInv'
    BY DEF AloneInv
  <2>1. ASSUME NEW j \in Made, ~Current(j) PROVE Quiet(j)'
    <3>1. Quiet(j)
      BY <2>1 DEF AloneInv
    <3>2. \A p \in Operations : op'[p].at = "ensure" => op[p].at = "ensure" /\ op'[p].client = op[p].client
      BY DEF Follows
    <3>3. CASE j = k
      BY <1>1, <2>1, <3>1, <3>2, <3>3 DEF Quiet
    <3>4. CASE j # k
      BY <1>1, <3>1, <3>2, <3>4 DEF Quiet
    <3> QED BY <3>3, <3>4
  <2>2. ASSUME NEW d \in 1..Len(clientEntries), clientEntries[d].restarting # 0
        PROVE  /\ d = entry /\ clients'[clientEntries[d].client].status = "crashed"
               /\ clientEntries[d].client = clientEntries[d].restarting
               /\ \E p \in Operations : op'[p].at = "restart" /\ op'[p].entry = d
    <3>1. clientEntries[d].client \in Made
      BY DEF LspTypes
    <3>2. /\ d = entry /\ clients[clientEntries[d].client].status = "crashed"
          /\ clientEntries[d].client = clientEntries[d].restarting
      BY <2>2 DEF AloneInv
    <3>3. PICK p \in Operations : op[p].at = "restart" /\ op[p].entry = d
      BY <2>2 DEF AloneInv
    <3>4. op'[p] = op[p]
      BY <3>3 DEF Follows
    <3>5. clients'[clientEntries[d].client].status = "crashed"
      BY <1>1, <3>1, <3>2
    <3> QED BY <3>2, <3>3, <3>4, <3>5
  <2>3. reload = "closing" =>
          /\ \A p \in Operations : op'[p].at \in {"idle", "done"}
          /\ target # 0 => clients'[target].status = "stopped"
    <3>1. reload = "closing" => \A p \in Operations : op[p].at \in {"idle", "done"}
      BY DEF AloneInv
    <3>2. reload = "closing" /\ target # 0 => target \in Made /\ clients[target].status = "stopped"
      BY DEF AloneInv, LspTypes, Made
    <3> QED BY <1>1, <3>1, <3>2 DEF Follows
  <2> QED BY <1>2, <2>1, <2>2, <2>3 DEF AloneInv, Current
<1> QED BY <1>4, <1>5, <1>6, <1>7, <1>8, <1>9

\* The start of client k ends and leaves it as c.
LEMMA StartIsOver ==
  ASSUME LspInv, NEW k, NEW c, NEW ready \in BOOLEAN, StartEnds(k, ready),
         c.start = "none", c.stop = clients[k].stop
  PROVE  op' \in [Operations -> OpState] /\ \A p \in Operations : Follows(p, k, c)
<1>1. \A p \in Operations : op[p].counted /\ op[p].at = "starting" => clients[op[p].client].stop = "none"
  BY DEF LspInv, Undisturbed
<1> QED BY <1>1, StartOver DEF Follows, LspInv

\* Nobody waits for or uses the client differently.
LEMMA SameOperations ==
  ASSUME LspInv, NEW k \in Made, NEW c, UNCHANGED op, c.start = "none" => clients[k].start = "none"
  PROVE  op' \in [Operations -> OpState] /\ \A p \in Operations : Follows(p, k, c)
BY DEF LspInv, LspTypes, StartsAwaited, Follows

LEMMA ConnectedKeeps == ASSUME LspInv, NEW k, Connected(k) PROVE LspInv'
<1>1. k \in Made /\ clients[k] \in ClientState /\ ClientOK(clients[k]) /\ clients[k].start = "connect"
  BY DEF Connected, StartStep, LspInv, LspTypes, ClientsOK, Made
<1>2. alone => Current(k)
  BY <1>1 DEF LspInv, AloneInv, Quiet
<1>3. CASE clients[k].status = "starting"
  <2> DEFINE c == [clients[k] EXCEPT !.start = "initialize", !.server = "up"]
  <2>1. /\ c \in ClientState /\ ClientOK(c) /\ c.start = "initialize" /\ c.stop = clients[k].stop
        /\ c.status = clients[k].status
    BY <1>1, <1>3 DEF ClientState, ClientOK
  <2>2. Client(k, c) /\ UNCHANGED op
    BY <1>1, <1>3 DEF Connected
  <2> HIDE DEF c
  <2>3. op' \in [Operations -> OpState] /\ \A p \in Operations : Follows(p, k, c)
    BY <1>1, <2>1, <2>2, SameOperations
  <2>9. UNCHANGED <<entry, clientEntries, reload, target, alone>>
    BY DEF Connected, StartStep
  <2> QED BY <1>1, <1>2, <2>1, <2>2, <2>3, <2>9, ClientMoves
<1>4. CASE clients[k].status # "starting"
  <2> DEFINE c == [clients[k] EXCEPT !.start = "none"]
  <2>1. /\ c \in ClientState /\ ClientOK(c) /\ c.start = "none" /\ c.stop = clients[k].stop
        /\ c.status = clients[k].status
    BY <1>1, <1>4 DEF ClientState, ClientOK
  <2>2. Client(k, c) /\ StartEnds(k, FALSE)
    BY <1>1, <1>4 DEF Connected
  <2> HIDE DEF c
  <2>3. op' \in [Operations -> OpState] /\ \A p \in Operations : Follows(p, k, c)
    BY <1>1, <2>1, <2>2, StartIsOver
  <2>9. UNCHANGED <<entry, clientEntries, reload, target, alone>>
    BY DEF Connected, StartStep
  <2> QED BY <1>1, <1>2, <2>1, <2>2, <2>3, <2>9, ClientMoves
<1> QED BY <1>3, <1>4

LEMMA ConnectFailsKeeps == ASSUME LspInv, NEW k, ConnectFails(k) PROVE LspInv'
<1> DEFINE c == [clients[k] EXCEPT !.start = "none",
                   !.status = IF @ = "stopped" THEN @ ELSE "unavailable"]
<1>1. k \in Made /\ clients[k] \in ClientState /\ ClientOK(clients[k]) /\ clients[k].start = "connect"
  BY DEF ConnectFails, StartStep, LspInv, LspTypes, ClientsOK, Made
<1>2. alone => Current(k)
  BY <1>1 DEF LspInv, AloneInv, Quiet
<1>3. /\ c \in ClientState /\ ClientOK(c) /\ c.start = "none" /\ c.stop = clients[k].stop
      /\ clients[k].status # "crashed" /\ (clients[k].status = "stopped" => c.status = "stopped")
  BY <1>1 DEF ClientState, ClientOK
<1>4. Client(k, c) /\ StartEnds(k, FALSE)
  BY <1>1 DEF ConnectFails
<1> HIDE DEF c
<1>5. op' \in [Operations -> OpState] /\ \A p \in Operations : Follows(p, k, c)
  BY <1>1, <1>3, <1>4, StartIsOver
<1>9. UNCHANGED <<entry, clientEntries, reload, target, alone>>
  BY DEF ConnectFails, StartStep
<1> QED BY <1>1, <1>2, <1>3, <1>4, <1>5, <1>9, ClientMoves

LEMMA InitializedKeeps == ASSUME LspInv, NEW k, Initialized(k) PROVE LspInv'
<1> DEFINE c == [clients[k] EXCEPT !.start = "none", !.status = "ready"]
<1>1. /\ k \in Made /\ clients[k] \in ClientState /\ ClientOK(clients[k])
      /\ clients[k].start = "initialize" /\ clients[k].status = "starting"
  BY DEF Initialized, StartStep, LspInv, LspTypes, ClientsOK, Made
<1>2. alone => Current(k)
  BY <1>1 DEF LspInv, AloneInv, Quiet
<1>3. c \in ClientState /\ ClientOK(c) /\ c.start = "none" /\ c.stop = clients[k].stop
  BY <1>1 DEF ClientState, ClientOK
<1>4. Client(k, c) /\ StartEnds(k, TRUE)
  BY <1>1 DEF Initialized
<1> HIDE DEF c
<1>5. op' \in [Operations -> OpState] /\ \A p \in Operations : Follows(p, k, c)
  BY <1>1, <1>3, <1>4, StartIsOver
<1>9. UNCHANGED <<entry, clientEntries, reload, target, alone>>
  BY DEF Initialized, StartStep
<1> QED BY <1>1, <1>2, <1>3, <1>4, <1>5, <1>9, ClientMoves

LEMMA StartGivesUpKeeps == ASSUME LspInv, NEW k, StartGivesUp(k) PROVE LspInv'
<1> DEFINE c == [clients[k] EXCEPT !.start = "none"]
<1>1. /\ k \in Made /\ clients[k] \in ClientState /\ ClientOK(clients[k])
      /\ clients[k].start = "initialize" /\ clients[k].status # "starting" /\ ~clients[k].cleaning
  BY DEF StartGivesUp, StartStep, LspInv, LspTypes, ClientsOK, Made
<1>2. alone => Current(k)
  BY <1>1 DEF LspInv, AloneInv, Quiet
<1>3. /\ c \in ClientState /\ ClientOK(c) /\ c.start = "none" /\ c.stop = clients[k].stop
      /\ c.status = clients[k].status
  BY <1>1 DEF ClientState, ClientOK
<1>4. Client(k, c) /\ StartEnds(k, FALSE)
  BY <1>1 DEF StartGivesUp
<1> HIDE DEF c
<1>5. op' \in [Operations -> OpState] /\ \A p \in Operations : Follows(p, k, c)
  BY <1>1, <1>3, <1>4, StartIsOver
<1>9. UNCHANGED <<entry, clientEntries, reload, target, alone>>
  BY DEF StartGivesUp, StartStep
<1> QED BY <1>1, <1>2, <1>3, <1>4, <1>5, <1>9, ClientMoves

\* A transport fails only while its server is up: it is that of the current client if
\* no search was left behind.
LEMMA TransportFailsKeeps == ASSUME LspInv, NEW k, TransportFails(k) PROVE LspInv'
<1> DEFINE c == [clients[k] EXCEPT !.cleaning = TRUE,
                   !.status = IF @ = "ready" THEN "crashed" ELSE "unavailable"]
<1>1. /\ k \in Made /\ clients[k] \in ClientState /\ ClientOK(clients[k])
      /\ clients[k].server = "up" /\ clients[k].status \in {"starting", "ready"}
  <2>1. k \in Made /\ clients[k].server = "up" /\ clients[k].status \in {"starting", "ready"}
    BY DEF TransportFails, StartStep
  <2> QED BY <2>1 DEF LspInv, LspTypes, ClientsOK, Made
<1>2. alone => Current(k)
  BY <1>1 DEF LspInv, AloneInv, Quiet
<1>3. /\ c \in ClientState /\ ClientOK(c) /\ c.start = clients[k].start /\ c.stop = clients[k].stop
  BY <1>1 DEF ClientState, ClientOK
<1>4. Client(k, c)
  BY <1>1 DEF TransportFails
<1>5. op' \in [Operations -> OpState] /\ \A p \in Operations : Follows(p, k, c)
  <2>1. \A p \in Operations : op[p] \in OpState
    BY DEF LspInv, LspTypes
  <2>2. op' = [p \in Operations |-> IF p \in InFlight(k)
                 THEN [op[p] EXCEPT !.at = "done", !.counted = FALSE] ELSE op[p]]
    BY DEF TransportFails
  <2>3. \A p \in Operations : p \in InFlight(k) => op[p].at = "using"
    BY DEF InFlight
  <2>4. \A p \in Operations : [op[p] EXCEPT !.at = "done", !.counted = FALSE] \in OpState
    BY <2>1 DEF OpState
  <2>5. \A p \in Operations : op[p].at = "starting" /\ op[p].client = k => c.start # "none"
    BY <1>3 DEF LspInv, StartsAwaited
  <2>6. \A p \in Operations : /\ p \in InFlight(k) => op'[p].at = "done" /\ ~op'[p].counted
                              /\ p \notin InFlight(k) => op'[p] = op[p]
    BY <2>1, <2>2 DEF OpState
  <2>7. op' \in [Operations -> OpState]
    BY <2>1, <2>2, <2>4
  <2> HIDE DEF c
  <2> QED BY <2>3, <2>5, <2>6, <2>7 DEF Follows
<1> HIDE DEF c
<1>9. UNCHANGED <<entry, clientEntries, reload, target, alone>>
  BY DEF TransportFails, StartStep
<1> QED BY <1>1, <1>2, <1>3, <1>4, <1>5, <1>9, ClientMoves

LEMMA CleanedUpKeeps == ASSUME LspInv, NEW k, CleanedUp(k) PROVE LspInv'
<1> DEFINE c == [clients[k] EXCEPT !.cleaning = FALSE, !.server = "down"]
<1>1. /\ k \in Made /\ clients[k] \in ClientState /\ ClientOK(clients[k]) /\ clients[k].cleaning
  BY DEF CleanedUp, StartStep, LspInv, LspTypes, ClientsOK, Made
<1>2. /\ c \in ClientState /\ ClientOK(c) /\ c.start = clients[k].start /\ c.stop = clients[k].stop
      /\ c.status = clients[k].status /\ c.server = "down"
  BY <1>1 DEF ClientState, ClientOK
<1>3. Client(k, c) /\ UNCHANGED op
  BY <1>1 DEF CleanedUp
<1>4. alone /\ ~Current(k) => clients[k].start = "none"
  BY <1>1 DEF LspInv, AloneInv, Quiet
<1> HIDE DEF c
<1>5. op' \in [Operations -> OpState] /\ \A p \in Operations : Follows(p, k, c)
  BY <1>1, <1>2, <1>3, SameOperations
<1>9. UNCHANGED <<entry, clientEntries, reload, target, alone>>
  BY DEF CleanedUp, StartStep
<1> QED BY <1>1, <1>2, <1>3, <1>4, <1>5, <1>9, ClientMoves

LEMMA IdleTimeoutKeeps == ASSUME LspInv, NEW k, IdleTimeout(k) PROVE LspInv'
<1> DEFINE c == Stopping(clients[k])
<1>1. /\ k \in Made /\ clients[k] \in ClientState /\ ClientOK(clients[k])
      /\ clients[k].status = "ready" /\ InFlight(k) = {}
  BY DEF IdleTimeout, LspInv, LspTypes, ClientsOK, Made
<1>2. /\ c \in ClientState /\ ClientOK(c) /\ c.start = clients[k].start /\ c.status = "stopped"
  BY <1>1 DEF ClientState, ClientOK, Stopping
<1>3. alone => Current(k)
  BY <1>1 DEF LspInv, AloneInv, Quiet, ClientOK
<1>4. Client(k, c) /\ UNCHANGED op
  BY <1>1 DEF IdleTimeout
<1> HIDE DEF c
<1>5. op' \in [Operations -> OpState] /\ \A p \in Operations : Follows(p, k, c)
  BY <1>1, <1>2, <1>4, SameOperations
<1> QED BY <1>1, <1>2, <1>3, <1>4, <1>5, ClientMoves DEF IdleTimeout

LEMMA StopConnectionKeeps == ASSUME LspInv, NEW k, StopConnection(k) PROVE LspInv'
<1> DEFINE c == [clients[k] EXCEPT !.stop = "closing"]
<1>1. /\ k \in Made /\ clients[k] \in ClientState /\ ClientOK(clients[k]) /\ clients[k].stop = "waiting"
      /\ clients[k].start = "none" /\ ~clients[k].cleaning
  BY DEF StopConnection, StartStep, LspInv, LspTypes, ClientsOK, Made
<1>2. /\ c \in ClientState /\ ClientOK(c) /\ c.start = "none" /\ c.status = clients[k].status
      /\ c.server = clients[k].server
  BY <1>1 DEF ClientState, ClientOK
<1>3. Client(k, c) /\ UNCHANGED op
  BY <1>1 DEF StopConnection
<1>4. alone /\ ~Current(k) => clients[k].server = "down"
  BY <1>1 DEF LspInv, AloneInv, Quiet
<1> HIDE DEF c
<1>5. op' \in [Operations -> OpState] /\ \A p \in Operations : Follows(p, k, c)
  BY <1>1, <1>2, <1>3, SameOperations
<1>9. UNCHANGED <<entry, clientEntries, reload, target, alone>>
  BY DEF StopConnection, StartStep
<1> QED BY <1>1, <1>2, <1>3, <1>4, <1>5, <1>9, ClientMoves

LEMMA StoppedKeeps == ASSUME LspInv, NEW k, Stopped(k) PROVE LspInv'
<1> DEFINE c == [clients[k] EXCEPT !.stop = "none", !.server = "down"]
<1>1. /\ k \in Made /\ clients[k] \in ClientState /\ ClientOK(clients[k]) /\ clients[k].stop = "closing"
  BY DEF Stopped, StartStep, LspInv, LspTypes, ClientsOK, Made
<1>2. /\ c \in ClientState /\ ClientOK(c) /\ c.start = "none" /\ clients[k].start = "none"
      /\ c.status = clients[k].status /\ c.server = "down" /\ c.stop = "none"
  BY <1>1 DEF ClientState, ClientOK
<1>3. Client(k, c) /\ UNCHANGED op
  BY <1>1 DEF Stopped
<1> HIDE DEF c
<1>5. op' \in [Operations -> OpState] /\ \A p \in Operations : Follows(p, k, c)
  BY <1>1, <1>2, <1>3, SameOperations
<1>9. UNCHANGED <<entry, clientEntries, reload, target, alone>>
  BY DEF Stopped, StartStep
<1> QED BY <1>1, <1>2, <1>3, <1>5, <1>9, ClientMoves

-----------------------------------------------------------------------------

\* Finding it not ready, an operation joins the start of its client or begins one.
LEMMA StartKeeps ==
  ASSUME LspInv, NEW o \in Operations, op[o].at = "ensure", NEW k, k = op[o].client,
         clients[k].stop = "none", clients[k].status \in {"idle", "starting", "stopped"},
         op' = [op EXCEPT ![o].at = "starting"],
         clients' = IF clients[k].start # "none" THEN clients
                    ELSE [clients EXCEPT ![k].start = "connect", ![k].status = "starting"],
         UNCHANGED <<entry, clientEntries, reload, target, alone>>
  PROVE  LspInv'
<1> DEFINE x == [op[o] EXCEPT !.at = "starting"]
           c == IF clients[k].start # "none" THEN clients[k]
                ELSE [clients[k] EXCEPT !.start = "connect", !.status = "starting"]
<1> USE DEF LspInv
<1>1. /\ k \in Made /\ op[o] \in OpState /\ clients[k] \in ClientState
      /\ clients \in Seq(ClientState) /\ ClientOK(clients[k])
  BY DEF LspTypes, ClientsOK, Made
<1>2. /\ c \in ClientState /\ ClientOK(c) /\ c.start # "none" /\ c.stop = "none"
      /\ c.status \notin {"ready", "crashed"}
  BY <1>1 DEF ClientState, ClientOK
<1>3. /\ x \in OpState /\ x.at = "starting" /\ x.client = k /\ x.counted = op[o].counted
  BY <1>1 DEF OpState
<1>4. /\ op'[o] = x /\ op' \in [Operations -> OpState]
      /\ \A p \in Operations : p # o => op'[p] = op[p]
  BY <1>1, <1>3 DEF LspTypes
<1>5. /\ clients' \in Seq(ClientState) /\ Len(clients') = Len(clients) /\ clients'[k] = c
      /\ \A j \in Made : j # k => clients'[j] = clients[j]
  <2>1. CASE clients[k].start # "none"
    BY <1>1, <2>1
  <2>2. CASE clients[k].start = "none"
    <3>1. clients' = [clients EXCEPT ![k] = c]
      BY <1>1, <2>2 DEF Made
    <3>2. c \in ClientState /\ k \in 1..Len(clients) /\ clients \in Seq(ClientState)
      BY <1>1, <1>2 DEF Made
    <3> HIDE DEF c
    <3>3. /\ [clients EXCEPT ![k] = c] \in Seq(ClientState)
          /\ Len([clients EXCEPT ![k] = c]) = Len(clients) /\ [clients EXCEPT ![k] = c][k] = c
          /\ \A j \in 1..Len(clients) : j # k => [clients EXCEPT ![k] = c][j] = clients[j]
      BY <3>2, ReplacedIn
    <3> QED BY <3>1, <3>3 DEF Made
  <2> QED BY <2>1, <2>2
<1>6. alone => Current(k) /\ reload # "closing"
  BY <1>1 DEF AloneInv, Quiet
<1> HIDE DEF x, c
<1>7. Made' = Made
  BY <1>5 DEF Made
<1>8. LspTypes'
  BY <1>1, <1>3, <1>4, <1>5, <1>7 DEF LspTypes
<1>9. ClientsOK'
  BY <1>2, <1>5, <1>7 DEF ClientsOK
<1>10. StartsAwaited'
  <2>1. \A p \in Operations : op'[p].at = "starting" => clients'[op'[p].client].start # "none"
    <3> SUFFICES ASSUME NEW p \in Operations, op'[p].at = "starting"
                 PROVE  clients'[op'[p].client].start # "none"
      OBVIOUS
    <3>1. CASE op'[p].client = k
      BY <1>2, <1>5, <3>1
    <3>2. CASE op'[p].client # k
      <4>1. op'[p] = op[p]
        BY <1>3, <1>4, <3>2
      <4>2. op[p].client \in Made /\ op[p].client # k /\ clients[op[p].client].start # "none"
        BY <3>2, <4>1 DEF StartsAwaited, LspTypes
      <4> QED BY <1>5, <4>1, <4>2
    <3> QED BY <3>1, <3>2
  <2>2. \A j \in Made : clients'[j].start # "none" =>
          \E p \in Operations : op'[p].at = "starting" /\ op'[p].client = j
    <3> SUFFICES ASSUME NEW j \in Made, clients'[j].start # "none"
                 PROVE  \E p \in Operations : op'[p].at = "starting" /\ op'[p].client = j
      OBVIOUS
    <3>1. CASE j = k
      BY <1>3, <1>4, <3>1
    <3>2. CASE j # k
      BY <1>4, <1>5, <3>2 DEF StartsAwaited, Starting
    <3> QED BY <3>1, <3>2
  <2> QED BY <1>7, <2>1, <2>2 DEF StartsAwaited, Starting
<1>11. DrainedInv'
  BY <1>3, <1>4 DEF DrainedInv, Active
<1>12. Undisturbed'
  <2> SUFFICES ASSUME NEW p \in Operations, op'[p].counted, op'[p].at \in {"starting", "using"}
               PROVE  clients'[op'[p].client].stop = "none"
    BY DEF Undisturbed
  <2>1. CASE op'[p].client = k
    BY <1>2, <1>5, <2>1
  <2>2. CASE op'[p].client # k
    <3>1. op'[p] = op[p]
      BY <1>3, <1>4, <2>2
    <3>2. op[p].client \in Made /\ op[p].client # k /\ clients[op[p].client].stop = "none"
      BY <2>2, <3>1 DEF Undisturbed, LspTypes
    <3> QED BY <1>5, <3>1, <3>2
  <2> QED BY <2>1, <2>2
<1>13. AloneInv'
  <2> SUFFICES ASSUME alone PROVE AloneInv'
    BY DEF AloneInv
  <2>1. ASSUME NEW j \in Made, ~Current(j) PROVE Quiet(j)'
    <3>1. Quiet(j) /\ j # k
      BY <1>6, <2>1 DEF AloneInv
    <3> QED BY <1>3, <1>4, <1>5, <3>1 DEF Quiet
  <2>2. ASSUME NEW d \in 1..Len(clientEntries), clientEntries[d].restarting # 0
        PROVE  /\ d = entry /\ clients'[clientEntries[d].client].status = "crashed"
               /\ clientEntries[d].client = clientEntries[d].restarting
               /\ \E p \in Operations : op'[p].at = "restart" /\ op'[p].entry = d
    <3>1. /\ d = entry /\ clients[clientEntries[d].client].status = "crashed"
          /\ clientEntries[d].client = clientEntries[d].restarting /\ clientEntries[d].client \in Made
      BY <2>2 DEF AloneInv, LspTypes
    <3>2. PICK p \in Operations : op[p].at = "restart" /\ op[p].entry = d
      BY <2>2 DEF AloneInv
    <3>3. op'[p] = op[p]
      BY <1>4, <3>2
    <3> QED BY <1>5, <3>1, <3>2, <3>3
  <2> QED BY <1>6, <1>7, <2>1, <2>2 DEF AloneInv, Current
<1> QED BY <1>8, <1>9, <1>10, <1>11, <1>12, <1>13

LEMMA EnsureKeeps == ASSUME LspInv, NEW o \in Operations, EnsureReady(o) PROVE LspInv'
<1> DEFINE k == op[o].client
<1>1. /\ op[o] \in OpState /\ op[o].at = "ensure" /\ k \in Made /\ clients[k] \in ClientState
      /\ clients[k].stop = "none"
  BY DEF LspInv, LspTypes, EnsureReady, Made
<1>2. UNCHANGED <<entry, clientEntries, reload, target, alone>>
  BY DEF EnsureReady
<1>3. ASSUME NEW ready \in BOOLEAN, op' = [op EXCEPT ![o] = Answered(o, ready)], UNCHANGED clients
      PROVE  LspInv'
  <2>1. /\ Answered(o, ready) \in OpState /\ Answered(o, ready).client = k
        /\ Answered(o, ready).at \in {"using", "done"}
        /\ Answered(o, ready).counted => op[o].counted
    BY <1>1 DEF Answered, OpState
  <2>2. Answered(o, ready).counted => reload # "closing"
    BY <2>1 DEF LspInv, DrainedInv, Active
  <2> QED BY <1>1, <1>2, <1>3, <2>1, <2>2, OperationMoves
<1>4. CASE clients[k].status = "ready"
  BY <1>1, <1>3, <1>4 DEF EnsureReady
<1>5. CASE clients[k].status \in {"unavailable", "crashed"}
  BY <1>1, <1>3, <1>5 DEF EnsureReady
<1>6. CASE clients[k].status \in {"idle", "starting", "stopped"}
  <2>1. /\ op' = [op EXCEPT ![o].at = "starting"]
        /\ clients' = IF clients[k].start # "none" THEN clients
                      ELSE [clients EXCEPT ![k].start = "connect", ![k].status = "starting"]
    BY <1>1, <1>6 DEF EnsureReady
  <2> QED BY <1>1, <1>2, <1>6, <2>1, StartKeeps
<1> QED BY <1>1, <1>4, <1>5, <1>6 DEF ClientState

-----------------------------------------------------------------------------

\* Entries change, clients do not: JoinRestart and what a restart that is not made leaves.
LEMMA JoinRestartKeeps == ASSUME LspInv, NEW o \in Operations, JoinRestart(o) PROVE LspInv'
<1> DEFINE x == [op[o] EXCEPT !.at = "restart", !.entry = entry]
           d == IF clientEntries[entry].restarting # 0 THEN clientEntries[entry]
                ELSE [clientEntries[entry] EXCEPT !.restarting = clientEntries[entry].client]
<1> USE DEF LspInv
<1>1. /\ op[o] \in OpState /\ op[o].at = "lookup" /\ entry # 0 /\ entry \in 1..Len(clientEntries)
      /\ clientEntries \in Seq(EntryState) /\ clientEntries[entry] \in EntryState /\ entry \in Nat
      /\ clientEntries[entry].client \in Made /\ clients[clientEntries[entry].client].status = "crashed"
  BY DEF LspTypes, JoinRestart
<1>2. /\ x \in OpState /\ x.at = "restart" /\ x.entry = entry /\ op' = [op EXCEPT ![o] = x]
  BY <1>1 DEF OpState, JoinRestart, LspTypes
<1>3. /\ op'[o] = x /\ op' \in [Operations -> OpState]
      /\ \A p \in Operations : p # o => op'[p] = op[p]
  BY <1>2 DEF LspTypes
<1>4. /\ d \in EntryState /\ d.client = clientEntries[entry].client
      /\ clientEntries[entry].restarting = 0 => d.restarting = d.client
      /\ clientEntries[entry].restarting # 0 => d = clientEntries[entry]
  BY <1>1 DEF EntryState, Made
<1>5. /\ clientEntries' \in Seq(EntryState) /\ Len(clientEntries') = Len(clientEntries) /\ clientEntries'[entry] = d
      /\ \A e \in 1..Len(clientEntries) : e # entry => clientEntries'[e] = clientEntries[e]
  <2>1. CASE clientEntries[entry].restarting # 0
    BY <1>1, <2>1 DEF JoinRestart
  <2>2. CASE clientEntries[entry].restarting = 0
    <3>1. clientEntries' = [clientEntries EXCEPT ![entry] = d]
      BY <1>1, <2>2 DEF JoinRestart
    <3> HIDE DEF d
    <3> QED BY <1>1, <1>4, <3>1, ReplacedIn
  <2> QED BY <2>1, <2>2
<1>6. UNCHANGED <<entry, clients, reload, target, alone>>
  BY DEF JoinRestart
<1> HIDE DEF x, d
<1>7. LspTypes'
  BY <1>2, <1>3, <1>4, <1>5, <1>6 DEF LspTypes, Made
<1>8. ClientsOK' /\ StartsAwaited' /\ Undisturbed'
  BY <1>1, <1>2, <1>3, <1>6 DEF ClientsOK, StartsAwaited, Starting, Undisturbed, Made
<1>9. reload = "closing" => ~op[o].counted
  BY DEF DrainedInv, Active
<1>10. x.counted = op[o].counted
  BY <1>1 DEF x, OpState
<1>11. DrainedInv'
  BY <1>3, <1>6, <1>10 DEF DrainedInv, Active
<1>12. AloneInv'
  <2> SUFFICES ASSUME alone PROVE AloneInv'
    BY <1>6 DEF AloneInv
  <2>1. \A e \in 1..Len(clientEntries) : clientEntries'[e].client = clientEntries[e].client
    BY <1>4, <1>5
  <2>2. ASSUME NEW j \in Made, ~Current(j)' PROVE Quiet(j)'
    <3>1. ~Current(j)
      BY <1>1, <1>6, <2>1, <2>2 DEF Current
    <3>2. Quiet(j)
      BY <3>1 DEF AloneInv
    <3> QED BY <1>2, <1>3, <1>6, <3>2 DEF Quiet
  <2>3. ASSUME NEW e \in 1..Len(clientEntries), clientEntries'[e].restarting # 0
        PROVE  /\ e = entry /\ clients[clientEntries'[e].client].status = "crashed"
               /\ clientEntries'[e].client = clientEntries'[e].restarting
               /\ \E p \in Operations : op'[p].at = "restart" /\ op'[p].entry = e
    <3>1. e = entry
      BY <1>5, <2>3 DEF AloneInv
    <3>2. d.client = d.restarting
      BY <1>1, <1>4 DEF AloneInv
    <3> QED BY <1>1, <1>2, <1>3, <1>4, <1>5, <3>1, <3>2
  <2>4. reload # "closing"
    BY <1>1 DEF AloneInv
  <2> QED BY <1>5, <1>6, <2>2, <2>3, <2>4 DEF AloneInv, Made
<1> QED BY <1>7, <1>8, <1>11, <1>12

\* A restart that is not made: those who share it end.
LEMMA GiveUpKeeps ==
  ASSUME LspInv, NEW e \in 1..Len(clientEntries), Restart(e), ~Restartable(e) PROVE LspInv'
<1> DEFINE d == [clientEntries[e] EXCEPT !.restarting = 0]
<1> USE DEF LspInv
<1>1. clientEntries \in Seq(EntryState) /\ clientEntries[e] \in EntryState
  BY DEF LspTypes
<1>2. d \in EntryState /\ d.client = clientEntries[e].client /\ d.restarting = 0
  BY <1>1 DEF EntryState
<1>3. UNCHANGED <<clients, entry, reload, target, alone>> /\ clientEntries' = [clientEntries EXCEPT ![e] = d]
  BY <1>1 DEF Restart
<1> HIDE DEF d
<1>4. /\ clientEntries' \in Seq(EntryState) /\ Len(clientEntries') = Len(clientEntries) /\ clientEntries'[e] = d
      /\ \A f \in 1..Len(clientEntries) : f # e => clientEntries'[f] = clientEntries[f]
  BY <1>1, <1>2, <1>3, ReplacedIn
<1>5. /\ op' \in [Operations -> OpState]
      /\ \A o \in Operations :
           IF op[o].at = "restart" /\ op[o].entry = e
             THEN op'[o].at = "done" /\ ~op'[o].counted ELSE op'[o] = op[o]
  <2>1. \A o \in Operations : /\ op[o] \in OpState
                              /\ o \in Sharing(e) <=> op[o].at = "restart" /\ op[o].entry = e
    BY DEF LspTypes, Sharing
  <2>2. op' = [o \in Operations |-> IF o \in Sharing(e)
                 THEN [op[o] EXCEPT !.at = "done", !.counted = FALSE] ELSE op[o]]
    BY DEF Restart
  <2> QED BY <2>1, <2>2 DEF OpState
<1>6. LspTypes'
  BY <1>2, <1>3, <1>4, <1>5 DEF LspTypes, Made
<1>7. ClientsOK' /\ StartsAwaited' /\ Undisturbed' /\ DrainedInv'
  <2>1. \A o \in Operations : op'[o].at = "starting" <=> op[o].at = "starting"
    BY <1>5
  <2>2. \A o \in Operations : op'[o].at # "done" => op'[o] = op[o]
    BY <1>5
  <2>3. StartsAwaited'
    BY <1>3, <2>1, <2>2 DEF StartsAwaited, Starting, Made
  <2> QED BY <1>3, <1>5, <2>3 DEF ClientsOK, Undisturbed, DrainedInv, Active, Made
<1>8. AloneInv'
  <2> SUFFICES ASSUME alone PROVE AloneInv'
    BY <1>3 DEF AloneInv
  <2>1. \A f \in 1..Len(clientEntries) :
           /\ clientEntries'[f].client = clientEntries[f].client
           /\ clientEntries'[f].restarting # 0 => f # e /\ clientEntries'[f] = clientEntries[f]
    BY <1>2, <1>4
  <2>2. ASSUME NEW j \in Made, ~Current(j)' PROVE Quiet(j)'
    <3>1. ~Current(j)
      BY <1>3, <2>1, <2>2 DEF Current, LspTypes
    <3>2. Quiet(j)
      BY <3>1 DEF AloneInv
    <3> QED BY <1>3, <1>5, <3>2 DEF Quiet
  <2>3. ASSUME NEW f \in 1..Len(clientEntries), clientEntries'[f].restarting # 0
        PROVE  /\ f = entry /\ clients[clientEntries'[f].client].status = "crashed"
               /\ clientEntries'[f].client = clientEntries'[f].restarting
               /\ \E p \in Operations : op'[p].at = "restart" /\ op'[p].entry = f
    <3>1. clientEntries'[f] = clientEntries[f] /\ f # e
      BY <2>1, <2>3
    <3>2. PICK p \in Operations : op[p].at = "restart" /\ op[p].entry = f
      BY <2>3, <3>1 DEF AloneInv
    <3>3. op'[p] = op[p]
      BY <1>5, <3>1, <3>2
    <3> QED BY <2>3, <3>1, <3>2, <3>3 DEF AloneInv
  <2>4. reload = "closing" => \A p \in Operations : op'[p].at \in {"idle", "done"}
    BY <1>5 DEF AloneInv
  <2>5. entry # 0 => clientEntries'[entry].client = clientEntries[entry].client
    BY <2>1 DEF LspTypes
  <2> QED BY <1>3, <1>4, <2>2, <2>3, <2>4, <2>5 DEF AloneInv, Made
<1> QED BY <1>6, <1>7, <1>8

\* A restart: the crashed client is left behind without a server.
LEMMA RestartsKeeps ==
  ASSUME ManagerAssumption, LspInv, NEW e \in 1..Len(clientEntries), Restart(e), Restartable(e) PROVE LspInv'
<1> DEFINE k == Len(clients) + 1
           d == [client |-> k, restarts |-> clientEntries[e].restarts + 1, restarting |-> 0]
<1> USE DEF LspInv
<1>1. /\ clientEntries \in Seq(EntryState) /\ clientEntries[e] \in EntryState /\ clients \in Seq(ClientState)
      /\ NewClient \in ClientState /\ Len(clients) \in Nat /\ k \in Nat /\ k # 0 /\ e # 0
      /\ e = entry /\ clientEntries[e].restarting # 0 /\ clientEntries[e].client = clientEntries[e].restarting
      /\ ~clients[clientEntries[e].restarting].cleaning /\ clientEntries[e].client \in Made
  <2>1. clientEntries \in Seq(EntryState) /\ clients \in Seq(ClientState) /\ clientEntries[e].client \in Made
    BY DEF LspTypes
  <2>2. clientEntries[e] \in EntryState /\ Len(clients) \in Nat /\ NewClient \in ClientState
    BY <2>1 DEF NewClient, ClientState
  <2>3. /\ e = entry /\ clientEntries[e].restarting # 0 /\ clientEntries[e].client = clientEntries[e].restarting
        /\ ~clients[clientEntries[e].restarting].cleaning
    BY DEF Restart, Restartable
  <2> QED BY <2>1, <2>2, <2>3
<1>2. d \in EntryState /\ d.client = k /\ d.restarting = 0
  BY <1>1 DEF EntryState
<1>3. /\ UNCHANGED <<entry, reload, target, alone>> /\ clients' = Append(clients, NewClient)
      /\ clientEntries' = [clientEntries EXCEPT ![e] = d]
  BY <1>1 DEF Restart
<1>4. op' = [o \in Operations |-> IF o \in Sharing(e)
               THEN [op[o] EXCEPT !.at = "ensure", !.client = k] ELSE op[o]]
  BY DEF Restart
<1> HIDE DEF d
<1>5. /\ clients' \in Seq(ClientState) /\ Len(clients') = k /\ clients'[k] = NewClient
      /\ \A j \in Made : clients'[j] = clients[j] /\ j \in Made' /\ j # k
      /\ Made' = Made \cup {k} /\ k \in Made'
  BY <1>1, <1>3, AddedTo DEF Made
<1> HIDE DEF k
<1>6. /\ clientEntries' \in Seq(EntryState) /\ Len(clientEntries') = Len(clientEntries) /\ clientEntries'[e] = d
      /\ \A f \in 1..Len(clientEntries) : f # e => clientEntries'[f] = clientEntries[f]
  BY <1>1, <1>2, <1>3, ReplacedIn
<1>7. /\ op' \in [Operations -> OpState]
      /\ \A o \in Operations :
           IF op[o].at = "restart" /\ op[o].entry = e
             THEN op'[o].at = "ensure" /\ op'[o].client = k /\ op'[o].counted = op[o].counted
             ELSE op'[o] = op[o]
  <2>1. \A o \in Operations : /\ op[o] \in OpState
                              /\ o \in Sharing(e) <=> op[o].at = "restart" /\ op[o].entry = e
    BY DEF LspTypes, Sharing
  <2>2. k \in Nat
    BY <1>1
  <2> QED BY <1>4, <2>1, <2>2 DEF OpState
<1>8. LspTypes'
  <2>1. \A f \in 1..Len(clientEntries') : clientEntries'[f].client \in Made'
    BY <1>2, <1>5, <1>6 DEF LspTypes
  <2>2. \A p \in Operations : op'[p].at \in {"ensure", "starting", "using"} => op'[p].client \in Made'
    BY <1>5, <1>7 DEF LspTypes
  <2>3. target' \in 0..Len(clients')
    BY <1>1, <1>3, <1>5 DEF LspTypes, k
  <2> QED BY <1>3, <1>5, <1>6, <1>7, <2>1, <2>2, <2>3 DEF LspTypes
<1>9. ClientsOK'
  BY <1>5 DEF ClientsOK, ClientOK, NewClient
<1>10. StartsAwaited'
  <2>1. \A p \in Operations : op'[p].at = "starting" => clients'[op'[p].client].start # "none"
    BY <1>5, <1>7 DEF StartsAwaited, LspTypes
  <2>2. ASSUME NEW j \in Made', clients'[j].start # "none"
        PROVE \E p \in Operations : op'[p].at = "starting" /\ op'[p].client = j
    <3>1. j \in Made /\ clients[j].start # "none"
      BY <1>5, <2>2 DEF NewClient
    <3>2. PICK p \in Operations : op[p].at = "starting" /\ op[p].client = j
      BY <3>1 DEF StartsAwaited, Starting
    <3> QED BY <1>7, <3>2
  <2> QED BY <2>1, <2>2 DEF StartsAwaited, Starting
<1>11. DrainedInv'
  BY <1>3, <1>7 DEF DrainedInv, Active
<1>12. Undisturbed'
  BY <1>5, <1>7 DEF Undisturbed, LspTypes
<1>13. AloneInv'
  <2> SUFFICES ASSUME alone PROVE AloneInv'
    BY <1>3 DEF AloneInv
  <2>1. ASSUME NEW j \in Made', ~Current(j)' PROVE Quiet(j)'
    <3>1. j \in Made /\ j # k
      BY <1>1, <1>2, <1>3, <1>5, <1>6, <2>1 DEF Current
    <3>2. \A o \in Operations : op'[o].at = "ensure" /\ op'[o].client = j =>
            op[o].at = "ensure" /\ op[o].client = j
      BY <1>7, <3>1
    <3>3. CASE j = clientEntries[e].client
      <4>1. clients[j].status = "crashed"
        BY <1>1, <3>3 DEF AloneInv
      <4>2. clients[j].server = "down" /\ clients[j].start = "none"
        <5>1. ClientOK(clients[j]) /\ ~clients[j].cleaning /\ clients[j] \in ClientState
          BY <1>1, <3>1, <3>3 DEF ClientsOK, Made
        <5> QED BY <4>1, <5>1 DEF ClientOK, ClientState
      <4> QED BY <1>5, <3>1, <4>1, <4>2 DEF Quiet
    <3>4. CASE j # clientEntries[e].client
      <4>1. Quiet(j)
        BY <1>1, <3>1, <3>4 DEF AloneInv, Current
      <4> QED BY <1>5, <3>1, <3>2, <4>1 DEF Quiet
    <3> QED BY <3>3, <3>4
  <2>2. \A f \in 1..Len(clientEntries) : clientEntries'[f].restarting = 0
    BY <1>1, <1>2, <1>6 DEF AloneInv
  <2>3. reload # "closing"
    <3>1. PICK p \in Operations : op[p].at = "restart"
      BY <1>1 DEF AloneInv
    <3> QED BY <3>1 DEF AloneInv
  <2> QED BY <1>3, <1>6, <2>1, <2>2, <2>3 DEF AloneInv
<1> QED BY <1>8, <1>9, <1>10, <1>11, <1>12, <1>13

-----------------------------------------------------------------------------

LEMMA RestartKeeps == ASSUME ManagerAssumption, LspInv, NEW e \in 1..MaxClients, Restart(e) PROVE LspInv'
<1>1. e \in 1..Len(clientEntries)
  <2>1. MaxClients \in Nat /\ Len(clientEntries) \in Nat
    BY DEF LspInv, LspTypes, ManagerAssumption
  <2>2. e <= Len(clientEntries)
    BY DEF Restart
  <2> QED BY <2>1, <2>2
<1> QED BY <1>1, RestartsKeeps, GiveUpKeeps

LEMMA RequestKeeps == ASSUME LspInv, RequestReload PROVE LspInv'
<1> USE DEF LspInv, RequestReload
<1>1. LspTypes'
  BY DEF LspTypes, Made
<1>2. ClientsOK' /\ StartsAwaited' /\ Undisturbed' /\ DrainedInv'
  BY DEF ClientsOK, StartsAwaited, Starting, Undisturbed, DrainedInv, Made
<1>3. AloneInv'
  BY DEF AloneInv, Current, Quiet, Made
<1> QED BY <1>1, <1>2, <1>3

\* A reload begins to close when no operation is counted.
LEMMA DrainedKeeps == ASSUME LspInv, Drained PROVE LspInv'
<1> DEFINE k == clientEntries[entry].client
           c == Stopping(clients[k])
<1> USE DEF LspInv
<1>1. /\ UNCHANGED <<entry, clientEntries, op>> /\ reload' = "closing"
      /\ \A o \in Operations : ~op[o].counted
      /\ target' = (IF entry = 0 THEN 0 ELSE k) /\ alone' = (alone /\ Abandoned = {})
  BY DEF Drained, Active
<1>2. /\ clients \in Seq(ClientState) /\ Made' = Made /\ clients' \in Seq(ClientState)
      /\ Len(clients') = Len(clients)
      /\ entry # 0 => k \in Made
      /\ \A j \in Made : clients'[j] = IF entry # 0 /\ j = k THEN Stopping(clients[j]) ELSE clients[j]
  <2>1. CASE entry = 0
    BY <2>1 DEF Drained, LspTypes, Made
  <2>2. CASE entry # 0
    <3>1. /\ k \in Made /\ k \in 1..Len(clients) /\ clients \in Seq(ClientState)
          /\ clients[k] \in ClientState
      BY <2>2 DEF LspTypes, Made
    <3>2. c \in ClientState /\ clients' = [clients EXCEPT ![k] = c]
      BY <2>2, <3>1 DEF Drained, Client, Stopping, ClientState
    <3> HIDE DEF c, k
    <3>3. /\ clients' \in Seq(ClientState) /\ Len(clients') = Len(clients) /\ clients'[k] = c
          /\ \A j \in 1..Len(clients) : j # k => clients'[j] = clients[j]
      BY <3>1, <3>2, ReplacedIn
    <3> QED BY <2>2, <3>1, <3>3 DEF Made, c
  <2> QED BY <2>1, <2>2
<1>3. \A j \in Made : /\ clients'[j].start = clients[j].start /\ clients'[j].server = clients[j].server
                      /\ clients'[j] \in ClientState /\ ClientOK(clients'[j])
                      /\ entry # 0 /\ j = k => clients'[j].status = "stopped"
  <2> SUFFICES ASSUME NEW j \in Made
               PROVE  /\ clients'[j].start = clients[j].start /\ clients'[j].server = clients[j].server
                      /\ clients'[j] \in ClientState /\ ClientOK(clients'[j])
                      /\ entry # 0 /\ j = k => clients'[j].status = "stopped"
    OBVIOUS
  <2>1. clients[j] \in ClientState /\ ClientOK(clients[j])
    BY <1>2 DEF ClientsOK, Made
  <2>2. LET b == Stopping(clients[j]) IN
        /\ b.start = clients[j].start /\ b.server = clients[j].server
        /\ b \in ClientState /\ ClientOK(b) /\ b.status = "stopped"
    BY <2>1 DEF Stopping, ClientState, ClientOK
  <2> QED BY <1>2, <2>1, <2>2
<1> HIDE DEF c, k
<1>4. LspTypes'
  <2>1. target' \in 0..Len(clients')
    BY <1>1, <1>2 DEF Made
  <2> QED BY <1>1, <1>2, <2>1 DEF LspTypes
<1>5. ClientsOK' /\ StartsAwaited' /\ Undisturbed' /\ DrainedInv'
  BY <1>1, <1>2, <1>3 DEF ClientsOK, StartsAwaited, Starting, Undisturbed, DrainedInv, Active, LspTypes
<1>6. AloneInv'
  <2> SUFFICES ASSUME alone, Abandoned = {} PROVE AloneInv'
    BY <1>1 DEF AloneInv
  <2>1. \A o \in Operations : op[o].at \in {"idle", "done"}
    BY <1>1 DEF Abandoned
  <2>2. \A j \in Made : ~Current(j) => Quiet(j)'
    BY <1>1, <1>3, <2>1 DEF AloneInv, Current, Quiet
  <2>3. \A e \in 1..Len(clientEntries) : clientEntries[e].restarting = 0
    BY <2>1 DEF AloneInv
  <2>4. target' # 0 => clients'[target'].status = "stopped"
    BY <1>1, <1>2, <1>3
  <2> QED BY <1>1, <1>2, <2>1, <2>2, <2>3, <2>4 DEF AloneInv, Current, k
<1> QED BY <1>4, <1>5, <1>6

\* When it ends no client has a server.
LEMMA ReloadCloses ==
  ASSUME LspInv, ReloadEnds, alone, NEW k \in Made
  PROVE  clients[k].server = "down" /\ clients[k].start = "none"
<1>1. CASE Current(k)
  <2>1. k = target /\ clients[k].status = "stopped"
    BY <1>1 DEF LspInv, AloneInv, Current, ReloadEnds, Made
  <2>2. clients[k].stop = "none" /\ ClientOK(clients[k])
    BY <2>1 DEF ReloadEnds, LspInv, ClientsOK
  <2> QED BY <2>1, <2>2 DEF ClientOK
<1>2. CASE ~Current(k)
  BY <1>2 DEF LspInv, AloneInv, Quiet
<1> QED BY <1>1, <1>2

LEMMA ReloadEndsKeeps == ASSUME LspInv, ReloadEnds PROVE LspInv'
<1> USE DEF LspInv
<1>1. /\ UNCHANGED <<clientEntries, clients, op, alone>> /\ reload' = "none" /\ target' = 0 /\ entry' = 0
      /\ reload = "closing"
  BY DEF ReloadEnds
<1>2. LspTypes'
  BY <1>1 DEF LspTypes, Made
<1>3. ClientsOK' /\ StartsAwaited' /\ Undisturbed' /\ DrainedInv'
  BY <1>1 DEF ClientsOK, StartsAwaited, Starting, Undisturbed, DrainedInv, Made
<1>4. AloneInv'
  <2> SUFFICES ASSUME alone PROVE AloneInv'
    BY <1>1 DEF AloneInv
  <2>1. \A o \in Operations : op[o].at \in {"idle", "done"}
    BY <1>1 DEF AloneInv
  <2>2. \A k \in Made : Quiet(k)'
    BY <1>1, <2>1, ReloadCloses DEF Quiet
  <2>3. \A e \in 1..Len(clientEntries) : clientEntries[e].restarting = 0
    BY <2>1 DEF AloneInv
  <2> QED BY <1>1, <2>2, <2>3 DEF AloneInv, Made
<1> QED BY <1>2, <1>3, <1>4

LEMMA LspNext == ASSUME ManagerAssumption, LspInv, [ManagerNext]_managerVars PROVE LspInv'
<1>1. CASE UNCHANGED managerVars
  <2> USE <1>1 DEF managerVars, LspInv
  <2>1. LspTypes'
    BY DEF LspTypes, Made
  <2>2. ClientsOK' /\ StartsAwaited' /\ Undisturbed' /\ DrainedInv'
    BY DEF ClientsOK, StartsAwaited, Starting, Undisturbed, DrainedInv, Active, Made
  <2>3. AloneInv'
    BY DEF AloneInv, Current, Quiet, Made
  <2> QED BY <2>1, <2>2, <2>3
<1>2. ASSUME NEW o \in Operations, Begin(o) \/ OpStep(o) \/ Abandon(o) PROVE LspInv'
  BY <1>2, BeginKeeps, CreateKeeps, FindKeeps, JoinRestartKeeps, EnsureKeeps, UseEndsKeeps,
     AbandonKeeps DEF OpStep
<1>3. ASSUME NEW k \in 1..MaxClients,
             ClientStep(k) \/ ConnectFails(k) \/ TransportFails(k) \/ IdleTimeout(k)
      PROVE  LspInv'
  BY <1>3, ConnectedKeeps, InitializedKeeps, StartGivesUpKeeps, CleanedUpKeeps,
     StopConnectionKeeps, StoppedKeeps, ConnectFailsKeeps, TransportFailsKeeps, IdleTimeoutKeeps
     DEF ClientStep
<1> QED BY <1>1, <1>2, <1>3, RestartKeeps, RequestKeeps, DrainedKeeps, ReloadEndsKeeps
        DEF ManagerNext, ReloadStep

LEMMA LspAlways == ManagerSpec => []LspInv
<1>1. ManagerAssumption
  BY ManagerAssumption
<1> QED BY <1>1, InitLsp, LspNext, PTL DEF ManagerSpec

\* Neither the idle timer nor a reload stops a client that a counted operation is
\* starting or using, for any operations, crashes, restarts and reloads.
THEOREM NobodyIsDisturbed == ManagerSpec => []OperationsUndisturbed
<1>1. ASSUME LspInv PROVE OperationsUndisturbed
  <2>1. \A k \in Made : clients[k] \in ClientState
    BY <1>1 DEF LspInv, LspTypes, Made
  <2> QED BY <1>1, <2>1 DEF OperationsUndisturbed, ManagerTypeOK, ClientState, LspInv,
                            LspTypes, Undisturbed, Active
<1> QED BY <1>1, LspAlways, PTL

\* A reload that left no search behind ends with every server closed and no start
\* under way (LspManager.reload), whatever crashed, restarted or idled before.
THEOREM ReloadsClose == ManagerSpec => ReloadClosesCounted
<1>1. ASSUME LspInv
      PROVE  [ReloadEnds /\ alone => \A k \in Made :
                clients[k].server = "down" /\ clients[k].start = "none"]_managerVars
  BY <1>1, ReloadCloses
<1> QED BY <1>1, LspAlways, PTL DEF ReloadClosesCounted

-----------------------------------------------------------------------------
(* The documents open at a language server. *)
Texts == 0..written
Symbols == [version : Nat, text : Texts]
DocState == [version : Nat \ {0}, text : Texts, open : BOOLEAN, persistent : BOOLEAN, symbols : Symbols]
AtServer == [version : Nat, text : Texts]
TaskState == [kind : {"sync", "symbols", "evict", "transient"}, by : Calls \cup Uris]
WireMessage ==
  [kind : {"open", "change"}, uri : Uris, version : Nat, text : Texts]
    \cup [kind : {"close"}, uri : Uris] \cup [kind : {"ask"}, uri : Uris, task : TaskState]
PostMessage ==
  [kind : {"answer"}, uri : Uris, task : TaskState, text : Texts]
    \cup [kind : {"publish"}, uri : Uris, version : Nat, text : Texts]
WriteCall(w) ==
  [at : {"captured", "tasks", "trimming", "collecting"}, text : Texts,
   captured : [UrisOf[w] -> Nat], left : SUBSET UrisOf[w]]
ReadCall == [at : {"loaded", "tasks", "closing", "trimming", "done"}, text : Texts]

TextTypes ==
  caps \in [sync : BOOLEAN, pull : BOOLEAN] /\ written \in Nat /\ fileText \in [Uris -> Texts]
DocTypes ==
  /\ doc \in [Uris -> {NoDoc} \cup DocState] /\ older \subseteq Docs \X Docs
  /\ \A u, v \in Docs : (<<u, v>> \in older) <=> u # v /\ <<v, u>> \notin older
TaskTypes ==
  /\ pendingVersion \in [Uris -> Nat] /\ docQueue \in [Uris -> Seq(TaskState)]
  /\ step \in [Uris -> {"start", "sending", "barrier", "asking", "closing"}]
NetTypes ==
  /\ wire \in Seq(WireMessage) /\ posts \in Seq(PostMessage)
  /\ server \in [Uris -> {Closed} \cup AtServer] /\ due \subseteq {u \in Uris : server[u] # Closed}
LedgerTypes == ledger \in [Uris -> [rev : Nat, text : Texts]] /\ revision \in Nat
CallTypes ==
  /\ DOMAIN call = Calls
  /\ \A w \in Writes : call[w] \in [at : {"idle", "done"}] \cup WriteCall(w)
  /\ \A r \in Reads : call[r] \in [at : {"idle", "done"}] \cup ReadCall
ToldTypes ==
  /\ DOMAIN told = Writes
  /\ \A w \in Writes :
       told[w] \in [UrisOf[w] -> [is : {"none", "publish", "unanswered", "told", "timeout"},
                                  text : Texts]]
DocsTypes ==
  TextTypes /\ DocTypes /\ TaskTypes /\ NetTypes /\ LedgerTypes /\ CallTypes /\ ToldTypes

\* What a queued task waits for: a call that has queued it, or a document that needs room.
TaskOK(u, t) ==
  CASE t.kind = "sync"      -> t.by \in Writes /\ u \in UrisOf[t.by] /\ call[t.by].at = "tasks"
    [] t.kind = "symbols"   -> t.by \in Reads /\ u = UriOf[t.by] /\ call[t.by].at = "tasks"
    [] t.kind = "transient" -> t.by \in Reads /\ u = UriOf[t.by] /\ call[t.by].at = "closing"
    [] t.kind = "evict"     ->
         \/ t.by \in Calls /\ OwnUris(t.by) # {} /\ call[t.by].at = "trimming"
         \/ /\ t.by \in Uris /\ docQueue[t.by] # <<>> /\ step[t.by] = "start"
            /\ docQueue[t.by][1].kind \in {"sync", "symbols"}

InQueue(u, t) == \E i \in 1..Len(docQueue[u]) : docQueue[u][i] = t
Once(u) == \A i, j \in 1..Len(docQueue[u]) : docQueue[u][i] = docQueue[u][j] => i = j
QueuesExact ==
  \A u \in Uris : Once(u) /\ \A t \in TaskState : InQueue(u, t) => TaskOK(u, t)

\* A document is open while the server wants it, and its symbols are of its text.
DocOK(u) ==
  doc[u] # NoDoc => /\ doc[u].open => caps.sync
                    /\ caps.sync /\ ~doc[u].open => ~doc[u].persistent
                    /\ doc[u].symbols.version \in {0, doc[u].version}
                    /\ caps.sync /\ doc[u].symbols.version # 0 => doc[u].symbols.text = doc[u].text

\* Where the running task of a URI is.
StepOK(u) ==
  /\ step[u] # "start" => docQueue[u] # <<>>
  /\ step[u] = "sending" =>
       /\ Running(u).kind \in {"sync", "symbols"} /\ caps.sync
       /\ pendingVersion[u] = NextVersion(u)
  /\ step[u] # "sending" => pendingVersion[u] = 0
  /\ step[u] = "barrier" => Running(u).kind = "sync" /\ InStep(u)
  /\ step[u] = "asking" => Running(u).kind \in {"sync", "symbols"} /\ InStep(u)
  /\ step[u] = "closing" => Closing(u) /\ doc[u] # NoDoc /\ doc[u].open
  /\ DocOK(u)
StepsExact == \A u \in Uris : StepOK(u)

\* A request or its answer belongs to the task that waits for it, or to one that is over.
Asking(u, t) == step[u] = "asking" /\ docQueue[u] # <<>> /\ Running(u) = t
AskOK(u, t) ==
  /\ t.kind \in {"sync", "symbols"} /\ t.by \in Calls
  /\ call[t.by].at \notin {"idle", "captured", "loaded"}
  /\ Asking(u, t) \/ ~InQueue(u, t)

\* A message that opens, changes or closes the document u, and one that asks for t.
About(u, i) == wire[i].uri = u /\ wire[i].kind # "ask"
Asked(u, t, i) == wire[i].kind = "ask" /\ wire[i].uri = u /\ wire[i].task = t
AsksExact ==
  \A u \in Uris, t \in TaskState : \A i \in 1..Len(wire) : Asked(u, t, i) =>
    AskOK(u, t) /\ (Asking(u, t) => \A j \in i + 1..Len(wire) : ~About(u, j))
Answers(u, t, i) == posts[i].kind = "answer" /\ posts[i].uri = u /\ posts[i].task = t
AnswersExact ==
  \A u \in Uris, t \in TaskState : \A i \in 1..Len(posts) : Answers(u, t, i) =>
    AskOK(u, t) /\ (Asking(u, t) /\ caps.sync => posts[i].text = doc[u].text)

\* What the client believes the server will have, once it has read its messages.
Believed(u) ==
  IF step[u] = "sending" THEN [version |-> pendingVersion[u], text |-> Text(u)]
  ELSE IF step[u] = "closing" \/ doc[u] = NoDoc \/ ~doc[u].open THEN Closed
  ELSE [version |-> doc[u].version, text |-> doc[u].text]
Leaves(m) == IF m.kind = "close" THEN Closed ELSE [version |-> m.version, text |-> m.text]
Accepts(s, m) ==
  /\ m.kind = "open" => s = Closed
  /\ m.kind = "change" => s # Closed /\ s.version < m.version
  /\ m.kind = "close" => s # Closed

\* The messages about one document follow from what the server has to what the client
\* believes it has.
WireOK(u) ==
  /\ (\A i \in 1..Len(wire) : ~About(u, i)) => server[u] = Believed(u)
  /\ \A i \in 1..Len(wire) :
       About(u, i) /\ (\A j \in 1..i - 1 : ~About(u, j)) => Accepts(server[u], wire[i])
  /\ \A i, j \in 1..Len(wire) :
       i < j /\ About(u, i) /\ About(u, j) /\ (\A k \in i + 1..j - 1 : ~About(u, k)) =>
         Accepts(Leaves(wire[i]), wire[j])
  /\ \A i \in 1..Len(wire) :
       About(u, i) /\ (\A k \in i + 1..Len(wire) : ~About(u, k)) => Leaves(wire[i]) = Believed(u)
WiresExact == \A u \in Uris : WireOK(u)

\* While there are too many documents, a call is open that will trim them.
TrimsToCome ==
  Cardinality(Docs) > MaxDocuments =>
    \E c \in Calls : call[c].at \in {"tasks", "closing", "trimming"} /\ OwnUris(c) # {}

DocsInv ==
  DocsTypes /\ QueuesExact /\ StepsExact /\ AsksExact /\ AnswersExact /\ WiresExact /\ TrimsToCome

(* What is known of a queued task, and of the one that runs. *)
LEMMA RunningOK ==
  ASSUME DocsTypes, QueuesExact, NEW u \in Uris, docQueue[u] # <<>>
  PROVE  /\ Running(u) = docQueue[u][1] /\ 1 \in 1..Len(docQueue[u]) /\ InQueue(u, Running(u))
         /\ Running(u) \in TaskState /\ TaskOK(u, Running(u))
         /\ Tail(docQueue[u]) \in Seq(TaskState)
         /\ Len(Tail(docQueue[u])) = Len(docQueue[u]) - 1
         /\ \A i \in 1..Len(Tail(docQueue[u])) :
              i + 1 \in 1..Len(docQueue[u]) /\ Tail(docQueue[u])[i] = docQueue[u][i + 1]
<1>1. docQueue[u] \in Seq(TaskState)
  BY DEF DocsTypes, TaskTypes
<1>2. Running(u) = docQueue[u][1] /\ 1 \in 1..Len(docQueue[u]) /\ Running(u) \in TaskState
  BY <1>1, TailSeq DEF Running
<1>3. InQueue(u, Running(u))
  BY <1>2 DEF InQueue
<1> QED
  BY <1>1, <1>2, <1>3, TailSeq DEF QueuesExact

LEMMA SyncingOK ==
  ASSUME DocumentsAssumption, DocsTypes, QueuesExact, NEW u \in Uris, docQueue[u] # <<>>,
         Running(u).kind \in {"sync", "symbols"}
  PROVE  /\ Running(u).by \in Calls /\ Running(u).by \notin Uris /\ call[Running(u).by].at = "tasks"
         /\ u \in OwnUris(Running(u).by) /\ Text(u) \in Texts
         /\ Running(u).kind = "sync" =>
              /\ Running(u).by \in Writes /\ u \in UrisOf[Running(u).by]
              /\ call[Running(u).by] \in WriteCall(Running(u).by)
         /\ Running(u).kind = "symbols" => Running(u).by \in Reads /\ u = UriOf[Running(u).by]
<1>1. Running(u) \in TaskState /\ TaskOK(u, Running(u))
  BY RunningOK
<1>2. CASE Running(u).kind = "sync"
  <2>1. Running(u).by \in Writes /\ u \in UrisOf[Running(u).by] /\ call[Running(u).by].at = "tasks"
    BY <1>1, <1>2 DEF TaskOK
  <2>2. call[Running(u).by] \in WriteCall(Running(u).by)
    BY <2>1 DEF DocsTypes, CallTypes, WriteCall
  <2> QED
    BY <1>2, <2>1, <2>2 DEF WriteCall, Text, OwnUris, Calls, DocumentsAssumption
<1>3. CASE Running(u).kind = "symbols"
  <2>1. Running(u).by \in Reads /\ u = UriOf[Running(u).by] /\ call[Running(u).by].at = "tasks"
    BY <1>1, <1>3 DEF TaskOK
  <2>2. call[Running(u).by] \in ReadCall
    BY <2>1 DEF DocsTypes, CallTypes, ReadCall
  <2> QED
    BY <1>3, <2>1, <2>2 DEF ReadCall, Text, OwnUris, Calls, DocumentsAssumption
<1> QED
  BY <1>2, <1>3

(* Nobody has asked u for room unless u waits for it at the start of a task. *)
NoRoomAsked(u) == \A v \in Uris, t \in TaskState : InQueue(v, t) => t.by # u

LEMMA RoomUnasked ==
  ASSUME DocumentsAssumption, DocsTypes, QueuesExact, NEW u \in Uris,
         \/ docQueue[u] = <<>> \/ step[u] # "start" \/ Running(u).kind \notin {"sync", "symbols"}
         \/ ~Queued(Task("evict", u))
  PROVE  NoRoomAsked(u)
<1> SUFFICES ASSUME NEW v \in Uris, NEW t \in TaskState, InQueue(v, t), t.by = u
             PROVE  FALSE
  BY DEF NoRoomAsked
<1>1. TaskOK(v, t)
  BY DEF QueuesExact
<1>2. u \notin Writes /\ u \notin Reads /\ u \notin Calls
  BY DEF DocumentsAssumption, Calls
<1>3. /\ t.kind = "evict" /\ docQueue[u] # <<>> /\ step[u] = "start"
      /\ docQueue[u][1].kind \in {"sync", "symbols"}
  BY <1>1, <1>2 DEF TaskOK, TaskState
<1>4. t = Task("evict", u)
  BY <1>3 DEF TaskState, Task
<1> QED
  BY <1>3, <1>4 DEF Queued, InQueue, Running, DocsTypes, TaskTypes

(* How the calls go on: a call keeps its texts and where it is, or has no task queued. *)
SameCalls ==
  DOMAIN call' = Calls /\ \A c \in Calls : call'[c].at = call[c].at /\ call'[c].text = call[c].text

LEMMA TaskStays ==
  ASSUME DocumentsAssumption, NEW v, NEW t \in TaskState, TaskOK(v, t),
         t.by \in Calls => call'[t.by].at = call[t.by].at,
         t.by \in Uris =>
           /\ docQueue'[t.by] # <<>> /\ docQueue'[t.by][1] = docQueue[t.by][1]
           /\ step'[t.by] = step[t.by]
  PROVE  TaskOK(v, t)'
<1> USE DEF TaskOK, Calls
<1>1. CASE t.kind = "sync"
  BY <1>1
<1>2. CASE t.kind = "symbols"
  BY <1>2
<1>3. CASE t.kind = "transient"
  BY <1>3
<1>4. CASE t.kind = "evict"
  BY <1>4 DEF OwnUris, DocumentsAssumption
<1> QED
  BY <1>1, <1>2, <1>3, <1>4 DEF TaskState

---------------------------------------------------------------------------
(* A step of the running task of u, which leaves the other documents alone. *)
Elsewhere(u) ==
  /\ docQueue' \in [Uris -> Seq(TaskState)] /\ SameCalls /\ caps' = caps
  /\ \A v \in Uris \ {u} :
       /\ docQueue'[v] = docQueue[v] /\ step'[v] = step[v] /\ doc'[v] = doc[v]
       /\ pendingVersion'[v] = pendingVersion[v] /\ server'[v] = server[v]
\* The task ends, or it goes on and did not wait for an answer.
TaskEnds(u) == docQueue'[u] = Tail(docQueue[u]) /\ step'[u] = "start"
TaskGoesOn(u) == docQueue'[u] = docQueue[u] /\ step[u] # "asking"
OwnStep(u) == Elsewhere(u) /\ docQueue[u] # <<>> /\ (TaskEnds(u) \/ TaskGoesOn(u))

LEMMA QueueShrinks ==
  ASSUME DocsTypes, QueuesExact, NEW u \in Uris, OwnStep(u), NEW v \in Uris, NEW t, InQueue(v, t)'
  PROVE  InQueue(v, t) /\ (v = u /\ TaskEnds(u) => t # Running(u))
<1>1. PICK i \in 1..Len(docQueue'[v]) : docQueue'[v][i] = t
  BY DEF InQueue
<1>2. CASE docQueue'[v] = docQueue[v] /\ ~(v = u /\ TaskEnds(u))
  BY <1>1, <1>2 DEF InQueue
<1>3. CASE v = u /\ TaskEnds(u)
  <2>1. /\ i + 1 \in 1..Len(docQueue[v]) /\ docQueue'[v][i] = docQueue[v][i + 1]
        /\ 1 \in 1..Len(docQueue[v]) /\ Running(u) = docQueue[v][1] /\ Once(v)
    BY <1>1, <1>3, RunningOK DEF OwnStep, TaskEnds, QueuesExact
  <2>2. i + 1 # 1
    BY <1>1
  <2> QED
    BY <1>1, <2>1, <2>2 DEF InQueue, Once
<1> QED
  BY <1>2, <1>3 DEF OwnStep, Elsewhere, TaskGoesOn

LEMMA QueuesMove ==
  ASSUME DocumentsAssumption, DocsTypes, QueuesExact, NEW u \in Uris, OwnStep(u), NoRoomAsked(u)
  PROVE  QueuesExact'
<1>1. \A v \in Uris, t \in TaskState : InQueue(v, t)' => InQueue(v, t)
  BY QueueShrinks
<1>2. ASSUME NEW v \in Uris, NEW t \in TaskState, InQueue(v, t) PROVE TaskOK(v, t)'
  <2>1. TaskOK(v, t) /\ t.by # u
    BY <1>2 DEF QueuesExact, NoRoomAsked
  <2>2. t.by \in Uris => docQueue'[t.by] = docQueue[t.by] /\ step'[t.by] = step[t.by]
    BY <2>1 DEF OwnStep, Elsewhere
  <2>3. t.by \in Uris => docQueue[t.by] # <<>>
    BY <2>1 DEF TaskOK, TaskState, DocumentsAssumption, Calls
  <2> QED
    BY <2>1, <2>2, <2>3, TaskStays DEF OwnStep, Elsewhere, SameCalls
<1>3. ASSUME NEW v \in Uris PROVE Once(v)'
  <2>1. Once(v)
    BY DEF QueuesExact
  <2>2. CASE docQueue'[v] = docQueue[v]
    BY <2>1, <2>2 DEF Once
  <2>3. CASE v = u /\ docQueue'[v] = Tail(docQueue[v])
    <3>1. /\ Len(docQueue'[v]) = Len(docQueue[v]) - 1 /\ Len(docQueue[v]) \in Nat
          /\ \A i \in 1..Len(docQueue'[v]) :
               i + 1 \in 1..Len(docQueue[v]) /\ docQueue'[v][i] = docQueue[v][i + 1]
      BY <2>3, RunningOK DEF OwnStep, DocsTypes, TaskTypes
    <3>2. SUFFICES ASSUME NEW i \in 1..Len(docQueue'[v]), NEW j \in 1..Len(docQueue'[v]),
                          docQueue'[v][i] = docQueue'[v][j]
                   PROVE  i = j
      BY DEF Once
    <3>3. i + 1 = j + 1
      BY <2>1, <3>1, <3>2 DEF Once
    <3> QED
      BY <3>3
  <2> QED
    BY <2>2, <2>3 DEF OwnStep, Elsewhere, TaskEnds, TaskGoesOn
<1> QED
  BY <1>1, <1>2, <1>3 DEF QueuesExact

LEMMA StepsElsewhere ==
  ASSUME DocumentsAssumption, DocsTypes, QueuesExact, StepsExact, NEW u \in Uris, Elsewhere(u)
  PROVE  \A v \in Uris \ {u} : StepOK(v)' /\ Believed(v)' = Believed(v)
<1> SUFFICES ASSUME NEW v \in Uris \ {u} PROVE StepOK(v)' /\ Believed(v)' = Believed(v)
  OBVIOUS
<1>1. /\ docQueue'[v] = docQueue[v] /\ step'[v] = step[v] /\ doc'[v] = doc[v]
      /\ pendingVersion'[v] = pendingVersion[v] /\ caps' = caps
  BY DEF Elsewhere
<1>2. Running(v)' = Running(v) /\ NextVersion(v)' = NextVersion(v) /\ Closing(v)' = Closing(v)
  BY <1>1 DEF Running, NextVersion, Closing
<1>3. step[v] \in {"sending", "barrier", "asking"} => Text(v)' = Text(v)
  <2>1. step[v] \in {"sending", "barrier", "asking"} => Running(v).by \in Calls
    BY SyncingOK DEF StepsExact, StepOK, DocOK
  <2> QED
    BY <1>2, <2>1 DEF Text, Elsewhere, SameCalls
<1>4. step[v] \in {"barrier", "asking"} => InStep(v)' = InStep(v)
  BY <1>1, <1>3 DEF InStep
<1>5. StepOK(v)
  BY DEF StepsExact
<1>6. StepOK(v)'
  BY <1>1, <1>2, <1>4, <1>5 DEF StepOK, DocOK
<1>7. Believed(v)' = Believed(v)
  BY <1>1, <1>3 DEF Believed
<1> QED
  BY <1>6, <1>7

(* A request that was sent stays that of the running task, or of one that is over. *)
LEMMA AskStays ==
  ASSUME DocsTypes, QueuesExact, NEW u \in Uris, OwnStep(u),
         NEW v \in Uris, NEW t \in TaskState, AskOK(v, t)
  PROVE  AskOK(v, t)' /\ (Asking(v, t)' => v # u /\ Asking(v, t))
<1>1. InQueue(v, t)' => InQueue(v, t) /\ (v = u /\ TaskEnds(u) => t # Running(u))
  BY QueueShrinks
<1>2. call'[t.by].at = call[t.by].at
  BY DEF OwnStep, Elsewhere, SameCalls, AskOK
<1>3. CASE v # u
  BY <1>1, <1>2, <1>3 DEF AskOK, Asking, OwnStep, Elsewhere, Running
<1>4. CASE v = u /\ TaskEnds(u)
  BY <1>1, <1>2, <1>4 DEF AskOK, Asking, TaskEnds
<1>5. CASE v = u /\ TaskGoesOn(u)
  <2>1. ~InQueue(u, t)
    BY <1>5 DEF AskOK, Asking, TaskGoesOn
  <2>2. Running(u)' = Running(u) /\ Running(u) # t
    BY <1>5, <2>1, RunningOK DEF TaskGoesOn, Running, OwnStep
  <2> QED
    BY <1>1, <1>2, <1>5, <2>1, <2>2 DEF AskOK, Asking
<1> QED
  BY <1>3, <1>4, <1>5 DEF OwnStep

\* The running task asks the server, or sends it a message about the document.
Ask(u) == [kind |-> "ask", uri |-> u, task |-> Running(u)]
Asks(u) ==
  /\ wire' = Append(wire, Ask(u)) /\ TaskGoesOn(u) /\ step'[u] = "asking"
  /\ Running(u).kind \in {"sync", "symbols"}
Sends(u, m) ==
  /\ m \in WireMessage /\ m.uri = u /\ m.kind # "ask"
  /\ wire' = Append(wire, m) /\ TaskGoesOn(u) /\ step'[u] # "asking"

LEMMA AsksMove ==
  ASSUME DocumentsAssumption, DocsTypes, QueuesExact, AsksExact, NEW u \in Uris, OwnStep(u),
         wire' = wire \/ Asks(u) \/ \E m \in WireMessage : Sends(u, m)
  PROVE  AsksExact'
<1> SUFFICES ASSUME NEW v \in Uris, NEW t \in TaskState, NEW i \in 1..Len(wire'), Asked(v, t, i)'
             PROVE  AskOK(v, t)' /\ (Asking(v, t)' => \A j \in i + 1..Len(wire') : ~About(v, j)')
  BY DEF AsksExact
<1>1. wire \in Seq(WireMessage) /\ Ask(u) \in WireMessage
  BY RunningOK DEF DocsTypes, NetTypes, Ask, WireMessage, OwnStep
<1>2. CASE i \in 1..Len(wire) /\ wire'[i] = wire[i]
  <2>1. Asked(v, t, i)
    BY <1>2 DEF Asked
  <2>2. AskOK(v, t) /\ (Asking(v, t) => \A j \in i + 1..Len(wire) : ~About(v, j))
    BY <1>2, <2>1 DEF AsksExact
  <2>3. AskOK(v, t)' /\ (Asking(v, t)' => v # u /\ Asking(v, t))
    BY <2>2, AskStays
  <2>4. ASSUME Asking(v, t)', NEW j \in i + 1..Len(wire') PROVE ~About(v, j)'
    <3>1. CASE wire' = wire
      BY <2>2, <2>3, <2>4, <3>1 DEF About
    <3>2. ASSUME NEW m \in WireMessage, wire' = Append(wire, m), m.kind = "ask" \/ m.uri = u
          PROVE  ~About(v, j)'
      <4>1. (j \in i + 1..Len(wire) /\ wire'[j] = wire[j]) \/ wire'[j] = m
        BY <1>1, <1>2, <3>2, AddedTo
      <4> QED
        BY <2>2, <2>3, <2>4, <3>2, <4>1 DEF About
    <3> QED
      BY <1>1, <3>1, <3>2 DEF Asks, Sends, Ask
  <2> QED
    BY <2>3, <2>4
<1>3. CASE wire' = Append(wire, Ask(u)) /\ i = Len(wire) + 1 /\ Asks(u)
  <2>1. v = u /\ t = Running(u)
    BY <1>1, <1>3, AddedTo DEF Asked, Ask
  <2>2. Running(u).by \in Calls /\ call'[Running(u).by].at = "tasks"
    BY <1>3, SyncingOK DEF OwnStep, Elsewhere, SameCalls, Asks
  <2>3. Asking(u, t)'
    BY <1>3, <2>1 DEF Asks, Asking, TaskGoesOn, OwnStep, Running
  <2>4. \A j \in i + 1..Len(wire') : FALSE
    BY <1>1, <1>3, AddedTo
  <2> QED
    BY <1>3, <2>1, <2>2, <2>3, <2>4 DEF AskOK, Asks
<1>4. ASSUME NEW m \in WireMessage, Sends(u, m), i = Len(wire) + 1 PROVE FALSE
  BY <1>1, <1>4, AddedTo DEF Asked, Sends
<1> QED
  BY <1>1, <1>2, <1>3, <1>4, AddedTo DEF Asks, Sends

LEMMA AnswersMove ==
  ASSUME DocsTypes, QueuesExact, AnswersExact, NEW u \in Uris, OwnStep(u),
         \A i \in 1..Len(posts') : \E j \in 1..Len(posts) : posts'[i] = posts[j]
  PROVE  AnswersExact'
<1> SUFFICES ASSUME NEW v \in Uris, NEW t \in TaskState, NEW i \in 1..Len(posts'), Answers(v, t, i)'
             PROVE  /\ AskOK(v, t)'
                    /\ Asking(v, t)' /\ caps'.sync => posts'[i].text = doc'[v].text
  BY DEF AnswersExact
<1>1. PICK j \in 1..Len(posts) : posts'[i] = posts[j]
  OBVIOUS
<1>2. Answers(v, t, j)
  BY <1>1 DEF Answers
<1>3. AskOK(v, t) /\ (Asking(v, t) /\ caps.sync => posts[j].text = doc[v].text)
  BY <1>2 DEF AnswersExact
<1>4. AskOK(v, t)' /\ (Asking(v, t)' => v # u /\ Asking(v, t))
  BY <1>3, AskStays
<1> QED
  BY <1>1, <1>3, <1>4 DEF OwnStep, Elsewhere

---------------------------------------------------------------------------
(* The messages about a document follow each other. *)

LEMMA WireStays ==
  ASSUME DocsTypes, NEW u \in Uris, WireOK(u),
         server'[u] = server[u], Believed(u)' = Believed(u),
         wire' = wire \/ \E m \in WireMessage : wire' = Append(wire, m) /\ (m.kind = "ask" \/ m.uri # u)
  PROVE  WireOK(u)'
<1>1. CASE wire' = wire
  BY <1>1 DEF WireOK, About
<1>2. ASSUME NEW m \in WireMessage, wire' = Append(wire, m), m.kind = "ask" \/ m.uri # u
      PROVE  WireOK(u)'
  <2>1. /\ Len(wire) \in Nat /\ Len(wire') = Len(wire) + 1 /\ wire'[Len(wire) + 1] = m
        /\ \A i \in 1..Len(wire) : wire'[i] = wire[i]
    BY <1>2, AddedTo DEF DocsTypes, NetTypes
  <2>2. \A i \in 1..Len(wire) : About(u, i)' <=> About(u, i)
    BY <2>1 DEF About
  <2>3. \A i \in 1..Len(wire') : About(u, i)' => i \in 1..Len(wire)
    BY <1>2, <2>1 DEF About
  <2>4. (\A i \in 1..Len(wire') : ~About(u, i)') => server'[u] = Believed(u)'
    BY <2>1, <2>2 DEF WireOK
  <2>5. ASSUME NEW i \in 1..Len(wire'), About(u, i)', \A k \in 1..i - 1 : ~About(u, k)'
        PROVE  Accepts(server[u], wire'[i])
    <3>1. i \in 1..Len(wire) /\ \A k \in 1..i - 1 : ~About(u, k)
      BY <2>1, <2>2, <2>3, <2>5
    <3> QED
      BY <2>1, <2>2, <2>5, <3>1 DEF WireOK
  <2>6. ASSUME NEW i \in 1..Len(wire'), NEW j \in 1..Len(wire'), i < j,
               About(u, i)', About(u, j)', \A k \in i + 1..j - 1 : ~About(u, k)'
        PROVE  Accepts(Leaves(wire'[i]), wire'[j])
    <3>1. i \in 1..Len(wire) /\ j \in 1..Len(wire) /\ \A k \in i + 1..j - 1 : ~About(u, k)
      BY <2>1, <2>2, <2>3, <2>6
    <3> QED
      BY <2>1, <2>2, <2>6, <3>1 DEF WireOK
  <2>7. ASSUME NEW i \in 1..Len(wire'), About(u, i)', \A k \in i + 1..Len(wire') : ~About(u, k)'
        PROVE  Leaves(wire'[i]) = Believed(u)
    <3>1. i \in 1..Len(wire) /\ \A k \in i + 1..Len(wire) : ~About(u, k)
      BY <2>1, <2>2, <2>3, <2>7
    <3> QED
      BY <2>1, <2>2, <2>7, <3>1 DEF WireOK
  <2> QED
    BY <2>4, <2>5, <2>6, <2>7 DEF WireOK, Accepts, Leaves
<1> QED
  BY <1>1, <1>2

LEMMA WireGrows ==
  ASSUME DocsTypes, NEW u \in Uris, WireOK(u), NEW m \in WireMessage,
         m.uri = u, m.kind # "ask", wire' = Append(wire, m), server'[u] = server[u],
         Accepts(Believed(u), m), Believed(u)' = Leaves(m)
  PROVE  WireOK(u)'
<1>0. PICK n \in Nat : n = Len(wire)
  BY DEF DocsTypes, NetTypes
<1>1. /\ Len(wire) = n /\ Len(wire') = n + 1 /\ wire'[n + 1] = m
      /\ \A i \in 1..n : wire'[i] = wire[i]
  BY <1>0, AddedTo DEF DocsTypes, NetTypes
<1>2. \A i \in 1..n : About(u, i)' <=> About(u, i)
  BY <1>1 DEF About
<1>3. About(u, n + 1)' /\ n + 1 \in 1..Len(wire')
  BY <1>1 DEF About
<1>4. \A i \in 1..Len(wire') : i \in 1..n \/ i = n + 1
  BY <1>1
<1>5. ASSUME NEW i \in 1..Len(wire'), About(u, i)', \A k \in 1..i - 1 : ~About(u, k)'
      PROVE  Accepts(server[u], wire'[i])
  <2>1. CASE i \in 1..n
    <3>1. \A k \in 1..i - 1 : ~About(u, k)
      BY <1>1, <1>2, <1>5, <2>1
    <3> QED
      BY <1>1, <1>2, <1>5, <2>1, <3>1 DEF WireOK
  <2>2. CASE i = n + 1
    <3>1. \A k \in 1..n : ~About(u, k)
      BY <1>1, <1>2, <1>5, <2>2
    <3>2. server[u] = Believed(u)
      BY <1>1, <3>1 DEF WireOK
    <3> QED
      BY <1>1, <2>2, <3>2
  <2> QED
    BY <1>4, <2>1, <2>2
<1>6. ASSUME NEW i \in 1..Len(wire'), NEW j \in 1..Len(wire'), i < j,
             About(u, i)', About(u, j)', \A k \in i + 1..j - 1 : ~About(u, k)'
      PROVE  Accepts(Leaves(wire'[i]), wire'[j])
  <2>1. CASE j \in 1..n
    <3>1. i \in 1..n /\ \A k \in i + 1..j - 1 : ~About(u, k)
      BY <1>1, <1>2, <1>6, <2>1
    <3> QED
      BY <1>1, <1>2, <1>6, <2>1, <3>1 DEF WireOK
  <2>2. CASE j = n + 1
    <3>1. i \in 1..n /\ \A k \in i + 1..n : ~About(u, k)
      BY <1>1, <1>2, <1>6, <2>2
    <3>2. Leaves(wire[i]) = Believed(u)
      BY <1>1, <1>2, <1>6, <3>1 DEF WireOK
    <3> QED
      BY <1>1, <2>2, <3>1, <3>2
  <2> QED
    BY <1>4, <2>1, <2>2
<1>7. ASSUME NEW i \in 1..Len(wire'), About(u, i)', \A k \in i + 1..Len(wire') : ~About(u, k)'
      PROVE  Leaves(wire'[i]) = Believed(u)'
  <2>1. i = n + 1
    BY <1>1, <1>3, <1>4, <1>7
  <2> QED
    BY <1>1, <2>1
<1> QED
  BY <1>3, <1>5, <1>6, <1>7 DEF WireOK, Accepts, Leaves

\* The server takes the first message.
LEMMA WireShrinks ==
  ASSUME DocsTypes, NEW u \in Uris, WireOK(u), wire # <<>>, wire' = Tail(wire),
         Believed(u)' = Believed(u),
         server'[u] = IF About(u, 1) THEN Leaves(wire[1]) ELSE server[u]
  PROVE  WireOK(u)'
<1>0. PICK n \in Nat : n = Len(wire) /\ n # 0
  BY DEF DocsTypes, NetTypes
<1>1. /\ Len(wire) = n /\ Len(wire') = n - 1
      /\ \A i \in 1..Len(wire') : i + 1 \in 1..n /\ wire'[i] = wire[i + 1]
  BY <1>0, TailSeq DEF DocsTypes, NetTypes
<1>2. \A i \in 1..Len(wire') : About(u, i)' <=> About(u, i + 1)
  BY <1>1 DEF About
<1>3. ASSUME NEW i \in 1..n, NEW k \in Nat, \A j \in i..k : j \in 1..Len(wire') => ~About(u, j)'
      PROVE  \A j \in i + 1..k + 1 : j \in 1..n => ~About(u, j)
  <2>1. ASSUME NEW j \in i + 1..k + 1, j \in 1..n PROVE ~About(u, j)
    <3>1. j - 1 \in i..k /\ j - 1 \in 1..Len(wire') /\ (j - 1) + 1 = j
      BY <1>1, <2>1
    <3> QED
      BY <1>2, <1>3, <3>1
  <2> QED
    BY <2>1
<1>4. ASSUME \A i \in 1..Len(wire') : ~About(u, i)' PROVE server'[u] = Believed(u)'
  <2>1. \A i \in 2..n : ~About(u, i)
    <3>1. \A j \in 1 + 1..n + 1 : j \in 1..n => ~About(u, j)
      BY <1>0, <1>3, <1>4
    <3> QED
      BY <3>1
  <2>2. CASE About(u, 1)
    BY <1>0, <1>1, <2>1, <2>2 DEF WireOK
  <2>3. CASE ~About(u, 1)
    <3>1. \A i \in 1..n : ~About(u, i)
      BY <2>1, <2>3
    <3> QED
      BY <1>1, <2>3, <3>1 DEF WireOK
  <2> QED
    BY <2>2, <2>3
<1>5. ASSUME NEW i \in 1..Len(wire'), About(u, i)', \A k \in 1..i - 1 : ~About(u, k)'
      PROVE  Accepts(server'[u], wire'[i])
  <2>1. i + 1 \in 1..n /\ wire'[i] = wire[i + 1] /\ About(u, i + 1)
    BY <1>1, <1>2, <1>5
  <2>2. \A k \in 2..(i + 1) - 1 : ~About(u, k)
    <3>1. PICK k \in Nat : k = i - 1
      BY <1>5
    <3>2. \A j \in 1..k : j \in 1..Len(wire') => ~About(u, j)'
      BY <1>5, <3>1
    <3>3. \A j \in 1 + 1..k + 1 : j \in 1..n => ~About(u, j)
      BY <1>0, <1>3, <3>2
    <3> QED
      BY <2>1, <3>1, <3>3
  <2>3. CASE About(u, 1)
    BY <1>0, <1>1, <2>1, <2>2, <2>3 DEF WireOK
  <2>4. CASE ~About(u, 1)
    <3>1. \A k \in 1..(i + 1) - 1 : ~About(u, k)
      BY <2>2, <2>4
    <3> QED
      BY <1>1, <2>1, <2>4, <3>1 DEF WireOK
  <2> QED
    BY <2>3, <2>4
<1>6. ASSUME NEW i \in 1..Len(wire'), NEW j \in 1..Len(wire'), i < j,
             About(u, i)', About(u, j)', \A k \in i + 1..j - 1 : ~About(u, k)'
      PROVE  Accepts(Leaves(wire'[i]), wire'[j])
  <2>1. /\ i + 1 \in 1..n /\ wire'[i] = wire[i + 1] /\ About(u, i + 1)
        /\ j + 1 \in 1..n /\ wire'[j] = wire[j + 1] /\ About(u, j + 1)
    BY <1>1, <1>2, <1>6
  <2>2. \A k \in (i + 1) + 1..(j + 1) - 1 : ~About(u, k)
    <3>1. j - 1 \in Nat /\ \A k \in i + 1..j - 1 : k \in 1..Len(wire') => ~About(u, k)'
      BY <1>6
    <3>2. \A k \in (i + 1) + 1..(j - 1) + 1 : k \in 1..n => ~About(u, k)
      BY <1>3, <2>1, <3>1
    <3> QED
      BY <2>1, <3>2
  <2>3. PICK a \in 1..n, e \in 1..n : a = i + 1 /\ e = j + 1 /\ a < e
    BY <1>6, <2>1
  <2>4. About(u, a) /\ About(u, e) /\ \A k \in a + 1..e - 1 : ~About(u, k)
    BY <2>1, <2>2, <2>3
  <2>5. Accepts(Leaves(wire[a]), wire[e])
    BY <1>0, <2>3, <2>4 DEF WireOK
  <2> QED
    BY <2>1, <2>3, <2>5
<1>7. ASSUME NEW i \in 1..Len(wire'), About(u, i)', \A k \in i + 1..Len(wire') : ~About(u, k)'
      PROVE  Leaves(wire'[i]) = Believed(u)
  <2>1. i + 1 \in 1..n /\ wire'[i] = wire[i + 1] /\ About(u, i + 1)
    BY <1>1, <1>2, <1>7
  <2>2. \A k \in (i + 1) + 1..n : ~About(u, k)
    <3>1. n - 1 \in Nat /\ \A k \in i + 1..n - 1 : k \in 1..Len(wire') => ~About(u, k)'
      BY <1>0, <1>1, <1>7
    <3>2. \A k \in (i + 1) + 1..(n - 1) + 1 : k \in 1..n => ~About(u, k)
      BY <1>3, <2>1, <3>1
    <3> QED
      BY <2>1, <3>2
  <2> QED
    BY <1>1, <2>1, <2>2 DEF WireOK
<1> QED
  BY <1>4, <1>5, <1>6, <1>7 DEF WireOK, Accepts, Leaves

---------------------------------------------------------------------------
LEMMA DocsFinite ==
  ASSUME DocumentsAssumption
  PROVE  /\ IsFiniteSet(Docs) /\ Cardinality(Docs) \in Nat
         /\ MaxDocuments \in Nat \ {0}
BY FS_Subset, FS_CardinalityType DEF Docs, DocumentsAssumption

LEMMA TrimsStay ==
  ASSUME DocumentsAssumption, DocsTypes, QueuesExact, TrimsToCome, SameCalls,
         \/ Docs' \subseteq Docs
         \/ \E u \in Uris : docQueue[u] # <<>> /\ Running(u).kind \in {"sync", "symbols"}
  PROVE  TrimsToCome'
<1> SUFFICES ASSUME Cardinality(Docs') > MaxDocuments
             PROVE  \E c \in Calls : call'[c].at \in {"tasks", "closing", "trimming"} /\ OwnUris(c) # {}
  BY DEF TrimsToCome, OwnUris
<1>1. CASE Docs' \subseteq Docs
  <2>1. Cardinality(Docs') <= Cardinality(Docs) /\ Cardinality(Docs') \in Nat
    BY <1>1, DocsFinite, FS_Subset, FS_CardinalityType
  <2>2. Cardinality(Docs) > MaxDocuments
    BY <2>1, DocsFinite
  <2> QED
    BY <2>2 DEF TrimsToCome, SameCalls
<1>2. ASSUME NEW u \in Uris, docQueue[u] # <<>>, Running(u).kind \in {"sync", "symbols"}
      PROVE  \E c \in Calls : call'[c].at \in {"tasks", "closing", "trimming"} /\ OwnUris(c) # {}
  BY <1>2, SyncingOK DEF SameCalls
<1> QED
  BY <1>1, <1>2

(* The running task of u moves: what is left to show is its own document. *)
LEMMA OwnStepKeeps ==
  ASSUME DocumentsAssumption, DocsInv, NEW u \in Uris, OwnStep(u), NoRoomAsked(u), DocsTypes',
         wire' = wire \/ Asks(u) \/ \E m \in WireMessage : Sends(u, m),
         \A i \in 1..Len(posts') : \E j \in 1..Len(posts) : posts'[i] = posts[j],
         StepOK(u)', WireOK(u)', Docs' \subseteq Docs \/ Running(u).kind \in {"sync", "symbols"}
  PROVE  DocsInv'
<1> USE DEF DocsInv
<1>1. QueuesExact'
  BY QueuesMove
<1>2. \A v \in Uris \ {u} : StepOK(v)' /\ Believed(v)' = Believed(v)
  BY StepsElsewhere DEF OwnStep
<1>3. AsksExact' /\ AnswersExact'
  BY AsksMove, AnswersMove
<1>4. ASSUME NEW v \in Uris \ {u} PROVE WireOK(v)'
  <2>1. WireOK(v) /\ server'[v] = server[v] /\ Believed(v)' = Believed(v)
    BY <1>2 DEF WiresExact, OwnStep, Elsewhere
  <2>2. Ask(u) \in WireMessage /\ Ask(u).kind = "ask"
    BY RunningOK DEF Ask, WireMessage, OwnStep
  <2>3. wire' = wire \/ \E m \in WireMessage : wire' = Append(wire, m) /\ (m.kind = "ask" \/ m.uri # v)
    BY <2>2 DEF Asks, Sends
  <2> QED
    BY <2>1, <2>3, WireStays
<1>5. TrimsToCome'
  BY TrimsStay DEF OwnStep, Elsewhere
<1> QED
  BY <1>1, <1>2, <1>3, <1>4, <1>5 DEF StepsExact, WiresExact

(* An action that only queues tasks: those of a call that goes on, or closings. *)
Grows(u) ==
  \/ docQueue'[u] = docQueue[u]
  \/ \E t \in TaskState :
       /\ docQueue'[u] = Append(docQueue[u], t) /\ ~InQueue(u, t) /\ TaskOK(u, t)'
       /\ ~\E i \in 1..Len(wire) : Asked(u, t, i)
       /\ ~\E i \in 1..Len(posts) : Answers(u, t, i)
HasQueued(c) == call[c].at \notin {"idle", "captured", "loaded"}
GoesOn(c) ==
  /\ \A u \in Uris, t \in TaskState : InQueue(u, t) => t.by # c
  /\ HasQueued(c) => HasQueued(c)'
QueuesGrow ==
  /\ docQueue' \in [Uris -> Seq(TaskState)] /\ \A u \in Uris : Grows(u)
  /\ \A c \in Calls : call'[c] = call[c] \/ GoesOn(c)
  /\ UNCHANGED <<caps, doc, pendingVersion, step, wire, posts, server>>

LEMMA QueueGrew ==
  ASSUME DocsTypes, NEW u \in Uris, Grows(u)
  PROVE  /\ docQueue[u] # <<>> =>
              docQueue'[u] # <<>> /\ docQueue'[u][1] = docQueue[u][1] /\ Running(u)' = Running(u)
         /\ \A t \in TaskState : InQueue(u, t) => InQueue(u, t)'
         /\ \A t \in TaskState :
              InQueue(u, t)' => \/ InQueue(u, t)
                                \/ /\ docQueue'[u] = Append(docQueue[u], t)
                                   /\ TaskOK(u, t)'
                                   /\ ~\E i \in 1..Len(wire) : Asked(u, t, i)
                                   /\ ~\E i \in 1..Len(posts) : Answers(u, t, i)
         /\ Once(u) => Once(u)'
<1>1. CASE docQueue'[u] = docQueue[u]
  BY <1>1 DEF InQueue, Once, Running
<1>2. ASSUME NEW t \in TaskState, docQueue'[u] = Append(docQueue[u], t), ~InQueue(u, t), TaskOK(u, t)',
             ~\E i \in 1..Len(wire) : Asked(u, t, i), ~\E i \in 1..Len(posts) : Answers(u, t, i)
      PROVE  /\ docQueue[u] # <<>> =>
                  docQueue'[u] # <<>> /\ docQueue'[u][1] = docQueue[u][1] /\ Running(u)' = Running(u)
             /\ \A s \in TaskState : InQueue(u, s) => InQueue(u, s)'
             /\ \A s \in TaskState : InQueue(u, s)' => InQueue(u, s) \/ s = t
             /\ Once(u) => Once(u)'
  <2>1. PICK n \in Nat : n = Len(docQueue[u])
    BY DEF DocsTypes, TaskTypes
  <2>2. /\ docQueue'[u] \in Seq(TaskState) /\ Len(docQueue'[u]) = n + 1 /\ docQueue'[u][n + 1] = t
        /\ \A j \in 1..n : docQueue'[u][j] = docQueue[u][j] /\ j \in 1..n + 1
    BY <1>2, <2>1, AddedTo DEF DocsTypes, TaskTypes
  <2>3. docQueue[u] # <<>> =>
          docQueue'[u] # <<>> /\ docQueue'[u][1] = docQueue[u][1] /\ Running(u)' = Running(u)
    <3> SUFFICES ASSUME docQueue[u] # <<>>
                 PROVE  docQueue'[u] # <<>> /\ docQueue'[u][1] = docQueue[u][1] /\ Running(u)' = Running(u)
      OBVIOUS
    <3>1. Head(docQueue[u]) = docQueue[u][1] /\ 1 \in 1..n
      BY <2>1, TailSeq DEF DocsTypes, TaskTypes
    <3>2. docQueue'[u] # <<>>
      BY <2>2
    <3> QED
      BY <2>2, <3>1, <3>2, TailSeq DEF Running
  <2>4. \A s \in TaskState : InQueue(u, s) => InQueue(u, s)'
    BY <2>1, <2>2 DEF InQueue
  <2>5. \A s \in TaskState : InQueue(u, s)' => InQueue(u, s) \/ s = t
    BY <2>1, <2>2 DEF InQueue
  <2>6. Once(u) => Once(u)'
    BY <1>2, <2>1, <2>2 DEF Once, InQueue
  <2> QED
    BY <2>3, <2>4, <2>5, <2>6
<1> QED
  BY <1>1, <1>2 DEF Grows

LEMMA GrowKeeps ==
  ASSUME DocumentsAssumption, DocsInv, QueuesGrow, DocsTypes', TrimsToCome'
  PROVE  DocsInv'
<1> USE DEF DocsInv
<1>1. \A u \in Uris : Grows(u)
  BY DEF QueuesGrow
<1>2. ASSUME NEW u \in Uris, NEW t \in TaskState, InQueue(u, t), t.by \in Calls
      PROVE  call'[t.by] = call[t.by]
  BY <1>2 DEF QueuesGrow, GoesOn
<1>3. ASSUME NEW u \in Uris, NEW t \in TaskState, InQueue(u, t)' PROVE TaskOK(u, t)'
  <2>1. CASE InQueue(u, t)
    <3>1. TaskOK(u, t)
      BY <2>1 DEF QueuesExact
    <3>2. t.by \in Uris => docQueue[t.by] # <<>>
      BY <3>1 DEF TaskOK, TaskState, DocumentsAssumption, Calls
    <3>3. t.by \in Uris => /\ docQueue'[t.by] # <<>> /\ docQueue'[t.by][1] = docQueue[t.by][1]
                           /\ step'[t.by] = step[t.by]
      BY <1>1, <3>2, QueueGrew DEF QueuesGrow
    <3> QED
      BY <1>2, <2>1, <3>1, <3>3, TaskStays
  <2> QED
    BY <1>1, <1>3, <2>1, QueueGrew
<1>4. \A u \in Uris : Once(u)'
  BY <1>1, QueueGrew DEF QueuesExact
<1>5. ASSUME NEW u \in Uris PROVE StepOK(u)' /\ Believed(u)' = Believed(u)
  <2>1. StepOK(u)
    BY DEF StepsExact
  <2>2. /\ step'[u] = step[u] /\ doc'[u] = doc[u] /\ pendingVersion'[u] = pendingVersion[u]
        /\ caps' = caps /\ NextVersion(u)' = NextVersion(u)
    BY DEF QueuesGrow, NextVersion
  <2>3. docQueue[u] # <<>> => docQueue'[u] # <<>> /\ Running(u)' = Running(u)
    BY <1>1, QueueGrew
  <2>4. step[u] \in {"sending", "barrier", "asking"} => Text(u)' = Text(u)
    <3>1. step[u] \in {"sending", "barrier", "asking"} =>
            docQueue[u] # <<>> /\ Running(u).by \in Calls /\ InQueue(u, Running(u))
            /\ Running(u) \in TaskState
      BY <2>1, SyncingOK, RunningOK DEF StepOK, DocOK
    <3> QED
      BY <1>2, <2>3, <3>1 DEF Text
  <2>5. step[u] \in {"barrier", "asking"} => InStep(u)' = InStep(u)
    BY <2>2, <2>4 DEF InStep
  <2>6. step[u] = "closing" => Closing(u)' = Closing(u)
    BY <2>1, <2>2, <2>3 DEF StepOK, DocOK, Closing
  <2>7. StepOK(u)'
    BY <2>1, <2>2, <2>3, <2>5, <2>6 DEF StepOK, DocOK
  <2>8. Believed(u)' = Believed(u)
    BY <2>2, <2>4 DEF Believed
  <2> QED
    BY <2>7, <2>8
<1>6. ASSUME NEW u \in Uris, NEW t \in TaskState, AskOK(u, t),
             \/ \E i \in 1..Len(wire) : Asked(u, t, i)
             \/ \E i \in 1..Len(posts) : Answers(u, t, i)
      PROVE  AskOK(u, t)' /\ (Asking(u, t)' => Asking(u, t))
  <2>1. call'[t.by].at \notin {"idle", "captured", "loaded"}
    BY <1>6 DEF AskOK, QueuesGrow, GoesOn, HasQueued
  <2>2. ~InQueue(u, t) => ~InQueue(u, t)'
    BY <1>1, <1>6, QueueGrew
  <2>3. step[u] = "asking" => docQueue[u] # <<>>
    BY DEF StepsExact, StepOK, DocOK
  <2>4. Asking(u, t)' <=> Asking(u, t)
    BY <1>1, <2>3, QueueGrew DEF Asking, QueuesGrow
  <2> QED
    BY <1>6, <2>1, <2>2, <2>4 DEF AskOK
<1>7. AsksExact'
  <2> SUFFICES ASSUME NEW u \in Uris, NEW t \in TaskState, NEW i \in 1..Len(wire), Asked(u, t, i)
               PROVE  AskOK(u, t)' /\ (Asking(u, t)' => \A j \in i + 1..Len(wire) : ~About(u, j))
    BY DEF AsksExact, QueuesGrow, Asked, About
  <2> QED
    BY <1>6 DEF AsksExact
<1>8. AnswersExact'
  <2> SUFFICES ASSUME NEW u \in Uris, NEW t \in TaskState, NEW i \in 1..Len(posts), Answers(u, t, i)
               PROVE  /\ AskOK(u, t)'
                      /\ Asking(u, t)' /\ caps.sync => posts[i].text = doc[u].text
    BY DEF AnswersExact, QueuesGrow, Answers
  <2> QED
    BY <1>6 DEF AnswersExact
<1>9. WiresExact'
  BY <1>5, WireStays DEF WiresExact, QueuesGrow
<1> QED
  BY <1>3, <1>4, <1>5, <1>7, <1>8, <1>9 DEF QueuesExact, StepsExact

LEMMA NewTask ==
  ASSUME DocsInv, NEW u \in Uris, NEW t \in TaskState, docQueue[u] = <<>> \/ ~TaskOK(u, t),
         t.kind \in {"evict", "transient"} \/ ~HasQueued(t.by)
  PROVE  /\ ~InQueue(u, t)
         /\ ~\E i \in 1..Len(wire) : Asked(u, t, i)
         /\ ~\E i \in 1..Len(posts) : Answers(u, t, i)
<1> USE DEF DocsInv
<1>1. ~InQueue(u, t)
  BY DEF QueuesExact, InQueue
<1>2. ~AskOK(u, t)
  BY DEF AskOK, HasQueued
<1> QED
  BY <1>1, <1>2 DEF AsksExact, AnswersExact

\* A call that goes on has no task queued when it is not yet, or no longer, where they are.
LEMMA NothingQueued ==
  ASSUME DocumentsAssumption, DocsInv, NEW c \in Calls,
         \/ call[c].at \notin {"tasks", "closing", "trimming"}
         \/ call[c].at = "tasks" /\ \A k \in {"sync", "symbols"} : ~Queued(Task(k, c))
         \/ call[c].at = "closing" /\ ~Queued(Task("transient", c))
         \/ call[c].at = "trimming" /\ ~Queued(Task("evict", c))
  PROVE  \A u \in Uris, t \in TaskState : InQueue(u, t) => t.by # c
<1> SUFFICES ASSUME NEW u \in Uris, NEW t \in TaskState, InQueue(u, t), t.by = c
             PROVE  FALSE
  OBVIOUS
<1>1. TaskOK(u, t)
  BY DEF DocsInv, QueuesExact
<1>2. t = Task(t.kind, c)
  BY DEF TaskState, Task
<1>3. Queued(Task(t.kind, c))
  BY <1>2 DEF Queued, InQueue
<1>4. c \notin Uris
  BY DEF Calls, DocumentsAssumption
<1> QED
  BY <1>1, <1>3, <1>4 DEF TaskOK, TaskState

---------------------------------------------------------------------------
(* The types, part by part. *)
LEMMA SameTypes ==
  ASSUME DocsTypes, written' = written
  PROVE  /\ caps' = caps /\ fileText' = fileText => TextTypes'
         /\ doc' = doc /\ older' = older => DocTypes'
         /\ pendingVersion' = pendingVersion /\ docQueue' = docQueue /\ step' = step => TaskTypes'
         /\ wire' = wire /\ server' = server /\ due' = due /\ posts' = posts => NetTypes'
         /\ ledger' = ledger /\ revision' = revision => LedgerTypes'
         /\ call' = call => CallTypes'
         /\ told' = told => ToldTypes'
<1>1. Texts' = Texts
  BY DEF Texts
<1>2. /\ DocState' = DocState /\ AtServer' = AtServer /\ ReadCall' = ReadCall
      /\ WireMessage' = WireMessage /\ PostMessage' = PostMessage
      /\ \A w \in Writes : WriteCall(w)' = WriteCall(w)
  BY <1>1 DEF DocState, Symbols, AtServer, ReadCall, WireMessage, PostMessage, WriteCall
<1> USE DEF DocsTypes
<1>3. caps' = caps /\ fileText' = fileText => TextTypes'
  BY <1>1 DEF TextTypes
<1>4. doc' = doc /\ older' = older => DocTypes'
  BY <1>2 DEF DocTypes, Docs
<1>5. pendingVersion' = pendingVersion /\ docQueue' = docQueue /\ step' = step => TaskTypes'
  BY DEF TaskTypes
<1>6. wire' = wire /\ server' = server /\ due' = due /\ posts' = posts => NetTypes'
  BY <1>2 DEF NetTypes
<1>7. ledger' = ledger /\ revision' = revision => LedgerTypes'
  BY <1>1 DEF LedgerTypes
<1>8. call' = call => CallTypes'
  BY <1>2 DEF CallTypes
<1>9. told' = told => ToldTypes'
  BY <1>1 DEF ToldTypes
<1> QED
  BY <1>3, <1>4, <1>5, <1>6, <1>7, <1>8, <1>9

LEMMA OneQueued ==
  ASSUME DocsTypes, NEW u \in Uris, NEW t \in TaskState,
         docQueue' = [docQueue EXCEPT ![u] = Append(@, t)] \/ docQueue' = [docQueue EXCEPT ![u] = <<t>>]
  PROVE  docQueue' \in [Uris -> Seq(TaskState)]
<1>1. docQueue[u] \in Seq(TaskState) /\ docQueue \in [Uris -> Seq(TaskState)]
  BY DEF DocsTypes, TaskTypes
<1>2. Append(docQueue[u], t) \in Seq(TaskState) /\ <<t>> \in Seq(TaskState)
  BY <1>1
<1> QED
  BY <1>1, <1>2

\* The texts that are written are still texts after one more was.
LEMMA MoreTexts ==
  ASSUME DocsTypes, written' = written + 1
  PROVE  /\ Texts \subseteq Texts' /\ written + 1 \in Texts' /\ DocState \subseteq DocState'
         /\ AtServer \subseteq AtServer' /\ ReadCall \subseteq ReadCall'
         /\ WireMessage \subseteq WireMessage' /\ PostMessage \subseteq PostMessage'
         /\ \A w \in Writes : WriteCall(w) \subseteq WriteCall(w)'
<1>1. Texts \subseteq Texts' /\ written + 1 \in Texts'
  BY DEF Texts, DocsTypes, TextTypes
<1>2. Symbols \subseteq Symbols'
  BY <1>1 DEF Symbols
<1>3. DocState \subseteq DocState'
  BY <1>1, <1>2 DEF DocState
<1>4. AtServer \subseteq AtServer' /\ ReadCall \subseteq ReadCall'
  BY <1>1 DEF AtServer, ReadCall
<1>5. WireMessage \subseteq WireMessage'
  BY <1>1 DEF WireMessage
<1>6. PostMessage \subseteq PostMessage'
  BY <1>1 DEF PostMessage
<1>7. \A w \in Writes : WriteCall(w) \subseteq WriteCall(w)'
  BY <1>1 DEF WriteCall
<1> QED
  BY <1>1, <1>3, <1>4, <1>5, <1>6, <1>7

LEMMA CaptureTypes ==
  ASSUME DocumentsAssumption, DocsTypes, NEW w \in Writes, Capture(w)
  PROVE  DocsTypes'
<1> USE DEF DocsTypes
<1>1. written' = written + 1 /\ UNCHANGED <<caps, docVars, netVars, ledVars, told>>
  BY DEF Capture
<1>2. TextTypes'
  BY <1>1, MoreTexts DEF TextTypes, Capture
<1>3. DocTypes'
  BY <1>1, MoreTexts DEF DocTypes, Docs, docVars
<1>4. TaskTypes'
  BY <1>1 DEF TaskTypes, docVars
<1>5. NetTypes'
  <2>1. wire \in Seq(WireMessage') /\ posts \in Seq(PostMessage')
    BY <1>1, MoreTexts DEF NetTypes
  <2> QED
    BY <1>1, <2>1, MoreTexts DEF NetTypes, netVars
<1>6. LedgerTypes'
  BY <1>1, MoreTexts DEF LedgerTypes, ledVars
<1>7. CallTypes'
  <2>1. call' = [c \in Calls |-> IF c = w
                   THEN [at |-> "captured", text |-> written + 1,
                         captured |-> [u \in UrisOf[w] |-> ledger[u].rev], left |-> UrisOf[w]]
                   ELSE call[c]]
    BY DEF Capture, CallTypes
  <2>2. [u \in UrisOf[w] |-> ledger[u].rev] \in [UrisOf[w] -> Nat]
    BY DEF LedgerTypes, DocumentsAssumption
  <2>3. call'[w] \in WriteCall(w)'
    BY <1>1, <2>1, <2>2, MoreTexts DEF WriteCall, Calls
  <2>4. \A c \in Calls \ {w} : call'[c] = call[c]
    BY <2>1
  <2>5. ASSUME NEW x \in Writes PROVE call'[x] \in [at : {"idle", "done"}] \cup WriteCall(x)'
    BY <1>1, <2>3, <2>4, MoreTexts DEF CallTypes, Calls
  <2>6. ASSUME NEW r \in Reads PROVE call'[r] \in [at : {"idle", "done"}] \cup ReadCall'
    BY <1>1, <2>4, MoreTexts DEF CallTypes, Calls, DocumentsAssumption
  <2> QED
    BY <2>1, <2>5, <2>6 DEF CallTypes
<1>8. ToldTypes'
  BY <1>1, MoreTexts DEF ToldTypes
<1> QED
  BY <1>2, <1>3, <1>4, <1>5, <1>6, <1>7, <1>8

\* A call moves on, with the rest of its state.
LEMMA CallMoves ==
  ASSUME DocumentsAssumption, DocsTypes, written' = written, NEW c \in Calls, NEW a,
         call' = [call EXCEPT ![c].at = a],
         \/ c \in Writes /\ call[c].at \in {"captured", "tasks", "trimming"}
            /\ a \in {"tasks", "trimming", "collecting"}
         \/ c \in Reads /\ call[c].at \in {"loaded", "tasks", "closing", "trimming"}
            /\ a \in {"tasks", "closing", "trimming", "done"}
  PROVE  /\ CallTypes' /\ call'[c].at = a /\ call'[c].text = call[c].text
         /\ \A d \in Calls \ {c} : call'[d] = call[d]
<1>1. \A d \in Calls \ {c} : call'[d] = call[d]
  BY DEF DocsTypes, CallTypes
<1>2. DOMAIN call' = Calls
  BY DEF DocsTypes, CallTypes
<1>3. Texts' = Texts
  BY DEF Texts
<1>4. CASE c \in Writes
  <2>1. call[c] \in WriteCall(c) /\ call'[c] = [call[c] EXCEPT !.at = a]
    BY <1>4 DEF DocsTypes, CallTypes, WriteCall, ReadCall, Calls, DocumentsAssumption
  <2>2. call'[c] \in WriteCall(c)' /\ call'[c].at = a /\ call'[c].text = call[c].text
    BY <1>3, <1>4, <2>1 DEF WriteCall, DocumentsAssumption
  <2>3. ASSUME NEW w \in Writes PROVE call'[w] \in [at : {"idle", "done"}] \cup WriteCall(w)'
    BY <1>1, <1>3, <2>2 DEF DocsTypes, CallTypes, Calls, WriteCall
  <2>4. ASSUME NEW r \in Reads PROVE call'[r] \in [at : {"idle", "done"}] \cup ReadCall'
    BY <1>1, <1>3, <1>4 DEF DocsTypes, CallTypes, Calls, ReadCall, DocumentsAssumption
  <2> QED
    BY <1>1, <1>2, <2>2, <2>3, <2>4 DEF CallTypes
<1>5. CASE c \in Reads
  <2>1. call[c] \in ReadCall /\ call'[c] = [call[c] EXCEPT !.at = a]
    BY <1>5 DEF DocsTypes, CallTypes, WriteCall, ReadCall, Calls, DocumentsAssumption
  <2>2. call'[c] \in ReadCall' /\ call'[c].at = a /\ call'[c].text = call[c].text
    BY <1>3, <1>5, <2>1 DEF ReadCall, DocumentsAssumption
  <2>3. ASSUME NEW w \in Writes PROVE call'[w] \in [at : {"idle", "done"}] \cup WriteCall(w)'
    BY <1>1, <1>3, <1>5 DEF DocsTypes, CallTypes, Calls, WriteCall, DocumentsAssumption
  <2>4. ASSUME NEW r \in Reads PROVE call'[r] \in [at : {"idle", "done"}] \cup ReadCall'
    BY <1>1, <1>3, <2>2 DEF DocsTypes, CallTypes, Calls, ReadCall
  <2> QED
    BY <1>1, <1>2, <2>2, <2>3, <2>4 DEF CallTypes
<1> QED
  BY <1>4, <1>5

\* While no document is opened, a call that will trim is enough.
LEMMA TrimsGoOn ==
  ASSUME TrimsToCome, doc' = doc,
         \A c \in Calls : call[c].at \in {"tasks", "closing", "trimming"}
                            => call'[c].at \in {"tasks", "closing", "trimming"}
  PROVE  TrimsToCome'
BY DEF TrimsToCome, Docs, OwnUris

\* A call goes on and queues no task, or one that is new.
LEMMA CallGoesOn ==
  ASSUME DocumentsAssumption, DocsInv, NEW c \in Calls, DocsTypes', TrimsToCome',
         \/ call[c].at \notin {"tasks", "closing", "trimming"}
         \/ call[c].at = "tasks" /\ \A k \in {"sync", "symbols"} : ~Queued(Task(k, c))
         \/ call[c].at = "closing" /\ ~Queued(Task("transient", c))
         \/ call[c].at = "trimming" /\ ~Queued(Task("evict", c)),
         HasQueued(c) => call'[c].at \notin {"idle", "captured", "loaded"},
         \A d \in Calls \ {c} : call'[d] = call[d],
         \A u \in Uris : Grows(u),
         UNCHANGED <<caps, doc, pendingVersion, step, wire, posts, server>>
  PROVE  DocsInv'
<1>1. GoesOn(c)
  BY NothingQueued DEF GoesOn, HasQueued
<1>2. docQueue' \in [Uris -> Seq(TaskState)]
  BY DEF DocsTypes, TaskTypes
<1>3. QueuesGrow
  BY <1>1, <1>2 DEF QueuesGrow
<1> QED
  BY <1>3, GrowKeeps

LEMMA CaptureKeeps ==
  ASSUME DocumentsAssumption, DocsInv, NEW w \in Writes, Capture(w)
  PROVE  DocsInv'
<1>1. DocsTypes'
  BY CaptureTypes DEF DocsInv
<1>2. /\ call[w].at = "idle" /\ UNCHANGED <<caps, docVars, netVars>>
      /\ \A d \in Calls \ {w} : call'[d] = call[d]
  BY DEF Capture, DocsInv, DocsTypes, CallTypes
<1>3. w \in Calls
  BY DEF Calls
<1>4. TrimsToCome'
  BY <1>2, TrimsGoOn DEF DocsInv, docVars
<1> QED
  BY <1>1, <1>2, <1>3, <1>4, CallGoesOn DEF HasQueued, Grows, docVars, netVars

LEMMA LoadKeeps ==
  ASSUME DocumentsAssumption, DocsInv, NEW r \in Reads, LoadText(r)
  PROVE  DocsInv'
<1> USE DEF DocsInv
<1>1. /\ call[r].at = "idle" /\ UNCHANGED <<textVars, docVars, netVars, ledVars, told>>
      /\ DOMAIN call' = Calls /\ \A d \in Calls \ {r} : call'[d] = call[d]
  BY DEF LoadText, DocsTypes, CallTypes
<1>2. r \in Calls /\ r \notin Writes
  BY DEF Calls, DocumentsAssumption
<1>3. CallTypes'
  <2>1. call'[r] = [at |-> "loaded", text |-> fileText[UriOf[r]]] /\ Texts' = Texts
    BY <1>1, <1>2 DEF LoadText, DocsTypes, CallTypes, Texts, textVars
  <2>2. call'[r] \in ReadCall'
    BY <2>1 DEF ReadCall, DocsTypes, TextTypes, DocumentsAssumption
  <2> QED
    BY <1>1, <1>2, <2>1, <2>2 DEF DocsTypes, CallTypes, ReadCall, WriteCall, Calls
<1>4. DocsTypes'
  BY <1>1, <1>3, SameTypes DEF DocsTypes, textVars, docVars, netVars, ledVars
<1>5. TrimsToCome'
  BY <1>1, TrimsGoOn DEF docVars
<1> QED
  BY <1>1, <1>2, <1>4, <1>5, CallGoesOn DEF HasQueued, Grows, docVars, netVars, textVars

LEMMA EnqueueBatchKeeps ==
  ASSUME DocumentsAssumption, DocsInv, NEW w \in Writes, EnqueueBatch(w)
  PROVE  DocsInv'
<1> USE DEF DocsInv
<1>1. /\ call[w].at = "captured" /\ w \in Calls /\ call' = [call EXCEPT ![w].at = "tasks"]
      /\ UNCHANGED <<textVars, doc, older, pendingVersion, step, netVars, ledVars, told>>
  BY DEF EnqueueBatch, Calls
<1>2. written' = written
  BY <1>1 DEF textVars
<1>3. CallTypes' /\ call'[w].at = "tasks" /\ \A d \in Calls \ {w} : call'[d] = call[d]
  BY <1>1, <1>2, CallMoves
<1>4. PICK t \in TaskState : t = Task("sync", w)
  BY DEF Task, TaskState, Calls
<1>5. t.kind = "sync" /\ t.by = w
  BY <1>4 DEF Task
<1>6. ASSUME NEW u \in Uris
      PROVE  docQueue'[u] = IF u \in UrisOf[w] THEN Append(docQueue[u], t) ELSE docQueue[u]
  BY <1>4 DEF EnqueueBatch
<1>7. ASSUME NEW u \in Uris PROVE Grows(u) /\ docQueue'[u] \in Seq(TaskState)
  <2>1. docQueue[u] \in Seq(TaskState) /\ Append(docQueue[u], t) \in Seq(TaskState)
    BY AddedTo DEF DocsTypes, TaskTypes
  <2>2. ~TaskOK(u, t) /\ ~HasQueued(t.by)
    BY <1>1, <1>5 DEF TaskOK, HasQueued
  <2>3. CASE u \in UrisOf[w]
    <3>1. TaskOK(u, t)'
      BY <1>3, <1>5, <2>3 DEF TaskOK
    <3> QED
      BY <1>6, <2>1, <2>2, <2>3, <3>1, NewTask DEF Grows
  <2> QED
    BY <1>6, <2>1, <2>3 DEF Grows
<1>8. DocsTypes'
  <2>1. TaskTypes'
    BY <1>1, <1>7 DEF EnqueueBatch, DocsTypes, TaskTypes
  <2> QED
    BY <1>1, <1>2, <1>3, <2>1, SameTypes DEF DocsTypes, textVars, netVars, ledVars
<1>9. TrimsToCome'
  BY <1>1, <1>3, TrimsGoOn
<1> QED
  BY <1>1, <1>3, <1>7, <1>8, <1>9, CallGoesOn DEF HasQueued, netVars, textVars

LEMMA EnqueueSymbolsKeeps ==
  ASSUME DocumentsAssumption, DocsInv, NEW r \in Reads, EnqueueSymbols(r)
  PROVE  DocsInv'
<1> USE DEF DocsInv
<1>1. /\ call[r].at = "loaded" /\ r \in Calls /\ call' = [call EXCEPT ![r].at = "tasks"]
      /\ UNCHANGED <<textVars, doc, older, pendingVersion, step, netVars, ledVars, told>>
  BY DEF EnqueueSymbols, Calls
<1>2. written' = written /\ UriOf[r] \in Uris
  BY <1>1 DEF textVars, DocumentsAssumption
<1>3. CallTypes' /\ call'[r].at = "tasks" /\ \A d \in Calls \ {r} : call'[d] = call[d]
  BY <1>1, <1>2, CallMoves
<1>4. PICK t \in TaskState : t = Task("symbols", r)
  BY DEF Task, TaskState, Calls
<1>5. t.kind = "symbols" /\ t.by = r
  BY <1>4 DEF Task
<1>6. docQueue' = [docQueue EXCEPT ![UriOf[r]] = Append(@, t)]
  BY <1>4 DEF EnqueueSymbols
<1>7. docQueue' \in [Uris -> Seq(TaskState)]
  BY <1>2, <1>6, OneQueued
<1>8. ASSUME NEW u \in Uris PROVE Grows(u)
  <2>1. ~TaskOK(u, t) /\ ~HasQueued(t.by)
    BY <1>1, <1>5 DEF TaskOK, HasQueued
  <2>2. u = UriOf[r] => TaskOK(u, t)'
    BY <1>3, <1>5 DEF TaskOK
  <2> QED
    BY <1>6, <2>1, <2>2, NewTask DEF Grows, DocsTypes, TaskTypes
<1>9. DocsTypes'
  <2>1. TaskTypes'
    BY <1>1, <1>7 DEF DocsTypes, TaskTypes
  <2> QED
    BY <1>1, <1>2, <1>3, <2>1, SameTypes DEF DocsTypes, textVars, netVars, ledVars
<1>10. TrimsToCome'
  BY <1>1, <1>3, TrimsGoOn
<1> QED
  BY <1>1, <1>3, <1>8, <1>9, <1>10, CallGoesOn DEF HasQueued, netVars, textVars

LEMMA TasksDoneKeeps ==
  ASSUME DocumentsAssumption, DocsInv, NEW c \in Calls, TasksDone(c)
  PROVE  DocsInv'
<1> USE DEF DocsInv
<1>1. /\ call[c].at = "tasks" /\ \A k \in {"sync", "symbols"} : ~Queued(Task(k, c))
      /\ UNCHANGED <<textVars, doc, older, pendingVersion, step, netVars, ledVars, told>>
  BY DEF TasksDone
<1>2. written' = written
  BY <1>1 DEF textVars
<1>3. PICK a \in {"closing", "trimming"} :
        /\ call' = [call EXCEPT ![c].at = a]
        /\ IF c \in Reads
             THEN /\ docQueue' = [docQueue EXCEPT ![UriOf[c]] = Append(@, Task("transient", c))]
                  /\ a = "closing"
             ELSE docQueue' = docQueue /\ a = "trimming"
  BY DEF TasksDone
<1>4. CallTypes' /\ call'[c].at = a /\ \A d \in Calls \ {c} : call'[d] = call[d]
  BY <1>1, <1>2, <1>3, CallMoves DEF Calls
<1>5. (\A u \in Uris : Grows(u)) /\ docQueue' \in [Uris -> Seq(TaskState)]
  <2>1. CASE c \in Reads
    <3>1. PICK t \in TaskState : t = Task("transient", c)
      BY DEF Task, TaskState
    <3>2. t.kind = "transient" /\ t.by = c /\ UriOf[c] \in Uris
      BY <2>1, <3>1 DEF Task, DocumentsAssumption
    <3>3. docQueue' = [docQueue EXCEPT ![UriOf[c]] = Append(@, t)]
      BY <1>3, <2>1, <3>1
    <3>4. ASSUME NEW u \in Uris PROVE Grows(u)
      <4>1. ~TaskOK(u, t)
        BY <1>1, <3>2 DEF TaskOK
      <4>2. u = UriOf[c] => TaskOK(u, t)'
        BY <1>3, <1>4, <2>1, <3>2 DEF TaskOK
      <4> QED
        BY <3>2, <3>3, <4>1, <4>2, NewTask DEF Grows, DocsTypes, TaskTypes
    <3> QED
      BY <3>2, <3>3, <3>4, OneQueued
  <2>2. CASE c \notin Reads
    BY <1>3, <2>2 DEF Grows, DocsTypes, TaskTypes
  <2> QED
    BY <2>1, <2>2
<1>6. DocsTypes'
  <2>1. TaskTypes'
    BY <1>1, <1>5 DEF DocsTypes, TaskTypes
  <2> QED
    BY <1>1, <1>2, <1>4, <2>1, SameTypes DEF DocsTypes, textVars, netVars, ledVars
<1>7. TrimsToCome'
  BY <1>1, <1>4, TrimsGoOn
<1> QED
  BY <1>1, <1>4, <1>5, <1>6, <1>7, CallGoesOn DEF HasQueued, netVars, textVars

LEMMA TransientClosedKeeps ==
  ASSUME DocumentsAssumption, DocsInv, NEW r \in Reads, TransientClosed(r)
  PROVE  DocsInv'
<1> USE DEF DocsInv
<1>1. /\ call[r].at = "closing" /\ ~Queued(Task("transient", r)) /\ r \in Calls
      /\ call' = [call EXCEPT ![r].at = "trimming"]
      /\ UNCHANGED <<textVars, docVars, netVars, ledVars, told>>
  BY DEF TransientClosed, Calls
<1>2. written' = written
  BY <1>1 DEF textVars
<1>3. CallTypes' /\ call'[r].at = "trimming" /\ \A d \in Calls \ {r} : call'[d] = call[d]
  BY <1>1, <1>2, CallMoves
<1>4. DocsTypes'
  BY <1>1, <1>2, <1>3, SameTypes DEF DocsTypes, textVars, docVars, netVars, ledVars
<1>5. TrimsToCome'
  BY <1>1, <1>3, TrimsGoOn DEF docVars
<1> QED
  BY <1>1, <1>3, <1>4, <1>5, CallGoesOn DEF HasQueued, Grows, docVars, netVars, textVars

(* The call that stops trimming leaves the documents above the limit to another one: each
   of them is busy, with a task of another call.                                       *)
LEMMA TrimmedEnough ==
  ASSUME DocumentsAssumption, DocsInv, NEW c \in Calls, call[c].at = "trimming",
         ~Queued(Task("evict", c)), Cardinality(Docs) > MaxDocuments,
         NEW x \in OwnUris(c), Evictable(x) = {}
  PROVE  \E d \in Calls \ {c} : call[d].at \in {"tasks", "closing", "trimming"} /\ OwnUris(d) # {}
<1> USE DEF DocsInv
<1>1. PICK v \in Docs : v # x
  <2>1. CASE Docs \subseteq {x}
    <3>1. IsFiniteSet({x}) /\ Cardinality({x}) = 1
      BY FS_Singleton
    <3>2. Cardinality(Docs) <= 1
      BY <2>1, <3>1, FS_Subset
    <3> QED
      BY <3>2, DocsFinite
  <2> QED
    BY <2>1
<1>2. v \in Uris /\ docQueue[v] # <<>>
  BY <1>1 DEF Evictable, Docs
<1>3. PICK t \in TaskState : InQueue(v, t) /\ TaskOK(v, t)
  BY <1>2, RunningOK
<1>4. t.by # c
  <2>1. \A u \in Uris, s \in TaskState : InQueue(u, s) => s.by # c
    BY NothingQueued
  <2> QED
    BY <1>2, <1>3, <2>1
<1>5. CASE t.by \in Calls
  BY <1>3, <1>4, <1>5 DEF TaskOK, TaskState, OwnUris, Calls, DocumentsAssumption
<1>6. CASE t.by \notin Calls
  <2>1. /\ t.by \in Uris /\ docQueue[t.by] # <<>> /\ docQueue[t.by][1].kind \in {"sync", "symbols"}
    BY <1>3, <1>6 DEF TaskOK, TaskState, Calls
  <2>2. /\ Running(t.by).by \in Calls /\ call[Running(t.by).by].at = "tasks"
        /\ OwnUris(Running(t.by).by) # {}
    BY <2>1, RunningOK, SyncingOK
  <2> QED
    BY <2>2
<1> QED
  BY <1>5, <1>6

LEMMA EvictGrows ==
  ASSUME DocsInv, NEW v \in Uris, docQueue[v] = <<>>, NEW t \in TaskState, t.kind = "evict",
         docQueue' = [docQueue EXCEPT ![v] = <<t>>], TaskOK(v, t)'
  PROVE  (\A u \in Uris : Grows(u)) /\ docQueue' \in [Uris -> Seq(TaskState)]
<1>1. <<t>> = Append(docQueue[v], t)
  OBVIOUS
<1>2. docQueue' \in [Uris -> Seq(TaskState)]
  BY OneQueued DEF DocsInv
<1>3. ASSUME NEW u \in Uris PROVE Grows(u)
  BY <1>1, NewTask DEF Grows, DocsInv, DocsTypes, TaskTypes
<1> QED
  BY <1>2, <1>3

LEMMA TrimKeeps ==
  ASSUME DocumentsAssumption, DocsInv, NEW c \in Calls, Trim(c)
  PROVE  DocsInv'
<1> USE DEF DocsInv
<1> DEFINE over == {x \in OwnUris(c) : Cardinality(Docs) > MaxDocuments /\ Evictable(x) # {}}
<1>1. /\ call[c].at = "trimming" /\ ~Queued(Task("evict", c))
      /\ UNCHANGED <<textVars, doc, older, pendingVersion, step, netVars, ledVars, told>>
  BY DEF Trim
<1>2. written' = written
  BY <1>1 DEF textVars
<1>3. CASE over = {}
  <2>1. PICK a \in {"collecting", "done"} :
          /\ call' = [call EXCEPT ![c].at = a] /\ docQueue' = docQueue
          /\ a = IF c \in Writes THEN "collecting" ELSE "done"
    BY <1>3 DEF Trim
  <2>2. CallTypes' /\ call'[c].at = a /\ \A d \in Calls \ {c} : call'[d] = call[d]
    BY <1>1, <1>2, <2>1, CallMoves DEF Calls
  <2>3. DocsTypes'
    BY <1>1, <1>2, <2>1, <2>2, SameTypes DEF DocsTypes, textVars, netVars, ledVars
  <2>4. TrimsToCome'
    <3> SUFFICES ASSUME Cardinality(Docs) > MaxDocuments
                 PROVE  \E d \in Calls : call'[d].at \in {"tasks", "closing", "trimming"}
                                         /\ OwnUris(d) # {}
      BY <1>1 DEF TrimsToCome, Docs, OwnUris
    <3>1. CASE OwnUris(c) = {}
      BY <2>2, <3>1 DEF TrimsToCome
    <3>2. ASSUME NEW x \in OwnUris(c)
          PROVE  \E d \in Calls : call'[d].at \in {"tasks", "closing", "trimming"}
                                  /\ OwnUris(d) # {}
      <4>1. Evictable(x) = {}
        BY <1>3
      <4>2. \E d \in Calls \ {c} : call[d].at \in {"tasks", "closing", "trimming"} /\ OwnUris(d) # {}
        BY <1>1, <4>1, TrimmedEnough
      <4> QED
        BY <2>2, <4>2
    <3> QED
      BY <3>1, <3>2
  <2> QED
    BY <1>1, <2>1, <2>2, <2>3, <2>4, CallGoesOn DEF HasQueued, Grows, netVars, textVars
<1>4. CASE over # {}
  <2>1. PICK x \in over, v \in Docs : EvictionCandidate(x, v) /\ call' = call
                                      /\ docQueue' = [docQueue EXCEPT ![v] = <<Task("evict", c)>>]
    BY <1>4 DEF Trim
  <2>2. PICK t \in TaskState : t = Task("evict", c)
    BY DEF Task, TaskState
  <2>3. t.kind = "evict" /\ t.by = c /\ docQueue' = [docQueue EXCEPT ![v] = <<t>>]
    BY <2>1, <2>2 DEF Task
  <2>4. v \in Uris /\ docQueue[v] = <<>> /\ OwnUris(c) # {}
    BY <2>1 DEF EvictionCandidate, Evictable, Docs
  <2>5. TaskOK(v, t)'
    BY <1>1, <2>1, <2>3, <2>4 DEF TaskOK, OwnUris
  <2>6. (\A u \in Uris : Grows(u)) /\ docQueue' \in [Uris -> Seq(TaskState)]
    BY <2>3, <2>4, <2>5, EvictGrows
  <2>7. DocsTypes'
    <3>1. TaskTypes'
      BY <1>1, <2>6 DEF DocsTypes, TaskTypes
    <3> QED
      BY <1>1, <1>2, <2>1, <3>1, SameTypes DEF DocsTypes, textVars, netVars, ledVars
  <2>8. TrimsToCome'
    BY <1>1, <2>1, TrimsGoOn
  <2>9. QueuesGrow
    BY <1>1, <2>1, <2>6 DEF QueuesGrow, netVars, textVars
  <2> QED
    BY <2>7, <2>8, <2>9, GrowKeeps
<1> QED
  BY <1>3, <1>4

LEMMA EvictForKeeps ==
  ASSUME DocumentsAssumption, DocsInv, NEW u \in Uris, EvictFor(u)
  PROVE  DocsInv'
<1> USE DEF DocsInv
<1>1. /\ Synchronizing(u)
      /\ UNCHANGED <<textVars, doc, older, pendingVersion, step, netVars, ledVars, call, told>>
  BY DEF EvictFor
<1>2. PICK v \in Docs : EvictionCandidate(u, v)
                        /\ docQueue' = [docQueue EXCEPT ![v] = <<Task("evict", u)>>]
  BY DEF EvictFor
<1>3. PICK t \in TaskState : t = Task("evict", u)
  BY DEF Task, TaskState
<1>4. t.kind = "evict" /\ t.by = u /\ docQueue' = [docQueue EXCEPT ![v] = <<t>>]
  BY <1>2, <1>3 DEF Task
<1>5. v \in Uris /\ docQueue[v] = <<>> /\ v # u
  BY <1>2 DEF EvictionCandidate, Evictable, Docs
<1>6. TaskOK(v, t)'
  <2>1. docQueue'[u] = docQueue[u] /\ step'[u] = "start"
    BY <1>1, <1>4, <1>5 DEF Synchronizing, DocsTypes, TaskTypes
  <2>2. docQueue[u] # <<>> /\ docQueue[u][1].kind \in {"sync", "symbols"}
    BY <1>1, RunningOK DEF Synchronizing
  <2> QED
    BY <1>4, <2>1, <2>2 DEF TaskOK
<1>7. (\A w \in Uris : Grows(w)) /\ docQueue' \in [Uris -> Seq(TaskState)]
  BY <1>4, <1>5, <1>6, EvictGrows
<1>8. DocsTypes'
  <2>1. TaskTypes'
    BY <1>1, <1>7 DEF DocsTypes, TaskTypes
  <2> QED
    BY <1>1, <2>1, SameTypes DEF DocsTypes, textVars, netVars, ledVars
<1>9. TrimsToCome'
  BY <1>1, TrimsGoOn
<1>10. QueuesGrow
  BY <1>1, <1>7 DEF QueuesGrow, netVars, textVars
<1> QED
  BY <1>8, <1>9, <1>10, GrowKeeps

\* What a write is told changes nothing else.
LEMMA ToldGoesOn ==
  ASSUME DocsTypes, written' = written, NEW w \in Writes, NEW u \in UrisOf[w], NEW is, NEW text \in Texts,
         is \in {"publish", "unanswered", "told", "timeout"},
         told' = [told EXCEPT ![w][u] = Outcome(is, text)]
  PROVE  ToldTypes'
<1>1. Texts' = Texts
  BY DEF Texts
<1>2. Outcome(is, text) \in [is : {"none", "publish", "unanswered", "told", "timeout"}, text : Texts']
  BY <1>1 DEF Outcome
<1>3. DOMAIN told' = Writes /\ told'[w] = [told[w] EXCEPT ![u] = Outcome(is, text)]
      /\ \A x \in Writes \ {w} : told'[x] = told[x]
  BY DEF DocsTypes, ToldTypes
<1>4. told'[w] \in [UrisOf[w] -> [is : {"none", "publish", "unanswered", "told", "timeout"}, text : Texts']]
  BY <1>1, <1>2, <1>3 DEF DocsTypes, ToldTypes
<1> QED
  BY <1>1, <1>3, <1>4 DEF DocsTypes, ToldTypes

LEMMA TellKeeps ==
  ASSUME DocumentsAssumption, DocsInv, NEW w \in Writes, NEW u \in UrisOf[w],
         Collect(w, u) \/ DeadlinePasses(w, u)
  PROVE  DocsInv'
<1> USE DEF DocsInv
<1>1. UNCHANGED <<textVars, docVars, netVars, ledVars, call>>
  BY DEF Collect, DeadlinePasses
<1>2. ToldTypes'
  <2>1. ledger[u].text \in Texts /\ 0 \in Texts
    BY DEF DocsTypes, LedgerTypes, TextTypes, Texts, DocumentsAssumption
  <2> QED
    BY <1>1, <2>1, ToldGoesOn DEF Collect, DeadlinePasses, textVars
<1>3. DocsTypes'
  BY <1>1, <1>2, SameTypes DEF DocsTypes, textVars, docVars, netVars, ledVars
<1>4. TrimsToCome'
  BY <1>1, TrimsGoOn DEF docVars
<1>5. QueuesGrow
  BY <1>1 DEF QueuesGrow, Grows, DocsTypes, TaskTypes, docVars, netVars, textVars
<1> QED
  BY <1>3, <1>4, <1>5, GrowKeeps

---------------------------------------------------------------------------
(* The steps of a running task: its document, and the order of the documents. *)
LEMMA NoStates ==
  ASSUME DocumentsAssumption, DocsTypes
  PROVE  NoDoc \notin DocState /\ Closed \notin AtServer
<1>1. Texts \subseteq Nat
  BY DEF Texts, DocsTypes, TextTypes
<1>2. Symbols \subseteq [version : Nat, text : Nat]
  BY <1>1 DEF Symbols
<1>3. DocState \subseteq [version : Nat, text : Nat, open : BOOLEAN, persistent : BOOLEAN,
                          symbols : [version : Nat, text : Nat]]
  BY <1>1, <1>2 DEF DocState
<1>4. AtServer \subseteq [version : Nat, text : Nat]
  BY <1>1 DEF AtServer
<1> QED
  BY <1>3, <1>4 DEF DocumentsAssumption

\* Only the document of u changes.
OnlyDoc(u) ==
  /\ doc' \in [Uris -> {NoDoc} \cup DocState] /\ written' = written
  /\ \A v \in Uris \ {u} : doc'[v] = doc[v]

LEMMA DocTouched ==
  ASSUME DocsTypes, NEW u \in Uris, OnlyDoc(u), doc'[u] # NoDoc, older' = Touched(u)
  PROVE  DocTypes' /\ Docs' = Docs \cup {u}
<1>1. Docs' = Docs \cup {u} /\ u \in Uris
  BY DEF Docs, OnlyDoc
<1>2. DocState' = DocState
  BY DEF OnlyDoc, DocState, Symbols, Texts
<1>3. older' \subseteq Docs' \X Docs'
  BY <1>1 DEF Touched, Unused, DocsTypes, DocTypes
<1>4. ASSUME NEW v \in Docs', NEW w \in Docs'
      PROVE  (<<v, w>> \in older') <=> v # w /\ <<w, v>> \notin older'
  <2>1. <<v, w>> \in older' <=> \/ <<v, w>> \in older /\ v # u /\ w # u
                                \/ v \in Docs /\ v # u /\ w = u
    BY DEF Touched, Unused
  <2>2. <<w, v>> \in older' <=> \/ <<w, v>> \in older /\ v # u /\ w # u
                                \/ w \in Docs /\ w # u /\ v = u
    BY DEF Touched, Unused
  <2>3. CASE v # u /\ w # u
    BY <1>1, <2>1, <2>2, <2>3 DEF DocsTypes, DocTypes
  <2>4. CASE v = u \/ w = u
    BY <1>1, <2>1, <2>2, <2>4
  <2> QED
    BY <2>3, <2>4
<1> QED
  BY <1>1, <1>2, <1>3, <1>4 DEF DocTypes, OnlyDoc

LEMMA DocForgotten ==
  ASSUME DocsTypes, NEW u \in Uris, OnlyDoc(u), doc'[u] = NoDoc, older' = Unused(u)
  PROVE  DocTypes' /\ Docs' \subseteq Docs
<1>1. Docs' = Docs \ {u}
  BY DEF Docs, OnlyDoc
<1>2. DocState' = DocState
  BY DEF OnlyDoc, DocState, Symbols, Texts
<1>3. older' \subseteq Docs' \X Docs'
  BY <1>1 DEF Unused, DocsTypes, DocTypes
<1>4. ASSUME NEW v \in Docs', NEW w \in Docs'
      PROVE  (<<v, w>> \in older') <=> v # w /\ <<w, v>> \notin older'
  BY <1>1 DEF Unused, DocsTypes, DocTypes
<1> QED
  BY <1>1, <1>2, <1>3, <1>4 DEF DocTypes, OnlyDoc

\* The running task ends.
LEMMA TaskPops ==
  ASSUME DocsTypes, QueuesExact, NEW u \in Uris, docQueue[u] # <<>>, docQueue' = Popped(u),
         step' = Restarted(u) \/ (step' = step /\ step[u] = "start"),
         pendingVersion' = pendingVersion
  PROVE  /\ TaskTypes' /\ TaskEnds(u)
         /\ \A v \in Uris \ {u} : docQueue'[v] = docQueue[v] /\ step'[v] = step[v]
<1>1. Tail(docQueue[u]) \in Seq(TaskState)
  BY RunningOK
<1> QED
  BY <1>1 DEF DocsTypes, TaskTypes, TaskEnds, Popped, Restarted

\* What a synchronized document goes on with.
LEMMA SyncedGoesOn ==
  ASSUME DocumentsAssumption, DocsTypes, QueuesExact, NEW u \in Uris, docQueue[u] # <<>>,
         Running(u).kind \in {"sync", "symbols"}, step[u] # "asking",
         AfterSync(u), docQueue' = docQueue, written' = written
  PROVE  /\ CallTypes' /\ SameCalls
         /\ step' \in [Uris -> {"start", "sending", "barrier", "asking", "closing"}]
         /\ \A v \in Uris \ {u} : step'[v] = step[v]
         /\ step'[u] = IF Running(u).kind = "sync" THEN "barrier" ELSE "asking"
         /\ Running(u)' = Running(u) /\ Text(u)' = Text(u)
         /\ wire' = wire \/ Asks(u)
         /\ wire' \in Seq(WireMessage)
<1>1. Running(u)' = Running(u) /\ TaskGoesOn(u)
  BY DEF Running, TaskGoesOn
<1>2. Running(u).by \in Calls /\ Running(u) \in TaskState
  BY SyncingOK, RunningOK
<1>3. step \in [Uris -> {"start", "sending", "barrier", "asking", "closing"}] /\ wire \in Seq(WireMessage)
  BY DEF DocsTypes, TaskTypes, NetTypes
<1>4. CASE Running(u).kind = "sync"
  <2> DEFINE w == Running(u).by
  <2>1. /\ call' = [call EXCEPT ![w].left = @ \ {u}] /\ wire' = wire
        /\ step' = [step EXCEPT ![u] = "barrier"]
    BY <1>4 DEF AfterSync
  <2>2. w \in Writes /\ call[w] \in WriteCall(w) /\ DOMAIN call = Calls
    BY <1>4, SyncingOK DEF DocsTypes, CallTypes
  <2>3. /\ call'[w] = [call[w] EXCEPT !.left = @ \ {u}] /\ DOMAIN call' = Calls
        /\ \A c \in Calls \ {w} : call'[c] = call[c]
    <3>1. w \in DOMAIN call
      BY <1>2, <2>2
    <3> HIDE DEF w
    <3> QED
      BY <2>1, <2>2, <3>1
  <2>4. /\ call'[w] \in WriteCall(w) /\ call'[w].at = call[w].at /\ call'[w].text = call[w].text
    BY <2>2, <2>3 DEF WriteCall
  <2>5. SameCalls
    BY <2>3, <2>4 DEF SameCalls
  <2>6. CallTypes'
    <3>1. Texts' = Texts /\ ReadCall' = ReadCall /\ \A x \in Writes : WriteCall(x)' = WriteCall(x)
      BY DEF Texts, ReadCall, WriteCall
    <3> QED
      BY <2>2, <2>3, <2>4, <3>1 DEF DocsTypes, CallTypes, Calls, DocumentsAssumption
  <2> QED
    BY <1>1, <1>2, <1>3, <1>4, <2>1, <2>5, <2>6 DEF Text, SameCalls
<1>5. CASE Running(u).kind = "symbols"
  <2>1. /\ step' = [step EXCEPT ![u] = "asking"] /\ call' = call
        /\ wire' = Append(wire, Ask(u))
    BY <1>5 DEF AfterSync, Ask
  <2>2. Asks(u)
    BY <1>1, <1>3, <1>5, <2>1 DEF Asks
  <2>3. Ask(u) \in WireMessage
    BY <1>2 DEF Ask, WireMessage
  <2>4. wire' \in Seq(WireMessage)
    BY <1>3, <2>1, <2>3, AddedTo
  <2>5. CallTypes' /\ SameCalls
    BY <2>1, SameTypes DEF SameCalls, DocsTypes, CallTypes
  <2> QED
    BY <1>1, <1>3, <1>5, <2>1, <2>2, <2>4, <2>5 DEF Text
<1> QED
  BY <1>4, <1>5

(* A document of u is at the text of its task: it has been, or has become so. *)
LEMMA SyncedKeeps ==
  ASSUME DocumentsAssumption, DocsInv, NEW u \in Uris, docQueue[u] # <<>>, NoRoomAsked(u),
         Running(u).kind \in {"sync", "symbols"}, step[u] # "asking", AfterSync(u),
         NEW d \in DocState, doc' = [doc EXCEPT ![u] = d], older' = Touched(u),
         d.text = Text(u), d.open <=> caps.sync,
         d.symbols.version \in {0, d.version},
         caps.sync /\ d.symbols.version # 0 => d.symbols.text = d.text,
         Believed(u) = IF d.open THEN [version |-> d.version, text |-> d.text] ELSE Closed,
         pendingVersion' = [pendingVersion EXCEPT ![u] = 0],
         UNCHANGED <<textVars, docQueue, server, due, posts, ledVars, told>>
  PROVE  DocsInv'
<1> USE DEF DocsInv
<1>1. /\ UNCHANGED <<caps, fileText, written, docQueue, server, due, posts, ledger, revision, told>>
      /\ d # NoDoc
  BY NoStates DEF textVars, ledVars
<1>2. /\ CallTypes' /\ SameCalls
      /\ step' \in [Uris -> {"start", "sending", "barrier", "asking", "closing"}]
      /\ \A v \in Uris \ {u} : step'[v] = step[v]
      /\ step'[u] = IF Running(u).kind = "sync" THEN "barrier" ELSE "asking"
      /\ Running(u)' = Running(u) /\ Text(u)' = Text(u)
      /\ wire' = wire \/ Asks(u)
      /\ wire' \in Seq(WireMessage)
  BY <1>1, SyncedGoesOn
<1>3. /\ doc'[u] = d /\ OnlyDoc(u)
      /\ pendingVersion' \in [Uris -> Nat] /\ pendingVersion'[u] = 0
      /\ \A v \in Uris \ {u} : pendingVersion'[v] = pendingVersion[v]
  BY <1>1 DEF OnlyDoc, DocsTypes, DocTypes, TaskTypes
<1>4. DocTypes'
  BY <1>1, <1>3, DocTouched
<1>5. DocsTypes'
  <2>1. WireMessage' = WireMessage /\ PostMessage' = PostMessage /\ AtServer' = AtServer
    BY <1>1 DEF WireMessage, PostMessage, AtServer, Texts
  <2>2. TaskTypes' /\ NetTypes'
    BY <1>1, <1>2, <1>3, <2>1 DEF DocsTypes, TaskTypes, NetTypes
  <2> QED
    BY <1>1, <1>2, <1>4, <2>2, SameTypes DEF DocsTypes
<1>6. OwnStep(u)
  BY <1>1, <1>2, <1>3, <1>5 DEF OwnStep, Elsewhere, TaskGoesOn, OnlyDoc, DocsTypes, TaskTypes
<1>7. InStep(u)'
  BY <1>1, <1>2, <1>3 DEF InStep
<1>8. StepOK(u)'
  BY <1>1, <1>2, <1>3, <1>7 DEF StepOK, DocOK
<1>9. Believed(u)' = Believed(u)
  BY <1>1, <1>2, <1>3 DEF Believed
<1>10. WireOK(u)'
  <2>1. Ask(u) \in WireMessage /\ Ask(u).kind = "ask"
    BY RunningOK DEF Ask, WireMessage
  <2> QED
    BY <1>1, <1>2, <1>9, <2>1, WireStays DEF WiresExact, Asks
<1> QED
  BY <1>1, <1>2, <1>5, <1>6, <1>8, <1>10, OwnStepKeeps

(* Before a running task is synchronized. *)
LEMMA StartOK ==
  ASSUME DocumentsAssumption, DocsInv, NEW u \in Uris, Synchronizing(u)
  PROVE  /\ docQueue[u] # <<>> /\ Running(u).kind \in {"sync", "symbols"} /\ step[u] = "start"
         /\ NoRoomAsked(u) /\ pendingVersion[u] = 0 /\ Text(u) \in Texts
         /\ Believed(u) = IF doc[u] # NoDoc /\ doc[u].open
                            THEN [version |-> doc[u].version, text |-> doc[u].text] ELSE Closed
<1> USE DEF DocsInv
<1>1. docQueue[u] # <<>> /\ Running(u).kind \in {"sync", "symbols"} /\ step[u] = "start"
  BY DEF Synchronizing
<1>2. NoRoomAsked(u)
  BY RoomUnasked DEF Synchronizing
<1>3. pendingVersion[u] = 0
  BY <1>1 DEF StepsExact, StepOK, DocOK
<1> QED
  BY <1>1, <1>2, <1>3, SyncingOK DEF Believed

LEMMA AlreadyInStepKeeps ==
  ASSUME DocumentsAssumption, DocsInv, NEW u \in Uris, AlreadyInStep(u)
  PROVE  DocsInv'
<1> USE DEF DocsInv
<1>1. /\ Synchronizing(u) /\ InStep(u) /\ older' = Touched(u) /\ AfterSync(u)
      /\ UNCHANGED <<textVars, pendingVersion, docQueue, server, due, posts, ledVars, told>>
  BY DEF AlreadyInStep
<1>2. doc[u] \in DocState /\ doc \in [Uris -> {NoDoc} \cup DocState]
  BY <1>1 DEF InStep, DocsTypes, DocTypes
<1>3. PICK d : d = [doc[u] EXCEPT !.persistent = @ \/ Running(u).kind = "sync"]
  OBVIOUS
<1>4. /\ doc' = [doc EXCEPT ![u] = d] /\ d \in DocState
      /\ d.version = doc[u].version /\ d.text = doc[u].text /\ d.open = doc[u].open
      /\ d.symbols = doc[u].symbols
  BY <1>2, <1>3 DEF AlreadyInStep, DocState
<1>5. /\ docQueue[u] # <<>> /\ Running(u).kind \in {"sync", "symbols"} /\ step[u] = "start"
      /\ NoRoomAsked(u) /\ pendingVersion[u] = 0
      /\ Believed(u) = IF doc[u] # NoDoc /\ doc[u].open
                         THEN [version |-> doc[u].version, text |-> doc[u].text] ELSE Closed
  BY <1>1, StartOK
<1>6. /\ d.text = Text(u) /\ (d.open <=> caps.sync)
      /\ d.symbols.version \in {0, d.version}
      /\ caps.sync /\ d.symbols.version # 0 => d.symbols.text = d.text
  BY <1>1, <1>4 DEF InStep, StepsExact, StepOK, DocOK
<1>7. pendingVersion' = [pendingVersion EXCEPT ![u] = 0]
  BY <1>1, <1>5 DEF DocsTypes, TaskTypes
<1>8. Believed(u) = IF d.open THEN [version |-> d.version, text |-> d.text] ELSE Closed
  BY <1>1, <1>4, <1>5 DEF InStep
<1> QED
  BY <1>1, <1>4, <1>5, <1>6, <1>7, <1>8, SyncedKeeps

\* A document that is committed with a new text: its symbols are those of this text.
SymbolsFor(u, n, t) ==
  IF doc[u] # NoDoc /\ doc[u].text = t /\ doc[u].symbols.version # 0
    THEN [doc[u].symbols EXCEPT !.version = n]
    ELSE [version |-> 0, text |-> 0]
LEMMA CommittedOK ==
  ASSUME DocumentsAssumption, DocsInv, NEW u \in Uris, NEW n \in Nat \ {0}, NEW t \in Texts
  PROVE  /\ SymbolsFor(u, n, t) \in Symbols /\ SymbolsFor(u, n, t).version \in {0, n}
         /\ caps.sync /\ SymbolsFor(u, n, t).version # 0 => SymbolsFor(u, n, t).text = t
<1> USE DEF DocsInv
<1>0. SUFFICES ASSUME NEW s, s = SymbolsFor(u, n, t)
      PROVE  /\ s \in Symbols /\ s.version \in {0, n}
             /\ caps.sync /\ s.version # 0 => s.text = t
  OBVIOUS
<1>1. doc[u] = NoDoc \/ doc[u] \in DocState
  BY DEF DocsTypes, DocTypes
<1>2. CASE doc[u] # NoDoc /\ doc[u].text = t /\ doc[u].symbols.version # 0
  <2>1. doc[u].symbols \in Symbols /\ s = [doc[u].symbols EXCEPT !.version = n]
    BY <1>0, <1>1, <1>2 DEF DocState, SymbolsFor
  <2>2. s \in Symbols /\ s.version = n /\ s.text = doc[u].symbols.text
    BY <2>1 DEF Symbols
  <2>3. caps.sync => doc[u].symbols.text = t
    BY <1>2 DEF StepsExact, StepOK, DocOK
  <2> QED
    BY <2>2, <2>3
<1>3. CASE ~(doc[u] # NoDoc /\ doc[u].text = t /\ doc[u].symbols.version # 0)
  <2>1. s = [version |-> 0, text |-> 0] /\ 0 \in Texts
    BY <1>0, <1>3 DEF SymbolsFor, Texts, DocsTypes, TextTypes
  <2>2. s \in Symbols /\ s.version = 0
    BY <2>1 DEF Symbols
  <2> QED
    BY <2>2
<1> QED
  BY <1>2, <1>3

LEMMA NextVersions ==
  ASSUME DocumentsAssumption, DocsTypes, NEW u \in Uris
  PROVE  NextVersion(u) \in Nat \ {0} /\ (doc[u] # NoDoc => doc[u].version < NextVersion(u))
BY DEF NextVersion, DocsTypes, DocTypes, DocState

LEMMA CommitUnsentKeeps ==
  ASSUME DocumentsAssumption, DocsInv, NEW u \in Uris, CommitUnsent(u)
  PROVE  DocsInv'
<1> USE DEF DocsInv
<1>1. /\ Synchronizing(u) /\ ~caps.sync /\ older' = Touched(u) /\ AfterSync(u)
      /\ UNCHANGED <<textVars, pendingVersion, docQueue, server, due, posts, ledVars, told>>
  BY DEF CommitUnsent
<1>2. /\ docQueue[u] # <<>> /\ Running(u).kind \in {"sync", "symbols"} /\ step[u] = "start"
      /\ NoRoomAsked(u) /\ pendingVersion[u] = 0 /\ Text(u) \in Texts
      /\ Believed(u) = IF doc[u] # NoDoc /\ doc[u].open
                         THEN [version |-> doc[u].version, text |-> doc[u].text] ELSE Closed
  BY <1>1, StartOK
<1>3. PICK d : d = Committed(u, Text(u), NextVersion(u), FALSE, Running(u).kind = "sync")
  OBVIOUS
<1>4. doc' = [doc EXCEPT ![u] = d]
  BY <1>3 DEF CommitUnsent
<1>5. /\ d \in DocState /\ d.version = NextVersion(u) /\ d.text = Text(u) /\ d.open = FALSE
      /\ d.symbols.version \in {0, d.version}
      /\ caps.sync /\ d.symbols.version # 0 => d.symbols.text = d.text
  <2>1. /\ d = [version |-> NextVersion(u), text |-> Text(u), open |-> FALSE,
                persistent |-> d.persistent, symbols |-> d.symbols]
        /\ d.symbols = IF doc[u] # NoDoc /\ doc[u].text = Text(u) /\ doc[u].symbols.version # 0
                         THEN [doc[u].symbols EXCEPT !.version = NextVersion(u)]
                         ELSE [version |-> 0, text |-> 0]
    BY <1>3 DEF Committed
  <2>2. NextVersion(u) \in Nat \ {0}
    BY NextVersions
  <2>3. d.persistent \in BOOLEAN
    BY <1>3 DEF Committed, DocsTypes, DocTypes, DocState
  <2>4. d.version = NextVersion(u) /\ d.text = Text(u) /\ d.open = FALSE
    BY <2>1
  <2>5. /\ d = [version |-> d.version, text |-> d.text, open |-> d.open,
                persistent |-> d.persistent, symbols |-> d.symbols]
        /\ d.open \in BOOLEAN
    BY <2>1, <2>4
  <2>6. d.symbols = IF doc[u] # NoDoc /\ doc[u].text = d.text /\ doc[u].symbols.version # 0
                      THEN [doc[u].symbols EXCEPT !.version = d.version]
                      ELSE [version |-> 0, text |-> 0]
    BY <2>1, <2>4
  <2>7. d.version \in Nat \ {0} /\ d.text \in Texts
    BY <1>2, <1>3, <2>2, <2>4
  <2>8. /\ d.symbols \in Symbols /\ d.symbols.version \in {0, d.version}
        /\ caps.sync /\ d.symbols.version # 0 => d.symbols.text = d.text
    <3> HIDE DEF DocsInv
    <3>1. d.symbols = SymbolsFor(u, d.version, d.text)
      BY <2>6 DEF SymbolsFor
    <3> QED
      BY <2>7, <3>1, CommittedOK
  <2>9. d \in DocState
    BY <2>3, <2>5, <2>7, <2>8 DEF DocState
  <2> QED
    BY <2>4, <2>8, <2>9
<1>6. Believed(u) = Closed
  BY <1>1, <1>2 DEF StepsExact, StepOK, DocOK
<1>7. pendingVersion' = [pendingVersion EXCEPT ![u] = 0]
  BY <1>1, <1>2 DEF DocsTypes, TaskTypes
<1>8. d.open <=> caps.sync
  BY <1>1, <1>5 DEF DocsTypes, TextTypes
<1>9. Believed(u) = IF d.open THEN [version |-> d.version, text |-> d.text] ELSE Closed
  BY <1>5, <1>6
<1> QED
  BY <1>1, <1>2, <1>4, <1>5, <1>7, <1>8, <1>9, SyncedKeeps

LEMMA TextSentKeeps ==
  ASSUME DocumentsAssumption, DocsInv, NEW u \in Uris, TextSent(u)
  PROVE  DocsInv'
<1> USE DEF DocsInv
<1>1. /\ step[u] = "sending" /\ older' = Touched(u) /\ AfterSync(u)
      /\ pendingVersion' = [pendingVersion EXCEPT ![u] = 0]
      /\ UNCHANGED <<textVars, docQueue, server, due, posts, ledVars, told>>
  BY DEF TextSent
<1>2. /\ docQueue[u] # <<>> /\ Running(u).kind \in {"sync", "symbols"} /\ caps.sync
      /\ pendingVersion[u] = NextVersion(u)
  BY <1>1 DEF StepsExact, StepOK, DocOK
<1>3. /\ NoRoomAsked(u) /\ Text(u) \in Texts
      /\ Believed(u) = [version |-> pendingVersion[u], text |-> Text(u)]
  BY <1>1, <1>2, RoomUnasked, SyncingOK DEF Believed
<1>4. PICK d : d = Committed(u, Text(u), pendingVersion[u], TRUE, Running(u).kind = "sync")
  OBVIOUS
<1>5. doc' = [doc EXCEPT ![u] = d]
  BY <1>4 DEF TextSent
<1>6. /\ d \in DocState /\ d.version = pendingVersion[u] /\ d.text = Text(u) /\ d.open = TRUE
      /\ d.symbols.version \in {0, d.version}
      /\ caps.sync /\ d.symbols.version # 0 => d.symbols.text = d.text
  <2>1. /\ d = [version |-> pendingVersion[u], text |-> Text(u), open |-> TRUE,
                persistent |-> d.persistent, symbols |-> d.symbols]
        /\ d.symbols = IF doc[u] # NoDoc /\ doc[u].text = Text(u) /\ doc[u].symbols.version # 0
                         THEN [doc[u].symbols EXCEPT !.version = pendingVersion[u]]
                         ELSE [version |-> 0, text |-> 0]
    BY <1>4 DEF Committed
  <2>2. pendingVersion[u] \in Nat \ {0}
    BY <1>2, NextVersions
  <2>3. d.persistent \in BOOLEAN
    BY <1>4 DEF Committed, DocsTypes, DocTypes, DocState
  <2>4. d.version = pendingVersion[u] /\ d.text = Text(u) /\ d.open = TRUE
    BY <2>1
  <2>5. /\ d = [version |-> d.version, text |-> d.text, open |-> d.open,
                persistent |-> d.persistent, symbols |-> d.symbols]
        /\ d.open \in BOOLEAN
    BY <2>1, <2>4
  <2>6. d.symbols = IF doc[u] # NoDoc /\ doc[u].text = d.text /\ doc[u].symbols.version # 0
                      THEN [doc[u].symbols EXCEPT !.version = d.version]
                      ELSE [version |-> 0, text |-> 0]
    BY <2>1, <2>4
  <2>7. d.version \in Nat \ {0} /\ d.text \in Texts
    BY <1>2, <1>3, <2>2, <2>4
  <2>8. /\ d.symbols \in Symbols /\ d.symbols.version \in {0, d.version}
        /\ caps.sync /\ d.symbols.version # 0 => d.symbols.text = d.text
    <3> HIDE DEF DocsInv
    <3>1. d.symbols = SymbolsFor(u, d.version, d.text)
      BY <2>6 DEF SymbolsFor
    <3> QED
      BY <2>7, <3>1, CommittedOK
  <2>9. d \in DocState
    BY <2>3, <2>5, <2>7, <2>8 DEF DocState
  <2> QED
    BY <2>4, <2>8, <2>9
<1>7. d.open <=> caps.sync
  BY <1>2, <1>6
<1>8. Believed(u) = IF d.open THEN [version |-> d.version, text |-> d.text] ELSE Closed
  BY <1>3, <1>6
<1> QED
  BY <1>1, <1>2, <1>3, <1>5, <1>6, <1>7, <1>8, SyncedKeeps

(* The running task of u ends, and what the client believes the server has stays. *)
LEMMA TaskEndKeeps ==
  ASSUME DocumentsAssumption, DocsInv, NEW u \in Uris, docQueue[u] # <<>>, NoRoomAsked(u),
         docQueue' = Popped(u), step' = Restarted(u) \/ (step' = step /\ step[u] = "start"),
         step[u] # "sending", DocTypes', \A v \in Uris \ {u} : doc'[v] = doc[v],
         Docs' \subseteq Docs \/ Running(u).kind \in {"sync", "symbols"},
         DocOK(u)', Believed(u)' = Believed(u), LedgerTypes', ToldTypes', posts' \in Seq(PostMessage),
         \A i \in 1..Len(posts') : \E j \in 1..Len(posts) : posts'[i] = posts[j],
         UNCHANGED <<textVars, pendingVersion, wire, server, due, call>>
  PROVE  DocsInv'
<1> USE DEF DocsInv
<1>1. UNCHANGED <<caps, fileText, written, pendingVersion, wire, server, due, call>>
  BY DEF textVars
<1>2. /\ TaskTypes' /\ TaskEnds(u)
      /\ \A v \in Uris \ {u} : docQueue'[v] = docQueue[v] /\ step'[v] = step[v]
  BY TaskPops
<1>3. DocsTypes'
  <2>1. WireMessage' = WireMessage /\ PostMessage' = PostMessage /\ AtServer' = AtServer
    BY <1>1 DEF WireMessage, PostMessage, AtServer, Texts
  <2>2. NetTypes'
    BY <1>1, <2>1 DEF DocsTypes, NetTypes
  <2> QED
    BY <1>1, <1>2, <2>2, SameTypes DEF DocsTypes
<1>4. OwnStep(u)
  <2>1. SameCalls
    BY <1>1 DEF SameCalls, DocsTypes, CallTypes
  <2> QED
    BY <1>1, <1>2, <2>1 DEF OwnStep, Elsewhere, TaskTypes
<1>5. StepOK(u)'
  BY <1>1, <1>2 DEF StepsExact, StepOK, TaskEnds
<1>6. WireOK(u)'
  BY <1>1, WireStays DEF WiresExact
<1> QED
  BY <1>1, <1>3, <1>4, <1>5, <1>6, OwnStepKeeps

LEMMA UseCacheKeeps ==
  ASSUME DocumentsAssumption, DocsInv, NEW u \in Uris, UseCache(u)
  PROVE  DocsInv'
<1> USE DEF DocsInv
<1>1. /\ Synchronizing(u) /\ doc[u] # NoDoc /\ older' = Touched(u)
      /\ docQueue' = Popped(u) /\ step' = Restarted(u)
      /\ UNCHANGED <<textVars, doc, pendingVersion, netVars, ledVars, call, told>>
  BY DEF UseCache, CachedSymbols
<1>2. /\ docQueue[u] # <<>> /\ Running(u).kind \in {"sync", "symbols"} /\ step[u] = "start"
      /\ NoRoomAsked(u)
  BY <1>1, StartOK
<1>3. DocTypes'
  <2>1. OnlyDoc(u)
    BY <1>1 DEF OnlyDoc, DocsTypes, DocTypes, textVars
  <2> QED
    BY <1>1, <2>1, DocTouched
<1>4. LedgerTypes' /\ ToldTypes' /\ posts' \in Seq(PostMessage) /\ posts' = posts
  BY <1>1, SameTypes DEF textVars, netVars, ledVars, DocsTypes, NetTypes
<1>5. step'[u] = "start"
  BY <1>1 DEF Restarted, DocsTypes, TaskTypes
<1>6. Believed(u)' = Believed(u) /\ DocOK(u)'
  BY <1>1, <1>2, <1>5 DEF Believed, DocOK, StepsExact, StepOK, textVars
<1> QED
  BY <1>1, <1>2, <1>3, <1>4, <1>6, TaskEndKeeps DEF netVars

LEMMA AskTimeoutKeeps ==
  ASSUME DocumentsAssumption, DocsInv, NEW u \in Uris, AskTimeout(u)
  PROVE  DocsInv'
<1> USE DEF DocsInv
<1>1. /\ step[u] = "asking" /\ docQueue' = Popped(u) /\ step' = Restarted(u)
      /\ UNCHANGED <<textVars, doc, older, pendingVersion, netVars, ledVars, call>>
  BY DEF AskTimeout
<1>2. docQueue[u] # <<>> /\ Running(u).kind \in {"sync", "symbols"} /\ NoRoomAsked(u)
  BY <1>1, RoomUnasked DEF StepsExact, StepOK
<1>3. DocTypes' /\ LedgerTypes' /\ posts' \in Seq(PostMessage) /\ posts' = posts
  BY <1>1, SameTypes DEF textVars, netVars, ledVars, DocsTypes, NetTypes
<1>4. ToldTypes'
  <2>1. 0 \in Texts
    BY DEF Texts, DocsTypes, TextTypes
  <2>2. CASE Running(u).kind = "sync"
    BY <1>1, <1>2, <2>1, <2>2, SyncingOK, ToldGoesOn DEF AskTimeout, textVars
  <2>3. CASE Running(u).kind # "sync"
    BY <1>1, <2>3, SameTypes DEF AskTimeout, textVars
  <2> QED
    BY <2>2, <2>3
<1>5. step'[u] = "start"
  BY <1>1 DEF Restarted, DocsTypes, TaskTypes
<1>6. Believed(u)' = Believed(u) /\ DocOK(u)'
  BY <1>1, <1>5 DEF Believed, DocOK, StepsExact, StepOK, textVars
<1> QED
  BY <1>1, <1>2, <1>3, <1>4, <1>6, TaskEndKeeps DEF netVars, Docs

LEMMA NothingToCloseKeeps ==
  ASSUME DocumentsAssumption, DocsInv, NEW u \in Uris, NothingToClose(u)
  PROVE  DocsInv'
<1> USE DEF DocsInv
<1>1. /\ Closing(u) /\ step[u] = "start" /\ docQueue' = Popped(u) /\ docQueue[u] # <<>>
      /\ UNCHANGED <<textVars, doc, older, pendingVersion, step, netVars, ledVars, call, told>>
  BY DEF NothingToClose, Closing
<1>2. NoRoomAsked(u)
  BY <1>1, RoomUnasked DEF Closing
<1>3. DocTypes' /\ LedgerTypes' /\ ToldTypes' /\ posts' \in Seq(PostMessage) /\ posts' = posts
  BY <1>1, SameTypes DEF textVars, netVars, ledVars, DocsTypes, NetTypes
<1>4. Believed(u)' = Believed(u) /\ DocOK(u)'
  BY <1>1 DEF Believed, DocOK, StepsExact, StepOK, textVars
<1> QED
  BY <1>1, <1>2, <1>3, <1>4, TaskEndKeeps DEF netVars, Docs

LEMMA CloseSentKeeps ==
  ASSUME DocumentsAssumption, DocsInv, NEW u \in Uris, CloseSent(u)
  PROVE  DocsInv'
<1> USE DEF DocsInv
<1>1. /\ Closing(u) /\ docQueue[u] # <<>> /\ Forgotten(u)
      /\ docQueue' = Popped(u) /\ step' = Restarted(u)
      /\ UNCHANGED <<textVars, pendingVersion, netVars, ledVars, call, told>>
  BY DEF CloseSent, Closing
<1>2. /\ doc[u] # NoDoc /\ doc[u] \in DocState /\ doc \in [Uris -> {NoDoc} \cup DocState]
      /\ step[u] = "closing" \/ (step[u] = "start" /\ ~doc[u].open)
  BY DEF CloseSent, ToClose, StepsExact, StepOK, DocsTypes, DocTypes
<1>3. NoRoomAsked(u)
  BY <1>1, RoomUnasked DEF Closing
<1>4. LedgerTypes' /\ ToldTypes' /\ posts' \in Seq(PostMessage) /\ posts' = posts
  BY <1>1, SameTypes DEF textVars, netVars, ledVars, DocsTypes, NetTypes
<1>5. step'[u] = "start"
  BY <1>1 DEF Restarted, DocsTypes, TaskTypes
<1>6. Believed(u) = Closed
  BY <1>2 DEF Believed
<1>7. CASE Running(u).kind = "transient"
  <2>1. PICK d : d = [doc[u] EXCEPT !.open = FALSE, !.persistent = FALSE]
    OBVIOUS
  <2>2. /\ d \in DocState /\ d.version = doc[u].version /\ d.text = doc[u].text
        /\ d.open = FALSE /\ d.persistent = FALSE /\ d.symbols = doc[u].symbols
    BY <1>2, <2>1 DEF DocState
  <2>3. doc' = [doc EXCEPT ![u] = d] /\ older' = Touched(u)
    BY <1>1, <1>7, <2>1 DEF Forgotten
  <2>4. doc'[u] = d /\ d # NoDoc /\ OnlyDoc(u)
    BY <1>1, <1>2, <2>2, <2>3, NoStates DEF OnlyDoc, textVars
  <2>5. DocTypes' /\ Docs' \subseteq Docs
    BY <1>2, <2>3, <2>4, DocTouched DEF Docs
  <2>6. Believed(u)' = Believed(u)
    BY <1>5, <1>6, <2>2, <2>4 DEF Believed
  <2>7. DocOK(u)'
    BY <1>1, <1>2, <2>2, <2>4 DEF DocOK, StepsExact, StepOK, textVars
  <2> QED
    BY <1>1, <1>2, <1>3, <1>4, <2>4, <2>5, <2>6, <2>7, TaskEndKeeps DEF netVars, OnlyDoc
<1>8. CASE Running(u).kind # "transient"
  <2>1. doc' = [doc EXCEPT ![u] = NoDoc] /\ older' = Unused(u)
    BY <1>1, <1>8 DEF Forgotten
  <2>2. doc'[u] = NoDoc /\ OnlyDoc(u)
    BY <1>1, <1>2, <2>1 DEF OnlyDoc, textVars
  <2>3. DocTypes' /\ Docs' \subseteq Docs
    BY <2>1, <2>2, DocForgotten
  <2>4. Believed(u)' = Believed(u) /\ DocOK(u)'
    BY <1>5, <1>6, <2>2 DEF Believed, DocOK
  <2> QED
    BY <1>1, <1>2, <1>3, <1>4, <2>2, <2>3, <2>4, TaskEndKeeps DEF netVars, OnlyDoc
<1> QED
  BY <1>7, <1>8

\* The running task of u sends a message, and the document stays.
LEMMA SendKeeps ==
  ASSUME DocumentsAssumption, DocsInv, NEW u \in Uris, docQueue[u] # <<>>, NoRoomAsked(u),
         step[u] # "asking", NEW s \in {"sending", "asking", "closing"}, step' = [step EXCEPT ![u] = s],
         NEW m \in WireMessage, wire' = Append(wire, m), Asks(u) \/ Sends(u, m),
         pendingVersion' \in [Uris -> Nat],
         \A v \in Uris \ {u} : pendingVersion'[v] = pendingVersion[v],
         StepOK(u)', WireOK(u)',
         UNCHANGED <<textVars, doc, older, docQueue, server, due, posts, ledVars, call, told>>
  PROVE  DocsInv'
<1> USE DEF DocsInv
<1>1. UNCHANGED <<caps, fileText, written, ledger, revision>>
  BY DEF textVars, ledVars
<1>2. wire' \in Seq(WireMessage)
  BY AddedTo DEF DocsTypes, NetTypes
<1>3. DocsTypes'
  <2>1. WireMessage' = WireMessage /\ PostMessage' = PostMessage /\ AtServer' = AtServer
    BY <1>1 DEF WireMessage, PostMessage, AtServer, Texts
  <2>2. NetTypes' /\ TaskTypes'
    BY <1>2, <2>1 DEF DocsTypes, NetTypes, TaskTypes
  <2> QED
    BY <1>1, <2>2, SameTypes DEF DocsTypes
<1>4. OwnStep(u)
  <2>1. SameCalls
    BY <1>1 DEF SameCalls, DocsTypes, CallTypes
  <2> QED
    BY <1>1, <2>1 DEF OwnStep, Elsewhere, TaskGoesOn, DocsTypes, TaskTypes
<1>5. Docs' \subseteq Docs
  BY DEF Docs
<1> QED
  BY <1>3, <1>4, <1>5, OwnStepKeeps

LEMMA SendTextKeeps ==
  ASSUME DocumentsAssumption, DocsInv, NEW u \in Uris, SendText(u)
  PROVE  DocsInv'
<1> USE DEF DocsInv
<1>1. /\ Synchronizing(u) /\ caps.sync
      /\ pendingVersion' = [pendingVersion EXCEPT ![u] = NextVersion(u)]
      /\ step' = [step EXCEPT ![u] = "sending"]
      /\ UNCHANGED <<textVars, doc, older, docQueue, server, due, posts, ledVars, call, told>>
  BY DEF SendText
<1>2. /\ docQueue[u] # <<>> /\ Running(u).kind \in {"sync", "symbols"} /\ step[u] = "start"
      /\ NoRoomAsked(u) /\ pendingVersion[u] = 0 /\ Text(u) \in Texts
      /\ Believed(u) = IF doc[u] # NoDoc /\ doc[u].open
                         THEN [version |-> doc[u].version, text |-> doc[u].text] ELSE Closed
  BY <1>1, StartOK
<1>3. NextVersion(u) \in Nat \ {0} /\ (doc[u] # NoDoc => doc[u].version < NextVersion(u))
  BY NextVersions
<1>4. PICK m : m = [kind |-> IF doc[u] = NoDoc \/ ~doc[u].open THEN "open" ELSE "change",
                    uri |-> u, version |-> NextVersion(u), text |-> Text(u)]
  OBVIOUS
<1>5. /\ m \in WireMessage /\ m.uri = u /\ m.kind \in {"open", "change"}
      /\ m.kind = "change" <=> (doc[u] # NoDoc /\ doc[u].open)
      /\ m.version = NextVersion(u) /\ m.text = Text(u)
  BY <1>2, <1>3, <1>4 DEF WireMessage
<1>6. wire' = Append(wire, m)
  BY <1>4 DEF SendText
<1>7. /\ step'[u] = "sending" /\ pendingVersion' \in [Uris -> Nat]
      /\ pendingVersion'[u] = NextVersion(u)
      /\ \A v \in Uris \ {u} : pendingVersion'[v] = pendingVersion[v]
  BY <1>1, <1>3 DEF DocsTypes, TaskTypes
<1>8. Sends(u, m)
  BY <1>1, <1>2, <1>5, <1>6, <1>7 DEF Sends, TaskGoesOn
<1>9. Running(u)' = Running(u) /\ Text(u)' = Text(u) /\ caps' = caps /\ NextVersion(u)' = NextVersion(u)
  BY <1>1 DEF Running, Text, NextVersion, textVars
<1>10. StepOK(u)'
  BY <1>1, <1>2, <1>7, <1>9 DEF StepsExact, StepOK, DocOK
<1>11. WireOK(u)'
  <2>1. doc[u] # NoDoc => doc[u] \in DocState
    BY DEF DocsTypes, DocTypes
  <2>2. doc[u] # NoDoc => [version |-> doc[u].version, text |-> doc[u].text] \in AtServer
    BY <2>1 DEF DocState, AtServer
  <2>3. Accepts(Believed(u), m)
    BY <1>2, <1>3, <1>5, <2>2, NoStates DEF Accepts
  <2>4. Believed(u)' = Leaves(m)
    BY <1>5, <1>7, <1>9 DEF Believed, Leaves
  <2> QED
    BY <1>1, <1>5, <1>6, <2>3, <2>4, WireGrows DEF WiresExact
<1> QED
  BY <1>1, <1>2, <1>5, <1>6, <1>7, <1>8, <1>10, <1>11, SendKeeps

LEMMA SendCloseKeeps ==
  ASSUME DocumentsAssumption, DocsInv, NEW u \in Uris, SendClose(u)
  PROVE  DocsInv'
<1> USE DEF DocsInv
<1>1. /\ Closing(u) /\ docQueue[u] # <<>> /\ step[u] = "start" /\ doc[u] # NoDoc /\ doc[u].open
      /\ step' = [step EXCEPT ![u] = "closing"]
      /\ UNCHANGED <<textVars, doc, older, pendingVersion, docQueue, server, due, posts, ledVars,
                     call, told>>
  BY DEF SendClose, Closing, ToClose
<1>2. NoRoomAsked(u)
  BY <1>1, RoomUnasked DEF Closing
<1>3. PICK m : m = [kind |-> "close", uri |-> u]
  OBVIOUS
<1>4. m \in WireMessage /\ m.uri = u /\ m.kind = "close" /\ wire' = Append(wire, m)
  BY <1>3 DEF WireMessage, SendClose
<1>5. step'[u] = "closing" /\ pendingVersion' \in [Uris -> Nat]
  BY <1>1 DEF DocsTypes, TaskTypes
<1>6. Sends(u, m)
  BY <1>1, <1>4, <1>5 DEF Sends, TaskGoesOn
<1>7. caps' = caps /\ Closing(u)' = Closing(u)
  BY <1>1 DEF Closing, Running, textVars
<1>8. StepOK(u)'
  BY <1>1, <1>5, <1>7 DEF StepsExact, StepOK, DocOK
<1>9. WireOK(u)'
  <2>1. doc[u] \in DocState
    BY <1>1 DEF DocsTypes, DocTypes
  <2>2. Believed(u) \in AtServer
    BY <1>1, <2>1 DEF DocState, AtServer, Believed
  <2>3. Accepts(Believed(u), m)
    BY <1>4, <2>2, NoStates DEF Accepts
  <2>4. Believed(u)' = Leaves(m)
    BY <1>4, <1>5 DEF Believed, Leaves
  <2> QED
    BY <1>1, <1>4, <2>3, <2>4, WireGrows DEF WiresExact
<1> QED
  BY <1>1, <1>2, <1>4, <1>5, <1>6, <1>8, <1>9, SendKeeps

LEMMA PassBarrierKeeps ==
  ASSUME DocumentsAssumption, DocsInv, NEW u \in Uris, PassBarrier(u)
  PROVE  DocsInv'
<1> USE DEF DocsInv
<1>1. /\ step[u] = "barrier"
      /\ UNCHANGED <<textVars, doc, older, pendingVersion, server, due, posts, ledVars, call>>
  BY DEF PassBarrier
<1>2. docQueue[u] # <<>> /\ Running(u).kind = "sync" /\ InStep(u) /\ NoRoomAsked(u)
  BY <1>1, RoomUnasked DEF StepsExact, StepOK
<1>3. CASE caps.pull
  <2>1. /\ step' = [step EXCEPT ![u] = "asking"] /\ wire' = Append(wire, Ask(u))
        /\ UNCHANGED <<docQueue, told>>
    BY <1>3 DEF PassBarrier, Ask
  <2>2. step'[u] = "asking" /\ pendingVersion' \in [Uris -> Nat]
    BY <1>1, <2>1 DEF DocsTypes, TaskTypes
  <2>3. Ask(u) \in WireMessage /\ Ask(u).kind = "ask"
    BY <1>2, RunningOK DEF Ask, WireMessage
  <2>4. Asks(u)
    BY <1>1, <1>2, <2>1, <2>2 DEF Asks, TaskGoesOn
  <2>5. Running(u)' = Running(u) /\ InStep(u)' /\ caps' = caps
    BY <1>1, <1>2, <2>1 DEF Running, InStep, Text, textVars
  <2>6. StepOK(u)'
    BY <1>1, <1>2, <2>1, <2>2, <2>5 DEF StepsExact, StepOK, DocOK
  <2>7. Believed(u)' = Believed(u)
    BY <1>1, <2>2 DEF Believed
  <2>8. WireOK(u)'
    BY <1>1, <2>1, <2>3, <2>7, WireStays DEF WiresExact
  <2> QED
    BY <1>1, <1>2, <2>1, <2>2, <2>3, <2>4, <2>6, <2>8, SendKeeps
<1>4. CASE ~caps.pull
  <2>1. /\ docQueue' = Popped(u) /\ step' = Restarted(u) /\ wire' = wire
        /\ told' = [told EXCEPT ![Running(u).by][u] = Outcome("publish", 0)]
    BY <1>4 DEF PassBarrier
  <2>2. DocTypes' /\ LedgerTypes' /\ posts' \in Seq(PostMessage) /\ posts' = posts
    BY <1>1, SameTypes DEF textVars, ledVars, DocsTypes, NetTypes
  <2>3. ToldTypes'
    <3>1. 0 \in Texts
      BY DEF Texts, DocsTypes, TextTypes
    <3> QED
      BY <1>1, <1>2, <2>1, <3>1, SyncingOK, ToldGoesOn DEF textVars
  <2>4. step'[u] = "start"
    BY <2>1 DEF Restarted, DocsTypes, TaskTypes
  <2>5. Believed(u)' = Believed(u) /\ DocOK(u)'
    BY <1>1, <2>4 DEF Believed, DocOK, StepsExact, StepOK, textVars
  <2> QED
    BY <1>1, <1>2, <2>1, <2>2, <2>3, <2>5, TaskEndKeeps DEF Docs
<1> QED
  BY <1>3, <1>4

\* The answer that the running task of a document waits for.
LEMMA AnsweredKeeps ==
  ASSUME DocumentsAssumption, DocsInv, ReceiveAnswer, NEW m, m = Head(posts),
         docQueue[m.uri] # <<>>, Running(m.uri) = m.task, step[m.uri] = "asking"
  PROVE  DocsInv'
<1> USE DEF DocsInv
<1> DEFINE u == m.uri
<1>1. /\ posts # <<>> /\ m.kind = "answer" /\ posts' = Tail(posts)
      /\ docQueue' = Popped(u) /\ step' = Restarted(u)
      /\ UNCHANGED <<textVars, pendingVersion, wire, server, due, call>>
  BY DEF ReceiveAnswer
<1>2. /\ m \in PostMessage /\ m = posts[1] /\ 1 \in 1..Len(posts) /\ posts' \in Seq(PostMessage)
      /\ \A i \in 1..Len(posts') : \E j \in 1..Len(posts) : posts'[i] = posts[j]
  BY <1>1, TailSeq DEF DocsTypes, NetTypes
<1>3. u \in Uris /\ m.task \in TaskState /\ m.text \in Texts
  BY <1>1, <1>2 DEF PostMessage
<1>4. /\ Running(u).kind \in {"sync", "symbols"} /\ NoRoomAsked(u) /\ InStep(u) /\ DocOK(u)
  BY <1>3, RoomUnasked DEF StepsExact, StepOK
<1>5. caps.sync => m.text = doc[u].text
  BY <1>1, <1>2, <1>3 DEF AnswersExact, Answers, Asking
<1>6. step'[u] = "start"
  BY <1>1, <1>3 DEF Restarted, DocsTypes, TaskTypes
<1>7. CASE m.task.kind = "sync"
  <2>1. /\ Update(u, m.text) /\ told' = [told EXCEPT ![m.task.by][u] = Outcome("told", m.text)]
        /\ UNCHANGED <<doc, older>>
    BY <1>7 DEF ReceiveAnswer
  <2>2. DocTypes'
    BY <1>1, <2>1, SameTypes DEF textVars
  <2>3. LedgerTypes'
    BY <1>1, <1>3, <2>1 DEF LedgerTypes, Update, DocsTypes, Texts, textVars
  <2>4. ToldTypes'
    <3>1. m.task.by \in Writes /\ u \in UrisOf[m.task.by]
      BY <1>3, <1>4, <1>7, SyncingOK
    <3> QED
      BY <1>1, <1>3, <2>1, <3>1, ToldGoesOn DEF textVars
  <2>5. Believed(u)' = Believed(u) /\ DocOK(u)'
    BY <1>1, <1>4, <1>6, <2>1 DEF Believed, DocOK, textVars
  <2> QED
    BY <1>1, <1>2, <1>3, <1>4, <2>1, <2>2, <2>3, <2>4, <2>5, TaskEndKeeps DEF Docs
<1>8. CASE m.task.kind # "sync"
  <2>1. /\ doc' = [doc EXCEPT ![u].symbols = [version |-> doc[u].version, text |-> m.text]]
        /\ older' = Touched(u) /\ UNCHANGED <<ledVars, told>>
    BY <1>8 DEF ReceiveAnswer
  <2>2. doc[u] # NoDoc /\ doc[u] \in DocState /\ doc \in [Uris -> {NoDoc} \cup DocState]
    BY <1>3, <1>4 DEF InStep, DocsTypes, DocTypes
  <2>3. PICK d : d = [doc[u] EXCEPT !.symbols = [version |-> doc[u].version, text |-> m.text]]
    OBVIOUS
  <2>4. /\ d \in DocState /\ d.version = doc[u].version /\ d.text = doc[u].text
        /\ d.open = doc[u].open /\ d.persistent = doc[u].persistent
        /\ d.symbols = [version |-> doc[u].version, text |-> m.text]
    BY <1>3, <2>2, <2>3 DEF DocState, Symbols
  <2>5. doc' = [doc EXCEPT ![u] = d]
    BY <1>3, <2>1, <2>2, <2>3
  <2>6. doc'[u] = d /\ d # NoDoc /\ OnlyDoc(u)
    BY <1>1, <1>3, <2>2, <2>4, <2>5, NoStates DEF OnlyDoc, textVars
  <2>7. DocTypes'
    BY <1>3, <2>1, <2>6, DocTouched
  <2>8. LedgerTypes' /\ ToldTypes'
    BY <1>1, <2>1, SameTypes DEF textVars, ledVars
  <2>9. Believed(u)' = Believed(u)
    BY <1>6, <2>2, <2>4, <2>6 DEF Believed
  <2>10. DocOK(u)'
    BY <1>1, <1>4, <1>5, <2>2, <2>4, <2>6 DEF DocOK, textVars
  <2> QED
    BY <1>1, <1>2, <1>3, <1>4, <2>6, <2>7, <2>8, <2>9, <2>10, TaskEndKeeps DEF OnlyDoc
<1> QED
  BY <1>7, <1>8

\* What the server or the client reads changes neither a document nor a queue.
QuietStep ==
  /\ \A u \in Uris : StepOK(u)' /\ Believed(u)' = Believed(u)
  /\ \A u \in Uris, t \in TaskState : (AskOK(u, t)' <=> AskOK(u, t)) /\ (Asking(u, t)' <=> Asking(u, t))
  /\ QueuesExact' /\ TrimsToCome'
LEMMA NothingMoves ==
  ASSUME DocsInv, UNCHANGED <<textVars, docVars, call>>
  PROVE  /\ UNCHANGED <<caps, fileText, written, doc, older, pendingVersion, docQueue, step, call>>
         /\ QuietStep
<1> USE DEF DocsInv
<1>1. UNCHANGED <<caps, fileText, written, doc, older, pendingVersion, docQueue, step, call>>
  BY DEF textVars, docVars
<1>2. \A u \in Uris : StepOK(u)' = StepOK(u) /\ Believed(u)' = Believed(u)
  BY <1>1 DEF StepOK, DocOK, Believed, Running, NextVersion, InStep, Text, Closing
<1>3. \A u, t : InQueue(u, t)' = InQueue(u, t)
  BY <1>1 DEF InQueue
<1>4. \A u, t : Asking(u, t)' = Asking(u, t)
  BY <1>1 DEF Asking, Running
<1>5. \A u, t : AskOK(u, t)' = AskOK(u, t)
  BY <1>1, <1>3, <1>4 DEF AskOK
<1>6. \A u, t : TaskOK(u, t)' = TaskOK(u, t)
  BY <1>1 DEF TaskOK, OwnUris
<1>7. \A u : Once(u)' = Once(u)
  BY <1>1 DEF Once
<1>8. QueuesExact'
  BY <1>3, <1>6, <1>7 DEF QueuesExact
<1>9. TrimsToCome'
  BY <1>1 DEF TrimsToCome, Docs, OwnUris
<1> QED
  BY <1>1, <1>2, <1>4, <1>5, <1>8, <1>9 DEF QuietStep, StepsExact

\* The client takes a message: an answer that nobody waits for, or a publish.
LEMMA TakePostKeeps ==
  ASSUME DocumentsAssumption, DocsInv, posts # <<>>, posts' = Tail(posts), LedgerTypes',
         UNCHANGED <<textVars, docVars, wire, server, due, call, told>>
  PROVE  DocsInv'
<1> USE DEF DocsInv
<1>1. /\ UNCHANGED <<caps, fileText, written, doc, older, pendingVersion, docQueue, step, call>>
      /\ QuietStep
  BY NothingMoves
<1>2. /\ posts' \in Seq(PostMessage)
      /\ \A i \in 1..Len(posts') : \E j \in 1..Len(posts) : posts'[i] = posts[j]
  BY TailSeq DEF DocsTypes, NetTypes
<1>3. DocsTypes'
  <2>1. WireMessage' = WireMessage /\ PostMessage' = PostMessage /\ AtServer' = AtServer
    BY <1>1 DEF WireMessage, PostMessage, AtServer, Texts
  <2>2. NetTypes'
    BY <1>2, <2>1 DEF DocsTypes, NetTypes
  <2> QED
    BY <1>1, <2>2, SameTypes DEF DocsTypes
<1>4. AsksExact'
  BY <1>1 DEF AsksExact, QuietStep, Asked, About
<1>5. AnswersExact'
  <2> SUFFICES ASSUME NEW u \in Uris, NEW t \in TaskState, NEW i \in 1..Len(posts'), Answers(u, t, i)'
               PROVE  /\ AskOK(u, t)
                      /\ Asking(u, t) /\ caps.sync => posts'[i].text = doc[u].text
    BY <1>1 DEF AnswersExact, QuietStep
  <2>1. PICK j \in 1..Len(posts) : posts'[i] = posts[j]
    BY <1>2
  <2>2. Answers(u, t, j)
    BY <2>1 DEF Answers
  <2> QED
    BY <2>1, <2>2 DEF AnswersExact
<1>6. WiresExact'
  BY <1>1, WireStays DEF WiresExact, QuietStep
<1> QED
  BY <1>1, <1>3, <1>4, <1>5, <1>6 DEF QuietStep, StepsExact

LEMMA ReceiveAnswerKeeps ==
  ASSUME DocumentsAssumption, DocsInv, ReceiveAnswer
  PROVE  DocsInv'
<1> USE DEF DocsInv
<1>1. PICK m : m = Head(posts)
  OBVIOUS
<1>2. CASE docQueue[m.uri] # <<>> /\ Running(m.uri) = m.task /\ step[m.uri] = "asking"
  BY <1>1, <1>2, AnsweredKeeps
<1>3. CASE ~(docQueue[m.uri] # <<>> /\ Running(m.uri) = m.task /\ step[m.uri] = "asking")
  <2>1. /\ posts # <<>> /\ posts' = Tail(posts)
        /\ UNCHANGED <<docQueue, step, ledVars, told, doc, older>>
        /\ UNCHANGED <<textVars, pendingVersion, wire, server, due, call>>
    BY <1>1, <1>3 DEF ReceiveAnswer
  <2>2. LedgerTypes'
    BY <2>1, SameTypes DEF textVars, ledVars
  <2> QED
    BY <2>1, <2>2, TakePostKeeps DEF docVars
<1> QED
  BY <1>2, <1>3

LEMMA ReceivePublishKeeps ==
  ASSUME DocumentsAssumption, DocsInv, ReceivePublish
  PROVE  DocsInv'
<1> USE DEF DocsInv
<1>1. PICK m : m = Head(posts)
  OBVIOUS
<1>2. /\ posts # <<>> /\ posts' = Tail(posts) /\ m.kind = "publish"
      /\ UNCHANGED <<textVars, docVars, wire, server, due, call, told>>
      /\ UNCHANGED ledVars \/ Update(m.uri, m.text)
  BY <1>1 DEF ReceivePublish
<1>3. m \in PostMessage
  BY <1>1, <1>2, TailSeq DEF DocsTypes, NetTypes
<1>4. m.uri \in Uris /\ m.text \in Texts
  BY <1>2, <1>3 DEF PostMessage
<1>5. LedgerTypes'
  <2>1. CASE UNCHANGED ledVars
    BY <1>2, <2>1, SameTypes DEF textVars, ledVars
  <2>2. CASE Update(m.uri, m.text)
    BY <1>2, <1>4, <2>2 DEF Update, DocsTypes, LedgerTypes, Texts, textVars
  <2> QED
    BY <1>2, <2>1, <2>2
<1> QED
  BY <1>2, <1>5, TakePostKeeps

\* The server sends a message.
LEMMA PostKeeps ==
  ASSUME DocumentsAssumption, DocsInv, NEW m \in PostMessage, posts' = Append(posts, m),
         NetTypes', AsksExact', WiresExact',
         m.kind = "answer" =>
           /\ AskOK(m.uri, m.task)
           /\ Asking(m.uri, m.task) /\ caps.sync => m.text = doc[m.uri].text,
         UNCHANGED <<textVars, docVars, ledVars, call, told>>
  PROVE  DocsInv'
<1> USE DEF DocsInv
<1>1. /\ UNCHANGED <<caps, fileText, written, doc, older, pendingVersion, docQueue, step, call>>
      /\ QuietStep
  BY NothingMoves
<1>2. DocsTypes'
  BY <1>1, SameTypes DEF DocsTypes, ledVars
<1>3. AnswersExact'
  <2> SUFFICES ASSUME NEW u \in Uris, NEW t \in TaskState, NEW i \in 1..Len(posts'), Answers(u, t, i)'
               PROVE  /\ AskOK(u, t)
                      /\ Asking(u, t) /\ caps.sync => posts'[i].text = doc[u].text
    BY <1>1 DEF AnswersExact, QuietStep
  <2>1. (i \in 1..Len(posts) /\ posts'[i] = posts[i]) \/ posts'[i] = m
    BY AddedTo DEF DocsTypes, NetTypes
  <2>2. CASE i \in 1..Len(posts) /\ posts'[i] = posts[i]
    <3>1. Answers(u, t, i)
      BY <2>2 DEF Answers
    <3> QED
      BY <2>2, <3>1 DEF AnswersExact
  <2>3. CASE posts'[i] = m
    BY <2>3 DEF Answers
  <2> QED
    BY <2>1, <2>2, <2>3
<1> QED
  BY <1>1, <1>2, <1>3 DEF QuietStep, StepsExact

LEMMA PublishKeeps ==
  ASSUME DocumentsAssumption, DocsInv, NEW u \in Uris, PublishDiagnostics(u)
  PROVE  DocsInv'
<1> USE DEF DocsInv
<1>1. /\ u \in due /\ due' = due \ {u}
      /\ UNCHANGED <<textVars, docVars, wire, server, ledVars, call, told>>
  BY DEF PublishDiagnostics
<1>2. PICK m : m = [kind |-> "publish", uri |-> u, version |-> server[u].version,
                    text |-> server[u].text]
  OBVIOUS
<1>3. server[u] \in AtServer
  BY <1>1 DEF DocsTypes, NetTypes
<1>4. m \in PostMessage /\ m.kind = "publish" /\ posts' = Append(posts, m)
  BY <1>2, <1>3 DEF PostMessage, AtServer, PublishDiagnostics
<1>5. /\ UNCHANGED <<caps, fileText, written, doc, older, pendingVersion, docQueue, step, call>>
      /\ QuietStep
  BY <1>1, NothingMoves
<1>6. NetTypes'
  <2>1. WireMessage' = WireMessage /\ PostMessage' = PostMessage /\ AtServer' = AtServer
    BY <1>5 DEF WireMessage, PostMessage, AtServer, Texts
  <2>2. posts' \in Seq(PostMessage)
    BY <1>4, AddedTo DEF DocsTypes, NetTypes
  <2> QED
    BY <1>1, <2>1, <2>2 DEF DocsTypes, NetTypes
<1>7. AsksExact'
  BY <1>1, <1>5 DEF AsksExact, QuietStep, Asked, About
<1>8. WiresExact'
  BY <1>1, <1>5, WireStays DEF WiresExact, QuietStep
<1> QED
  BY <1>1, <1>4, <1>6, <1>7, <1>8, PostKeeps

LEMMA ServerTakes ==
  ASSUME DocsInv, wire # <<>>, wire' = Tail(wire), UNCHANGED <<textVars, docVars, call>>,
         \A u \in Uris : server'[u] = IF About(u, 1) THEN Leaves(wire[1]) ELSE server[u]
  PROVE  AsksExact' /\ WiresExact'
<1> USE DEF DocsInv
<1>1. QuietStep
  BY NothingMoves
<1>2. /\ Len(wire) \in Nat /\ Len(wire') = Len(wire) - 1
      /\ \A i \in 1..Len(wire') : i + 1 \in 1..Len(wire) /\ wire'[i] = wire[i + 1]
  BY TailSeq DEF DocsTypes, NetTypes
<1>3. AsksExact'
  <2> SUFFICES ASSUME NEW u \in Uris, NEW t \in TaskState, NEW i \in 1..Len(wire'), Asked(u, t, i)'
               PROVE  AskOK(u, t) /\ (Asking(u, t) => \A j \in i + 1..Len(wire') : ~About(u, j)')
    BY <1>1 DEF AsksExact, QuietStep
  <2>1. i + 1 \in 1..Len(wire) /\ Asked(u, t, i + 1)
    BY <1>2 DEF Asked
  <2>2. AskOK(u, t) /\ (Asking(u, t) => \A j \in (i + 1) + 1..Len(wire) : ~About(u, j))
    BY <2>1 DEF AsksExact
  <2>3. ASSUME Asking(u, t), NEW j \in i + 1..Len(wire') PROVE ~About(u, j)'
    <3>1. j + 1 \in (i + 1) + 1..Len(wire) /\ j \in 1..Len(wire')
      BY <1>2
    <3> QED
      BY <1>2, <2>2, <2>3, <3>1 DEF About
  <2> QED
    BY <2>2, <2>3
<1>4. WiresExact'
  BY <1>1, WireShrinks DEF WiresExact, QuietStep
<1> QED
  BY <1>3, <1>4

\* A request of a running task is answered for the text of its document.
LEMMA AnswerOfText ==
  ASSUME DocumentsAssumption, DocsInv, NEW u \in Uris, NEW t \in TaskState, wire # <<>>,
         Asked(u, t, 1)
  PROVE  /\ AskOK(u, t)
         /\ Asking(u, t) /\ caps.sync => server[u] # Closed /\ server[u].text = doc[u].text
<1> USE DEF DocsInv
<1>1. 1 \in 1..Len(wire)
  BY TailSeq DEF DocsTypes, NetTypes
<1>2. AskOK(u, t) /\ (Asking(u, t) => \A j \in 1 + 1..Len(wire) : ~About(u, j))
  BY <1>1 DEF AsksExact
<1>3. ASSUME Asking(u, t), caps.sync PROVE server[u] # Closed /\ server[u].text = doc[u].text
  <2>1. \A j \in 1..Len(wire) : ~About(u, j)
    BY <1>2, <1>3 DEF Asked, About, DocsTypes, NetTypes
  <2>2. server[u] = Believed(u)
    BY <2>1 DEF WiresExact, WireOK
  <2>3. step[u] = "asking" /\ doc[u] # NoDoc /\ doc[u].open
    BY <1>3 DEF Asking, StepsExact, StepOK, InStep
  <2>4. Believed(u) = [version |-> doc[u].version, text |-> doc[u].text] /\ doc[u] \in DocState
    BY <2>3 DEF Believed, DocsTypes, DocTypes
  <2>5. Believed(u) \in AtServer
    BY <2>4 DEF DocState, AtServer
  <2> QED
    BY <2>2, <2>4, <2>5, NoStates
<1> QED
  BY <1>2, <1>3

LEMMA ServerReadsKeeps ==
  ASSUME DocumentsAssumption, DocsInv, ServerReads
  PROVE  DocsInv'
<1> USE DEF DocsInv
<1>1. /\ wire # <<>> /\ wire' = Tail(wire)
      /\ UNCHANGED <<textVars, docVars, ledVars, call, told>>
  BY DEF ServerReads
<1>2. PICK m \in WireMessage : m = Head(wire) /\ m = wire[1]
  BY <1>1, TailSeq DEF DocsTypes, NetTypes
<1>3. /\ UNCHANGED <<caps, fileText, written, doc, older, pendingVersion, docQueue, step, call>>
      /\ QuietStep
  BY <1>1, NothingMoves
<1>4. /\ WireMessage' = WireMessage /\ PostMessage' = PostMessage /\ AtServer' = AtServer
      /\ wire' \in Seq(WireMessage) /\ server \in [Uris -> {Closed} \cup AtServer]
      /\ posts \in Seq(PostMessage)
  BY <1>1, <1>3, TailSeq DEF WireMessage, PostMessage, AtServer, Texts, DocsTypes, NetTypes
<1>5. CASE m.kind \in {"open", "change", "close"}
  <2>1. PICK s : s = Leaves(m)
    OBVIOUS
  <2>2. /\ server' = [server EXCEPT ![m.uri] = s]
        /\ due' = IF m.kind = "close" THEN due \ {m.uri} ELSE due \cup {m.uri}
        /\ posts' = posts
    BY <1>2, <1>5, <2>1 DEF ServerReads, Leaves
  <2>3. m.uri \in Uris /\ s \in {Closed} \cup AtServer /\ (m.kind # "close" => s # Closed)
    BY <1>5, <2>1, NoStates DEF WireMessage, Leaves, AtServer
  <2>4. NetTypes'
    BY <1>4, <2>2, <2>3 DEF DocsTypes, NetTypes
  <2>5. \A u \in Uris : server'[u] = IF About(u, 1) THEN Leaves(wire[1]) ELSE server[u]
    BY <1>2, <1>4, <1>5, <2>1, <2>2, <2>3 DEF About
  <2>6. AsksExact' /\ WiresExact'
    BY <1>1, <2>5, ServerTakes
  <2>7. AnswersExact'
    BY <1>3, <2>2 DEF AnswersExact, QuietStep, Answers
  <2>8. DocsTypes'
    BY <1>1, <1>3, <2>4, SameTypes DEF DocsTypes, ledVars
  <2> QED
    BY <1>3, <2>6, <2>7, <2>8 DEF QuietStep, StepsExact
<1>6. CASE m.kind = "ask"
  <2> DEFINE text == IF server[m.uri] = Closed THEN fileText[m.uri] ELSE server[m.uri].text
  <2>1. PICK a : a = [kind |-> "answer", uri |-> m.uri, task |-> m.task, text |-> text]
    OBVIOUS
  <2>2. posts' = Append(posts, a) /\ UNCHANGED <<server, due>>
    BY <1>2, <1>6, <2>1 DEF ServerReads
  <2>3. m.uri \in Uris /\ m.task \in TaskState
    BY <1>6 DEF WireMessage
  <2>4. text \in Texts
    BY <1>4, <2>3 DEF DocsTypes, TextTypes, AtServer
  <2>5. a \in PostMessage /\ a.uri = m.uri /\ a.task = m.task /\ a.text = text
    BY <2>1, <2>3, <2>4 DEF PostMessage
  <2>6. NetTypes'
    BY <1>4, <2>2, <2>5, AddedTo DEF DocsTypes, NetTypes
  <2>7. \A u \in Uris : server'[u] = IF About(u, 1) THEN Leaves(wire[1]) ELSE server[u]
    BY <1>2, <1>6, <2>2 DEF About
  <2>8. AsksExact' /\ WiresExact'
    BY <1>1, <2>7, ServerTakes
  <2>9. Asked(m.uri, m.task, 1)
    BY <1>2, <1>6 DEF Asked
  <2>10. /\ AskOK(a.uri, a.task)
         /\ Asking(a.uri, a.task) /\ caps.sync => a.text = doc[a.uri].text
    BY <1>1, <2>3, <2>5, <2>9, AnswerOfText
  <2> QED
    BY <1>1, <2>2, <2>5, <2>6, <2>8, <2>10, PostKeeps
<1> QED
  BY <1>5, <1>6 DEF WireMessage

LEMMA DocsInitOK ==
  ASSUME DocumentsAssumption, DocsInit
  PROVE  DocsInv
<1>1. PICK u0 \in Uris, open \in BOOLEAN : InitDocuments(u0, open /\ caps.sync)
  BY DEF DocsInit
<1>2. /\ caps \in [sync : BOOLEAN, pull : BOOLEAN] /\ written = 0 /\ Texts = {0}
      /\ pendingVersion = [u \in Uris |-> 0] /\ docQueue = [u \in Uris |-> <<>>]
      /\ step = [u \in Uris |-> "start"] /\ wire = <<>> /\ posts = <<>>
  BY DEF DocsInit, DocumentsAssumption, Texts
<1>3. PICK d : d = [version |-> 1, text |-> 0, open |-> TRUE, persistent |-> TRUE,
                    symbols |-> [version |-> 0, text |-> 0]]
  OBVIOUS
<1>4. d \in DocState
  BY <1>2, <1>3 DEF DocState, Symbols
<1>5. /\ doc = [u \in Uris |-> IF (open /\ caps.sync) /\ u = u0 THEN d ELSE NoDoc]
      /\ server = [u \in Uris |-> IF (open /\ caps.sync) /\ u = u0
                                    THEN [version |-> 1, text |-> 0] ELSE Closed]
      /\ older = {} /\ due = {u \in Uris : (open /\ caps.sync) /\ u = u0}
  BY <1>1, <1>3 DEF InitDocuments
<1>6. [version |-> 1, text |-> 0] \in AtServer
  BY <1>2 DEF AtServer
<1>7. TextTypes /\ TaskTypes /\ LedgerTypes
  BY <1>2 DEF DocsInit, TextTypes, TaskTypes, LedgerTypes
<1>8. DocTypes
  BY <1>4, <1>5 DEF DocTypes, Docs
<1>9. Closed \notin AtServer /\ NoDoc \notin DocState
  BY <1>2 DEF AtServer, DocState, Symbols, DocumentsAssumption
<1>10. NetTypes
  BY <1>2, <1>5, <1>6, <1>9 DEF NetTypes
<1>11. CallTypes
  BY DEF DocsInit, CallTypes, Calls
<1>12. ToldTypes
  BY <1>2 DEF DocsInit, ToldTypes, Outcome
<1>13. QueuesExact /\ AsksExact /\ AnswersExact
  BY <1>2 DEF QueuesExact, Once, InQueue, AsksExact, AnswersExact
<1>14. StepsExact
  BY <1>2, <1>3, <1>5 DEF StepsExact, StepOK, DocOK
<1>15. WiresExact
  <2>1. d # NoDoc /\ d.open /\ d.version = 1 /\ d.text = 0
    BY <1>3, <1>4, <1>9
  <2>2. Len(wire) = 0 /\ \A u \in Uris : step[u] = "start"
    BY <1>2
  <2>3. ASSUME NEW u \in Uris PROVE server[u] = Believed(u)
    BY <1>5, <2>1, <2>2 DEF Believed
  <2> QED
    BY <2>2, <2>3 DEF WiresExact, WireOK
<1>16. TrimsToCome
  <2>1. Docs \subseteq {u0} /\ IsFiniteSet({u0}) /\ Cardinality({u0}) = 1
    BY <1>5, FS_Singleton DEF Docs
  <2>2. Cardinality(Docs) <= 1
    BY <2>1, FS_Subset
  <2> QED
    BY <2>2, DocsFinite DEF TrimsToCome
<1> QED
  BY <1>7, <1>8, <1>10, <1>11, <1>12, <1>13, <1>14, <1>15, <1>16 DEF DocsInv, DocsTypes

LEMMA StutterKeepsDocs ==
  ASSUME DocumentsAssumption, DocsInv, UNCHANGED docsVars
  PROVE  DocsInv'
<1> USE DEF DocsInv
<1>1. UNCHANGED <<textVars, docVars, wire, server, due, posts, ledVars, call, told>>
  BY DEF docsVars, netVars
<1>2. DocsTypes'
  BY <1>1, SameTypes DEF DocsTypes, textVars, docVars, ledVars
<1>3. TrimsToCome'
  BY <1>1, TrimsGoOn DEF docVars
<1>4. QueuesGrow
  BY <1>1 DEF QueuesGrow, Grows, DocsTypes, TaskTypes, textVars, docVars
<1> QED
  BY <1>2, <1>3, <1>4, GrowKeeps

LEMMA DocsStepKeeps ==
  ASSUME DocumentsAssumption, DocsInv, [DocsNext]_docsVars
  PROVE  DocsInv'
<1>1. ASSUME NEW u \in Uris, UriStep(u) \/ PublishDiagnostics(u) PROVE DocsInv'
  BY <1>1, UseCacheKeeps, AlreadyInStepKeeps, EvictForKeeps, SendTextKeeps, TextSentKeeps,
     CommitUnsentKeeps, PassBarrierKeeps, AskTimeoutKeeps, NothingToCloseKeeps, SendCloseKeeps,
     CloseSentKeeps, PublishKeeps DEF UriStep
<1>2. ASSUME NEW c \in Calls, CallStep(c) PROVE DocsInv'
  BY <1>2, TasksDoneKeeps, TrimKeeps, EnqueueBatchKeeps, TellKeeps, EnqueueSymbolsKeeps,
     TransientClosedKeeps DEF CallStep
<1> QED
  BY <1>1, <1>2, CaptureKeeps, LoadKeeps, ReceiveAnswerKeeps, ReceivePublishKeeps,
     ServerReadsKeeps, StutterKeepsDocs DEF DocsNext

(* The documents of a language server. *)
THEOREM DocumentsInvariant ==
  DocsSpec => []DocsInv
<1>1. DocsInit => DocsInv
  BY DocumentsAssumption, DocsInitOK
<1>2. DocsInv /\ [DocsNext]_docsVars => DocsInv'
  BY DocumentsAssumption, DocsStepKeeps
<1> QED
  BY <1>1, <1>2, PTL DEF DocsSpec

---------------------------------------------------------------------------
(* What follows from the invariant. *)

\* didOpen, didChange and didClose are balanced, a client and its server come to the same
\* documents, and cached symbols are those of their text (`LspDocuments` of documents.ts,
\* `synchronizeDocument`, `closeDocument` of client.ts).
THEOREM DocumentsStayInStep ==
  DocsSpec => []DocumentsInStep
<1>1. ASSUME DocsInv PROVE DocsTypeOK
  <2>1. DocState = [version : Nat \ {0}, text : 0..written, open : BOOLEAN, persistent : BOOLEAN,
                    symbols : [version : Nat, text : 0..written]]
    BY DEF DocState, Symbols, Texts
  <2>2. DocState \subseteq [version : Nat, text : 0..written, open : BOOLEAN, persistent : BOOLEAN,
                            symbols : [version : Nat, text : 0..written]]
    BY <2>1
  <2>3. \A u \in Uris : step[u] # "start" => docQueue[u] # <<>>
    BY <1>1 DEF DocsInv, StepsExact, StepOK
  <2>4. doc \in [Uris -> {NoDoc} \cup [version : Nat, text : 0..written, open : BOOLEAN,
                   persistent : BOOLEAN, symbols : [version : Nat, text : 0..written]]]
    BY <1>1, <2>2 DEF DocsInv, DocsTypes, DocTypes
  <2> QED
    BY <1>1, <2>3, <2>4 DEF DocsTypeOK, DocsInv, DocsTypes, DocTypes
<1>2. ASSUME DocsInv PROVE BalancedMessages
  <2> SUFFICES ASSUME wire # <<>>, NEW m, m = Head(wire), m.kind # "ask"
               PROVE  Accepts(server[m.uri], m) /\ m.kind \in {"open", "change", "close"}
    BY DEF BalancedMessages, Accepts
  <2>1. m \in WireMessage /\ m = wire[1] /\ 1 \in 1..Len(wire)
    BY <1>2, TailSeq DEF DocsInv, DocsTypes, NetTypes
  <2>2. m.uri \in Uris /\ m.kind \in {"open", "change", "close"}
    BY <2>1 DEF WireMessage
  <2>3. About(m.uri, 1) /\ \A j \in 1..1 - 1 : FALSE
    BY <2>1 DEF About
  <2>4. WireOK(m.uri)
    BY <1>2, <2>2 DEF DocsInv, WiresExact
  <2> QED
    BY <2>1, <2>2, <2>3, <2>4 DEF WireOK
<1>3. ASSUME DocsInv PROVE ServerInStep
  <2> SUFFICES ASSUME NEW u \in Uris, caps.sync, docQueue[u] = <<>>,
                      \A i \in 1..Len(wire) : wire[i].uri # u
               PROVE  IF doc[u] # NoDoc /\ doc[u].open
                        THEN server[u] = [version |-> doc[u].version, text |-> doc[u].text]
                        ELSE server[u] = Closed /\ (doc[u] = NoDoc \/ ~doc[u].persistent)
    BY DEF ServerInStep
  <2>1. server[u] = Believed(u)
    BY <1>3 DEF DocsInv, WiresExact, WireOK, About
  <2>2. step[u] = "start" /\ DocOK(u)
    BY <1>3 DEF DocsInv, StepsExact, StepOK, DocsTypes, TaskTypes
  <2> QED
    BY <2>1, <2>2 DEF Believed, DocOK
<1>4. ASSUME DocsInv PROVE SymbolsOfText
  <2> SUFFICES ASSUME NEW u \in Docs, caps.sync, doc[u].symbols.version = doc[u].version
               PROVE  doc[u].symbols.text = doc[u].text
    BY DEF SymbolsOfText
  <2>1. u \in Uris /\ doc[u] # NoDoc /\ doc[u] \in DocState
    BY <1>4 DEF Docs, DocsInv, DocsTypes, DocTypes
  <2>2. doc[u].symbols.version # 0
    BY <2>1 DEF DocState
  <2> QED
    BY <1>4, <2>1, <2>2 DEF DocsInv, StepsExact, StepOK, DocOK
<1>5. DocsInv => DocumentsInStep
  BY <1>1, <1>2, <1>3, <1>4 DEF DocumentsInStep
<1> QED
  BY <1>5, DocumentsInvariant, PTL

\* Once all calls are over, a client keeps no more than max_open_documents documents
\* (`trimDocuments` of client.ts).
THEOREM DocumentsKeepTheLimit ==
  DocsSpec => []LimitKeptAtRest
<1>1. DocsInv => LimitKeptAtRest
  <2> SUFFICES ASSUME DocsInv, \A c \in Calls : call[c].at = "idle" \/ Ended(c)
               PROVE  Cardinality(Docs) <= MaxDocuments
    BY DEF LimitKeptAtRest
  <2>1. ~\E c \in Calls : call[c].at \in {"tasks", "closing", "trimming"}
    BY DEF Ended
  <2> QED
    BY <2>1, DocumentsAssumption, DocsFinite DEF DocsInv, TrimsToCome
<1> QED
  BY <1>1, DocumentsInvariant, PTL

\* A pull is answered for the text of the write that asks (`saveAndCollectDiagnosticsBatch`
\* of client.ts): nothing changes the document between its synchronization and the answer.
THEOREM PullsAreOfTheirText ==
  DocsSpec => PullsOfOwnText
<1> DEFINE Pull ==
      \A w \in Writes : \A u \in UrisOf[w] :
        (caps.sync /\ told[w][u].is = "none" /\ told'[w][u].is = "told") =>
          told'[w][u].text = call[w].text
<1>1. ASSUME DocumentsAssumption, DocsInv, DocsNext PROVE Pull
  <2> SUFFICES ASSUME NEW w \in Writes, NEW u \in UrisOf[w], caps.sync,
                      told[w][u].is = "none", told'[w][u].is = "told"
               PROVE  told'[w][u].text = call[w].text
    OBVIOUS
  <2> USE DEF DocsInv
  <2>1. told' # told
    OBVIOUS
  <2>2. DOMAIN told = Writes /\ \A x \in Writes : DOMAIN told[x] = UrisOf[x]
    <3>1. ASSUME NEW x \in Writes PROVE DOMAIN told[x] = UrisOf[x]
      <4>1. told[x] \in [UrisOf[x] -> [is : {"none", "publish", "unanswered", "told", "timeout"},
                                       text : Texts]]
        BY <1>1 DEF DocsTypes, ToldTypes
      <4> QED
        BY <4>1
    <3> QED
      BY <1>1, <3>1 DEF DocsTypes, ToldTypes
  <2>3. ASSUME NEW x \in Writes, NEW v \in UrisOf[x], NEW o, told' = [told EXCEPT ![x][v] = o]
        PROVE  o.is = "told" /\ told[x][v].is = "none" /\ x = w /\ v = u /\ told'[w][u] = o
    BY <2>2, <2>3
  <2>4. ASSUME NEW c \in Calls, CallStep(c) PROVE FALSE
    <3>1. PICK v \in UrisOf[c] : c \in Writes /\ (Collect(c, v) \/ DeadlinePasses(c, v))
      BY <2>1, <2>4 DEF CallStep, TasksDone, Trim, EnqueueBatch, EnqueueSymbols, TransientClosed
    <3>2. CASE Collect(c, v)
      <4>1. /\ told' = [told EXCEPT ![c][v] = Outcome("told", ledger[v].text)]
            /\ told[c][v].is \in {"publish", "unanswered"}
        BY <3>2 DEF Collect
      <4> QED
        BY <2>3, <3>1, <4>1
    <3>3. CASE DeadlinePasses(c, v)
      <4>1. /\ told' = [told EXCEPT ![c][v] = Outcome("timeout", 0)]
            /\ told[c][v].is = "publish" \/ told[c][v].is = "unanswered"
        BY <3>3 DEF DeadlinePasses
      <4> QED
        BY <2>3, <3>1, <4>1
    <3> QED
      BY <3>1, <3>2, <3>3
  <2>5. ASSUME NEW v \in Uris, UriStep(v) \/ PublishDiagnostics(v) PROVE FALSE
    <3>1. ASSUME NEW is \in {"publish", "unanswered"}, docQueue[v] # <<>>, Running(v).kind = "sync",
                 told' = [told EXCEPT ![Running(v).by][v] = Outcome(is, 0)]
          PROVE  FALSE
      <4>1. Running(v).by \in Writes /\ v \in UrisOf[Running(v).by]
        BY <1>1, <3>1, SyncingOK
      <4>2. Outcome(is, 0).is # "told"
        BY DEF Outcome
      <4> QED
        BY <2>3, <3>1, <4>1, <4>2
    <3>2. CASE PassBarrier(v)
      <4>1. docQueue[v] # <<>> /\ Running(v).kind = "sync"
        BY <1>1, <3>2 DEF PassBarrier, StepsExact, StepOK
      <4> QED
        BY <2>1, <3>1, <3>2, <4>1 DEF PassBarrier
    <3>3. CASE AskTimeout(v)
      <4>1. docQueue[v] # <<>>
        BY <1>1, <3>3 DEF AskTimeout, StepsExact, StepOK
      <4> QED
        BY <2>1, <3>1, <3>3, <4>1 DEF AskTimeout
    <3> QED
      BY <2>1, <2>5, <3>2, <3>3 DEF UriStep, UseCache, AlreadyInStep, EvictFor, SendText, TextSent,
         CommitUnsent, NothingToClose, SendClose, CloseSent, PublishDiagnostics
  <2>6. CASE ReceiveAnswer
    <3>1. PICK m : m = Head(posts)
      OBVIOUS
    <3>2. /\ posts # <<>> /\ m.kind = "answer" /\ m.task.kind = "sync"
          /\ docQueue[m.uri] # <<>> /\ Running(m.uri) = m.task /\ step[m.uri] = "asking"
          /\ told' = [told EXCEPT ![m.task.by][m.uri] = Outcome("told", m.text)]
      BY <2>1, <2>6, <3>1 DEF ReceiveAnswer
    <3>3. m \in PostMessage /\ m = posts[1] /\ 1 \in 1..Len(posts)
      BY <1>1, <3>1, <3>2, TailSeq DEF DocsTypes, NetTypes
    <3>4. m.uri \in Uris /\ m.task \in TaskState
      BY <3>2, <3>3 DEF PostMessage
    <3>5. m.task.by \in Writes /\ m.uri \in UrisOf[m.task.by]
      BY <1>1, <3>2, <3>4, SyncingOK
    <3>6. m.text = doc[m.uri].text
      BY <1>1, <3>2, <3>3, <3>4 DEF AnswersExact, Answers, Asking
    <3>7. doc[m.uri].text = call[m.task.by].text
      BY <1>1, <3>2, <3>4 DEF StepsExact, StepOK, InStep, Text
    <3>8. m.task.by = w /\ told'[w][u] = Outcome("told", m.text)
      BY <2>3, <3>2, <3>5
    <3> QED
      BY <3>6, <3>7, <3>8 DEF Outcome
  <2> QED
    BY <1>1, <2>1, <2>4, <2>5, <2>6 DEF DocsNext, Capture, LoadText, ReceivePublish, ServerReads
<1>2. UNCHANGED docsVars => Pull
  BY DEF docsVars
<1>3. DocsInv /\ [DocsNext]_docsVars => [Pull]_docsVars
  BY <1>1, <1>2, DocumentsAssumption
<1> QED
  BY <1>3, DocumentsInvariant, PTL DEF DocsSpec, PullsOfOwnText

\* LspDocuments: both sides of a client agree on what is open and what it says, the limit is
\* kept at rest, and a pull is answered for the text of the write that asked, whatever writes,
\* reads, evictions and timeouts come between (synchronizeDocument, trimDocuments).
THEOREM DocumentsAreAgreed == DocsSpec => DocumentsAgree
BY DocumentsStayInStep, DocumentsKeepTheLimit, PullsAreOfTheirText, PTL DEF DocumentsAgree
=============================================================================

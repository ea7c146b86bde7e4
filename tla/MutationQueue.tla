---------------------------- MODULE MutationQueue ----------------------------
(***************************************************************************)
(* MutationQueue (src/filesystem/platform/node/mutation-queue.ts): the     *)
(* process-local queue that serialises mutations of one canonical target.  *)
(* Each synchronous block of the JavaScript is one action; a call that has *)
(* been handed the key but whose continuation has not run yet is           *)
(* "granted", and an abort may still reach it there.                       *)
(***************************************************************************)
EXTENDS Naturals, Sequences

CONSTANTS
  Calls,    \* calls of MutationQueue.run
  Keys,     \* queue keys (canonical paths)
  NoKey     \* the key of a call that has asked for none

ASSUME NoKeyAssumption == NoKey \notin Keys

VARIABLES
  entries,   \* keys present in the `entries` map
  waiters,   \* waiters[k]: the waiters array of the entry of k
  phase,     \* phase[c]: where call c is
  key,       \* key[c]: the key call c asked for
  aborted,   \* calls whose AbortSignal has fired
  disposed   \* the queue has been shut down

vars == <<entries, waiters, phase, key, aborted, disposed>>

Phases == {"idle", "waiting", "granted", "running", "left", "rejected"}

\* Types; a call that has asked for a key remembers which one it must give back.
TypeOK ==
  /\ entries \in SUBSET Keys
  /\ waiters \in [Keys -> Seq(Calls)]
  /\ phase \in [Calls -> Phases]
  /\ key \in [Calls -> Keys \union {NoKey}]
  /\ aborted \in SUBSET Calls
  /\ disposed \in BOOLEAN
  /\ \A c \in Calls : phase[c] # "idle" => key[c] \in Keys

Init ==
  /\ entries = {}
  /\ waiters = [k \in Keys |-> <<>>]
  /\ phase = [c \in Calls |-> "idle"]
  /\ key = [c \in Calls |-> NoKey]
  /\ aborted = {}
  /\ disposed = FALSE

-----------------------------------------------------------------------------
Holds(c, k) == phase[c] \in {"granted", "running"} /\ key[c] = k

\* waiters.splice(index, 1)
Without(s, i) == [j \in 1..(Len(s) - 1) |-> IF j < i THEN s[j] ELSE s[j + 1]]

\* acquire: a refused call, a free key, or a place at the end of the waiters.
AcquireRefused(c, k) ==
  /\ disposed \/ c \in aborted
  /\ phase' = [phase EXCEPT ![c] = "rejected"]
  /\ UNCHANGED <<entries, waiters>>

AcquireFree(c, k) ==
  /\ ~disposed /\ c \notin aborted /\ k \notin entries
  /\ entries' = entries \union {k}
  /\ phase' = [phase EXCEPT ![c] = "granted"]
  /\ UNCHANGED waiters

AcquireBusy(c, k) ==
  /\ ~disposed /\ c \notin aborted /\ k \in entries
  /\ waiters' = [waiters EXCEPT ![k] = Append(@, c)]
  /\ phase' = [phase EXCEPT ![c] = "waiting"]
  /\ UNCHANGED entries

Acquire(c, k) ==
  /\ phase[c] \in {"idle", "left"}
  /\ key' = [key EXCEPT ![c] = k]
  /\ AcquireRefused(c, k) \/ AcquireFree(c, k) \/ AcquireBusy(c, k)
  /\ UNCHANGED <<aborted, disposed>>

ReleaseDropsEntry(c, to) ==
  LET k == key[c] IN
  /\ phase' = [d \in Calls |->
       IF d = c THEN to
       ELSE IF waiters[k] # <<>> /\ d = Head(waiters[k]) THEN "granted" ELSE phase[d]]
  /\ waiters' = [waiters EXCEPT ![k] = IF @ = <<>> THEN @ ELSE Tail(@)]
  /\ entries' = entries \ {k}

\* releaseFor: hand the key to the first waiter, or drop the entry. The call
\* itself goes to phase `to`.
Release(c, to) ==
  LET k == key[c] IN
  IF waiters[k] # <<>>
  THEN /\ phase' = [phase EXCEPT ![c] = to, ![Head(waiters[k])] = "granted"]
       /\ waiters' = [waiters EXCEPT ![k] = Tail(@)]
       /\ UNCHANGED entries
  ELSE /\ phase' = [phase EXCEPT ![c] = to]
       /\ entries' = entries \ {k}
       /\ UNCHANGED waiters

\* run after `await acquire`: the signal is checked once more before the operation.
Enter(c) ==
  /\ phase[c] = "granted"
  /\ c \notin aborted
  /\ phase' = [phase EXCEPT ![c] = "running"]
  /\ UNCHANGED <<entries, waiters, key, aborted, disposed>>

EnterAbortedKeepsKey(c) ==
  /\ phase[c] = "granted"
  /\ c \in aborted
  /\ phase' = [phase EXCEPT ![c] = "rejected"]
  /\ UNCHANGED <<entries, waiters, key, aborted, disposed>>

EnterAborted(c) ==
  /\ phase[c] = "granted"
  /\ c \in aborted
  /\ Release(c, "rejected")
  /\ UNCHANGED <<key, aborted, disposed>>

\* The operation settles, by a result or an exception: `finally` releases.
Leave(c) ==
  /\ phase[c] = "running"
  /\ Release(c, "left")
  /\ UNCHANGED <<key, aborted, disposed>>

AbortKeepsWaiter(c) ==
  /\ c \notin aborted
  /\ aborted' = aborted \union {c}
  /\ phase' = [phase EXCEPT ![c] = IF @ = "waiting" THEN "rejected" ELSE @]
  /\ UNCHANGED <<entries, waiters, key, disposed>>

\* The signal fires: a waiter's onAbort takes it out of the array and rejects it.
Abort(c) ==
  /\ c \notin aborted
  /\ aborted' = aborted \union {c}
  /\ IF phase[c] = "waiting"
     THEN /\ phase' = [phase EXCEPT ![c] = "rejected"]
          /\ \E i \in 1..Len(waiters[key[c]]) :
               /\ waiters[key[c]][i] = c
               /\ waiters' = [waiters EXCEPT ![key[c]] = Without(@, i)]
     ELSE UNCHANGED <<phase, waiters>>
  /\ UNCHANGED <<entries, key, disposed>>

\* dispose: every waiter of every entry is rejected, holders run to their end.
Dispose ==
  /\ ~disposed
  /\ disposed' = TRUE
  /\ phase' = [c \in Calls |-> IF phase[c] = "waiting" THEN "rejected" ELSE phase[c]]
  /\ waiters' = [k \in Keys |-> <<>>]
  /\ UNCHANGED <<entries, key, aborted>>

Next ==
  \/ \E c \in Calls, k \in Keys : Acquire(c, k)
  \/ \E c \in Calls : Enter(c) \/ EnterAborted(c) \/ Leave(c) \/ Abort(c)
  \/ Dispose

\* Continuations run and operations settle; nobody has to call, abort or dispose.
Fairness == \A c \in Calls : WF_vars(Enter(c) \/ EnterAborted(c)) /\ WF_vars(Leave(c))

Spec == Init /\ [][Next]_vars
FairSpec == Spec /\ Fairness

-----------------------------------------------------------------------------
\* Two calls never hold the same key: the promise of the class comment, and
\* what every read-modify-write of the mutation service stands on.
MutualExclusion ==
  \A c, d \in Calls : \A k \in Keys : Holds(c, k) /\ Holds(d, k) => c = d

\* A map entry exists exactly while somebody holds its key. An entry that
\* outlived its holder (an abort or a dispose that met a hand-over) would
\* block the path for the rest of the process.
EntryIffHeld == \A k \in Keys : k \in entries <=> \E c \in Calls : Holds(c, k)

\* The arrays hold each waiting call once, under its own key, and no settled
\* call: a settled one left in would be handed a key it never gives back.
WaitersExact ==
  /\ \A c \in Calls : phase[c] = "waiting" =>
       /\ key[c] \in Keys
       /\ \E i \in 1..Len(waiters[key[c]]) : waiters[key[c]][i] = c
  /\ \A k \in Keys : \A i \in 1..Len(waiters[k]) :
       /\ phase[waiters[k][i]] = "waiting"
       /\ key[waiters[k][i]] = k
       /\ \A j \in 1..Len(waiters[k]) : waiters[k][i] = waiters[k][j] => i = j

\* The map of entries and the arrays of waiters say what is so, whatever is aborted
\* or disposed between a release and the step of the call it handed the key to.
EntriesExact == EntryIffHeld /\ WaitersExact

\* A call that waits is served or rejected, whatever the others abort, as long
\* as operations settle.
WaitersSettle == \A c \in Calls : phase[c] = "waiting" ~> phase[c] # "waiting"

\* The queue implements the per-key lock: hand-overs, aborts and disposal are
\* invisible except as Take and Give.
LockHolders == [k \in Keys |-> {c \in Calls : Holds(c, k)}]
Lock == INSTANCE KeyedLock WITH holders <- LockHolders
ImplementsLock == Lock!Spec
=============================================================================

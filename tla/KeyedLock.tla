------------------------------ MODULE KeyedLock ------------------------------
(***************************************************************************)
(* What src/filesystem/platform/node/mutation-queue.ts promises in its     *)
(* header ("one active mutation per canonical target"): a lock per key,    *)
(* with no queue, no cancellation and no promises in it.                   *)
(***************************************************************************)
CONSTANTS
  Calls,    \* mutation calls of one process
  Keys      \* canonical target paths

VARIABLE holders    \* holders[k]: the calls inside the critical section of k

Init == holders = [k \in Keys |-> {}]

\* A free key is taken.
Take(c, k) ==
  /\ holders[k] = {}
  /\ holders' = [holders EXCEPT ![k] = {c}]

\* The only holder leaves; the key is free or goes straight to the next call.
Give(c, k) ==
  /\ holders[k] = {c}
  /\ \/ holders' = [holders EXCEPT ![k] = {}]
     \/ \E next \in Calls \ {c} : holders' = [holders EXCEPT ![k] = {next}]

Next == \E c \in Calls, k \in Keys : Take(c, k) \/ Give(c, k)

Spec == Init /\ [][Next]_holders
=============================================================================

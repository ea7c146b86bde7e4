----------------------------- MODULE AtomicFiles -----------------------------
(***************************************************************************)
(* What the mutation service promises its callers: every mutation that     *)
(* succeeds is one atomic read-modify-write of one file that the policy    *)
(* does not block, and one that fails changes no file.                     *)
(* A file's content is the set of the mutations whose text it carries: a   *)
(* `write` leaves its own text only, an `edit` adds its own to the rest.   *)
(***************************************************************************)
CONSTANTS
  Calls,      \* mutation calls of this process
  Edits,      \* the calls that are edits; the others are writes
  Files,      \* canonical paths
  Blocked,    \* the files under blocked_path
  Outsiders,  \* contents another process may leave in a file
  Missing     \* the content of a file that does not exist

VARIABLES
  disk,       \* disk[f]: the content of f
  outcome     \* outcome[c]: "pending", "committed" or "failed"

Apply(c, content) == IF c \in Edits THEN content \union {c} ELSE {c}

Init ==
  /\ disk \in [Files -> Outsiders]
  /\ outcome = [c \in Calls |-> "pending"]

Commit(c, f) ==
  /\ outcome[c] = "pending"
  /\ f \notin Blocked
  /\ c \in Edits => disk[f] # Missing
  /\ disk' = [disk EXCEPT ![f] = Apply(c, disk[f])]
  /\ outcome' = [outcome EXCEPT ![c] = "committed"]

Fail(c) ==
  /\ outcome[c] = "pending"
  /\ outcome' = [outcome EXCEPT ![c] = "failed"]
  /\ UNCHANGED disk

Outside(f) ==
  /\ \E content \in Outsiders : disk' = [disk EXCEPT ![f] = content]
  /\ UNCHANGED outcome

Next ==
  \/ \E c \in Calls : Fail(c) \/ \E f \in Files : Commit(c, f)
  \/ \E f \in Files : Outside(f)

Spec == Init /\ [][Next]_<<disk, outcome>>
=============================================================================

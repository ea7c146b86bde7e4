----------------------------- MODULE Traversal ------------------------------
(* The walk of the workspace that find, ls, grep and the repository map share
   (src/filesystem/services/traversal.ts): depth first over sorted listings, with
   the mandatory gate of blocked paths, the visibility of the snapshot and a budget
   of entries. *)
EXTENDS VisibilityRules

CONSTANTS
  Listing,    \* the sorted entries of each directory
  RuleSnapshots,  \* the snapshots the walk may be given
  Blocked,    \* paths the access policy blocks
  Failing,    \* entries that may be gone or unreadable when they are reached
  Starts,     \* roots of a walk
  Limits      \* maxEntries of a walk; NoLimit is above every tree

NoLimit == Cardinality(Nodes) + 1

ASSUME WalkAssumption ==
  /\ Listing \in [{Root} \union {p \in Nodes : IsDirectory(p)} -> Seq(Nodes)]
  /\ \A d \in DOMAIN Listing :
       ToSet(Listing[d]) = {p \in Nodes : Parent[p] = d} /\ IsInjective(Listing[d])
  /\ Blocked \subseteq Nodes /\ Failing \subseteq Nodes
  /\ Starts \subseteq DOMAIN Listing /\ Limits \subseteq 0..NoLimit

VARIABLES
  snap,     \* the visibility snapshot
  start,    \* the root of the walk
  explicit, \* the caller named the root
  limit,
  stack,    \* what is left of the listings, the innermost directory first
  event,    \* what was yielded for each node
  scanned,
  stopped,  \* the budget is spent
  ended     \* "no", or how the generator ended

walkVars == <<snap, start, explicit, limit, stack, event, scanned, stopped, ended>>

(* "unread": the directory was reached, but its listing failed. *)
Events == {"none", "entry", "blocked", "symlink", "ignored", "error", "unread"}

(* walk, as far as the first listing: an ignored root is skipped, unless the caller
   named it; then the walk looks past the visibility rules. *)
RootIgnored == start # Root /\ Ignored(snap, start)
Bypass == explicit /\ RootIgnored

WalkInit ==
  /\ snap \in RuleSnapshots /\ start \in Starts /\ explicit \in BOOLEAN /\ limit \in Limits
  /\ event = [p \in Nodes |-> "none"] /\ scanned = 0 /\ stopped = FALSE
  /\ IF RootIgnored /\ ~explicit
     THEN stack = <<>> /\ ended = "skipped"
     ELSE stack = <<Listing[start]>> /\ ended = "no"

Walking == ended = "no" /\ stack # <<>> /\ Head(stack) # <<>>
Child == Head(Head(stack))
Rest == <<Tail(Head(stack))>> \o Tail(stack)

Inputs == UNCHANGED <<snap, start, explicit, limit>>

Yield(p, what) == event' = [event EXCEPT ![p] = what]

(* Mutant: a blocked entry is counted. *)
CountsBlocked ==
  /\ Walking /\ Child \in Blocked
  /\ Yield(Child, "blocked") /\ stack' = Rest /\ scanned' = scanned + 1
  /\ Inputs /\ UNCHANGED <<stopped, ended>>

(* Blocked entries are hidden from the statistics and from the budget. *)
SkipBlocked ==
  /\ Walking /\ Child \in Blocked
  /\ Yield(Child, "blocked") /\ stack' = Rest
  /\ Inputs /\ UNCHANGED <<scanned, stopped, ended>>

(* The generator of a directory returns; that of the root ends the walk. *)
Return ==
  /\ stack' = Tail(stack)
  /\ ended' = IF Tail(stack) # <<>> THEN "no" ELSE IF stopped' THEN "entry-limit" ELSE "done"
  /\ Inputs /\ UNCHANGED <<event, scanned>>

(* The next entry that counts finds the budget spent: the directory is left.  The
   directory above may meet the limit again, or see at its next batch that the walk
   has been stopped. *)
EntryLimit ==
  /\ Walking /\ Child \notin Blocked /\ scanned >= limit
  /\ stopped' = TRUE /\ Return

LeaveStopped ==
  /\ Walking /\ stopped /\ UNCHANGED stopped /\ Return

Counted ==
  /\ Walking /\ Child \notin Blocked /\ scanned < limit
  /\ scanned' = scanned + 1
  /\ Inputs /\ UNCHANGED <<stopped, ended>>

(* An entry that is gone is an error event. *)
ChildFails ==
  /\ Counted /\ Child \in Failing
  /\ Yield(Child, "error") /\ stack' = Rest

SkipSymlink ==
  /\ Counted /\ KindOf[Child] = "symlink"
  /\ Yield(Child, "symlink") /\ stack' = Rest

Hidden(p) == ~Bypass /\ Ignored(snap, p)

(* An ignored entry is skipped; its directory is still walked unless it is pruned. *)
SkipIgnored ==
  /\ Counted /\ KindOf[Child] # "symlink" /\ Hidden(Child)
  /\ Yield(Child, "ignored")
  /\ stack' = IF IsDirectory(Child) /\ ~Prune(snap, Child) THEN <<Listing[Child]>> \o Rest ELSE Rest

YieldEntry ==
  /\ Counted /\ KindOf[Child] # "symlink" /\ ~Hidden(Child)
  /\ Yield(Child, "entry")
  /\ stack' = IF IsDirectory(Child) THEN <<Listing[Child]>> \o Rest ELSE Rest

(* A directory to be walked cannot be read: an error event, and the walk goes on. *)
ListingFails ==
  /\ Counted /\ Child \in Failing /\ IsDirectory(Child)
  /\ Hidden(Child) => ~Prune(snap, Child)
  /\ Yield(Child, "unread") /\ stack' = Rest

DirectoryDone ==
  /\ ended = "no" /\ stack # <<>> /\ Head(stack) = <<>>
  /\ UNCHANGED stopped /\ Return

(* The signal fires, or the consumer closes the walk: nothing more is yielded. *)
StopWalk ==
  /\ ended = "no" /\ ended' = "stopped"
  /\ Inputs /\ UNCHANGED <<stack, event, scanned, stopped>>

WalkNext ==
  \/ SkipBlocked \/ EntryLimit \/ LeaveStopped \/ ChildFails \/ SkipSymlink \/ SkipIgnored \/ YieldEntry
  \/ ListingFails \/ DirectoryDone \/ StopWalk

WalkSpec == WalkInit /\ [][WalkNext]_walkVars

----------------------------------------------------------------------------
(* Properties. *)

(* The directories between the start of the walk and a node. *)
Between(p) == {d \in Above[p] : d \in Below(start)}

Reachable(p) ==
  /\ p \in Below(start)
  /\ \A q \in {p} \union Between(p) : q \notin Blocked /\ event[q] # "error"
  /\ \A q \in Between(p) : event[q] # "unread"

(* What a pruned directory may hide: files whose rules the pruning does not see.  It
   tests neither the tracked set nor negations of rule files further down, and a
   directory the configuration names hides all of it. *)
HiddenByPruning(p) ==
  \E d \in Between(p) :
    /\ Prune(snap, d)
    /\ \/ Configured(snap, d) \/ p \in snap.tracked
       \/ \E i \in DOMAIN snap.sets : Negates(snap.sets[i]) /\ snap.sets[i].base \in Below(d)

(* A walk yields visible files and directories only: none that is ignored, blocked, or
   below a blocked one. *)
WalkSound ==
  \A p \in Nodes : event[p] = "entry" => Reachable(p) /\ (Bypass \/ ~Ignored(snap, p))

(* A walk that ran to its end has yielded all of them, but for what a pruned directory
   hides from it. *)
WalkExact ==
  /\ WalkSound
  /\ ended = "done" =>
       \A p \in Nodes : Reachable(p) /\ KindOf[p] # "symlink" /\ ~Hidden(p) =>
         event[p] \in {"entry", "unread"} \/ (~Bypass /\ HiddenByPruning(p))

(* The budget counts every entry but the blocked ones, and ends the walk only when
   there is an entry left that would not fit. *)
BudgetExact ==
  /\ scanned = Cardinality({p \in Nodes : event[p] \notin {"none", "blocked"}})
  /\ scanned <= limit
  /\ stopped =>
       /\ scanned = limit
       /\ \E p \in Below(start) \ Blocked :
            /\ event[p] = "none"
            /\ Parent[p] = start \/ event[Parent[p]] \in {"entry", "ignored"}

(* explain tells the decision of evaluate, by another path through the rules. *)
ExplainAgrees == ended # "no" => \A p \in Nodes : Explained(snap, p) <=> Ignored(snap, p)

=============================================================================

-------------------------- MODULE VisibilityRules --------------------------
(* What a visibility snapshot answers (src/filesystem/services/visibility/snapshot.ts
   and rule-compiler.ts): rule sets of several sources decide whether a path is
   ignored and whether a walk may leave out what is below it.

   A pattern is the node it names: it matches that node, and the `ignore` library
   extends the match to everything below.  A snapshot is a record of the sorted
   rule sets, the tracked files and the paths the configuration ignores. *)
EXTENDS Naturals, Sequences, SequencesExt

CONSTANTS
  Nodes,    \* paths of the workspace, without the root
  Root,     \* the workspace root, "."
  Parent,   \* the directory of each node
  KindOf    \* "directory", "file" or "symlink"

(* The directories above a node: those that every set holds which holds the directory of
   the node and, with a node, the directory of that node.                              *)
Closed(S) == \A q \in S \ {Root} : Parent[q] \in S
Above == [p \in Nodes |-> {d \in Nodes \union {Root} :
            \A S \in SUBSET (Nodes \union {Root}) : Parent[p] \in S /\ Closed(S) => d \in S}]

ASSUME TreeAssumption ==
  /\ IsFiniteSet(Nodes) /\ Root \notin Nodes
  /\ Parent \in [Nodes -> Nodes \union {Root}]
  /\ KindOf \in [Nodes -> {"directory", "file", "symlink"}]
  /\ \A p \in Nodes : Parent[p] # Root => KindOf[Parent[p]] = "directory"
  /\ \A p \in Nodes : p \notin Above[p]

Depth(p) == IF p = Root THEN 0 ELSE Cardinality(Above[p])
Below(d) == {p \in Nodes : d \in Above[p]}
IsDirectory(p) == KindOf[p] = "directory"

Priority(source) ==
  CASE source = "builtin" -> 0 [] source = "gitignore" -> 3
    [] source = "piignore" -> 4 [] source = "session" -> 5

(* Rule sets by priority, those of one source from the root down. *)
Compiled(files) ==
  SetToSortSeq(files, LAMBDA a, b :
    \/ Priority(a.source) < Priority(b.source)
    \/ Priority(a.source) = Priority(b.source) /\ Depth(a.base) < Depth(b.base))

Negates(set) == \E i \in DOMAIN set.rules : set.rules[i].negated

----------------------------------------------------------------------------
(* The `ignore` library. *)

Names(rule, p) == rule.target = p /\ (rule.dirOnly => IsDirectory(p))

(* A matcher of one rule: the path or a directory above it, below the base. *)
Ignores(set, rule, p) == \E a \in ({p} \union Above[p]) \ {Root} : a \in Below(set.base) /\ Names(rule, a)

(* A matcher of all rules of a set: a path below an ignored directory is ignored;
   else the last rule that names it decides. *)
Verdict(set, p) ==
  LET own(q) == LET hits == {i \in DOMAIN set.rules : Names(set.rules[i], q)} IN
                IF hits = {} THEN "none"
                ELSE IF set.rules[CHOOSE i \in hits : \A j \in hits : j <= i].negated
                     THEN "include" ELSE "ignore"
      verdict[q \in Below(set.base)] ==
        IF Parent[q] # set.base /\ verdict[Parent[q]] = "ignore" THEN "ignore" ELSE own(q)
  IN verdict[p]

----------------------------------------------------------------------------
(* The snapshot. *)

NoMatch == [state |-> "none"]

(* ruleMatchesDirectoryAncestor: a pattern that ends with a slash has matched a
   directory above the path. *)
MatchedAncestor(match, base, p) ==
  match.rule.dirOnly /\ (~IsDirectory(p) \/ Parent[p] # base)

(* One rule of matchSource: a negation counts unless a directory above is excluded. *)
ApplyRule(acc, set, rule, p) ==
  IF ~Ignores(set, rule, p) THEN acc
  ELSE IF rule.negated
       THEN IF acc.excluded THEN acc
            ELSE [acc EXCEPT !.winner = [state |-> "include", rule |-> rule, source |-> set.source]]
       ELSE [winner |-> [state |-> "ignore", rule |-> rule, source |-> set.source],
             excluded |-> acc.excluded \/ (rule.dirOnly /\ (~IsDirectory(p) \/ Parent[p] # set.base))]

(* matchSource: the rule sets of one source, outermost first. *)
ApplySet(winner, set, p) ==
  IF p \notin Below(set.base) \/ Verdict(set, p) = "none" THEN winner
  ELSE FoldLeft(LAMBDA acc, rule : ApplyRule(acc, set, rule, p),
                [winner |-> winner,
                 excluded |-> winner.state = "ignore" /\ MatchedAncestor(winner, set.base, p)],
                set.rules).winner

MatchSource(snap, source, p) ==
  FoldLeft(LAMBDA winner, set : ApplySet(winner, set, p), NoMatch,
           SelectSeq(snap.sets, LAMBDA set : set.source = source))

(* groupRuleSetsBySource keeps the order of the sorted sets. *)
Sources == <<"builtin", "gitignore", "piignore", "session">>

(* A tracked file is not hidden by a .gitignore. *)
Bypassed(snap, match, p) == match.source = "gitignore" /\ match.state = "ignore" /\ p \in snap.tracked

ByRules(snap, p) ==
  FoldLeft(LAMBDA winner, source :
             LET match == MatchSource(snap, source, p) IN
             IF match = NoMatch \/ Bypassed(snap, match, p) THEN winner ELSE match,
           NoMatch, Sources)

(* matchConfiguredRule: ignored_path of the configuration names the path. *)
Configured(snap, p) == p \in snap.config

Ignored(snap, p) == Configured(snap, p) \/ ByRules(snap, p).state = "ignore"

(* hasNegatedRuleForDescendant: a rule set with a negation whose base holds the child
   of the directory. *)
MayReinclude(snap, d) ==
  \E i \in DOMAIN snap.sets : Negates(snap.sets[i]) /\ snap.sets[i].base \in {d} \union Above[d]

(* Mutant: an ignored directory is pruned whatever rules may include. *)
PrunesAll(snap, p) == IsDirectory(p) /\ Ignored(snap, p)

(* evaluate, for an intent that traverses: whether the walk may skip the directory. *)
Prune(snap, p) ==
  /\ IsDirectory(p) /\ Ignored(snap, p)
  /\ Configured(snap, p) \/ ~MayReinclude(snap, p)

(* Mutant: explain does not know of tracked files. *)
TraceUntracked(snap, p) ==
  LET matches == [i \in DOMAIN Sources |-> MatchSource(snap, Sources[i], p)]
      kept == SelectSeq(matches, LAMBDA m : m # NoMatch) IN
  IF Configured(snap, p) THEN Append(kept, [state |-> "ignore", source |-> "config"]) ELSE kept

(* explain: the trace of the sources that matched; the last one wins. *)
Trace(snap, p) ==
  LET matches == [i \in DOMAIN Sources |-> MatchSource(snap, Sources[i], p)]
      kept == SelectSeq(matches, LAMBDA m : m # NoMatch /\ ~Bypassed(snap, m, p)) IN
  IF Configured(snap, p) THEN Append(kept, [state |-> "ignore", source |-> "config"]) ELSE kept

Explained(snap, p) == Trace(snap, p) # <<>> /\ Last(Trace(snap, p)).state = "ignore"
=============================================================================

---------------------------- MODULE MCDiscovery -----------------------------
(* Instances of GrepIndex, Visibility and Traversal for TLC: a behaviour is one of the
   part that `part` names, and the variables of the others stay as they are.
   GrepIndex: three calls, two of them with one key, and the third filters by content;
   their builds share the cache.

   Visibility: two calls under one policy; they share a build, or build one after
   the other, or side by side when the first has been invalidated.

   Traversal: a small workspace, pairs of rule files with one or two rules, tracked
   and configured paths.  "d" holds "g" and "e"; "e" holds "h"; "l" is a link.  *)
EXTENDS GrepIndex, Visibility, Traversal

CONSTANTS c1, c2, c3, auto, literal, p1
VARIABLE part

MCCalls == {c1, c2, c3}
MCKeys == {auto, literal}
MCKeyOf == [c \in MCCalls |-> IF c = c3 THEN literal ELSE auto]

MCPolicies == {p1}
MCPolicyOf == <<p1, p1>>

MCNodes == {"d", "g", "e", "h", "f", "l"}
MCParent == [p \in MCNodes |-> CASE p \in {"g", "e"} -> "d" [] p = "h" -> "e" [] OTHER -> "."]
MCKindOf == [p \in MCNodes |-> CASE p \in {"d", "e"} -> "directory" [] p = "l" -> "symlink"
                                 [] OTHER -> "file"]
MCListing == [d \in {".", "d", "e"} |->
  CASE d = "." -> <<"d", "f", "l">> [] d = "d" -> <<"e", "g">> [] d = "e" -> <<"h">>]

(* A rule file at the root with one or two rules, and one of any source further down. *)
FirstRules == [target : {"d"}, negated : {FALSE}, dirOnly : BOOLEAN]
RootSets == {[source |-> s, base |-> ".", rules |-> rs] :
               s \in {"gitignore", "piignore"},
               rs \in {<<r>> : r \in FirstRules}
                 \union (FirstRules \X [target : {"e", "h"}, negated : BOOLEAN, dirOnly : BOOLEAN])}
NestedSets == {[source |-> s, base |-> b, rules |-> <<r>>] :
                 s \in {"gitignore", "piignore", "session"}, b \in {"d", "e"},
                 r \in [target : {"h"}, negated : BOOLEAN, dirOnly : {FALSE}]}

MCRuleSnapshots == {[sets |-> Compiled(files), tracked |-> t, config |-> c] :
                  files \in {{a} : a \in RootSets} \union {{a, b} : a \in RootSets, b \in NestedSets},
                  t \in {{}, {"h"}}, c \in {{}}}
                \union {[sets |-> Compiled({a}), tracked |-> {"h"}, config |-> {"e"}] : a \in RootSets}

MCInit ==
  /\ Init /\ VisInit
  /\ \/ part = "walk" /\ WalkInit
     \/ part \in {"grep", "service"} /\ snap = "" /\ start = "" /\ explicit = FALSE
        /\ limit = 0 /\ stack = <<>> /\ event = "" /\ scanned = 0 /\ stopped = FALSE /\ ended = ""
MCNext ==
  \/ part = "grep" /\ Next /\ UNCHANGED <<part, visVars, walkVars>>
  \/ part = "walk" /\ WalkNext /\ UNCHANGED <<part, vars, visVars>>
  \/ part = "service" /\ VisNext /\ UNCHANGED <<part, vars, walkVars>>
(* The fairness of FairSpec and of VisFairness, each for the behaviours of its part. *)
MCFairness ==
  /\ \A c \in Calls : /\ WF_vars(part = "grep" /\ Leave(c))
                      /\ WF_vars(part = "grep" /\ TimerFires(c))
                      /\ WF_vars(part = "grep" /\ BuildStep(c))
  /\ \A c \in Requests : /\ WF_visVars(part = "service" /\ SnapshotStep(c))
                         /\ WF_visVars(part = "service" /\ LoadStep(c))
MCSpec == MCInit /\ [][MCNext]_<<part, vars, visVars, walkVars>> /\ MCFairness

\* GrepIndex, Visibility: every search and every call returns.
EverythingReturns == EverySearchReturns /\ EveryCallReturns

\* Traversal: what a walk yields, the budget it keeps to, and that what `explain` tells of
\* a path is what a walk does with it.
WalksExact == part = "walk" => WalkExact /\ BudgetExact /\ ExplainAgrees
=============================================================================

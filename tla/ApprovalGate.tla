---------------------------- MODULE ApprovalGate ----------------------------
(* The approval gate (src/approval/gate.ts, policy.ts, store.ts): a tool call is let
   through, refused, or asked about, under the configuration of the moment and the
   allow rules that were remembered: for the session, or in a file that the sessions
   of all processes share and that each session reads once.

   The calls of a session come one after another (external: the agent).  A remembered
   rule allows one request, or every request of a group that is `Similar`.          *)
EXTENDS Integers, FiniteSets

CONSTANTS
  Sessions,     \* the processes that share the rules file
  Requests,     \* what tool calls ask for
  Similar,      \* Similar[q]: the requests that createSimilarAllowRule(q) allows
  MaxConfigs,   \* bound: changes of the configuration
  MaxCrashes,   \* bound: processes that die
  MaxSpoils,    \* bound: edits by hand that leave no valid JSONC
  Unreadable    \* not a set

VARIABLES
  policy,       \* policy[q]: what the rules and defaults of the configuration say of q
  file,         \* the rules file: the requests it allows, or Unreadable
  session,      \* session[s]: the store of the gate of process s, and its call
  grants,       \* requests some user agreed to for good (history)
  told,         \* of these, the ones the user was told are saved (history)
  writers,      \* the processes that wrote the file (history)
  torn,         \* the file was left unreadable (history)
  configs, crashes, spoils

history == <<grants, told, writers, torn>>
bounds == <<configs, crashes, spoils>>
gateVars == <<policy, file, session, history, bounds>>

Verdicts == {"allow", "ask", "deny"}

ASSUME GateAssumption ==
  /\ Requests # {} /\ \A R \in SUBSET Requests : R # Unreadable
  /\ \A q \in Requests : q \in Similar[q] /\ Similar[q] \subseteq Requests

\* The state of a process that has just started: no store yet.
Fresh == [store |-> FALSE, exact |-> {}, persistent |-> {}, at |-> "idle",
          request |-> CHOOSE q \in Requests : TRUE, verdict |-> "none"]

GateInit ==
  /\ policy \in [Requests -> Verdicts] /\ file = {}
  /\ session = [s \in Sessions |-> Fresh]
  /\ grants = {} /\ told = {} /\ writers = {} /\ torn = FALSE
  /\ configs = 0 /\ crashes = 0 /\ spoils = 0

Goes(s, verdict) == session' = [session EXCEPT ![s].at = "idle", ![s].verdict = verdict]

(***************************************************************************)
(* handleToolCall.  The first call makes the store, then reads the file; a   *)
(* file that cannot be read fails that call, and the store stays.            *)
(***************************************************************************)
Call(s, q) ==
  /\ session[s].at = "idle"
  /\ session' = [session EXCEPT ![s].request = q, ![s].store = TRUE, ![s].verdict = "none",
                                ![s].at = IF session[s].store THEN "deciding" ELSE "loading"]
  /\ UNCHANGED <<policy, file, history, bounds>>
Load(s) ==
  /\ session[s].at = "loading" /\ file # Unreadable
  /\ session' = [session EXCEPT ![s].persistent = file, ![s].at = "deciding"]
  /\ UNCHANGED <<policy, file, history, bounds>>
LoadFails(s) ==
  /\ session[s].at = "loading" /\ file = Unreadable
  /\ Goes(s, "failed")
  /\ UNCHANGED <<policy, file, history, bounds>>

\* evaluateApproval: a remembered rule, then deny rules, ask rules and the default.
Evaluated(s) ==
  LET q == session[s].request IN
  IF q \in session[s].exact \cup session[s].persistent THEN "allow" ELSE policy[q]
Decide(s) ==
  /\ session[s].at = "deciding"
  /\ IF Evaluated(s) = "ask" THEN session' = [session EXCEPT ![s].at = "asking"]
     ELSE Goes(s, Evaluated(s))
  /\ UNCHANGED <<policy, file, history, bounds>>

(***************************************************************************)
(* handleAskDecision: the user's choices.  A refusal, a dialog that is       *)
(* dismissed or runs out, and a call without a dialog end alike.             *)
(***************************************************************************)
AllowOnce(s) ==
  /\ session[s].at = "asking" /\ Goes(s, "allowed")
  /\ UNCHANGED <<policy, file, history, bounds>>
Deny(s) ==
  /\ session[s].at = "asking" /\ Goes(s, "deny")
  /\ UNCHANGED <<policy, file, history, bounds>>
AllowSession(s) ==
  /\ session[s].at = "asking"
  /\ session' = [session EXCEPT ![s].exact = @ \cup {session[s].request},
                                ![s].at = "idle", ![s].verdict = "allowed"]
  /\ UNCHANGED <<policy, file, history, bounds>>

\* addPersistentAllowRule: the rule counts at once; writing the file truncates it first.
AllowSimilar(s) ==
  /\ session[s].at = "asking"
  /\ session' = [session EXCEPT ![s].persistent = @ \cup Similar[session[s].request],
                                ![s].at = "saving"]
  /\ file' = Unreadable
  /\ grants' = grants \cup Similar[session[s].request] /\ writers' = writers \cup {s}
  /\ UNCHANGED <<policy, told, torn, bounds>>
SavedAlone(s) ==
  /\ session[s].at = "saving"
  /\ file' = Similar[session[s].request]
  /\ Goes(s, "allowed")
  /\ told' = told \cup Similar[session[s].request]
  /\ UNCHANGED <<policy, grants, writers, torn, bounds>>
Saved(s) ==
  /\ session[s].at = "saving"
  /\ file' = session[s].persistent
  /\ Goes(s, "allowed")
  /\ told' = told \cup Similar[session[s].request]
  /\ UNCHANGED <<policy, grants, writers, torn, bounds>>
\* The directory cannot be made, or the file not opened: nothing is written.
SaveFails(s) ==
  /\ session[s].at = "asking"
  /\ session' = [session EXCEPT ![s].persistent = @ \cup Similar[session[s].request],
                                ![s].at = "idle", ![s].verdict = "allowed"]
  /\ grants' = grants \cup Similar[session[s].request]
  /\ UNCHANGED <<policy, file, told, writers, torn, bounds>>

(***************************************************************************)
(* The environment: the user edits the configuration, or the rules file and  *)
(* leaves it broken; a process dies and another starts in its place.         *)
(***************************************************************************)
Configure(q, v) ==
  /\ configs < MaxConfigs /\ policy[q] # v
  /\ policy' = [policy EXCEPT ![q] = v] /\ configs' = configs + 1
  /\ UNCHANGED <<file, session, history, crashes, spoils>>
Spoil ==
  /\ spoils < MaxSpoils /\ file # Unreadable /\ file # {}
  /\ \A s \in Sessions : session[s].at # "saving"
  /\ file' = Unreadable /\ torn' = TRUE /\ spoils' = spoils + 1
  /\ UNCHANGED <<policy, session, grants, told, writers, configs, crashes>>
Crash(s) ==
  /\ crashes < MaxCrashes /\ session[s].store
  /\ session' = [session EXCEPT ![s] = Fresh] /\ crashes' = crashes + 1
  /\ torn' = (torn \/ session[s].at = "saving")
  /\ UNCHANGED <<policy, file, grants, told, writers, configs, spoils>>

CallStep(s) == Load(s) \/ LoadFails(s) \/ Decide(s) \/ Saved(s)
Answer(s) == AllowOnce(s) \/ Deny(s) \/ AllowSession(s) \/ AllowSimilar(s) \/ SaveFails(s)
GateNext ==
  \/ \E s \in Sessions : \/ CallStep(s) \/ Answer(s) \/ Crash(s)
                         \/ \E q \in Requests : Call(s, q)
  \/ \E q \in Requests, v \in Verdicts : Configure(q, v)
  \/ Spoil
GateSpec == GateInit /\ [][GateNext]_gateVars

-----------------------------------------------------------------------------
\* What the variables hold.
GateTypeOK ==
  /\ policy \in [Requests -> Verdicts]
  /\ file \in {Unreadable} \cup (SUBSET Requests) /\ grants \subseteq Requests
  /\ \A s \in Sessions :
       /\ session[s].at \in {"idle", "loading", "deciding", "asking", "saving"}
       /\ session[s].exact \subseteq Requests /\ session[s].persistent \subseteq Requests
       /\ session[s].verdict \in {"none", "allow", "allowed", "deny", "failed"}

(* store.ts: whatever is lost or read late, no rule comes into force, or onto the
   file, that some user did not agree to; and what the user was told is saved stays on
   the file, through restarts and failed saves, unless two processes wrote the file or
   it was left unreadable.                                                           *)
RulesKept ==
  /\ GateTypeOK
  /\ file # Unreadable => file \subseteq grants
  /\ \A s \in Sessions : session[s].persistent \subseteq grants
  /\ ~torn /\ Cardinality(writers) <= 1 /\ (\A s \in Sessions : session[s].at # "saving")
       => file # Unreadable /\ told \subseteq file
=============================================================================

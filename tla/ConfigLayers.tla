---------------------------- MODULE ConfigLayers ----------------------------
(***************************************************************************)
(* The loading of a layered configuration (config-loader.ts) behind the    *)
(* caches of the file tools and of the web tools (their config.ts).  The   *)
(* layers are files that users edit at any time.  A call takes a           *)
(* fingerprint of all of them, is answered from the cache, joins the load  *)
(* that another call began under the same fingerprint, or begins one.  A   *)
(* load takes a fingerprint, reads layer after layer, takes another one,   *)
(* and starts again when they differ.                                      *)
(*                                                                         *)
(* A layer is known by the number of its edits, a fingerprint and the      *)
(* layers read are one number per layer.  What is in a file is whether it  *)
(* parses and whether it fits the schema; a file that is missing is one    *)
(* more version.  Merging the layers is left out.                          *)
(***************************************************************************)
EXTENDS Integers, FiniteSets

CONSTANTS Calls,          \* the calls that ask for the configuration
          NLayers,        \* its layers: default, user, project
          MaxAttempts,    \* how often a load starts (3)
          MaxEdits        \* bound: edits of one layer

ASSUME LayersAssumption == NLayers \in Nat \ {0} /\ MaxAttempts \in Nat \ {0} /\ MaxEdits \in Nat

Layers == 1 .. NLayers
Unread == -1
Nothing == [l \in Layers |-> Unread]

VARIABLES
  version,     \* of each layer on disk
  broken,      \* the versions that do not parse, and those that do not fit the schema
  keeps,       \* whether failures are cached: the file tools do, the web tools do not
  disposed,    \* the provider is shut down
  cache,       \* the entry of the last load: its fingerprint and its outcome
  pending,     \* the calls whose load others may join
  pc, seen,    \* of each call: where it is, its fingerprint,
  leader,      \* the call whose load it waits for,
  answer,      \* and its answer
  step, attempt, before, read, after,   \* of the load a call began
  since        \* history: what the layers have been since a call began

world == <<version, broken, keeps>>
callState == <<pc, seen, leader, answer>>
loadState == <<step, attempt, before, read, after>>
configVars == <<world, disposed, cache, pending, callState, loadState, since>>

NoEntry == [print |-> Nothing, ok |-> FALSE, layers |-> Nothing]
NoAnswer == [ok |-> FALSE, why |-> "none", layers |-> Nothing]
Failure(why) == [ok |-> FALSE, why |-> why, layers |-> Nothing]
Config(layers) == [ok |-> TRUE, why |-> "none", layers |-> layers]
AnswerOf(entry) == IF entry.ok THEN Config(entry.layers) ELSE Failure("config")
Complete(print) == \A l \in Layers : print[l] # Unread

ConfigInit ==
  /\ version = [l \in Layers |-> 0]
  /\ broken = [syntax |-> {}, schema |-> {}]
  /\ keeps \in BOOLEAN
  /\ disposed = FALSE
  /\ cache = NoEntry
  /\ pending = {}
  /\ pc = [c \in Calls |-> "idle"]
  /\ seen = [c \in Calls |-> Nothing]
  /\ leader = [c \in Calls |-> c]
  /\ answer = [c \in Calls |-> NoAnswer]
  /\ step = [c \in Calls |-> "none"]
  /\ attempt = [c \in Calls |-> 0]
  /\ before = [c \in Calls |-> Nothing]
  /\ read = [c \in Calls |-> Nothing]
  /\ after = [c \in Calls |-> Nothing]
  /\ since = [c \in Calls |-> {}]

\* Somebody saves a layer: well, with an error of syntax, or with one the schema finds.
Edit(l) ==
  /\ version[l] < MaxEdits
  /\ version' = [version EXCEPT ![l] = @ + 1]
  /\ \E how \in {"good", "syntax", "schema"} :
       broken' = IF how = "good" THEN broken
                 ELSE [broken EXCEPT ![how] = @ \cup {<<l, version[l] + 1>>}]
  /\ since' = [c \in Calls |-> IF pc[c] \in {"print", "wait"} THEN since[c] \cup {version'}
                               ELSE since[c]]
  /\ UNCHANGED <<keeps, disposed, cache, pending, callState, loadState>>

-----------------------------------------------------------------------------
(* A call: FileToolsConfigProvider.load and loadWebToolsConfig. *)

Begin(c) ==
  /\ pc[c] = "idle"
  /\ IF disposed
     THEN /\ pc' = [pc EXCEPT ![c] = "done"]
          /\ answer' = [answer EXCEPT ![c] = Failure("shutdown")]
          /\ UNCHANGED since
     ELSE /\ pc' = [pc EXCEPT ![c] = "print"]
          /\ since' = [since EXCEPT ![c] = {version}]
          /\ UNCHANGED answer
  /\ UNCHANGED <<world, disposed, cache, pending, seen, leader, loadState>>

\* fileFingerprint of one layer; those of all layers are under way together.
Stamp(c, l) ==
  /\ pc[c] = "print" /\ seen[c][l] = Unread
  /\ seen' = [seen EXCEPT ![c][l] = version[l]]
  /\ UNCHANGED <<world, disposed, cache, pending, pc, leader, answer, loadState, since>>

TakeCached(c) ==
  /\ pc[c] = "print" /\ Complete(seen[c]) /\ cache.print = seen[c]
  /\ pc' = [pc EXCEPT ![c] = "done"]
  /\ answer' = [answer EXCEPT ![c] = AnswerOf(cache)]
  /\ UNCHANGED <<world, disposed, cache, pending, seen, leader, loadState, since>>

Join(c) ==
  /\ pc[c] = "print" /\ Complete(seen[c]) /\ cache.print # seen[c]
  /\ \E k \in pending : /\ seen[k] = seen[c]
                        /\ leader' = [leader EXCEPT ![c] = k]
  /\ pc' = [pc EXCEPT ![c] = "wait"]
  /\ UNCHANGED <<world, disposed, cache, pending, seen, answer, loadState, since>>

Lead(c) ==
  /\ pc[c] = "print" /\ Complete(seen[c]) /\ cache.print # seen[c]
  /\ \A k \in pending : seen[k] # seen[c]
  /\ pc' = [pc EXCEPT ![c] = "wait"]
  /\ leader' = [leader EXCEPT ![c] = c]
  /\ pending' = pending \cup {c}
  /\ step' = [step EXCEPT ![c] = "before"]
  /\ attempt' = [attempt EXCEPT ![c] = 1]
  /\ UNCHANGED <<world, disposed, cache, seen, answer, before, read, after, since>>

-----------------------------------------------------------------------------
(* A load: loadConfigLayers inside loadMergedConfig or loadConfigFile. *)

StatBefore(k, l) ==
  /\ step[k] = "before" /\ before[k][l] = Unread
  /\ before' = [before EXCEPT ![k][l] = version[l]]
  /\ step' = [step EXCEPT ![k] = IF Complete(before'[k]) THEN "read" ELSE @]
  /\ UNCHANGED <<world, disposed, cache, pending, callState, attempt, read, after, since>>

\* readOptionalJsoncConfig, the layers in their order.
ReadLayer(k, l) ==
  /\ step[k] = "read" /\ read[k][l] = Unread
  /\ \A m \in Layers : m < l => read[k][m] # Unread
  /\ read' = [read EXCEPT ![k][l] = version[l]]
  /\ step' = [step EXCEPT ![k] = IF <<l, version[l]>> \in broken.syntax THEN "failed"
                                 ELSE IF Complete(read'[k]) THEN "after" ELSE @]
  /\ UNCHANGED <<world, disposed, cache, pending, callState, attempt, before, after, since>>

\* The fingerprint after the layers, and the one a failure is cached under.
StatAfter(k, l) ==
  /\ step[k] \in {"after", "failed"} /\ after[k][l] = Unread
  /\ step[k] = "failed" => keeps
  /\ after' = [after EXCEPT ![k][l] = version[l]]
  /\ UNCHANGED <<world, disposed, cache, pending, callState, step, attempt, before, read, since>>

\* The layers did not change meanwhile.
StableWhateverChanged(k) == TRUE
Stable(k) == before[k] = after[k]

Restart(k) ==
  /\ step[k] = "after" /\ Complete(after[k]) /\ ~Stable(k) /\ attempt[k] < MaxAttempts
  /\ step' = [step EXCEPT ![k] = "before"]
  /\ attempt' = [attempt EXCEPT ![k] = @ + 1]
  /\ before' = [before EXCEPT ![k] = Nothing]
  /\ read' = [read EXCEPT ![k] = Nothing]
  /\ after' = [after EXCEPT ![k] = Nothing]
  /\ UNCHANGED <<world, disposed, cache, pending, callState, since>>

\* It changed under the last attempt, or validateConfigValue refuses a layer.
Refuse(k) ==
  /\ step[k] = "after" /\ Complete(after[k])
  /\ IF Stable(k) THEN \E l \in Layers : <<l, read[k][l]>> \in broken.schema
     ELSE attempt[k] >= MaxAttempts
  /\ step' = [step EXCEPT ![k] = "failed"]
  /\ after' = [after EXCEPT ![k] = Nothing]
  /\ UNCHANGED <<world, disposed, cache, pending, callState, attempt, before, read, since>>

\* The promise of the load settles, and every call that awaits it goes on at once.
Settle(k, entry, cached) ==
  /\ step' = [step EXCEPT ![k] = "ended"]
  /\ pc' = [c \in Calls |-> IF pc[c] = "wait" /\ leader[c] = k THEN "done" ELSE pc[c]]
  /\ answer' = [c \in Calls |-> IF pc[c] = "wait" /\ leader[c] = k
                                THEN IF disposed THEN Failure("shutdown") ELSE AnswerOf(entry)
                                ELSE answer[c]]
  /\ cache' = IF cached /\ ~disposed THEN entry ELSE cache
  /\ pending' = pending \ {k}
  /\ UNCHANGED <<world, disposed, seen, leader, attempt, before, read, after, since>>

SucceedUnchecked(k) ==
  /\ step[k] = "after" /\ Complete(after[k]) /\ Stable(k)
  /\ Settle(k, [print |-> after[k], ok |-> TRUE, layers |-> read[k]], TRUE)
Succeed(k) ==
  /\ step[k] = "after" /\ Complete(after[k]) /\ Stable(k)
  /\ \A l \in Layers : <<l, read[k][l]>> \notin broken.schema
  /\ Settle(k, [print |-> after[k], ok |-> TRUE, layers |-> read[k]], TRUE)

\* The file tools cache the failure under a fingerprint taken after it; the web tools
\* hand the rejection to the calls that wait and keep nothing.
Fail(k) ==
  /\ step[k] = "failed" /\ (keeps => Complete(after[k]))
  /\ Settle(k, [print |-> after[k], ok |-> FALSE, layers |-> Nothing], keeps)

\* dispose of the provider; the web tools have none.
Dispose ==
  /\ keeps /\ ~disposed
  /\ disposed' = TRUE
  /\ cache' = NoEntry
  /\ pending' = {}
  /\ UNCHANGED <<world, callState, loadState, since>>

-----------------------------------------------------------------------------
LoadStep(k) ==
  \/ \E l \in Layers : StatBefore(k, l) \/ ReadLayer(k, l) \/ StatAfter(k, l)
  \/ Restart(k) \/ Refuse(k) \/ Succeed(k) \/ Fail(k)
CallStep(c) == (\E l \in Layers : Stamp(c, l)) \/ TakeCached(c) \/ Join(c) \/ Lead(c)
ConfigNext ==
  \/ \E l \in Layers : Edit(l)
  \/ \E c \in Calls : Begin(c) \/ CallStep(c) \/ LoadStep(c)
  \/ Dispose
ConfigSpec == ConfigInit /\ [][ConfigNext]_configVars

-----------------------------------------------------------------------------
Versions == [Layers -> Nat]
Prints == [Layers -> Nat \cup {Unread}]
Entries == [print : Prints, ok : BOOLEAN, layers : Prints]
Answers == [ok : BOOLEAN, why : {"none", "config", "shutdown"}, layers : Prints]

\* The types of the loader and of the calls.
ConfigTypeOK ==
  /\ version \in Versions
  /\ broken \in [{"syntax", "schema"} -> SUBSET (Layers \X Nat)]
  /\ keeps \in BOOLEAN /\ disposed \in BOOLEAN
  /\ cache \in Entries /\ pending \subseteq Calls
  /\ pc \in [Calls -> {"idle", "print", "wait", "done"}]
  /\ seen \in [Calls -> Prints] /\ leader \in [Calls -> Calls]
  /\ answer \in [Calls -> Answers]
  /\ step \in [Calls -> {"none", "before", "read", "after", "failed", "ended"}]
  /\ attempt \in [Calls -> 0 .. MaxAttempts]
  /\ before \in [Calls -> Prints] /\ read \in [Calls -> Prints] /\ after \in [Calls -> Prints]
  /\ since \in [Calls -> SUBSET Versions]

\* The configuration a call is given is that of one moment since the call began: its
\* layers were on disk together, as they were read.  Each layer is read on its own, the
\* fingerprints are not atomic either, and the cache and the loads that calls share may
\* be older than the call (config-loader.ts:121, config.ts of the file and web tools).
ConfigOfOneMoment == \A c \in Calls : answer[c].ok => answer[c].layers \in since[c]

\* A call is refused because of the configuration only when a layer was broken at some
\* moment since it began, or while the layers were changing (docs/file-tools/
\* configuration.md:93: after a change the next call loads the configuration again).
RefusedForAReason(c) ==
  answer[c].why = "config" =>
    \/ Cardinality(since[c]) > 1
    \/ \E v \in since[c], l \in Layers : <<l, v[l]>> \in broken.syntax \cup broken.schema
FailuresFollowTheFiles == \A c \in Calls : RefusedForAReason(c)
\* The web tools keep no failure (web-tools/config.ts:50).
KeptFailuresAside == ~keeps => FailuresFollowTheFiles

\* A configuration that was handed out passed both checks.
OnlyValidConfigs ==
  \A c \in Calls : answer[c].ok =>
    \A l \in Layers : <<l, answer[c].layers[l]>> \notin broken.syntax \cup broken.schema

\* What the cache and the loads hand out besides configurations of one moment.
ConfigsSound == ConfigTypeOK /\ OnlyValidConfigs /\ KeptFailuresAside
=============================================================================

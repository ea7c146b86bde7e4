-------------------------- MODULE DiscoveryProofs --------------------------
(* The two caches of discovery, the index of grep and the snapshots of the visibility
   service, and the walk of the workspace.

   The cache of the grep index and the counting of consumers, for any calls, keys
   and versions of the file.  CacheCoherent is not inductive alone: an entry with the
   present stamp holds the present text because a text is read after the stamp it is
   stored under, so stamp, text and file are ordered (BuildOrdered, CacheOrdered).
   The same order shows that no build answers with a text older than itself: a
   current entry of the cache has the stamp the build has walked.

   The caches of the visibility service only hold what was built in the present
   epoch, a snapshot whose stamps match the disk is that of the disk, a call is
   answered with nothing older than its build, and a build nobody waits for is
   stopped: for any number of calls, policies, edits and invalidations.

   The walk yields what is visible and within reach, keeps to its budget, and when it
   runs to its end has missed only what is below a directory it pruned: in any finite
   tree, for any rules.  What is left of its listings has not been reached and is listed
   once (StackExact), what was reached was reached through directories walked into
   (EventsExact), and nothing these hold is forgotten (NothingForgotten).           *)
EXTENDS GrepIndex, Visibility, Traversal, FiniteSetTheorems, TLAPS


Parsing == {"parse", "pool", "again"}

(* What a build has taken: first a stamp, then a text, both no older than it. *)
BuildOrdered ==
  \A b \in Calls :
    /\ build[b].at # "settled" => since[b] <= disk
    /\ build[b].at = "load" => since[b] <= build[b].stamp /\ build[b].stamp <= disk
    /\ build[b].at \in Parsing =>
         /\ since[b] <= build[b].stamp /\ build[b].stamp <= build[b].text
         /\ build[b].text <= disk

CacheOrdered == cache # NoEntry => cache.stamp <= cache.text /\ cache.text <= disk

(* A call that waits has joined a build, a new one has none of its own; a build that is
   not settled has no answer. *)
WaitsForBuild ==
  \A c \in Calls : /\ call[c].at = "waits" => call[c].joined \in Calls
                   /\ call[c].at = "new" => build[c].at = "none"
Unanswered == \A b \in Calls : build[b].at # "settled" => build[b].outcome = NoEntry

IInv ==
  /\ TypeOK /\ WaitsForBuild /\ Unanswered
  /\ BuildOrdered /\ CacheOrdered /\ NoAbandonedBuild

(* The step answers no build with a text older than it. *)
Fresh ==
  \A b \in Calls : build[b].at # "settled" /\ build'[b].outcome \in Versions =>
    build'[b].outcome >= since[b]

CallType == [at : {"new", "waits", "done"}, joined : Calls \union {NoCall}, outcome : Outcomes]

BuildType ==
  [at : {"none", "walk", "load", "parse", "pool", "again", "settled"},
   stamp : Versions, text : Versions, outcome : Outcomes]

-----------------------------------------------------------------------------
LEMMA InitIInv == Init => IInv
<1>. SUFFICES ASSUME Init PROVE IInv
  OBVIOUS
<1>1. 0 \in Versions /\ NewBuild \in BuildType /\ NewCall \in CallType
  BY GrepAssumption DEF Versions, NewBuild, BuildType, NewCall, CallType, Outcomes
<1>2. TypeOK
  BY <1>1 DEF Init, TypeOK, BuildType, CallType
<1>3. WaitsForBuild /\ Unanswered
  BY DEF Init, WaitsForBuild, Unanswered, NewCall, NewBuild
<1>4. BuildOrdered
  BY DEF Init, BuildOrdered, NewBuild, Parsing
<1>5. CacheOrdered
  BY DEF Init, CacheOrdered
<1>6. NoAbandonedBuild
  BY DEF Init, NoAbandonedBuild, NewBuild
<1>. QED
  BY <1>2, <1>3, <1>4, <1>5, <1>6 DEF IInv

(* Where the builds and their ages stay as they are, nothing is answered and the
   order of stamps, texts and file is kept. *)
LEMMA BuildsKept ==
  ASSUME IInv, UNCHANGED <<disk, build, since>>
  PROVE  Unanswered' /\ BuildOrdered' /\ Fresh
<1>1. Unanswered' /\ BuildOrdered'
  BY DEF IInv, Unanswered, BuildOrdered
<1>2. Fresh
  BY EntryAssumption DEF IInv, Unanswered, Fresh
<1>. QED
  BY <1>1, <1>2

(* Where nobody joins or leaves, the consumers stay. *)
LEMMA ConsumersKept ==
  ASSUME call' = call
  PROVE  \A b \in Calls : Consumers(b)' = Consumers(b)
BY DEF Consumers

(* A step that settles a build, with a text that is not too old, and leaves the cache
   ordered *)
LEMMA SettleIInv ==
  ASSUME IInv, NEW b \in Calls, NEW o \in Outcomes, SettleWith(b, o), Reading(b),
         build[b].at # "none", o \in Versions => o >= since[b],
         cache' \in Entries \union {NoEntry}, CacheOrdered'
  PROVE  IInv' /\ Fresh
<1>. USE DEF IInv
<1>. DEFINE r == [NewBuild EXCEPT !.at = "settled", !.outcome = o]
<1>1. 0 \in Versions /\ NewBuild \in BuildType
  BY GrepAssumption DEF Versions, NewBuild, BuildType, Outcomes
<1>2. r \in BuildType /\ r.at = "settled" /\ r.outcome = o
  BY <1>1 DEF BuildType
<1>3. /\ build' \in [Calls -> BuildType] /\ since' \in [Calls -> Versions]
      /\ build'[b].at = "settled" /\ build'[b].outcome = o
      /\ \A d \in Calls \ {b} : build'[d] = build[d] /\ since'[d] = since[d]
  <2>1. build' = [build EXCEPT ![b] = r] /\ since' = [since EXCEPT ![b] = 0]
    BY DEF SettleWith
  <2>. HIDE DEF r
  <2>. QED
    BY <1>1, <1>2, <2>1 DEF TypeOK, BuildType
<1>4. TypeOK'
  BY <1>3 DEF TypeOK, SettleWith, Reading, BuildType
<1>5. WaitsForBuild' /\ \A d \in Calls : Consumers(d)' = Consumers(d)
  BY <1>3, ConsumersKept DEF Reading, WaitsForBuild
<1>6. Unanswered'
  BY <1>3 DEF Unanswered
<1>7. BuildOrdered'
  BY <1>3 DEF BuildOrdered, Reading, Parsing
<1>8. NoAbandonedBuild'
  <2>1. \A d \in Calls \ {b} : (d \in timer => d \in timer')
                              /\ (d \in cancelled => d \in cancelled')
    BY DEF SettleWith
  <2>. QED
    BY <1>3, <1>5, <2>1 DEF NoAbandonedBuild, Reading
<1>9. Fresh
  BY <1>3, EntryAssumption DEF Fresh, Unanswered
<1>. QED
  BY <1>4, <1>5, <1>6, <1>7, <1>8, <1>9

(* A step in which a build goes on *)
LEMMA GoesOnIInv ==
  ASSUME IInv, NEW b \in Calls, Reading(b),
         UNCHANGED <<timer, pending, cancelled, since, cache>>,
         NEW r \in BuildType, build' = [build EXCEPT ![b] = r],
         build[b].at \notin {"none", "settled"}, r.outcome = build[b].outcome,
         r.at = "load" => since[b] <= r.stamp /\ r.stamp <= disk,
         r.at \in Parsing => since[b] <= r.stamp /\ r.stamp <= r.text /\ r.text <= disk
  PROVE  IInv' /\ Fresh
<1>. USE DEF IInv
<1>1. build'[b] = r /\ \A d \in Calls \ {b} : build'[d] = build[d]
  BY DEF TypeOK
<1>2. TypeOK'
  BY DEF TypeOK, Reading, BuildType
<1>3. WaitsForBuild' /\ \A d \in Calls : Consumers(d)' = Consumers(d)
  BY <1>1, ConsumersKept DEF Reading, WaitsForBuild
<1>4. Unanswered' /\ Fresh
  BY <1>1, EntryAssumption DEF Unanswered, Fresh
<1>5. BuildOrdered'
  BY <1>1 DEF BuildOrdered, Reading
<1>6. CacheOrdered'
  BY DEF CacheOrdered, Reading
<1>7. NoAbandonedBuild'
  BY <1>1, <1>3 DEF NoAbandonedBuild, Reading
<1>. QED
  BY <1>2, <1>3, <1>4, <1>5, <1>6, <1>7

-----------------------------------------------------------------------------
(* The walk takes the stamp the file has. *)
LEMMA WalkIInv ==
  ASSUME IInv, NEW b \in Calls, Walk(b)
  PROVE  IInv' /\ Fresh
<1>. USE DEF IInv
<1>1. /\ build[b] \in BuildType /\ build[b].at = "walk" /\ disk \in Versions
      /\ since[b] <= disk /\ disk <= disk /\ Reading(b) /\ cache' = cache
  BY DEF Walk, TypeOK, BuildType, BuildOrdered, Versions
<1>2. CASE SettleWith(b, Aborted)
  <2>1. Aborted \in Outcomes /\ Aborted \notin Versions
    BY EntryAssumption DEF Outcomes
  <2>2. cache' \in Entries \union {NoEntry} /\ CacheOrdered'
    BY <1>1 DEF TypeOK, CacheOrdered, Reading
  <2>. QED
    BY <1>1, <1>2, <2>1, <2>2, SettleIInv
<1>3. CASE /\ build' = [build EXCEPT ![b] = [@ EXCEPT !.at = "load", !.stamp = disk]]
           /\ UNCHANGED <<timer, pending, cancelled, since>>
  <2>. DEFINE r == [build[b] EXCEPT !.at = "load", !.stamp = disk]
  <2>1. r \in BuildType /\ r.at = "load" /\ r.stamp = disk /\ r.outcome = build[b].outcome
    BY <1>1 DEF BuildType
  <2>2. build' = [build EXCEPT ![b] = r]
    BY <1>3
  <2>. HIDE DEF r
  <2>. QED
    BY <1>1, <1>3, <2>1, <2>2, GoesOnIInv DEF Parsing
<1>. QED
  BY <1>2, <1>3 DEF Walk

(* A current entry has the stamp of the walk, and its text is no older; a text is read
   after the walk. *)
LEMMA LoadIInv ==
  ASSUME IInv, NEW b \in Calls, Load(b)
  PROVE  IInv' /\ Fresh
<1>. USE DEF IInv
<1>1. /\ build[b] \in BuildType /\ build[b].at = "load" /\ disk \in Versions
      /\ since[b] \in Versions /\ Reading(b) /\ cache' = cache
      /\ since[b] <= build[b].stamp /\ build[b].stamp <= disk /\ disk <= disk
  BY DEF Load, TypeOK, BuildType, BuildOrdered, Versions
<1>2. cache' \in Entries \union {NoEntry} /\ CacheOrdered'
  BY <1>1 DEF TypeOK, CacheOrdered, Reading
<1>3. CASE SettleWith(b, Aborted)
  <2>1. Aborted \in Outcomes /\ Aborted \notin Versions
    BY EntryAssumption DEF Outcomes
  <2>. QED
    BY <1>1, <1>2, <1>3, <2>1, SettleIInv
<1>4. CASE CacheCurrent(b) /\ SettleWith(b, cache.text)
  <2>1. cache.text \in Versions /\ build[b].stamp \in Versions /\ build[b].stamp <= cache.text
    BY <1>1, <1>4 DEF CacheCurrent, CacheOrdered, TypeOK, Entries, BuildType
  <2>2. cache.text \in Outcomes /\ cache.text >= since[b]
    BY <1>1, <2>1 DEF Outcomes, Versions
  <2>. QED
    BY <1>1, <1>2, <1>4, <2>2, SettleIInv
<1>5. CASE SettleWith(b, disk)
  <2>1. disk \in Outcomes /\ disk >= since[b]
    BY <1>1 DEF Outcomes, Versions, BuildType
  <2>. QED
    BY <1>1, <1>2, <1>5, <2>1, SettleIInv
<1>6. CASE /\ build' = [build EXCEPT ![b] = [@ EXCEPT !.at = "parse", !.text = disk]]
           /\ UNCHANGED <<timer, pending, cancelled, since>>
  <2>. DEFINE r == [build[b] EXCEPT !.at = "parse", !.text = disk]
  <2>1. /\ r \in BuildType /\ r.at = "parse" /\ r.text = disk
        /\ r.stamp = build[b].stamp /\ r.outcome = build[b].outcome
    BY <1>1 DEF BuildType
  <2>2. build' = [build EXCEPT ![b] = r]
    BY <1>6
  <2>. HIDE DEF r
  <2>. QED
    BY <1>1, <1>6, <2>1, <2>2, GoesOnIInv
<1>. QED
  BY <1>3, <1>4, <1>5, <1>6 DEF Load

(* A build that parses stores what it parsed. *)
LEMMA StoreIInv ==
  ASSUME IInv, NEW b \in Calls, build[b].at \in Parsing, Reading(b), Store(b)
  PROVE  IInv' /\ Fresh
<1>. USE DEF IInv
<1>1. /\ build[b].stamp \in Versions /\ build[b].text \in Versions /\ since[b] \in Versions
      /\ since[b] <= build[b].stamp /\ build[b].stamp <= build[b].text /\ build[b].text <= disk
  BY DEF TypeOK, BuildOrdered
<1>2. cache' = [stamp |-> build[b].stamp, text |-> build[b].text]
  BY DEF Store, Entry
<1>3. cache' \in Entries /\ CacheOrdered'
  BY <1>1, <1>2 DEF Entries, CacheOrdered, Reading
<1>4. build[b].text \in Outcomes /\ build[b].text >= since[b] /\ build[b].at # "none"
  BY <1>1 DEF Outcomes, Versions, Parsing
<1>. QED
  BY <1>3, <1>4, SettleIInv DEF Store

(* A parsing build that goes on keeps what it has taken. *)
LEMMA PassOnIInv ==
  ASSUME IInv, NEW b \in Calls, build[b].at \in Parsing, Reading(b), cache' = cache,
         NEW at \in Parsing, BuildGoesOn(b, at)
  PROVE  IInv' /\ Fresh
<1>. USE DEF IInv
<1>. DEFINE r == [build[b] EXCEPT !.at = at]
<1>1. /\ build[b] \in BuildType
      /\ since[b] <= build[b].stamp /\ build[b].stamp <= build[b].text /\ build[b].text <= disk
  BY DEF TypeOK, BuildType, BuildOrdered
<1>2. /\ r \in BuildType /\ r.at = at /\ r.stamp = build[b].stamp
      /\ r.text = build[b].text /\ r.outcome = build[b].outcome
  BY <1>1 DEF BuildType, Parsing
<1>3. build' = [build EXCEPT ![b] = r] /\ UNCHANGED <<timer, pending, cancelled, since>>
  BY DEF BuildGoesOn
<1>4. build[b].at \notin {"none", "settled"} /\ at # "load"
  BY DEF Parsing
<1>. HIDE DEF r
<1>. QED
  BY <1>1, <1>2, <1>3, <1>4, GoesOnIInv

LEMMA ParseIInv ==
  ASSUME IInv, NEW b \in Calls, ParseHere(b) \/ ParseInPool(b) \/ PoolAnswers(b)
  PROVE  IInv' /\ Fresh
<1>1. build[b].at \in Parsing /\ build[b].at # "none" /\ Reading(b)
  BY DEF ParseHere, ParseInPool, PoolAnswers, Parsing
<1>2. CASE SettleWith(b, Aborted) /\ UNCHANGED cache
  <2>1. Aborted \in Outcomes /\ Aborted \notin Versions
    BY EntryAssumption DEF Outcomes
  <2>2. cache' \in Entries \union {NoEntry} /\ CacheOrdered'
    BY <1>1, <1>2 DEF IInv, TypeOK, CacheOrdered, Reading
  <2>. QED
    BY <1>1, <1>2, <2>1, <2>2, SettleIInv
<1>3. CASE Store(b)
  BY <1>1, <1>3, StoreIInv
<1>4. CASE (BuildGoesOn(b, "pool") \/ BuildGoesOn(b, "again")) /\ UNCHANGED cache
  <2>1. "pool" \in Parsing /\ "again" \in Parsing
    BY DEF Parsing
  <2>. QED
    BY <1>1, <1>4, <2>1, PassOnIInv
<1>. QED
  BY <1>2, <1>3, <1>4 DEF ParseHere, ParseInPool, PoolAnswers

-----------------------------------------------------------------------------
(* A build that is created has its creator for a consumer, and is as old as the file. *)
LEMMA JoinIInv ==
  ASSUME IInv, NEW c \in Calls, Join(c)
  PROVE  IInv' /\ Fresh
<1>. USE DEF IInv
<1>1. /\ call[c].at = "new" /\ call[c] \in CallType
      /\ UNCHANGED <<disk, cache, fired, cancelled, disposed>>
  BY DEF Join, TypeOK, CallType
<1>2. CacheOrdered'
  BY <1>1 DEF CacheOrdered
<1>3. CASE /\ call' = [call EXCEPT ![c] = [@ EXCEPT !.at = "done", !.outcome = Aborted]]
           /\ UNCHANGED <<pending, timer, build, since>>
  <2>1. TypeOK'
    BY <1>1, <1>3 DEF TypeOK, CallType, Outcomes
  <2>2. WaitsForBuild' /\ \A b \in Calls : Consumers(b)' = Consumers(b)
    BY <1>1, <1>3 DEF WaitsForBuild, Consumers, TypeOK, CallType
  <2>3. NoAbandonedBuild'
    BY <1>1, <1>3, <2>2 DEF NoAbandonedBuild
  <2>. QED
    BY <1>1, <1>2, <1>3, <2>1, <2>2, <2>3, BuildsKept
<1>4. ASSUME NEW b \in Calls,
             call' = [call EXCEPT ![c] = [@ EXCEPT !.at = "waits", !.joined = b]],
             pending' = [pending EXCEPT ![KeyOf[c]] = b],
             timer' = timer \ {b},
             \/ /\ b = c /\ build' = [build EXCEPT ![c] = [@ EXCEPT !.at = "walk"]]
                /\ since' = [since EXCEPT ![c] = disk]
             \/ b # c /\ UNCHANGED <<build, since>>
      PROVE  IInv' /\ Fresh
  <2>1. /\ call'[c].at = "waits" /\ call'[c].joined = b
        /\ \A d \in Calls \ {c} : call'[d] = call[d]
    BY <1>1, <1>4 DEF TypeOK, CallType
  <2>2. \A d \in Calls \ {c} : build'[d] = build[d] /\ since'[d] = since[d]
    BY <1>4 DEF TypeOK
  <2>3. build[c] \in BuildType
    BY DEF TypeOK, BuildType
  <2>4. /\ build'[c].outcome = build[c].outcome
        /\ \/ build'[c].at = "walk" /\ since'[c] = disk /\ b = c
           \/ build'[c] = build[c] /\ since'[c] = since[c] /\ b # c
    BY <1>4, <2>3 DEF TypeOK, BuildType
  <2>5. TypeOK'
    <3>1. call' \in [Calls -> CallType]
      BY <1>1, <1>4 DEF TypeOK, CallType
    <3>2. build' \in [Calls -> BuildType]
      <4>1. [build[c] EXCEPT !.at = "walk"] \in BuildType
        BY <2>3 DEF BuildType
      <4>. QED
        BY <1>4, <4>1 DEF TypeOK, BuildType
    <3>. QED
      BY <1>1, <1>4, <3>1, <3>2, GrepAssumption DEF TypeOK, CallType, BuildType
  <2>6. WaitsForBuild'
    BY <2>1, <2>2 DEF WaitsForBuild
  <2>7. BuildOrdered'
    <3>1. disk <= disk
      BY DEF TypeOK, Versions
    <3>. QED
      BY <1>1, <2>2, <2>4, <3>1 DEF BuildOrdered, Parsing
  <2>8. NoAbandonedBuild'
    <3>1. c \in Consumers(b)'
      BY <2>1 DEF Consumers
    <3>2. \A d \in Calls \ {b} : Consumers(d)' = Consumers(d)
      BY <1>1, <2>1 DEF Consumers
    <3>3. \A d \in Calls \ {b} : build'[d].at = build[d].at /\ (d \in timer <=> d \in timer')
      BY <1>4, <2>2, <2>4
    <3>. QED
      BY <1>1, <3>1, <3>2, <3>3 DEF NoAbandonedBuild
  <2>9. Unanswered' /\ Fresh
    <3>1. CASE b # c
      BY <1>1, <1>4, <3>1, BuildsKept
    <3>2. CASE b = c
      <4>1. build[c].at # "settled"
        BY <1>1 DEF WaitsForBuild
      <4>. QED
        BY <2>2, <2>4, <4>1, EntryAssumption DEF Unanswered, Fresh
    <3>. QED
      BY <3>1, <3>2
  <2>. QED
    BY <1>2, <2>5, <2>6, <2>7, <2>8, <2>9
<1>. DEFINE b == IF pending[KeyOf[c]] = NoCall THEN c ELSE pending[KeyOf[c]]
<1>5. b \in Calls
  BY GrepAssumption DEF TypeOK
<1>. QED
  BY <1>3, <1>4, <1>5 DEF Join

LEMMA FireIInv ==
  ASSUME IInv, NEW c \in Calls, Fire(c)
  PROVE  IInv' /\ Fresh
<1>. USE DEF IInv
<1>1. UNCHANGED <<disk, cache, pending, call, timer, cancelled, build, disposed, since>>
  BY DEF Fire
<1>2. TypeOK'
  BY DEF Fire, TypeOK
<1>3. WaitsForBuild' /\ CacheOrdered'
  BY <1>1 DEF WaitsForBuild, CacheOrdered
<1>4. NoAbandonedBuild'
  BY <1>1, ConsumersKept DEF NoAbandonedBuild
<1>. QED
  BY <1>1, <1>2, <1>3, <1>4, BuildsKept

(* The last consumer of a build that goes on sets its timer. *)
LEMMA LeaveIInv ==
  ASSUME IInv, NEW c \in Calls, Leave(c)
  PROVE  IInv' /\ Fresh
<1>. USE DEF IInv
<1>. PICK b \in Calls : b = call[c].joined
  BY DEF Leave, WaitsForBuild
<1>1. /\ call[c].at = "waits" /\ call[c] \in CallType /\ build[b] \in BuildType
      /\ UNCHANGED <<disk, cache, pending, fired, cancelled, disposed, since>>
  BY DEF Leave, TypeOK, CallType, BuildType
<1>2. PICK o \in Outcomes :
        call' = [call EXCEPT ![c] = [@ EXCEPT !.at = "done", !.joined = NoCall, !.outcome = o]]
  BY <1>1 DEF Leave, Outcomes, BuildType
<1>3. /\ call' \in [Calls -> CallType] /\ call'[c].at = "done"
      /\ \A d \in Calls \ {c} : call'[d] = call[d]
  BY <1>1, <1>2 DEF TypeOK, CallType
<1>4. /\ timer' = IF Consumers(b) = {c} /\ ~Settle(b) THEN timer \union {b} ELSE timer
      /\ \/ build' = build
         \/ /\ Consumers(b) = {c} /\ Settle(b)
            /\ build' = [build EXCEPT ![b] = [NewBuild EXCEPT !.at = "settled"]]
  BY DEF Leave
<1>5. /\ build' \in [Calls -> BuildType]
      /\ \A d \in Calls : build'[d].at = build[d].at
      /\ \A d \in Calls : build[d].at # "settled" => build'[d] = build[d]
  <2>1. CASE build' = build
    BY <2>1 DEF TypeOK, BuildType
  <2>2. CASE Settle(b) /\ build' = [build EXCEPT ![b] = [NewBuild EXCEPT !.at = "settled"]]
    <3>1. NewBuild \in BuildType
      BY GrepAssumption DEF NewBuild, BuildType, Outcomes, Versions
    <3>2. [NewBuild EXCEPT !.at = "settled"] \in BuildType
          /\ [NewBuild EXCEPT !.at = "settled"].at = "settled"
      BY <3>1 DEF BuildType
    <3>3. build' \in [Calls -> BuildType] /\ build'[b].at = "settled"
          /\ \A d \in Calls \ {b} : build'[d] = build[d]
      BY <1>1, <2>2, <3>2 DEF TypeOK, BuildType
    <3>. QED
      BY <2>2, <3>3 DEF Settle
  <2>. QED
    BY <1>4, <2>1, <2>2
<1>6. TypeOK'
  BY <1>1, <1>3, <1>4, <1>5 DEF TypeOK, CallType, BuildType
<1>7. WaitsForBuild'
  BY <1>3, <1>5 DEF WaitsForBuild
<1>8. Unanswered' /\ Fresh
  BY <1>5, EntryAssumption DEF Unanswered, Fresh
<1>9. BuildOrdered' /\ CacheOrdered'
  BY <1>1, <1>5 DEF BuildOrdered, CacheOrdered, Parsing
<1>10. NoAbandonedBuild'
  <2>1. \A d \in Calls : Consumers(d)' = Consumers(d) \ {c}
    BY <1>3 DEF Consumers
  <2>2. \A d \in Calls \ {b} : c \notin Consumers(d)
    BY DEF Consumers
  <2>3. c \in Consumers(b)
    BY <1>1 DEF Consumers
  <2>4. ASSUME Consumers(b)' = {}, ~Settle(b) PROVE b \in timer'
    <3>1. Consumers(b) = {c}
      BY <2>1, <2>3, <2>4
    <3>. QED
      BY <1>4, <2>4, <3>1
  <2>5. \A d \in Calls \ {b} : Consumers(d)' = Consumers(d) /\ (d \in timer => d \in timer')
    BY <1>4, <2>1, <2>2
  <2>. QED
    BY <1>1, <1>5, <2>4, <2>5 DEF NoAbandonedBuild, Settle
<1>. QED
  BY <1>6, <1>7, <1>8, <1>9, <1>10

(* The timer cancels a build only if nobody has joined it since. *)
LEMMA TimerFiresIInv ==
  ASSUME IInv, NEW b \in Calls, TimerFires(b)
  PROVE  IInv' /\ Fresh
<1>. USE DEF IInv
<1>1. UNCHANGED <<disk, cache, pending, call, fired, build, disposed, since>>
  BY DEF TimerFires
<1>2. TypeOK'
  BY DEF TimerFires, TypeOK
<1>3. WaitsForBuild' /\ CacheOrdered'
  BY <1>1 DEF WaitsForBuild, CacheOrdered
<1>4. \A d \in Calls \ {b} : (d \in timer => d \in timer') /\ (d \in cancelled => d \in cancelled')
  BY DEF TimerFires
<1>5. Consumers(b) = {} /\ ~Settle(b) => b \in cancelled'
  BY DEF TimerFires
<1>6. NoAbandonedBuild'
  BY <1>1, <1>4, <1>5, ConsumersKept DEF NoAbandonedBuild, Settle
<1>. QED
  BY <1>1, <1>2, <1>3, <1>6, BuildsKept

LEMMA DisposeIInv ==
  ASSUME IInv, Dispose
  PROVE  IInv' /\ Fresh
<1>. USE DEF IInv
<1>1. UNCHANGED <<disk, call, build, since>> /\ disposed' = TRUE /\ cache' = NoEntry
  BY DEF Dispose
<1>2. {pending[k] : k \in Keys} \ {NoCall} \subseteq Calls
  BY DEF TypeOK
<1>3. TypeOK'
  BY <1>2 DEF Dispose, TypeOK
<1>4. WaitsForBuild' /\ CacheOrdered' /\ NoAbandonedBuild'
  BY <1>1 DEF WaitsForBuild, CacheOrdered, NoAbandonedBuild
<1>. QED
  BY <1>1, <1>3, <1>4, BuildsKept

(* The file only gets newer. *)
LEMMA WriteIInv ==
  ASSUME IInv, Write
  PROVE  IInv' /\ Fresh
<1>. USE DEF IInv
<1>1. /\ UNCHANGED <<cache, pending, call, fired, timer, cancelled, build, disposed, since>>
      /\ disk \in Versions /\ disk' \in Versions /\ disk' = disk + 1
  BY GrepAssumption DEF Write, TypeOK, Versions
<1>2. TypeOK'
  BY <1>1 DEF TypeOK
<1>3. WaitsForBuild' /\ Unanswered' /\ Fresh
  BY <1>1, EntryAssumption DEF WaitsForBuild, Unanswered, Fresh
<1>4. \A v \in Versions : v <= disk => v <= disk'
  BY <1>1 DEF Versions
<1>5. BuildOrdered'
  <2>1. \A d \in Calls : /\ build[d].stamp \in Versions /\ build[d].text \in Versions
                         /\ since[d] \in Versions
    BY DEF TypeOK
  <2>. QED
    BY <1>1, <1>4, <2>1 DEF BuildOrdered
<1>6. CacheOrdered'
  BY <1>1, <1>4 DEF CacheOrdered, TypeOK, Entries
<1>7. NoAbandonedBuild'
  BY <1>1, ConsumersKept DEF NoAbandonedBuild
<1>. QED
  BY <1>2, <1>3, <1>5, <1>6, <1>7

-----------------------------------------------------------------------------
LEMMA NextIInv == IInv /\ [Next]_vars => IInv' /\ (Next => Fresh)
<1>. SUFFICES ASSUME IInv, [Next]_vars PROVE IInv' /\ (Next => Fresh)
  OBVIOUS
<1>1. CASE UNCHANGED vars
  <2>1. IInv'
    BY <1>1 DEF vars, IInv, TypeOK, WaitsForBuild, Unanswered, BuildOrdered, CacheOrdered,
                NoAbandonedBuild, Consumers
  <2>2. Fresh
    BY <1>1, BuildsKept DEF vars
  <2>. QED
    BY <2>1, <2>2
<1>2. ASSUME NEW c \in Calls, Join(c) \/ Fire(c) \/ Leave(c) \/ TimerFires(c) \/ BuildStep(c)
      PROVE  IInv' /\ Fresh
  BY <1>2, JoinIInv, FireIInv, LeaveIInv, TimerFiresIInv, WalkIInv, LoadIInv, ParseIInv
     DEF BuildStep
<1>3. CASE Dispose
  BY <1>3, DisposeIInv
<1>4. CASE Write
  BY <1>4, WriteIInv
<1>. QED
  BY <1>1, <1>2, <1>3, <1>4 DEF Next

LEMMA SpecIInv == Spec => []IInv
<1>1. Init => IInv
  BY InitIInv
<1>2. IInv /\ [Next]_vars => IInv'
  BY NextIInv
<1>. QED
  BY <1>1, <1>2, PTL DEF Spec

(* Types of the index, for any calls, keys and number of versions. *)
THEOREM TypeCorrect == Spec => []TypeOK
<1>1. IInv => TypeOK
  BY DEF IInv
<1>. QED
  BY <1>1, SpecIInv, PTL

(* prepareFile may trust an entry with the file's stamp unread: whatever builds of any
   keys stored in whatever order, it holds the file's text. *)
THEOREM CacheIsCoherent == Spec => []CacheCoherent
<1>1. IInv => CacheCoherent
  <2>. SUFFICES ASSUME TypeOK, CacheOrdered, cache # NoEntry, cache.stamp = disk
                PROVE  cache.text = disk
    BY DEF IInv, CacheCoherent
  <2>1. cache.text \in Versions /\ disk \in Versions /\ disk <= cache.text /\ cache.text <= disk
    BY DEF TypeOK, CacheOrdered, Entries
  <2>. QED
    BY <2>1 DEF Versions
<1>. QED
  BY <1>1, SpecIInv, PTL

(* No build is left running without a consumer, a timer or an abort on its way, for any
   number of consumers that join and leave. *)
THEOREM NothingAbandoned == Spec => []NoAbandonedBuild
<1>1. IInv => NoAbandonedBuild
  BY DEF IInv
<1>. QED
  BY <1>1, SpecIInv, PTL

(* No build answers with a text older than its creation. *)
THEOREM AnswersAreFresh == Spec => AnswersNotBeforeBuild
<1>1. IInv /\ [Next]_vars =>
        [\A b \in Calls : build[b].at # "settled" /\ build'[b].outcome \in Versions =>
           build'[b].outcome >= since[b]]_vars
  BY NextIInv DEF Fresh
<1>. QED
  BY <1>1, SpecIInv, PTL DEF Spec, AnswersNotBeforeBuild

---------------------------------------------------------------------------
(* The snapshots of the visibility service. *)

(* The parts of the type that the argument needs: the cache is a function. *)
CacheIsFunction == snapCache = [p \in Policies |-> snapCache[p]]

(* The git loader has a new epoch only when the service has a new generation. *)
GitEpochBehind == epoch \in Nat /\ gitEpoch \in 0..epoch

EpochInv == CacheIsFunction /\ EntriesOfThisEpoch /\ GitEpochBehind

(* Steps that touch neither the caches nor the epochs. *)
Untouched == UNCHANGED <<snapCache, epoch, gitCache, gitEpoch>>

LEMMA UntouchedKeeps == EpochInv /\ Untouched => EpochInv'
  BY DEF EpochInv, CacheIsFunction, EntriesOfThisEpoch, GitEpochBehind, Untouched

LEMMA InvalidationKeeps == EpochInv /\ (InvalidateWorkspace \/ InvalidateAll) => EpochInv'
<1> SUFFICES ASSUME EpochInv, InvalidateWorkspace \/ InvalidateAll PROVE EpochInv'
  OBVIOUS
<1>1. snapCache' = [p \in Policies |-> NoSnapshot]
  BY DEF InvalidateWorkspace, InvalidateAll
<1>2. gitCache' = NoSnapshot \/ (gitCache' = gitCache /\ gitEpoch' = gitEpoch)
  BY DEF InvalidateWorkspace, InvalidateAll
<1>3. GitEpochBehind'
  BY DEF InvalidateWorkspace, InvalidateAll, EpochInv, GitEpochBehind
<1> QED BY <1>1, <1>2, <1>3 DEF EpochInv, CacheIsFunction, EntriesOfThisEpoch

(* A build writes its entry only under the epoch it was created in. *)
LEMMA CompileKeeps ==
  ASSUME NEW b \in Requests, EpochInv, Compile(b) PROVE EpochInv'
<1>1. UNCHANGED <<epoch, gitCache, gitEpoch>>
  BY DEF Compile, gitVars
<1>2. CASE ~IsCurrent(b)
  <2>1. snapCache' = snapCache BY <1>2 DEF Compile
  <2> QED BY <1>1, <2>1, UntouchedKeeps DEF Untouched
<1>3. CASE IsCurrent(b)
  <2>1. PICK e : e.born = snapBuild[b].born /\ snapCache' = [snapCache EXCEPT ![PolicyOf[b]] = e]
    <3> DEFINE e == snapBuild[b].base
               new == [snapBuild[b].got EXCEPT !["rules"] = world["rules"]]
               snapshot == IF e # NoSnapshot /\ SameFingerprint(e, b) THEN e.snapshot ELSE new
               entry == [snapshot |-> snapshot, mark |-> snapBuild[b].mark, tree |-> snapBuild[b].tree,
                         rules |-> snapBuild[b].rules, born |-> snapBuild[b].born]
    <3>1. snapCache' = [snapCache EXCEPT ![PolicyOf[b]] = entry]
      BY <1>3 DEF Compile
    <3>2. entry.born = snapBuild[b].born OBVIOUS
    <3> QED BY <3>1, <3>2
  <2>2. e.born = epoch BY <1>3, <2>1 DEF IsCurrent
  <2> QED BY <1>1, <2>1, <2>2 DEF EpochInv, CacheIsFunction, EntriesOfThisEpoch, GitEpochBehind
<1> QED BY <1>2, <1>3

(* So does a git load. *)
LEMMA LoadKeeps ==
  ASSUME NEW l \in Requests, NEW half, EpochInv, LoadRead(l, half) PROVE EpochInv'
<1>1. UNCHANGED <<snapCache, epoch, gitEpoch>>
  BY DEF LoadRead, cacheVars
<1>2. \/ gitCache' = gitCache
      \/ \E r : gitEpoch = r.born /\ gitCache' = [mark |-> r.mark, paths |-> r.paths, born |-> r.born]
  BY DEF LoadRead
<1>3. gitCache' # NoSnapshot => gitCache'.born = gitEpoch
  BY <1>2 DEF EpochInv, EntriesOfThisEpoch
<1> QED BY <1>1, <1>3 DEF EpochInv, CacheIsFunction, EntriesOfThisEpoch, GitEpochBehind

LEMMA BuildStepKeeps ==
  ASSUME NEW b \in Requests, EpochInv, SnapshotStep(b) PROVE EpochInv'
<1>1. CASE Compile(b) BY <1>1, CompileKeeps
<1>2. CASE BuildAborted(b) BY <1>2, UntouchedKeeps DEF BuildAborted, Untouched, gitVars
<1>3. CASE ReadMarker(b) BY <1>3, UntouchedKeeps DEF ReadMarker, Untouched, Step, cacheVars
<1>4. CASE ReadState(b) BY <1>4, UntouchedKeeps DEF ReadState, Untouched, Step, cacheVars
<1>5. CASE TakeLoad(b) BY <1>5, UntouchedKeeps DEF TakeLoad, Untouched
<1>6. CASE CheckStamps(b) BY <1>6, UntouchedKeeps DEF CheckStamps, Untouched, gitVars
<1>7. CASE ListDirectory(b) \/ StampDirectory(b) \/ StampRuleFiles(b)
  BY <1>7, UntouchedKeeps
  DEF ListDirectory, StampDirectory, StampRuleFiles, Untouched, Step, cacheVars, gitVars
<1> QED BY <1>1, <1>2, <1>3, <1>4, <1>5, <1>6, <1>7 DEF SnapshotStep

LEMMA EpochInductive == EpochInv /\ [VisNext]_visVars => EpochInv'
<1> SUFFICES ASSUME EpochInv, [VisNext]_visVars PROVE EpochInv'
  OBVIOUS
<1>1. CASE UNCHANGED visVars BY <1>1, UntouchedKeeps DEF Untouched, visVars
<1>2. ASSUME NEW c \in Requests, CreateSnapshot(c) \/ CancelCall(c) PROVE EpochInv'
  BY <1>2, UntouchedKeeps DEF CreateSnapshot, CancelCall, Untouched, gitVars, cacheVars
<1>3. ASSUME NEW c \in Requests, AbandonBuild(c) \/ AbandonLoad(c) PROVE EpochInv'
  BY <1>3, UntouchedKeeps DEF AbandonBuild, AbandonLoad, Untouched, gitVars, cacheVars
<1>4. ASSUME NEW c \in Requests, SnapshotStep(c) PROVE EpochInv'
  BY <1>4, BuildStepKeeps
<1>5. ASSUME NEW c \in Requests, LoadStep(c) PROVE EpochInv'
  <2>1. CASE LoadAborted(c) BY <2>1, UntouchedKeeps DEF LoadAborted, Untouched, cacheVars
  <2>2. CASE \E half \in {"paths", "state"} : LoadRead(c, half) BY <2>2, LoadKeeps
  <2> QED BY <1>5, <2>1, <2>2 DEF LoadStep
<1>6. CASE InvalidateWorkspace \/ InvalidateAll BY <1>6, InvalidationKeeps
<1>7. ASSUME NEW part \in Parts, Edit(part) PROVE EpochInv'
  BY <1>7, UntouchedKeeps DEF Edit, Untouched, gitVars, cacheVars
<1> QED BY <1>1, <1>2, <1>3, <1>4, <1>5, <1>6, <1>7 DEF VisNext

(* Whatever was invalidated while it ran, the caches hold nothing of it: isCurrent
   of service.ts and the epoch of git-tracked-files.ts. *)
THEOREM OldEpochsStayOut == VisSpec => []EntriesOfThisEpoch
<1>1. VisInit => EpochInv
  BY DEF VisInit, EpochInv, CacheIsFunction, EntriesOfThisEpoch, GitEpochBehind
<1>2. EpochInv => EntriesOfThisEpoch BY DEF EpochInv
<1> QED BY <1>1, <1>2, EpochInductive, PTL DEF VisSpec

-----------------------------------------------------------------------------
(* The inductive invariant of what is cached: the marker is read before the tracked
   paths, and the stamps of the rule files before their texts; neither is newer than
   the disk. *)
Sound(e) ==
  /\ e.mark.marker <= e.snapshot["git"] /\ e.snapshot["git"] <= world["git"]
  /\ e.rules <= e.snapshot["rules"] /\ e.snapshot["rules"] <= world["rules"]

EntriesInv ==
  /\ \A p \in Policies : snapCache[p] # NoSnapshot => Sound(snapCache[p])
  /\ gitCache # NoSnapshot =>
       gitCache.mark.marker <= gitCache.paths /\ gitCache.paths <= world["git"]

LoadsInv ==
  \A l \in Requests :
    /\ load[l].mark.marker <= world["git"] /\ load[l].paths <= world["git"]
    /\ "paths" \notin load[l].todo => load[l].mark.marker <= load[l].paths
    /\ load[l].at = "settled" => load[l].todo = {}

(* A build that has its tracked paths knows a marker that is not older than the build,
   unless it took those of a load that was under way. *)
Underway == {"state", "check", "scan", "listed", "stamped", "files", "compile"}
BuildOK(b) ==
  LET r == snapBuild[b] IN
  /\ r.mark.marker <= r.got["git"] /\ r.got["git"] <= world["git"] /\ r.rules <= world["rules"]
  /\ r.since["git"] <= world["git"] /\ r.since["rules"] <= world["rules"]
  /\ r.base # NoSnapshot => Sound(r.base)
  /\ r.at \in Underway /\ ~Linked => r.since["git"] <= r.mark.marker
  /\ r.at = "compile" => r.since["rules"] <= r.rules
  /\ r.at = "git" =>
       /\ r.load \in Requests
       /\ r.load # b => r.since["git"] = 0
       /\ r.load = b /\ load[b].at \in {"reads", "settled"} /\ ~Linked =>
            r.since["git"] <= load[b].mark.marker

BuildsInv == \A b \in Requests : BuildOK(b)
JoinedInv == \A c \in Requests : request[c].at = "waits" => request[c].joined \in Requests

VisInv == VisTypeOK /\ EntriesInv /\ LoadsInv /\ BuildsInv /\ JoinedInv

-----------------------------------------------------------------------------
(* What a step leaves as it was stays sound: versions only grow. *)

Others(b) == \A d \in Requests \ {b} : snapBuild'[d] = snapBuild[d]
Grows == world \in Disks /\ world' \in Disks /\ \A p \in Parts : world[p] <= world'[p]

\* Whether it has been told to stop or not, a build has read what it has read.
Undisturbed(d) ==
  /\ snapBuild'[d].mark = snapBuild[d].mark /\ snapBuild'[d].got = snapBuild[d].got
  /\ snapBuild'[d].rules = snapBuild[d].rules /\ snapBuild'[d].since = snapBuild[d].since
  /\ snapBuild'[d].base = snapBuild[d].base /\ snapBuild'[d].at = snapBuild[d].at
  /\ snapBuild'[d].load = snapBuild[d].load

\* A load that a build waits for is read under the marker it was begun with.
LoadStays(d) ==
  load'[d].at \in {"reads", "settled"} =>
    load[d].at \in {"reads", "settled"} /\ load'[d].mark.marker = load[d].mark.marker

LEMMA DisksAreNumbers ==
  /\ \A d \in Disks : d["git"] \in Nat /\ d["tree"] \in Nat /\ d["rules"] \in Nat
  /\ \A m \in Marks : m.marker \in Nat /\ m.state \in Nat
  BY VisibilityAssumption DEF Disks, Parts, Marks

LEMMA PartIsSet ==
  ASSUME NEW d \in Disks, NEW p \in Parts, NEW n \in 0..MaxEdits
  PROVE  [d EXCEPT ![p] = n] \in Disks /\ [d EXCEPT ![p] = n][p] = n
  BY DEF Disks

LEMMA NewIsTyped ==
  NewMark \in Marks /\ NewLoad \in Loads /\ Zero \in Disks /\ NewSnapBuild \in SnapBuilds
<1>1. NewMark \in Marks /\ Zero \in Disks
  BY VisibilityAssumption DEF NewMark, Marks, Zero, Disks
<1>2. NewLoad \in Loads
  BY <1>1, VisibilityAssumption DEF NewLoad, Loads, Endings
<1>3. NewSnapBuild \in SnapBuilds
  BY <1>1, VisibilityAssumption DEF NewSnapBuild, SnapBuilds, Endings, Snapshots
<1> QED BY <1>1, <1>2, <1>3

LEMMA StampsAreNumbers ==
  ASSUME NEW e \in SnapEntries
  PROVE  /\ e.mark \in Marks /\ e.mark.marker \in Nat /\ e.rules \in Nat /\ e.tree \in Nat
         /\ e.snapshot \in Disks /\ e.snapshot["git"] \in Nat /\ e.snapshot["rules"] \in Nat
  BY DisksAreNumbers, VisibilityAssumption DEF SnapEntries, Snapshots

LEMMA BuildsAreTyped ==
  ASSUME NEW r \in SnapBuilds
  PROVE  /\ r.mark \in Marks /\ r.mark.marker \in Nat /\ r.rules \in Nat /\ r.tree \in Nat
         /\ r.since \in Disks /\ r.since["git"] \in Nat /\ r.since["rules"] \in Nat
         /\ r.got \in Disks /\ r.got["git"] \in Nat
         /\ r.base # NoSnapshot => r.base \in SnapEntries
  BY DisksAreNumbers, VisibilityAssumption DEF SnapBuilds, Snapshots

LEMMA LoadsAreTyped ==
  ASSUME NEW r \in Loads PROVE r.mark \in Marks /\ r.mark.marker \in Nat /\ r.paths \in Nat
  BY DisksAreNumbers, VisibilityAssumption DEF Loads

LEMMA WorldGrows ==
  ASSUME Grows
  PROVE  /\ world["git"] \in Nat /\ world'["git"] \in Nat /\ world["git"] <= world'["git"]
         /\ world["rules"] \in Nat /\ world'["rules"] \in Nat /\ world["rules"] <= world'["rules"]
  BY DisksAreNumbers DEF Grows, Parts

LEMMA SoundGrows ==
  ASSUME Grows, NEW e \in SnapEntries, Sound(e)
  PROVE  /\ e.mark.marker <= e.snapshot["git"] /\ e.snapshot["git"] <= world'["git"]
         /\ e.rules <= e.snapshot["rules"] /\ e.snapshot["rules"] <= world'["rules"]
  BY WorldGrows, StampsAreNumbers DEF Sound

LEMMA SameWorld == ASSUME VisInv, UNCHANGED world PROVE Grows
<1>1. world \in Disks
  BY DEF VisInv, VisTypeOK
<1> QED BY <1>1, DisksAreNumbers DEF Grows, Parts

LEMMA BuildStays ==
  ASSUME VisInv, Grows, NEW d \in Requests, Undisturbed(d), LoadStays(d)
  PROVE  BuildOK(d)'
<1>0. PICK r \in SnapBuilds : snapBuild[d] = r
  BY DEF VisInv, VisTypeOK
<1>1. BuildOK(d)
  BY DEF VisInv, BuildsInv
<1>2. r.base # NoSnapshot => Sound(r.base)'
  BY <1>0, <1>1, BuildsAreTyped, SoundGrows DEF BuildOK, Sound
<1>3. /\ r.mark.marker <= r.got["git"] /\ r.got["git"] <= world'["git"] /\ r.rules <= world'["rules"]
      /\ r.since["git"] <= world'["git"] /\ r.since["rules"] <= world'["rules"]
  BY <1>0, <1>1, BuildsAreTyped, WorldGrows DEF BuildOK
<1>4. /\ r.at \in Underway /\ ~Linked => r.since["git"] <= r.mark.marker
      /\ r.at = "compile" => r.since["rules"] <= r.rules
      /\ r.at = "git" =>
           /\ r.load \in Requests
           /\ r.load # d => r.since["git"] = 0
           /\ r.load = d /\ load'[d].at \in {"reads", "settled"} /\ ~Linked =>
                r.since["git"] <= load'[d].mark.marker
  BY <1>0, <1>1 DEF BuildOK, LoadStays
<1>5. /\ snapBuild'[d].mark = r.mark /\ snapBuild'[d].got = r.got /\ snapBuild'[d].rules = r.rules
      /\ snapBuild'[d].since = r.since /\ snapBuild'[d].base = r.base
      /\ snapBuild'[d].at = r.at /\ snapBuild'[d].load = r.load
  BY <1>0 DEF Undisturbed
<1> QED BY <1>2, <1>3, <1>4, <1>5 DEF BuildOK

LEMMA EntriesStay == ASSUME VisInv, Grows, UNCHANGED <<snapCache, gitCache>> PROVE EntriesInv'
<1>1. ASSUME NEW p \in Policies, snapCache[p] # NoSnapshot PROVE Sound(snapCache[p])'
  <2>1. snapCache[p] \in SnapEntries /\ Sound(snapCache[p])
    BY <1>1 DEF VisInv, VisTypeOK, EntriesInv
  <2> QED BY <2>1, SoundGrows DEF Sound
<1>2. ASSUME gitCache # NoSnapshot
      PROVE  gitCache.mark.marker <= gitCache.paths /\ gitCache.paths <= world'["git"]
  <2>1. gitCache.paths \in Nat
    BY <1>2, VisibilityAssumption DEF VisInv, VisTypeOK, GitEntries
  <2> QED BY <1>2, <2>1, WorldGrows DEF VisInv, EntriesInv
<1> QED BY <1>1, <1>2 DEF EntriesInv

LEMMA LoadsStay == ASSUME VisInv, Grows, UNCHANGED load PROVE LoadsInv'
<1>1. load \in [Requests -> Loads]
  BY DEF VisInv, VisTypeOK
<1> QED BY <1>1, LoadsAreTyped, WorldGrows DEF VisInv, LoadsInv

(* A build that goes on by itself. *)
OtherParts == <<world, snapCache, gitCache, epoch, gitEpoch, request, pendingSnap>>
LEMMA SnapshotBuildGoesOn ==
  ASSUME VisInv, NEW b \in Requests, UNCHANGED OtherParts, UNCHANGED <<load, loading, abortTimer>>,
         snapBuild' \in [Requests -> SnapBuilds], Others(b), BuildOK(b)'
  PROVE  VisInv'
<1>1. UNCHANGED <<world, snapCache, gitCache, epoch, gitEpoch, request, pendingSnap>> /\ Grows
  BY SameWorld DEF OtherParts
<1>2. VisTypeOK' /\ JoinedInv'
  BY <1>1 DEF VisInv, VisTypeOK, JoinedInv
<1>3. EntriesInv' /\ LoadsInv'
  BY <1>1, EntriesStay, LoadsStay
<1>4. \A d \in Requests \ {b} : BuildOK(d)'
  BY <1>1, BuildStays DEF Others, LoadStays, Undisturbed
<1> QED BY <1>2, <1>3, <1>4 DEF VisInv, BuildsInv

LEMMA VisListDirectory == ASSUME VisInv, NEW b \in Requests, ListDirectory(b) PROVE VisInv'
<1>1. /\ snapBuild \in [Requests -> SnapBuilds] /\ world \in Disks
  BY DEF VisInv, VisTypeOK
<1>2. snapBuild' \in [Requests -> SnapBuilds] /\ Others(b)
  BY <1>1 DEF ListDirectory, SnapBuilds, At, Snapshots, Disks, Parts, Others
<1>3. /\ snapBuild'[b].got["git"] = snapBuild[b].got["git"] /\ snapBuild'[b].mark = snapBuild[b].mark
      /\ snapBuild'[b].base = snapBuild[b].base /\ snapBuild'[b].since = snapBuild[b].since
      /\ snapBuild'[b].rules = snapBuild[b].rules
      /\ snapBuild[b].at \in {"scan", "stamped"} /\ snapBuild'[b].at \in {"listed", "files"}
  BY <1>1 DEF ListDirectory, SnapBuilds, At, Snapshots, Disks, Parts
<1>4. UNCHANGED OtherParts /\ UNCHANGED <<load, loading, abortTimer>>
  BY DEF ListDirectory, Step, OtherParts, cacheVars, gitVars
<1>5. BuildOK(b)
  BY DEF VisInv, BuildsInv
<1>6. BuildOK(b)'
  BY <1>3, <1>4, <1>5 DEF BuildOK, Sound, OtherParts, Underway
<1> QED BY <1>2, <1>4, <1>6, SnapshotBuildGoesOn

LEMMA VisStampDirectory == ASSUME VisInv, NEW b \in Requests, StampDirectory(b) PROVE VisInv'
<1>1. /\ snapBuild \in [Requests -> SnapBuilds] /\ world \in Disks
  BY DEF VisInv, VisTypeOK
<1>2. snapBuild' \in [Requests -> SnapBuilds] /\ Others(b)
  BY <1>1 DEF StampDirectory, SnapBuilds, At, Disks, Parts, Others
<1>3. /\ snapBuild'[b].got = snapBuild[b].got /\ snapBuild'[b].mark = snapBuild[b].mark
      /\ snapBuild'[b].base = snapBuild[b].base /\ snapBuild'[b].since = snapBuild[b].since
      /\ snapBuild'[b].rules = snapBuild[b].rules
      /\ snapBuild[b].at \in {"scan", "listed"} /\ snapBuild'[b].at \in {"stamped", "files"}
  BY <1>1 DEF StampDirectory, SnapBuilds, At
<1>4. UNCHANGED OtherParts /\ UNCHANGED <<load, loading, abortTimer>>
  BY DEF StampDirectory, Step, OtherParts, cacheVars, gitVars
<1>5. BuildOK(b)
  BY DEF VisInv, BuildsInv
<1>6. BuildOK(b)'
  BY <1>3, <1>4, <1>5 DEF BuildOK, Sound, OtherParts, Underway
<1> QED BY <1>2, <1>4, <1>6, SnapshotBuildGoesOn

LEMMA VisStampRuleFiles == ASSUME VisInv, NEW b \in Requests, StampRuleFiles(b) PROVE VisInv'
<1>1. /\ snapBuild \in [Requests -> SnapBuilds] /\ world \in Disks /\ world["rules"] \in Nat
  BY DisksAreNumbers DEF VisInv, VisTypeOK
<1>2. snapBuild' \in [Requests -> SnapBuilds] /\ Others(b)
  BY <1>1 DEF StampRuleFiles, SnapBuilds, At, Disks, Parts, Others
<1>3. /\ snapBuild'[b].got = snapBuild[b].got /\ snapBuild'[b].mark = snapBuild[b].mark
      /\ snapBuild'[b].base = snapBuild[b].base /\ snapBuild'[b].since = snapBuild[b].since
      /\ snapBuild'[b].rules = world["rules"]
      /\ snapBuild[b].at = "files" /\ snapBuild'[b].at = "compile"
  BY <1>1 DEF StampRuleFiles, SnapBuilds, At
<1>4. UNCHANGED OtherParts /\ UNCHANGED <<load, loading, abortTimer>>
  BY DEF StampRuleFiles, Step, OtherParts, cacheVars, gitVars
<1>5. BuildOK(b)
  BY DEF VisInv, BuildsInv
<1>6. BuildOK(b)'
  BY <1>1, <1>3, <1>4, <1>5 DEF BuildOK, Sound, OtherParts, Underway
<1> QED BY <1>2, <1>4, <1>6, SnapshotBuildGoesOn

(* A build that has its tracked paths looks up the cached snapshot of its policy. *)
LEMMA TrackedIsOK ==
  ASSUME VisInv, NEW b \in Requests, NEW m \in Marks, NEW n \in 0..MaxEdits, Tracked(b, m, n),
         UNCHANGED world, m.marker <= n, n <= world["git"],
         ~Linked => snapBuild[b].since["git"] <= m.marker
  PROVE  snapBuild' \in [Requests -> SnapBuilds] /\ Others(b) /\ BuildOK(b)'
<1>1. /\ snapBuild \in [Requests -> SnapBuilds] /\ PolicyOf[b] \in Policies
      /\ snapCache \in [Policies -> SnapEntries \union {NoSnapshot}]
  BY VisibilityAssumption DEF VisInv, VisTypeOK
<1>2. PICK e \in SnapEntries \union {NoSnapshot} : snapCache[PolicyOf[b]] = e
  BY <1>1
<1>3. e # NoSnapshot => Sound(e)
  BY <1>1, <1>2 DEF VisInv, EntriesInv
<1>4. PICK x \in SnapBuilds : x = snapBuild[b]
  BY <1>1
<1> DEFINE g == [x.got EXCEPT !["git"] = n]
           r == [x EXCEPT !.at = "check", !.mark = m, !.got = g, !.load = NoRequest, !.base = e]
<1>5. snapBuild' = [snapBuild EXCEPT ![b] = r]
  BY <1>2, <1>4 DEF Tracked
<1>6. /\ r \in SnapBuilds /\ r.at = "check" /\ r.mark = m /\ r.got["git"] = n /\ r.base = e
      /\ r.since = x.since /\ r.rules = x.rules
  <2>1. g \in Snapshots /\ g["git"] = n
    BY PartIsSet DEF SnapBuilds, Snapshots, Parts
  <2> HIDE DEF g
  <2>2. r \in SnapBuilds
    BY <2>1 DEF SnapBuilds
  <2>3. /\ r.at = "check" /\ r.mark = m /\ r.got = g /\ r.base = e
        /\ r.since = x.since /\ r.rules = x.rules
    BY DEF SnapBuilds
  <2> QED BY <2>1, <2>2, <2>3
<1> HIDE DEF g, r
<1>7. snapBuild'[b] = r /\ snapBuild' \in [Requests -> SnapBuilds] /\ Others(b)
  BY <1>1, <1>5, <1>6 DEF Others
<1>8. BuildOK(b)
  BY DEF VisInv, BuildsInv
<1>9. BuildOK(b)'
  BY <1>3, <1>4, <1>6, <1>7, <1>8 DEF BuildOK, Sound, Underway
<1> QED BY <1>7, <1>9

(* A build that waits for the tracked paths of another load has the rest of the disk to itself. *)
LEMMA JoinLoadIsOK ==
  ASSUME VisInv, NEW b \in Requests, NEW m \in 0..MaxEdits, JoinLoad(b, m), Step(b),
         UNCHANGED <<gitCache, gitEpoch>>,
         m <= world["git"], ~Linked => snapBuild[b].since["git"] <= m
  PROVE  VisInv'
<1> DEFINE l == IF loading = NoRequest THEN b ELSE loading
           new == [NewLoad EXCEPT !.at = "reads", !.born = gitEpoch, !.mark.marker = m,
                                  !.todo = {"paths", "state"}]
<1>1. /\ snapBuild \in [Requests -> SnapBuilds] /\ load \in [Requests -> Loads]
      /\ l \in Requests /\ gitEpoch \in 0..MaxInvalid
  BY DEF VisInv, VisTypeOK
<1>2. UNCHANGED OtherParts /\ Grows /\ world["git"] \in Nat
  BY SameWorld, WorldGrows DEF Step, OtherParts, cacheVars
<1>3. PICK x \in SnapBuilds : x = snapBuild[b]
  BY <1>1
<1> DEFINE n == IF l = b THEN x.since["git"] ELSE 0
           s == [x.since EXCEPT !["git"] = n]
           r == [x EXCEPT !.at = "git", !.load = l, !.mark = NewMark, !.got = Zero, !.since = s]
<1>4. /\ snapBuild' = [snapBuild EXCEPT ![b] = r]
      /\ loading' = l /\ abortTimer' = abortTimer \ {<<"load", l>>}
      /\ load' = IF l # b THEN load ELSE [load EXCEPT ![b] = new]
  BY <1>3 DEF JoinLoad
<1>5. /\ new \in Loads /\ new.mark.marker = m /\ new.paths = 0 /\ new.todo = {"paths", "state"}
      /\ new.at = "reads"
  <2>1. PICK w \in Loads : w = NewLoad /\ w.paths = 0
    BY NewIsTyped DEF NewLoad
  <2>2. new = [w EXCEPT !.at = "reads", !.born = gitEpoch, !.mark.marker = m,
                        !.todo = {"paths", "state"}]
    BY <2>1
  <2> HIDE DEF new
  <2> QED BY <1>1, <2>1, <2>2 DEF Loads, Marks
<1>6. NewMark \in Marks /\ NewMark.marker = 0 /\ Zero \in Disks /\ Zero["git"] = 0
  BY VisibilityAssumption DEF NewMark, Marks, Zero, Disks, Parts
<1>7. /\ r \in SnapBuilds /\ r.at = "git" /\ r.load = l /\ r.mark = NewMark /\ r.got = Zero
      /\ r.since["git"] = n /\ r.since["rules"] = x.since["rules"]
      /\ r.base = x.base /\ r.rules = x.rules
  <2>1. s \in Disks /\ s["git"] = n /\ s["rules"] = x.since["rules"]
    <3>1. n \in 0..MaxEdits
      BY VisibilityAssumption DEF SnapBuilds, Disks, Parts
    <3> QED BY <3>1, PartIsSet DEF SnapBuilds, Disks, Parts
  <2> HIDE DEF s, n, l
  <2>2. r \in SnapBuilds
    BY <1>1, <1>6, <2>1 DEF SnapBuilds, Snapshots
  <2>3. /\ r.at = "git" /\ r.load = l /\ r.mark = NewMark /\ r.got = Zero /\ r.since = s
        /\ r.base = x.base /\ r.rules = x.rules
    BY DEF SnapBuilds
  <2> QED BY <2>1, <2>2, <2>3
<1> HIDE DEF l, new, s, r
<1>8. snapBuild'[b] = r /\ snapBuild' \in [Requests -> SnapBuilds] /\ Others(b)
  BY <1>1, <1>4, <1>7 DEF Others
<1>9. load' \in [Requests -> Loads]
  BY <1>1, <1>4, <1>5
<1>10. l = b => load'[b] = new
  BY <1>1, <1>4
<1>11. BuildOK(b)
  BY DEF VisInv, BuildsInv
<1>12. world' = world
  BY <1>2 DEF OtherParts
<1>13. BuildOK(b)'
  <2>1. /\ x.rules <= world["rules"] /\ x.since["git"] <= world["git"]
        /\ x.since["rules"] <= world["rules"]
        /\ x.base # NoSnapshot => Sound(x.base)
    BY <1>3, <1>11 DEF BuildOK
  <2>2. /\ n <= world["git"]
        /\ l # b => n = 0
        /\ l = b /\ ~Linked => n <= m
    BY <1>2, <1>3, <2>1
  <2> HIDE DEF n
  <2>3. ASSUME NEW e, Sound(e) PROVE Sound(e)'
    BY <1>12, <2>3 DEF Sound
  <2>4. l = b /\ ~Linked => n <= load'[b].mark.marker
    BY <1>5, <1>10, <2>2
  <2>5. PICK v \in SnapBuilds : v = r
    BY <1>7
  <2>6. v.at = "git" /\ v.load = l /\ v.mark.marker = 0 /\ v.got["git"] = 0
    BY <1>6, <1>7, <2>5
  <2>7. /\ v.since["git"] = n /\ v.since["rules"] = x.since["rules"]
        /\ v.base = x.base /\ v.rules = x.rules
    BY <1>7, <2>5
  <2>8. world["git"] \in Nat /\ 0 <= world["git"]
    BY <1>2
  <2>9. /\ v.mark.marker <= v.got["git"] /\ v.got["git"] <= world'["git"]
        /\ v.rules <= world'["rules"] /\ v.since["git"] <= world'["git"]
        /\ v.since["rules"] <= world'["rules"] /\ v.load \in Requests
        /\ v.load # b => v.since["git"] = 0
    <3>1. v.mark.marker <= v.got["git"] /\ v.got["git"] <= world'["git"]
      BY <1>12, <2>6, <2>8
    <3>2. /\ v.rules <= world'["rules"] /\ v.since["git"] <= world'["git"]
          /\ v.since["rules"] <= world'["rules"]
      BY <1>12, <2>1, <2>2, <2>7
    <3>3. v.load \in Requests /\ (v.load # b => v.since["git"] = 0)
      BY <1>1, <2>2, <2>6, <2>7
    <3> QED BY <3>1, <3>2, <3>3
  <2>10. v.base # NoSnapshot => Sound(v.base)'
    BY <2>1, <2>3, <2>7
  <2>11. v.load = b /\ ~Linked => v.since["git"] <= load'[b].mark.marker
    BY <2>4, <2>6, <2>7
  <2>12. v.at \notin Underway /\ v.at # "compile"
    BY <2>6 DEF Underway
  <2>13. snapBuild'[b] = v
    BY <1>8, <2>5
  <2> QED BY <2>9, <2>10, <2>11, <2>12, <2>13 DEF BuildOK
<1>14. \A d \in Requests \ {b} : load'[d] = load[d]
  BY <1>1, <1>4
<1>15. \A d \in Requests \ {b} : BuildOK(d)'
  BY <1>2, <1>8, <1>14, BuildStays DEF Others, LoadStays, Undisturbed
<1>16. LoadsInv'
  BY <1>2, <1>4, <1>5, <1>10, <1>12, <1>14 DEF VisInv, LoadsInv
<1>17. EntriesInv'
  BY <1>2, EntriesStay DEF OtherParts
<1>18. VisTypeOK' /\ JoinedInv'
  BY <1>1, <1>2, <1>4, <1>8, <1>9 DEF VisInv, VisTypeOK, JoinedInv, OtherParts
<1> QED BY <1>13, <1>15, <1>16, <1>17, <1>18 DEF VisInv, BuildsInv

LEMMA MarkerIsOnDisk ==
  ASSUME VisInv
  PROVE  /\ Marker \in 0..MaxEdits /\ Marker <= world["git"] /\ (~Linked => Marker = world["git"])
         /\ world["git"] \in Nat
<1>1. world["git"] \in 0..MaxEdits
  BY DEF VisInv, VisTypeOK, Disks, Parts
<1> QED BY <1>1, VisibilityAssumption DEF Marker

LEMMA VisReadMarker == ASSUME VisInv, NEW b \in Requests, ReadMarker(b) PROVE VisInv'
<1>1. /\ snapBuild \in [Requests -> SnapBuilds] /\ BuildOK(b) /\ world \in Disks
      /\ Step(b) /\ UNCHANGED <<gitCache, gitEpoch>>
      /\ At(b, "marker")
  BY DEF VisInv, VisTypeOK, BuildsInv, ReadMarker
<1>2. CASE gitCache # NoSnapshot /\ gitCache.mark.marker = Marker
  <2>1. PICK m \in Marks, n \in 0..MaxEdits : gitCache.mark = m /\ gitCache.paths = n
    BY <1>2 DEF VisInv, VisTypeOK, GitEntries
  <2>2. m.marker <= n /\ n <= world["git"] /\ m.marker = Marker
    BY <1>2, <2>1 DEF VisInv, EntriesInv
  <2>3. PICK x \in SnapBuilds : x = snapBuild[b]
    BY <1>1
  <2> DEFINE g == [x.got EXCEPT !["git"] = n]
             r == [x EXCEPT !.at = "state", !.mark = m, !.got = g]
  <2>4. snapBuild' = [snapBuild EXCEPT ![b] = r] /\ UNCHANGED <<abortTimer, load, loading>>
    BY <1>2, <2>1, <2>3 DEF ReadMarker
  <2>5. /\ r \in SnapBuilds /\ r.at = "state" /\ r.mark = m /\ r.got["git"] = n
        /\ r.base = x.base /\ r.since = x.since /\ r.rules = x.rules
    <3>1. g \in Snapshots /\ g["git"] = n
      BY PartIsSet DEF SnapBuilds, Snapshots, Parts
    <3> HIDE DEF g
    <3> QED BY <3>1 DEF SnapBuilds
  <2> HIDE DEF g, r
  <2>6. snapBuild'[b] = r /\ snapBuild' \in [Requests -> SnapBuilds] /\ Others(b)
    BY <1>1, <2>4, <2>5 DEF Others
  <2>7. UNCHANGED OtherParts
    BY <1>1 DEF Step, OtherParts, cacheVars
  <2>8. BuildOK(b)'
    BY <1>1, <2>2, <2>3, <2>5, <2>6, <2>7, MarkerIsOnDisk DEF BuildOK, Sound, Underway, OtherParts
  <2> QED BY <2>4, <2>6, <2>7, <2>8, SnapshotBuildGoesOn
<1>3. CASE ~(gitCache # NoSnapshot /\ gitCache.mark.marker = Marker)
  <2>1. JoinLoad(b, Marker)
    BY <1>3 DEF ReadMarker
  <2>2. ~Linked => snapBuild[b].since["git"] <= Marker
    BY <1>1, MarkerIsOnDisk DEF BuildOK
  <2> QED BY <1>1, <2>1, <2>2, JoinLoadIsOK, MarkerIsOnDisk
<1> QED BY <1>2, <1>3

LEMMA VisReadState == ASSUME VisInv, NEW b \in Requests, ReadState(b) PROVE VisInv'
<1>1. /\ snapBuild \in [Requests -> SnapBuilds] /\ BuildOK(b) /\ snapBuild[b].at = "state"
      /\ Step(b) /\ UNCHANGED <<gitCache, gitEpoch>>
  BY DEF VisInv, VisTypeOK, BuildsInv, ReadState, At
<1>2. PICK m \in Marks, n \in 0..MaxEdits : snapBuild[b].mark = m /\ snapBuild[b].got["git"] = n
  BY <1>1 DEF SnapBuilds, Snapshots, Disks, Parts
<1>3. /\ m.marker <= n /\ n <= world["git"] /\ (~Linked => snapBuild[b].since["git"] <= m.marker)
  BY <1>1, <1>2 DEF BuildOK, Underway
<1>4. CASE Tracked(b, m, n) /\ UNCHANGED <<abortTimer, load, loading>>
  <2>1. UNCHANGED OtherParts
    BY <1>1 DEF Step, OtherParts, cacheVars
  <2>2. snapBuild' \in [Requests -> SnapBuilds] /\ Others(b) /\ BuildOK(b)'
    BY <1>3, <1>4, <2>1, TrackedIsOK DEF OtherParts
  <2> QED BY <1>4, <2>1, <2>2, SnapshotBuildGoesOn
<1>5. CASE JoinLoad(b, m.marker)
  <2>1. m.marker \in 0..MaxEdits /\ n \in Nat /\ world["git"] \in Nat
    BY MarkerIsOnDisk DEF Marks
  <2>2. m.marker <= world["git"]
    BY <1>3, <2>1
  <2> QED BY <1>1, <1>3, <1>5, <2>1, <2>2, JoinLoadIsOK
<1> QED BY <1>2, <1>4, <1>5 DEF ReadState

-----------------------------------------------------------------------------
(* A build that ends, and the calls that wait for it. *)

LEMMA SettledIsOK ==
  ASSUME VisInv, NEW b \in Requests, NEW o \in Snapshots \union {NoSnapshot, Cancelled},
         NEW timers \in SUBSET ({"build", "load"} \X Requests), SettleBuild(b, o, timers),
         UNCHANGED world
  PROVE  /\ snapBuild' \in [Requests -> SnapBuilds] /\ request' \in [Requests -> Requested]
         /\ pendingSnap' \in [Policies -> Requests \union {NoRequest}]
         /\ abortTimer' \subseteq ({"build", "load"} \X Requests)
         /\ Others(b) /\ BuildOK(b)' /\ JoinedInv'
<1> DEFINE r == [NewSnapBuild EXCEPT !.at = "settled"]
           done == [at |-> "done", joined |-> NoRequest, answer |-> o]
<1>1. /\ snapBuild \in [Requests -> SnapBuilds] /\ request \in [Requests -> Requested]
      /\ pendingSnap \in [Policies -> Requests \union {NoRequest}]
      /\ abortTimer \subseteq ({"build", "load"} \X Requests) /\ world["git"] \in Nat
      /\ world["rules"] \in Nat
  BY DisksAreNumbers DEF VisInv, VisTypeOK
<1>2. /\ r \in SnapBuilds /\ r.mark = NewMark /\ r.got = Zero /\ r.since = Zero /\ r.rules = 0
      /\ r.base = NoSnapshot /\ r.at = "settled"
  <2>1. PICK n \in SnapBuilds : n = NewSnapBuild
    BY NewIsTyped
  <2>2. /\ n.mark = NewMark /\ n.got = Zero /\ n.since = Zero /\ n.rules = 0 /\ n.base = NoSnapshot
    BY <2>1 DEF NewSnapBuild
  <2>3. r = [n EXCEPT !.at = "settled"]
    BY <2>1
  <2> QED BY <2>2, <2>3 DEF SnapBuilds
<1>3. done \in Requested
  BY DEF Requested
<1>4. /\ snapBuild' = [snapBuild EXCEPT ![b] = r]
      /\ pendingSnap' = [p \in Policies |-> IF pendingSnap[p] = b THEN NoRequest ELSE pendingSnap[p]]
      /\ request' = [c \in Requests |-> IF c \in Waiting(b) THEN done ELSE request[c]]
      /\ abortTimer' = (abortTimer \ {<<"build", b>>}) \union timers
  BY DEF SettleBuild
<1>5. done.at = "done"
  OBVIOUS
<1> HIDE DEF r, done
<1>6. snapBuild' \in [Requests -> SnapBuilds] /\ Others(b) /\ snapBuild'[b] = r
  BY <1>1, <1>2, <1>4 DEF Others
<1>7. /\ request' \in [Requests -> Requested]
      /\ pendingSnap' \in [Policies -> Requests \union {NoRequest}]
      /\ abortTimer' \subseteq ({"build", "load"} \X Requests)
  BY <1>1, <1>3, <1>4
<1>8. JoinedInv'
  BY <1>4, <1>5 DEF VisInv, JoinedInv
<1>9. NewMark.marker = 0 /\ Zero["git"] = 0 /\ Zero["rules"] = 0
  BY DEF NewMark, Zero, Parts
<1>10. BuildOK(b)'
  BY <1>1, <1>2, <1>6, <1>9 DEF BuildOK, Underway
<1> QED BY <1>6, <1>7, <1>8, <1>10

(* Such a step, with what else it does: the load it leaves, or the entry it writes. *)
LEMMA SettledStep ==
  ASSUME VisInv, NEW b \in Requests, NEW o \in Snapshots \union {NoSnapshot, Cancelled},
         NEW timers \in SUBSET ({"build", "load"} \X Requests), SettleBuild(b, o, timers),
         UNCHANGED <<world, epoch, loading, gitCache, gitEpoch>>,
         load' \in [Requests -> Loads], \A d \in Requests : LoadStays(d), LoadsInv',
         snapCache' \in [Policies -> SnapEntries \union {NoSnapshot}], EntriesInv'
  PROVE  VisInv'
<1>1. /\ snapBuild' \in [Requests -> SnapBuilds] /\ request' \in [Requests -> Requested]
      /\ pendingSnap' \in [Policies -> Requests \union {NoRequest}]
      /\ abortTimer' \subseteq ({"build", "load"} \X Requests)
      /\ Others(b) /\ BuildOK(b)' /\ JoinedInv'
  BY SettledIsOK
<1>2. VisTypeOK'
  BY <1>1 DEF VisInv, VisTypeOK
<1>3. \A d \in Requests \ {b} : BuildOK(d)'
  BY <1>1, SameWorld, BuildStays DEF Others, Undisturbed
<1> QED BY <1>1, <1>2, <1>3 DEF VisInv, BuildsInv

LEMMA VisBuildAborted == ASSUME VisInv, NEW b \in Requests, BuildAborted(b) PROVE VisInv'
<1> DEFINE l == snapBuild[b].load
           timers == IF snapBuild[b].at = "git" /\ Loading(l) /\ GitConsumers(l) = {b}
                     THEN {<<"load", l>>} ELSE {}
<1>1. /\ SettleBuild(b, Cancelled, timers) /\ UNCHANGED <<world, snapCache, epoch>>
      /\ UNCHANGED <<loading, gitCache, gitEpoch, load>>
  BY DEF BuildAborted, gitVars
<1>2. timers \in SUBSET ({"build", "load"} \X Requests)
  BY DEF VisInv, BuildsInv, BuildOK
<1>3. Grows /\ EntriesInv' /\ LoadsInv'
  BY <1>1, SameWorld, EntriesStay, LoadsStay
<1>4. load' \in [Requests -> Loads] /\ snapCache' \in [Policies -> SnapEntries \union {NoSnapshot}]
  BY <1>1 DEF VisInv, VisTypeOK
<1>5. \A d \in Requests : LoadStays(d)
  BY <1>1 DEF LoadStays
<1> HIDE DEF timers
<1> QED BY <1>1, <1>2, <1>3, <1>4, <1>5, SettledStep

(* A settled load without consumers is forgotten. *)
LEMMA LoadIsForgotten ==
  ASSUME VisInv, NEW l \in Requests, UNCHANGED world,
         load' = load \/ load' = [load EXCEPT ![l] = NewLoad]
  PROVE  load' \in [Requests -> Loads] /\ (\A d \in Requests : LoadStays(d)) /\ LoadsInv'
<1>1. load \in [Requests -> Loads] /\ Grows /\ world["git"] \in Nat
  BY SameWorld, WorldGrows DEF VisInv, VisTypeOK
<1>2. CASE load' = load
  BY <1>1, <1>2, LoadsStay DEF LoadStays
<1>3. CASE load' = [load EXCEPT ![l] = NewLoad]
  <2>1. /\ NewLoad.at = "none" /\ NewLoad.mark.marker = 0 /\ NewLoad.paths = 0 /\ NewLoad.todo = {}
        /\ NewLoad \in Loads
    BY NewIsTyped DEF NewLoad, NewMark
  <2>2. load'[l] = NewLoad /\ \A d \in Requests \ {l} : load'[d] = load[d]
    BY <1>1, <1>3
  <2>3. load' \in [Requests -> Loads]
    BY <1>1, <1>3, <2>1
  <2>4. \A d \in Requests : LoadStays(d)
    BY <2>1, <2>2 DEF LoadStays
  <2>5. LoadsInv'
    BY <1>1, <2>1, <2>2 DEF VisInv, LoadsInv
  <2> QED BY <2>3, <2>4, <2>5
<1> QED BY <1>2, <1>3

LEMMA VisTakeLoad == ASSUME VisInv, NEW b \in Requests, TakeLoad(b) PROVE VisInv'
<1>1. PICK l \in Requests : snapBuild[b].load = l
  BY DEF TakeLoad, At, VisInv, BuildsInv, BuildOK
<1>2. /\ UNCHANGED <<world, snapCache, epoch, loading, gitCache, gitEpoch>>
      /\ load' = load \/ load' = [load EXCEPT ![l] = NewLoad]
      /\ snapBuild[b].at = "git"
  BY <1>1 DEF TakeLoad, At
<1>3. load' \in [Requests -> Loads] /\ (\A d \in Requests : LoadStays(d)) /\ LoadsInv'
  BY <1>2, LoadIsForgotten
<1>4. Grows /\ EntriesInv'
  BY <1>2, SameWorld, EntriesStay
<1>5. CASE load[l].at = "settled" /\ Tracked(b, load[l].mark, load[l].paths)
           /\ UNCHANGED <<request, pendingSnap, abortTimer>>
  <2>1. load[l] \in Loads /\ BuildOK(b)
    BY DEF VisInv, VisTypeOK, BuildsInv
  <2>2. load[l].mark \in Marks /\ load[l].paths \in 0..MaxEdits /\ load[l].mark.marker \in Nat
    BY <2>1, LoadsAreTyped DEF Loads
  <2>3. load[l].mark.marker <= load[l].paths /\ load[l].paths <= world["git"]
    BY <1>5 DEF VisInv, LoadsInv
  <2>4. ~Linked => snapBuild[b].since["git"] <= load[l].mark.marker
    BY <1>1, <1>2, <1>5, <2>1, <2>2 DEF BuildOK
  <2>5. snapBuild' \in [Requests -> SnapBuilds] /\ Others(b) /\ BuildOK(b)'
    BY <1>2, <1>5, <2>2, <2>3, <2>4, TrackedIsOK
  <2>6. VisTypeOK' /\ JoinedInv'
    BY <1>2, <1>3, <1>5, <2>5 DEF VisInv, VisTypeOK, JoinedInv
  <2>7. \A d \in Requests \ {b} : BuildOK(d)'
    BY <1>3, <1>4, <2>5, BuildStays DEF Others, Undisturbed
  <2> QED BY <1>3, <1>4, <2>5, <2>6, <2>7 DEF VisInv, BuildsInv
<1>6. CASE SettleBuild(b, Cancelled, {})
  <2>1. snapCache' \in [Policies -> SnapEntries \union {NoSnapshot}]
    BY <1>2 DEF VisInv, VisTypeOK
  <2> QED BY <1>2, <1>3, <1>4, <1>6, <2>1, SettledStep
<1> QED BY <1>1, <1>5, <1>6 DEF TakeLoad

LEMMA VisCheckStamps == ASSUME VisInv, NEW b \in Requests, CheckStamps(b) PROVE VisInv'
<1>1. /\ UNCHANGED <<world, snapCache, epoch>> /\ UNCHANGED <<loading, gitCache, gitEpoch, load>>
      /\ snapBuild[b].at = "check" /\ snapBuild \in [Requests -> SnapBuilds]
  BY DEF CheckStamps, gitVars, At, VisInv, VisTypeOK
<1>2. CASE snapBuild[b].base # NoSnapshot /\ SettleBuild(b, snapBuild[b].base.snapshot, {})
  <2>1. snapBuild[b].base.snapshot \in Snapshots
    BY <1>1, <1>2, BuildsAreTyped, StampsAreNumbers DEF Snapshots
  <2>2. Grows /\ EntriesInv' /\ LoadsInv'
    BY <1>1, SameWorld, EntriesStay, LoadsStay
  <2>3. load' \in [Requests -> Loads] /\ snapCache' \in [Policies -> SnapEntries \union {NoSnapshot}]
    BY <1>1 DEF VisInv, VisTypeOK
  <2>4. \A d \in Requests : LoadStays(d)
    BY <1>1 DEF LoadStays
  <2> QED BY <1>1, <1>2, <2>1, <2>2, <2>3, <2>4, SettledStep
<1>3. CASE snapBuild' = [snapBuild EXCEPT ![b].at = "scan"]
           /\ UNCHANGED <<request, pendingSnap, abortTimer>>
  <2>1. snapBuild' \in [Requests -> SnapBuilds] /\ Others(b)
    BY <1>1, <1>3 DEF SnapBuilds, Others
  <2>2. /\ snapBuild'[b].got = snapBuild[b].got /\ snapBuild'[b].mark = snapBuild[b].mark
        /\ snapBuild'[b].base = snapBuild[b].base /\ snapBuild'[b].since = snapBuild[b].since
        /\ snapBuild'[b].rules = snapBuild[b].rules /\ snapBuild'[b].at = "scan"
    BY <1>1, <1>3 DEF SnapBuilds
  <2>3. BuildOK(b)
    BY DEF VisInv, BuildsInv
  <2>4. BuildOK(b)'
    BY <1>1, <2>2, <2>3 DEF BuildOK, Sound, Underway
  <2> QED BY <1>1, <1>3, <2>1, <2>4, SnapshotBuildGoesOn DEF OtherParts
<1> QED BY <1>2, <1>3 DEF CheckStamps

(* The snapshot a build compiles, or keeps, is sound. *)
Compilation(b) ==
  LET e == snapBuild[b].base IN
  IF e # NoSnapshot /\ SameFingerprint(e, b) THEN e.snapshot
  ELSE [snapBuild[b].got EXCEPT !["rules"] = world["rules"]]

LEMMA CompiledIsSound ==
  ASSUME VisInv, NEW b \in Requests, snapBuild[b].at = "compile"
  PROVE  LET s == Compilation(b) IN
         /\ s \in Snapshots /\ s["git"] = snapBuild[b].got["git"] /\ s["git"] <= world["git"]
         /\ snapBuild[b].rules <= s["rules"] /\ s["rules"] <= world["rules"]
<1>1. snapBuild[b] \in SnapBuilds /\ BuildOK(b) /\ world \in Disks
  BY DEF VisInv, VisTypeOK, BuildsInv
<1>2. world["rules"] \in 0..MaxEdits /\ "rules" \in Parts /\ "git" \in Parts
  BY <1>1 DEF Disks, Parts
<1>3. CASE snapBuild[b].base # NoSnapshot /\ SameFingerprint(snapBuild[b].base, b)
  <2>1. Compilation(b) = snapBuild[b].base.snapshot
    BY <1>3 DEF Compilation
  <2>2. snapBuild[b].base \in SnapEntries /\ Sound(snapBuild[b].base)
    BY <1>1, <1>3, BuildsAreTyped DEF BuildOK
  <2> QED BY <1>1, <1>3, <2>1, <2>2, StampsAreNumbers DEF BuildOK, Sound, SameFingerprint, Snapshots
<1>4. CASE ~(snapBuild[b].base # NoSnapshot /\ SameFingerprint(snapBuild[b].base, b))
  <2>1. Compilation(b) = [snapBuild[b].got EXCEPT !["rules"] = world["rules"]]
    BY <1>4 DEF Compilation
  <2>2. snapBuild[b].got \in Disks
    BY <1>1, BuildsAreTyped
  <2>3. /\ Compilation(b) \in Disks /\ Compilation(b)["rules"] = world["rules"]
        /\ Compilation(b)["git"] = snapBuild[b].got["git"]
    BY <1>2, <2>1, <2>2 DEF Disks
  <2> QED BY <1>1, <1>2, <2>3 DEF BuildOK, Snapshots
<1> QED BY <1>3, <1>4

LEMMA VisCompile == ASSUME VisInv, NEW b \in Requests, Compile(b) PROVE VisInv'
<1>1. PICK s \in Snapshots : s = Compilation(b)
  BY CompiledIsSound DEF Compile, At
<1>2. /\ UNCHANGED <<world, epoch>> /\ UNCHANGED <<loading, gitCache, gitEpoch, load>>
      /\ snapBuild[b].at = "compile" /\ SettleBuild(b, s, {})
  BY <1>1 DEF Compile, gitVars, At, Compilation
<1>3. snapBuild[b] \in SnapBuilds /\ BuildOK(b)
  BY DEF VisInv, VisTypeOK, BuildsInv
<1>4. /\ s["git"] = snapBuild[b].got["git"] /\ s["git"] <= world["git"]
      /\ snapBuild[b].rules <= s["rules"] /\ s["rules"] <= world["rules"]
  BY <1>1, <1>2, CompiledIsSound
<1>5. PICK new \in SnapEntries :
        new = [snapshot |-> s, mark |-> snapBuild[b].mark, tree |-> snapBuild[b].tree,
               rules |-> snapBuild[b].rules, born |-> snapBuild[b].born]
  BY <1>3 DEF SnapEntries, SnapBuilds
<1>6. snapCache' = snapCache \/ snapCache' = [snapCache EXCEPT ![PolicyOf[b]] = new]
  BY <1>1, <1>5 DEF Compile, Compilation
<1>7. Sound(new)'
  <2>1. new.snapshot = s /\ new.mark = snapBuild[b].mark /\ new.rules = snapBuild[b].rules
    BY <1>5
  <2> QED BY <1>2, <1>3, <1>4, <2>1 DEF Sound, BuildOK
<1>8. snapCache' \in [Policies -> SnapEntries \union {NoSnapshot}]
  BY <1>5, <1>6 DEF VisInv, VisTypeOK
<1>9. /\ Grows /\ LoadsInv' /\ load' \in [Requests -> Loads] /\ \A d \in Requests : LoadStays(d)
  BY <1>2, SameWorld, LoadsStay DEF VisInv, VisTypeOK, LoadStays
<1>10. EntriesInv'
  <2>1. ASSUME NEW p \in Policies, snapCache'[p] # NoSnapshot PROVE Sound(snapCache[p])'
    <3>1. CASE snapCache'[p] = new
      BY <1>7, <3>1
    <3>2. CASE snapCache'[p] = snapCache[p]
      BY <1>2, <2>1, <3>2 DEF VisInv, EntriesInv, Sound
    <3> QED BY <1>6, <3>1, <3>2 DEF VisInv, VisTypeOK
  <2> QED BY <1>2, <2>1 DEF VisInv, EntriesInv
<1> QED BY <1>2, <1>8, <1>9, <1>10, SettledStep

-----------------------------------------------------------------------------
(* Calls, invalidations, loads and edits. *)

LEMMA BuildsStay ==
  ASSUME VisInv, Grows, \A d \in Requests : Undisturbed(d) /\ LoadStays(d) PROVE BuildsInv'
  BY BuildStays DEF BuildsInv

LEMMA VisCreateSnapshot == ASSUME VisInv, NEW c \in Requests, CreateSnapshot(c) PROVE VisInv'
<1> DEFINE p == PolicyOf[c]
           b == IF pendingSnap[p] = NoRequest THEN c ELSE pendingSnap[p]
           r == [snapBuild[c] EXCEPT !.at = "marker", !.born = epoch, !.since = world]
<1>1. /\ request' = [request EXCEPT ![c].at = "waits", ![c].joined = b]
      /\ pendingSnap' = [pendingSnap EXCEPT ![p] = b]
      /\ abortTimer' = abortTimer \ {<<"build", b>>}
      /\ snapBuild' = IF b # c THEN snapBuild
                      ELSE [snapBuild EXCEPT ![c] = r]
      /\ UNCHANGED <<world, snapCache, epoch, loading, gitCache, gitEpoch, load>>
  BY DEF CreateSnapshot, gitVars
<1>2. /\ request \in [Requests -> Requested] /\ snapBuild \in [Requests -> SnapBuilds]
      /\ pendingSnap \in [Policies -> Requests \union {NoRequest}] /\ p \in Policies
      /\ world \in Disks /\ epoch \in 0..MaxInvalid
  BY VisibilityAssumption DEF VisInv, VisTypeOK
<1>3. b \in Requests
  BY <1>2
<1> HIDE DEF p, b
<1>4. /\ request' \in [Requests -> Requested] /\ request'[c].joined = b
      /\ \A d \in Requests \ {c} : request'[d] = request[d]
  BY <1>1, <1>2, <1>3 DEF Requested
<1>5. pendingSnap' \in [Policies -> Requests \union {NoRequest}]
  BY <1>1, <1>2, <1>3
<1>6. /\ r \in SnapBuilds /\ r.at = "marker" /\ r.since = world /\ r.mark = snapBuild[c].mark
      /\ r.got = snapBuild[c].got /\ r.rules = snapBuild[c].rules /\ r.base = snapBuild[c].base
  <2>1. PICK x \in SnapBuilds : x = snapBuild[c]
    BY <1>2
  <2>2. PICK y : y = [x EXCEPT !.at = "marker", !.born = epoch, !.since = world]
    OBVIOUS
  <2>3. /\ y \in SnapBuilds /\ y.at = "marker" /\ y.since = world /\ y.mark = x.mark
        /\ y.got = x.got /\ y.rules = x.rules /\ y.base = x.base
    BY <1>2, <2>2 DEF SnapBuilds
  <2> QED BY <2>1, <2>2, <2>3
<1> HIDE DEF r
<1>7. snapBuild' \in [Requests -> SnapBuilds] /\ Others(c) /\ (b = c => snapBuild'[c] = r)
  BY <1>1, <1>2, <1>6 DEF Others
<1>8. Grows /\ EntriesInv' /\ LoadsInv' /\ \A d \in Requests : LoadStays(d)
  BY <1>1, SameWorld, EntriesStay, LoadsStay DEF LoadStays
<1>9. BuildOK(c)'
  <2>1. CASE b # c
    BY <1>1, <1>8, <2>1, BuildStays DEF Undisturbed
  <2>2. CASE b = c
    <3>1. BuildOK(c) /\ world["git"] \in Nat /\ world["rules"] \in Nat
      BY <1>2, DisksAreNumbers DEF VisInv, BuildsInv
    <3> QED BY <1>1, <1>6, <1>7, <2>2, <3>1 DEF BuildOK, Sound, Underway
  <2> QED BY <2>1, <2>2
<1>10. \A d \in Requests \ {c} : BuildOK(d)'
  BY <1>7, <1>8, BuildStays DEF Others, Undisturbed
<1>11. VisTypeOK'
  BY <1>1, <1>4, <1>5, <1>7 DEF VisInv, VisTypeOK
<1>12. JoinedInv'
  BY <1>3, <1>4 DEF VisInv, JoinedInv
<1> QED BY <1>8, <1>9, <1>10, <1>11, <1>12 DEF VisInv, BuildsInv

LEMMA VisCancelCall == ASSUME VisInv, NEW c \in Requests, CancelCall(c) PROVE VisInv'
<1> DEFINE done == [at |-> "done", joined |-> NoRequest, answer |-> Cancelled]
<1>1. /\ request' = [request EXCEPT ![c] = done]
      /\ abortTimer' \subseteq abortTimer \union {<<"build", request[c].joined>>}
      /\ UNCHANGED <<world, snapBuild, pendingSnap, snapCache, epoch, loading, gitCache, gitEpoch, load>>
      /\ request[c].joined \in Requests
  BY DEF CancelCall, cacheVars, gitVars, VisInv, JoinedInv
<1>2. done \in Requested /\ done.at = "done"
  BY DEF Requested
<1> HIDE DEF done
<1>3. VisTypeOK' /\ JoinedInv'
  BY <1>1, <1>2 DEF VisInv, VisTypeOK, JoinedInv
<1>4. Grows /\ EntriesInv' /\ LoadsInv'
  BY <1>1, SameWorld, EntriesStay, LoadsStay
<1>5. BuildsInv'
  BY <1>1, <1>4, BuildsStay DEF Undisturbed, LoadStays
<1> QED BY <1>3, <1>4, <1>5 DEF VisInv

LEMMA VisAbandonBuild == ASSUME VisInv, NEW b \in Requests, AbandonBuild(b) PROVE VisInv'
<1>1. /\ snapBuild' = [snapBuild EXCEPT ![b].ended = IF @ = "no" THEN "abandoned" ELSE @]
      /\ abortTimer' = abortTimer \ {<<"build", b>>}
      /\ UNCHANGED <<world, request, pendingSnap, snapCache, epoch, loading, gitCache, gitEpoch, load>>
  BY DEF AbandonBuild, cacheVars, gitVars
<1>2. snapBuild \in [Requests -> SnapBuilds]
  BY DEF VisInv, VisTypeOK
<1>3. snapBuild' \in [Requests -> SnapBuilds] /\ \A d \in Requests : Undisturbed(d)
  BY <1>1, <1>2 DEF SnapBuilds, Endings, Undisturbed
<1>4. VisTypeOK' /\ JoinedInv'
  BY <1>1, <1>3 DEF VisInv, VisTypeOK, JoinedInv
<1>5. Grows /\ EntriesInv' /\ LoadsInv'
  BY <1>1, SameWorld, EntriesStay, LoadsStay
<1>6. BuildsInv'
  BY <1>1, <1>3, <1>5, BuildsStay DEF LoadStays
<1> QED BY <1>4, <1>5, <1>6 DEF VisInv

(* A load that is told to stop has read what it has read. *)
LEMMA LoadsEnd ==
  ASSUME VisInv, UNCHANGED world, load' \in [Requests -> Loads],
         \A d \in Requests : /\ load'[d].at = load[d].at /\ load'[d].mark = load[d].mark
                             /\ load'[d].paths = load[d].paths /\ load'[d].todo = load[d].todo
  PROVE  LoadsInv' /\ \A d \in Requests : LoadStays(d)
  BY DEF VisInv, LoadsInv, LoadStays

LEMMA VisAbandonLoad == ASSUME VisInv, NEW l \in Requests, AbandonLoad(l) PROVE VisInv'
<1>1. /\ load' = [load EXCEPT ![l].ended = IF @ = "no" THEN "abandoned" ELSE @]
      /\ abortTimer' = abortTimer \ {<<"load", l>>}
      /\ UNCHANGED <<world, request, snapBuild, pendingSnap, snapCache, epoch, loading>>
      /\ UNCHANGED <<gitCache, gitEpoch>>
  BY DEF AbandonLoad, cacheVars
<1>2. load \in [Requests -> Loads]
  BY DEF VisInv, VisTypeOK
<1>3. load' \in [Requests -> Loads]
  BY <1>1, <1>2 DEF Loads, Endings
<1>4. \A d \in Requests : /\ load'[d].at = load[d].at /\ load'[d].mark = load[d].mark
                          /\ load'[d].paths = load[d].paths /\ load'[d].todo = load[d].todo
  BY <1>1, <1>2 DEF Loads
<1>5. VisTypeOK' /\ JoinedInv'
  BY <1>1, <1>3 DEF VisInv, VisTypeOK, JoinedInv
<1>6. Grows /\ EntriesInv' /\ LoadsInv' /\ \A d \in Requests : LoadStays(d)
  BY <1>1, <1>3, <1>4, SameWorld, EntriesStay, LoadsEnd
<1>7. BuildsInv'
  BY <1>1, <1>6, BuildsStay DEF Undisturbed
<1> QED BY <1>5, <1>6, <1>7 DEF VisInv

LEMMA AbortIsTyped ==
  ASSUME VisInv, NEW ls \in SUBSET Requests, AbortPending(ls), UNCHANGED world
  PROVE  /\ snapBuild' \in [Requests -> SnapBuilds] /\ load' \in [Requests -> Loads]
         /\ abortTimer' \subseteq ({"build", "load"} \X Requests)
         /\ LoadsInv' /\ \A d \in Requests : Undisturbed(d) /\ LoadStays(d)
<1>1. /\ snapBuild' = [b \in Requests |-> IF b \in PendingBuilds /\ snapBuild[b].ended = "no"
                               THEN [snapBuild[b] EXCEPT !.ended = "invalidated"] ELSE snapBuild[b]]
      /\ load' = [l \in Requests |-> IF l \in ls /\ load[l].ended = "no"
                              THEN [load[l] EXCEPT !.ended = "invalidated"] ELSE load[l]]
      /\ abortTimer' \subseteq abortTimer
  BY DEF AbortPending
<1>2. /\ snapBuild \in [Requests -> SnapBuilds] /\ load \in [Requests -> Loads]
      /\ abortTimer \subseteq ({"build", "load"} \X Requests)
  BY DEF VisInv, VisTypeOK
<1>3. \A r \in SnapBuilds : LET s == [r EXCEPT !.ended = "invalidated"] IN
        /\ s \in SnapBuilds /\ s.mark = r.mark /\ s.got = r.got /\ s.rules = r.rules
        /\ s.since = r.since /\ s.base = r.base /\ s.at = r.at /\ s.load = r.load
  BY DEF SnapBuilds, Endings
<1>4. \A r \in Loads : LET s == [r EXCEPT !.ended = "invalidated"] IN
        /\ s \in Loads /\ s.at = r.at /\ s.mark = r.mark /\ s.paths = r.paths /\ s.todo = r.todo
  BY DEF Loads, Endings
<1>5. snapBuild' \in [Requests -> SnapBuilds] /\ load' \in [Requests -> Loads]
  BY <1>1, <1>2, <1>3, <1>4
<1>6. \A d \in Requests : Undisturbed(d)
  BY <1>1, <1>2, <1>3 DEF Undisturbed
<1>7. \A d \in Requests : /\ load'[d].at = load[d].at /\ load'[d].mark = load[d].mark
                          /\ load'[d].paths = load[d].paths /\ load'[d].todo = load[d].todo
  BY <1>1, <1>2, <1>4
<1> QED BY <1>1, <1>2, <1>5, <1>6, <1>7, LoadsEnd

LEMMA VisInvalidate ==
  ASSUME EpochInv, VisInv, InvalidateWorkspace \/ InvalidateAll PROVE VisInv'
<1>1. PICK ls \in SUBSET Requests : AbortPending(ls)
  BY DEF InvalidateWorkspace, InvalidateAll, VisInv, VisTypeOK
<1>2. /\ UNCHANGED <<world, request>> /\ epoch < MaxInvalid /\ epoch' = epoch + 1
      /\ snapCache' = [p \in Policies |-> NoSnapshot] /\ pendingSnap' = [p \in Policies |-> NoRequest]
      /\ \/ UNCHANGED <<loading, gitCache, gitEpoch>>
         \/ gitEpoch' = gitEpoch + 1 /\ gitCache' = NoSnapshot /\ loading' = NoRequest
  BY DEF InvalidateWorkspace, InvalidateAll
<1>3. /\ snapBuild' \in [Requests -> SnapBuilds] /\ load' \in [Requests -> Loads]
      /\ abortTimer' \subseteq ({"build", "load"} \X Requests)
      /\ LoadsInv' /\ \A d \in Requests : Undisturbed(d) /\ LoadStays(d)
  BY <1>1, <1>2, AbortIsTyped
<1>4. BuildsInv'
  BY <1>2, <1>3, SameWorld, BuildsStay
<1>5. EntriesInv'
  BY <1>2 DEF VisInv, EntriesInv
<1>6. epoch' \in 0..MaxInvalid /\ gitEpoch' \in 0..MaxInvalid
  BY <1>2, VisibilityAssumption DEF VisInv, VisTypeOK, EpochInv, GitEpochBehind
<1>7. VisTypeOK' /\ JoinedInv'
  BY <1>2, <1>3, <1>6 DEF VisInv, VisTypeOK, JoinedInv
<1> QED BY <1>3, <1>4, <1>5, <1>7 DEF VisInv

LEMMA VisLoadRead ==
  ASSUME VisInv, NEW l \in Requests, NEW half \in {"paths", "state"}, LoadRead(l, half) PROVE VisInv'
<1>1. /\ load \in [Requests -> Loads] /\ world["git"] \in 0..MaxEdits /\ world["git"] \in Nat
      /\ abortTimer \subseteq ({"build", "load"} \X Requests) /\ loading \in Requests \union {NoRequest}
  BY VisibilityAssumption DEF VisInv, VisTypeOK, Disks, Parts
<1>2. PICK old \in Loads : load[l] = old
  BY <1>1
<1> DEFINE r == [old EXCEPT !.todo = @ \ {half},
                   !.paths = IF half = "paths" THEN world["git"] ELSE @,
                   !.mark.state = IF half = "state" THEN world["git"] ELSE @]
           end == [r EXCEPT !.at = "settled"]
<1>3. /\ UNCHANGED <<world, request, snapBuild, gitEpoch, pendingSnap, snapCache, epoch>>
      /\ old.at = "reads" /\ half \in old.todo
  BY <1>2 DEF LoadRead, cacheVars
<1>4. \/ /\ r.todo # {} /\ load' = [load EXCEPT ![l] = r]
         /\ UNCHANGED <<loading, abortTimer, gitCache>>
      \/ /\ r.todo = {} /\ load' = [load EXCEPT ![l] = end]
         /\ loading' = IF loading = l THEN NoRequest ELSE loading
         /\ abortTimer' = abortTimer \ {<<"load", l>>}
         /\ gitCache' = IF gitEpoch # r.born THEN gitCache
                        ELSE [mark |-> r.mark, paths |-> r.paths, born |-> r.born]
  BY <1>2 DEF LoadRead, SettleLoad
<1>5. /\ r \in Loads /\ r.mark.marker = old.mark.marker /\ r.at = old.at
      /\ r.todo = old.todo \ {half}
      /\ r.paths = (IF half = "paths" THEN world["git"] ELSE old.paths)
  BY <1>1 DEF Loads, Marks
<1>6. /\ end \in Loads /\ end.mark = r.mark /\ end.paths = r.paths /\ end.todo = r.todo
      /\ end.at = "settled"
  BY <1>5 DEF Loads
<1>7. /\ old.mark.marker <= world["git"] /\ old.paths <= world["git"]
      /\ "paths" \notin old.todo => old.mark.marker <= old.paths
  BY <1>2 DEF VisInv, LoadsInv
<1> HIDE DEF r, end
<1>8. PICK new : /\ new = r \/ (new = end /\ r.todo = {})
                 /\ load' = [load EXCEPT ![l] = new]
  BY <1>4
<1>9. /\ new \in Loads /\ new.mark.marker = old.mark.marker /\ new.at \in {"reads", "settled"}
      /\ new.mark.marker <= world["git"] /\ new.paths <= world["git"]
      /\ "paths" \notin new.todo => new.mark.marker <= new.paths
      /\ new.at = "settled" => new.todo = {}
  BY <1>1, <1>3, <1>5, <1>6, <1>7, <1>8
<1>10. load' \in [Requests -> Loads] /\ load'[l] = new /\ \A d \in Requests \ {l} : load'[d] = load[d]
  BY <1>1, <1>8, <1>9
<1>11. LoadsInv'
  BY <1>3, <1>9, <1>10 DEF VisInv, LoadsInv
<1>12. \A d \in Requests : LoadStays(d)
  BY <1>2, <1>3, <1>9, <1>10 DEF LoadStays
<1>13. Grows
  BY <1>3, SameWorld
<1>14. BuildsInv'
  BY <1>3, <1>12, <1>13, BuildsStay DEF Undisturbed
<1>15. gitCache' = gitCache \/ (/\ gitCache' \in GitEntries
                                /\ gitCache'.mark = r.mark /\ gitCache'.paths = r.paths
                                /\ r.todo = {})
  <2>1. [mark |-> r.mark, paths |-> r.paths, born |-> r.born] \in GitEntries
    BY <1>5 DEF Loads, GitEntries
  <2> QED BY <1>4, <2>1
<1>16. EntriesInv'
  <2>1. gitCache' # NoSnapshot =>
          gitCache'.mark.marker <= gitCache'.paths /\ gitCache'.paths <= world["git"]
    <3>1. r.todo = {} => r.mark.marker <= r.paths
      BY <1>1, <1>5, <1>7
    <3>2. r.paths <= world["git"]
      BY <1>1, <1>5, <1>7
    <3> QED BY <1>15, <3>1, <3>2 DEF VisInv, EntriesInv
  <2> QED BY <1>3, <2>1 DEF VisInv, EntriesInv, Sound
<1>17. VisTypeOK' /\ JoinedInv'
  BY <1>3, <1>4, <1>10, <1>15 DEF VisInv, VisTypeOK, JoinedInv
<1> QED BY <1>11, <1>14, <1>16, <1>17 DEF VisInv

LEMMA VisLoadAborted == ASSUME VisInv, NEW l \in Requests, LoadAborted(l) PROVE VisInv'
<1> DEFINE new == [NewLoad EXCEPT !.at = "failed"]
<1>1. /\ load \in [Requests -> Loads] /\ world["git"] \in Nat
  BY DisksAreNumbers DEF VisInv, VisTypeOK
<1>2. /\ UNCHANGED <<world, request, snapBuild, gitCache, gitEpoch, pendingSnap, snapCache, epoch>>
      /\ load' = [load EXCEPT ![l] = new] /\ abortTimer' = abortTimer \ {<<"load", l>>}
      /\ loading' = IF loading = l THEN NoRequest ELSE loading
  BY DEF LoadAborted, SettleLoad, cacheVars
<1>3. /\ new \in Loads /\ new.mark.marker = 0 /\ new.paths = 0 /\ new.at = "failed"
  <2>1. PICK r \in Loads : r = NewLoad /\ r.paths = 0 /\ r.mark.marker = 0
    BY NewIsTyped DEF NewLoad, NewMark
  <2> QED BY <2>1 DEF Loads
<1> HIDE DEF new
<1>4. load' \in [Requests -> Loads] /\ load'[l] = new /\ \A d \in Requests \ {l} : load'[d] = load[d]
  BY <1>1, <1>2, <1>3
<1>5. LoadsInv'
  BY <1>1, <1>2, <1>3, <1>4 DEF VisInv, LoadsInv
<1>6. \A d \in Requests : LoadStays(d)
  BY <1>3, <1>4 DEF LoadStays
<1>7. BuildsInv' /\ EntriesInv'
  BY <1>2, <1>6, SameWorld, BuildsStay, EntriesStay DEF Undisturbed
<1>8. VisTypeOK' /\ JoinedInv'
  BY <1>2, <1>4 DEF VisInv, VisTypeOK, JoinedInv
<1> QED BY <1>5, <1>7, <1>8 DEF VisInv

LEMMA VisEdit == ASSUME VisInv, NEW part \in Parts, Edit(part) PROVE VisInv'
<1>1. /\ world["git"] + world["tree"] + world["rules"] < MaxEdits
      /\ world' = [world EXCEPT ![part] = @ + 1]
      /\ UNCHANGED <<request, snapBuild, abortTimer, pendingSnap, snapCache, epoch, loading, gitCache,
                     gitEpoch, load>>
  BY DEF Edit, cacheVars, gitVars
<1>2. world \in [Parts -> 0..MaxEdits] /\ part \in {"git", "tree", "rules"} /\ MaxEdits \in Nat
  BY VisibilityAssumption DEF VisInv, VisTypeOK, Disks, Parts
<1>3. world[part] + 1 \in 0..MaxEdits
  BY <1>1, <1>2 DEF Parts
<1>4. world' \in [Parts -> 0..MaxEdits]
  BY <1>1, <1>2, <1>3
<1>5. Grows
  BY <1>1, <1>2, <1>4 DEF Grows, Disks
<1>6. EntriesInv' /\ LoadsInv' /\ BuildsInv'
  BY <1>1, <1>5, EntriesStay, LoadsStay, BuildsStay DEF Undisturbed, LoadStays
<1>7. VisTypeOK' /\ JoinedInv'
  BY <1>1, <1>5 DEF VisInv, VisTypeOK, JoinedInv, Grows
<1> QED BY <1>6, <1>7 DEF VisInv

LEMMA VisInvInit == VisInit => VisInv
<1> SUFFICES ASSUME VisInit PROVE VisInv
  OBVIOUS
<1>1. /\ NewMark \in Marks /\ NewLoad \in Loads /\ Zero \in Disks /\ NewSnapBuild \in SnapBuilds
      /\ world = Zero /\ Zero["git"] = 0 /\ Zero["rules"] = 0
      /\ \A b \in Requests : snapBuild[b] = NewSnapBuild
      /\ \A l \in Requests : load[l] = NewLoad
  BY NewIsTyped DEF VisInit, Zero, Parts
<1>2. snapBuild \in [Requests -> SnapBuilds] /\ load \in [Requests -> Loads]
  BY <1>1 DEF VisInit
<1>3. [at |-> "new", joined |-> NoRequest, answer |-> NoSnapshot] \in Requested
  BY DEF Requested
<1>4. VisTypeOK
  BY <1>1, <1>2, <1>3, VisibilityAssumption DEF VisInit, VisTypeOK
<1>5. EntriesInv /\ JoinedInv
  BY DEF VisInit, EntriesInv, JoinedInv
<1>6. LoadsInv
  BY <1>1 DEF LoadsInv, NewLoad, NewMark
<1>7. BuildsInv
  <2>1. /\ NewSnapBuild.mark.marker = 0 /\ NewSnapBuild.got = Zero /\ NewSnapBuild.rules = 0
        /\ NewSnapBuild.since = Zero /\ NewSnapBuild.base = NoSnapshot /\ NewSnapBuild.at = "none"
    BY DEF NewSnapBuild, NewMark
  <2> QED BY <1>1, <2>1 DEF BuildsInv, BuildOK, Underway
<1> QED BY <1>4, <1>5, <1>6, <1>7 DEF VisInv

LEMMA VisInvInductive == EpochInv /\ VisInv /\ [VisNext]_visVars => VisInv'
<1> SUFFICES ASSUME EpochInv, VisInv, [VisNext]_visVars PROVE VisInv'
  OBVIOUS
<1>1. CASE UNCHANGED visVars
  <2>1. UNCHANGED <<world, pendingSnap, snapCache, loading, gitCache, epoch, gitEpoch, request,
                    snapBuild, load, abortTimer>>
    BY <1>1 DEF visVars
  <2>2. EntriesInv' /\ LoadsInv' /\ BuildsInv'
    BY <2>1, SameWorld, EntriesStay, LoadsStay, BuildsStay DEF Undisturbed, LoadStays
  <2>3. VisTypeOK' /\ JoinedInv'
    BY <2>1 DEF VisInv, VisTypeOK, JoinedInv
  <2> QED BY <2>2, <2>3 DEF VisInv
<1>2. ASSUME NEW c \in Requests, CreateSnapshot(c) \/ CancelCall(c) PROVE VisInv'
  BY <1>2, VisCreateSnapshot, VisCancelCall
<1>3. ASSUME NEW c \in Requests, AbandonBuild(c) \/ AbandonLoad(c) PROVE VisInv'
  BY <1>3, VisAbandonBuild, VisAbandonLoad
<1>4. ASSUME NEW c \in Requests, SnapshotStep(c) PROVE VisInv'
  BY <1>4, VisBuildAborted, VisReadMarker, VisReadState, VisTakeLoad, VisCheckStamps,
     VisListDirectory, VisStampDirectory, VisStampRuleFiles, VisCompile DEF SnapshotStep
<1>5. ASSUME NEW c \in Requests, LoadStep(c) PROVE VisInv'
  BY <1>5, VisLoadRead, VisLoadAborted DEF LoadStep
<1>6. CASE InvalidateWorkspace \/ InvalidateAll
  BY <1>6, VisInvalidate
<1>7. ASSUME NEW part \in Parts, Edit(part) PROVE VisInv'
  BY <1>7, VisEdit
<1> QED BY <1>1, <1>2, <1>3, <1>4, <1>5, <1>6, <1>7 DEF VisNext

LEMMA VisInvHolds == VisSpec => [](EpochInv /\ VisInv)
<1>1. VisInit => EpochInv
  BY DEF VisInit, EpochInv, CacheIsFunction, EntriesOfThisEpoch, GitEpochBehind
<1> QED BY <1>1, EpochInductive, VisInvInit, VisInvInductive, PTL DEF VisSpec

-----------------------------------------------------------------------------
(* The answers. *)

\* What a call may be told that waits for build b.
GoodAnswer(b, a) ==
  a = Cancelled \/
  /\ a["rules"] >= snapBuild[b].since["rules"]
  /\ Linked \/ a["git"] >= snapBuild[b].since["git"]

LEMMA CheckedIsGood ==
  ASSUME VisInv, NEW b \in Requests, snapBuild[b].at = "check", snapBuild[b].base # NoSnapshot,
         snapBuild[b].base.mark = snapBuild[b].mark, snapBuild[b].base.rules = world["rules"]
  PROVE  GoodAnswer(b, snapBuild[b].base.snapshot)
<1>1. BuildOK(b) /\ snapBuild[b] \in SnapBuilds
  BY DEF VisInv, VisTypeOK, BuildsInv
<1>2. snapBuild[b].base \in SnapEntries
  BY <1>1, BuildsAreTyped
<1>3. Sound(snapBuild[b].base)
  BY <1>1 DEF BuildOK
<1> QED BY <1>1, <1>2, <1>3, BuildsAreTyped, StampsAreNumbers DEF BuildOK, Sound, GoodAnswer, Underway

LEMMA CompiledIsGood ==
  ASSUME VisInv, NEW b \in Requests, snapBuild[b].at = "compile"
  PROVE  GoodAnswer(b, Compilation(b))
<1>1. BuildOK(b) /\ snapBuild[b] \in SnapBuilds
  BY DEF VisInv, VisTypeOK, BuildsInv
<1>2. PICK s \in Disks : s = Compilation(b)
  BY CompiledIsSound DEF Snapshots
<1>3. /\ s["git"] = snapBuild[b].got["git"]
      /\ snapBuild[b].rules <= s["rules"]
  BY <1>2, CompiledIsSound
<1>4. s["git"] \in Nat /\ s["rules"] \in Nat
  BY DisksAreNumbers
<1> QED BY <1>1, <1>2, <1>3, <1>4, BuildsAreTyped DEF BuildOK, GoodAnswer, Underway

LEMMA SettledAnswers ==
  ASSUME NEW b \in Requests, NEW o, NEW timers, SettleBuild(b, o, timers),
         NEW c \in Requests, Answered(c)
  PROVE  request[c].joined = b /\ request'[c].answer = o
  BY DEF SettleBuild, Answered, Waiting

LEMMA StepsAnswerWell ==
  ASSUME VisInv, NEW b \in Requests, SnapshotStep(b), NEW c \in Requests, Answered(c)
  PROVE  GoodAnswer(request[c].joined, request'[c].answer)
<1>1. CASE BuildAborted(b)
  <2>1. PICK timers : SettleBuild(b, Cancelled, timers)
    BY <1>1 DEF BuildAborted
  <2> QED BY <2>1, SettledAnswers DEF GoodAnswer
<1>2. CASE TakeLoad(b)
  <2>1. UNCHANGED request \/ SettleBuild(b, Cancelled, {})
    BY <1>2 DEF TakeLoad
  <2> QED BY <2>1, SettledAnswers DEF GoodAnswer, Answered
<1>3. CASE CheckStamps(b)
  <2>1. \/ UNCHANGED request
        \/ /\ SettleBuild(b, snapBuild[b].base.snapshot, {}) /\ snapBuild[b].base # NoSnapshot
           /\ snapBuild[b].base.mark = snapBuild[b].mark
           /\ snapBuild[b].base.rules = world["rules"] /\ snapBuild[b].at = "check"
    BY <1>3 DEF CheckStamps, At
  <2> QED BY <2>1, SettledAnswers, CheckedIsGood DEF Answered
<1>4. CASE Compile(b)
  <2>1. SettleBuild(b, Compilation(b), {}) /\ snapBuild[b].at = "compile"
    BY <1>4 DEF Compile, Compilation, At
  <2> QED BY <2>1, SettledAnswers, CompiledIsGood
<1>5. CASE ReadMarker(b) \/ ReadState(b) \/ ListDirectory(b) \/ StampDirectory(b) \/ StampRuleFiles(b)
  BY <1>5 DEF ReadMarker, ReadState, ListDirectory, StampDirectory, StampRuleFiles, Step, Answered
<1> QED BY <1>1, <1>2, <1>3, <1>4, <1>5 DEF SnapshotStep

LEMMA AnswersAreGood ==
  ASSUME VisInv, [VisNext]_visVars, NEW c \in Requests, Answered(c)
  PROVE  GoodAnswer(request[c].joined, request'[c].answer)
<1>1. CASE UNCHANGED visVars
  BY <1>1 DEF visVars, Answered
<1>2. ASSUME NEW d \in Requests, CreateSnapshot(d) PROVE FALSE
  <2>1. request[d].at = "new"
    BY <1>2 DEF CreateSnapshot
  <2>2. request'[c].at = request[c].at
    BY <1>2, <2>1 DEF CreateSnapshot, Answered, VisInv, VisTypeOK, Requested
  <2> QED BY <2>2 DEF Answered
<1>3. ASSUME NEW d \in Requests, CancelCall(d)
      PROVE GoodAnswer(request[c].joined, request'[c].answer)
  BY <1>3 DEF CancelCall, Answered, VisInv, VisTypeOK, GoodAnswer
<1>4. ASSUME NEW d \in Requests, AbandonBuild(d) \/ AbandonLoad(d) \/ LoadStep(d) PROVE FALSE
  BY <1>4 DEF AbandonBuild, AbandonLoad, LoadStep, LoadRead, LoadAborted, Answered
<1>5. ASSUME NEW d \in Requests, SnapshotStep(d)
      PROVE GoodAnswer(request[c].joined, request'[c].answer)
  BY <1>5, StepsAnswerWell
<1>6. CASE InvalidateWorkspace \/ InvalidateAll
  BY <1>6 DEF InvalidateWorkspace, InvalidateAll, Answered
<1>7. ASSUME NEW part \in Parts, Edit(part) PROVE FALSE
  BY <1>7 DEF Edit, Answered
<1> QED BY <1>1, <1>2, <1>3, <1>4, <1>5, <1>6, <1>7 DEF VisNext

-----------------------------------------------------------------------------
(* Builds and loads that nobody waits for. *)

Kept(b) == Running(b) /\ Waiting(b) = {} =>
             snapBuild[b].ended # "no" \/ <<"build", b>> \in abortTimer
KeptLoad(l) == Loading(l) /\ GitConsumers(l) = {} =>
                 load[l].ended # "no" \/ <<"load", l>> \in abortTimer
\* A build begins with the call it is named after.
Unborn == \A c \in Requests : request[c].at = "new" => snapBuild[c].at = "none"
KeptInv == /\ \A b \in Requests : Kept(b)
           /\ \A l \in Requests : KeptLoad(l)
           /\ Unborn

LEMMA KeptStays ==
  ASSUME NEW b \in Requests, Kept(b), Running(b)' => Running(b),
         snapBuild[b].ended # "no" => snapBuild'[b].ended # "no",
         \A c \in Requests : request[c].at = "waits" /\ request[c].joined = b =>
           request'[c].at = "waits" /\ request'[c].joined = b,
         <<"build", b>> \in abortTimer => <<"build", b>> \in abortTimer'
  PROVE  Kept(b)'
  BY DEF Kept, Waiting

LEMMA KeptLoadStays ==
  ASSUME NEW l \in Requests, KeptLoad(l), Loading(l)' => Loading(l),
         load[l].ended # "no" => load'[l].ended # "no" \/ ~Loading(l)',
         \A d \in Requests : snapBuild[d].at = "git" /\ snapBuild[d].load = l =>
           snapBuild'[d].at = "git" /\ snapBuild'[d].load = l,
         <<"load", l>> \in abortTimer => <<"load", l>> \in abortTimer'
  PROVE  KeptLoad(l)'
  BY DEF KeptLoad, GitConsumers

(* A build that goes on and does not wait for a load. *)
LEMMA MovingKeeps ==
  ASSUME KeptInv, NEW b \in Requests, UNCHANGED <<request, load, abortTimer>>, Others(b),
         snapBuild'[b].ended = snapBuild[b].ended, Running(b), snapBuild[b].at # "git"
  PROVE  KeptInv'
<1>1. ASSUME NEW d \in Requests PROVE Kept(d)'
  <2>1. Running(d)' => Running(d)
    BY DEF Others, Running
  <2>2. snapBuild'[d].ended = snapBuild[d].ended
    BY DEF Others
  <2> QED BY <2>1, <2>2, KeptStays DEF KeptInv
<1>2. ASSUME NEW l \in Requests PROVE KeptLoad(l)'
  BY KeptLoadStays DEF KeptInv, Others, Loading
<1>3. Unborn'
  BY DEF KeptInv, Unborn, Others, Running
<1> QED BY <1>1, <1>2, <1>3 DEF KeptInv

(* A build that ends. *)
LEMMA SettlingKeeps ==
  ASSUME KeptInv, NEW b \in Requests, NEW o, NEW timers, SettleBuild(b, o, timers), Running(b),
         snapBuild \in [Requests -> SnapBuilds],
         \A l \in Requests : Loading(l)' => load'[l] = load[l],
         \A l \in Requests : snapBuild[b].at = "git" /\ snapBuild[b].load = l /\ GitConsumers(l) = {b}
                               /\ Loading(l)' => <<"load", l>> \in timers
  PROVE  KeptInv'
<1>1. /\ \A d \in Requests \ {b} : snapBuild'[d] = snapBuild[d]
      /\ snapBuild'[b] = [NewSnapBuild EXCEPT !.at = "settled"]
      /\ abortTimer \ {<<"build", b>>} \subseteq abortTimer' /\ timers \subseteq abortTimer'
  BY DEF SettleBuild
<1>2. snapBuild'[b].at = "settled"
  BY <1>1 DEF NewSnapBuild
<1>3. \A c \in Requests :
        /\ ~(request[c].at = "waits" /\ request[c].joined = b) => request'[c] = request[c]
        /\ request'[c].at = "new" => request'[c] = request[c]
  BY DEF SettleBuild, Waiting
<1>4. ASSUME NEW d \in Requests PROVE Kept(d)'
  <2>1. CASE d = b
    BY <1>2, <2>1 DEF Kept, Running
  <2>2. CASE d # b
    BY <1>1, <1>3, <2>2, KeptStays DEF KeptInv, Running
  <2> QED BY <2>1, <2>2
<1>5. ASSUME NEW l \in Requests PROVE KeptLoad(l)'
  <2>1. CASE ~Loading(l)'
    BY <2>1 DEF KeptLoad
  <2>2. CASE Loading(l)' /\ snapBuild[b].at = "git" /\ snapBuild[b].load = l /\ GitConsumers(l) = {b}
    BY <1>1, <2>2 DEF KeptLoad
  <2>3. CASE Loading(l)' /\ snapBuild[b].at = "git" /\ snapBuild[b].load = l /\ GitConsumers(l) # {b}
    <3>1. PICK d \in Requests \ {b} : d \in GitConsumers(l)
      BY <2>3 DEF GitConsumers
    <3>2. d \in GitConsumers(l)'
      BY <1>1, <3>1 DEF GitConsumers
    <3> QED BY <3>2 DEF KeptLoad
  <2>4. CASE Loading(l)' /\ ~(snapBuild[b].at = "git" /\ snapBuild[b].load = l)
    <3>1. load'[l] = load[l] /\ Loading(l)
      BY <2>4 DEF Loading
    <3>2. \A d \in Requests : snapBuild[d].at = "git" /\ snapBuild[d].load = l =>
            snapBuild'[d].at = "git" /\ snapBuild'[d].load = l
      BY <1>1, <2>4
    <3>3. <<"load", l>> \in abortTimer => <<"load", l>> \in abortTimer'
      BY <1>1
    <3> QED BY <3>1, <3>2, <3>3, KeptLoadStays DEF KeptInv
  <2> QED BY <2>1, <2>2, <2>3, <2>4
<1>6. Unborn'
  <2>1. ASSUME NEW c \in Requests, request'[c].at = "new" PROVE snapBuild'[c].at = "none"
    <3>1. snapBuild[c].at = "none"
      BY <1>3, <2>1 DEF KeptInv, Unborn
    <3> QED BY <1>1, <3>1 DEF Running
  <2> QED BY <2>1 DEF Unborn
<1> QED BY <1>4, <1>5, <1>6 DEF KeptInv

(* A build that waits for a load has it read. *)
LEMMA JoiningKeeps ==
  ASSUME VisInv, KeptInv, NEW b \in Requests, NEW m, JoinLoad(b, m), UNCHANGED request, Running(b),
         snapBuild[b].at # "git"
  PROVE  KeptInv'
<1> DEFINE l == IF loading = NoRequest THEN b ELSE loading
<1>1. snapBuild \in [Requests -> SnapBuilds] /\ load \in [Requests -> Loads] /\ l \in Requests
  BY DEF VisInv, VisTypeOK
<1> DEFINE v == [snapBuild[b] EXCEPT !.at = "git", !.load = l, !.mark = NewMark, !.got = Zero,
                                   !.since["git"] = IF l = b THEN @ ELSE 0]
<1>2. /\ snapBuild' = [snapBuild EXCEPT ![b] = v]
      /\ abortTimer' = abortTimer \ {<<"load", l>>}
      /\ l # b => load' = load
      /\ \A d \in Requests \ {b} : load'[d] = load[d]
  BY <1>1 DEF JoinLoad
<1>3. /\ Others(b) /\ snapBuild'[b].ended = snapBuild[b].ended
      /\ snapBuild'[b].at = "git" /\ snapBuild'[b].load = l
  <2> HIDE DEF l
  <2>1. v.at = "git" /\ v.load = l /\ v.ended = snapBuild[b].ended
    BY <1>1 DEF SnapBuilds
  <2> HIDE DEF v
  <2> QED BY <1>1, <1>2, <2>1 DEF Others
<1> HIDE DEF l, v
<1>4. ASSUME NEW d \in Requests PROVE Kept(d)'
  <2>1. Running(d)' => Running(d)
    BY <1>3 DEF Others, Running
  <2>2. snapBuild'[d].ended = snapBuild[d].ended
    BY <1>3 DEF Others
  <2> QED BY <1>2, <2>1, <2>2, KeptStays DEF KeptInv
<1>5. ASSUME NEW k \in Requests PROVE KeptLoad(k)'
  <2>1. CASE k = l
    BY <1>3, <2>1 DEF KeptLoad, GitConsumers
  <2>2. CASE k # l
    <3>1. load'[k] = load[k]
      BY <1>2, <2>2
    <3> QED BY <1>2, <1>3, <2>2, <3>1, KeptLoadStays DEF KeptInv, Others, Loading
  <2> QED BY <2>1, <2>2
<1>6. Unborn'
  BY <1>3 DEF KeptInv, Unborn, Others, Running
<1> QED BY <1>4, <1>5, <1>6 DEF KeptInv

(* The other steps, each with what it leaves. *)
LEMMA StepKeeps == ASSUME VisInv, KeptInv, NEW b \in Requests, SnapshotStep(b) PROVE KeptInv'
<1>1. snapBuild \in [Requests -> SnapBuilds] /\ load \in [Requests -> Loads]
  BY DEF VisInv, VisTypeOK
<1>2. CASE BuildAborted(b)
  <2>1. PICK timers : /\ SettleBuild(b, Cancelled, timers) /\ Running(b) /\ load' = load
                      /\ timers = IF snapBuild[b].at = "git" /\ Loading(snapBuild[b].load)
                                     /\ GitConsumers(snapBuild[b].load) = {b}
                                  THEN {<<"load", snapBuild[b].load>>} ELSE {}
    BY <1>2 DEF BuildAborted, gitVars
  <2>2. \A l \in Requests : Loading(l)' <=> Loading(l)
    BY <2>1 DEF Loading
  <2> QED BY <1>1, <2>1, <2>2, SettlingKeeps
<1>3. CASE ReadMarker(b)
  <2>1. /\ UNCHANGED request /\ Running(b) /\ snapBuild[b].at # "git"
    BY <1>3 DEF ReadMarker, Step, At, Running
  <2>2. \/ JoinLoad(b, Marker)
        \/ /\ UNCHANGED <<abortTimer, load>>
           /\ Others(b) /\ snapBuild'[b].ended = snapBuild[b].ended
    BY <1>1, <1>3 DEF ReadMarker, SnapBuilds, Others
  <2> QED BY <2>1, <2>2, JoiningKeeps, MovingKeeps
<1>4. CASE ReadState(b)
  <2>1. /\ UNCHANGED request /\ Running(b) /\ snapBuild[b].at # "git"
    BY <1>4 DEF ReadState, Step, At, Running
  <2>2. \/ JoinLoad(b, snapBuild[b].mark.marker)
        \/ /\ UNCHANGED <<abortTimer, load>>
           /\ Others(b) /\ snapBuild'[b].ended = snapBuild[b].ended
    <3>1. ASSUME NEW mark, NEW paths, Tracked(b, mark, paths)
          PROVE  Others(b) /\ snapBuild'[b].ended = snapBuild[b].ended
      <4> DEFINE v == [snapBuild[b] EXCEPT !.at = "check", !.mark = mark, !.got["git"] = paths,
                                         !.load = NoRequest, !.base = snapCache[PolicyOf[b]]]
      <4>1. snapBuild' = [snapBuild EXCEPT ![b] = v]
        BY <3>1 DEF Tracked
      <4>2. v.ended = snapBuild[b].ended
        BY <1>1 DEF SnapBuilds
      <4> HIDE DEF v
      <4> QED BY <1>1, <4>1, <4>2 DEF Others
    <3>2. CASE snapBuild[b].mark.state = world["git"]
      <4>1. /\ Tracked(b, snapBuild[b].mark, snapBuild[b].got["git"])
            /\ UNCHANGED <<abortTimer, load, loading>>
        BY <1>4, <3>2 DEF ReadState
      <4> QED BY <3>1, <4>1
    <3>3. CASE snapBuild[b].mark.state # world["git"]
      BY <1>4, <3>3 DEF ReadState
    <3> QED BY <3>2, <3>3
  <2> QED BY <2>1, <2>2, JoiningKeeps, MovingKeeps
<1>5. CASE TakeLoad(b)
  <2>1. PICK k \in Requests : snapBuild[b].load = k /\ snapBuild[b].at = "git"
    BY <1>5 DEF TakeLoad, At, VisInv, BuildsInv, BuildOK
  <2>2. /\ load[k].at \in {"settled", "failed"} /\ Running(b)
        /\ load' = load \/ load' = [load EXCEPT ![k] = NewLoad]
    BY <1>5, <2>1 DEF TakeLoad, At, Running
  <2>3. \A l \in Requests : Loading(l)' => l # k /\ load'[l] = load[l]
    BY <1>1, <2>2 DEF Loading, NewLoad
  <2>4. CASE SettleBuild(b, Cancelled, {})
    BY <1>1, <2>1, <2>2, <2>3, <2>4, SettlingKeeps
  <2>5. CASE Tracked(b, load[k].mark, load[k].paths) /\ UNCHANGED <<request, abortTimer>>
    <3>1. Others(b) /\ snapBuild'[b].ended = snapBuild[b].ended
      BY <1>1, <2>5 DEF Tracked, SnapBuilds, Others
    <3>2. ASSUME NEW d \in Requests PROVE Kept(d)'
      <4>1. Running(d)' => Running(d)
        BY <2>2, <3>1 DEF Others, Running
      <4>2. snapBuild'[d].ended = snapBuild[d].ended
        BY <3>1 DEF Others
      <4> QED BY <2>5, <4>1, <4>2, KeptStays DEF KeptInv
    <3>3. ASSUME NEW l \in Requests PROVE KeptLoad(l)'
      <4>1. CASE Loading(l)'
        BY <2>1, <2>3, <2>5, <3>1, <4>1, KeptLoadStays DEF KeptInv, Others, Loading
      <4>2. CASE ~Loading(l)'
        BY <4>2 DEF KeptLoad
      <4> QED BY <4>1, <4>2
    <3>4. Unborn'
      BY <2>2, <2>5, <3>1 DEF KeptInv, Unborn, Others, Running
    <3> QED BY <3>2, <3>3, <3>4 DEF KeptInv
  <2> QED BY <1>5, <2>1, <2>4, <2>5 DEF TakeLoad
<1>6. CASE CheckStamps(b)
  <2>1. Running(b) /\ snapBuild[b].at # "git" /\ load' = load
    BY <1>6 DEF CheckStamps, At, Running, gitVars
  <2>2. \/ SettleBuild(b, snapBuild[b].base.snapshot, {})
        \/ /\ UNCHANGED <<request, abortTimer>>
           /\ Others(b) /\ snapBuild'[b].ended = snapBuild[b].ended
    BY <1>1, <1>6 DEF CheckStamps, SnapBuilds, Others
  <2> QED BY <1>1, <2>1, <2>2, SettlingKeeps, MovingKeeps
<1>7. CASE ListDirectory(b) \/ StampDirectory(b) \/ StampRuleFiles(b)
  <2>1. /\ Running(b) /\ snapBuild[b].at # "git" /\ UNCHANGED <<load, request, abortTimer>>
    BY <1>7 DEF ListDirectory, StampDirectory, StampRuleFiles, Step, At, Running, gitVars
  <2>2. Others(b) /\ snapBuild'[b].ended = snapBuild[b].ended
    BY <1>1, <1>7 DEF ListDirectory, StampDirectory, StampRuleFiles, SnapBuilds, Others
  <2> QED BY <2>1, <2>2, MovingKeeps
<1>8. CASE Compile(b)
  <2>1. /\ Running(b) /\ snapBuild[b].at # "git" /\ load' = load
        /\ SettleBuild(b, Compilation(b), {})
    BY <1>8 DEF Compile, Compilation, At, Running, gitVars
  <2> QED BY <1>1, <2>1, SettlingKeeps
<1> QED BY <1>2, <1>3, <1>4, <1>5, <1>6, <1>7, <1>8 DEF SnapshotStep

LEMMA CallKeeps ==
  ASSUME VisInv, KeptInv, NEW c \in Requests, CreateSnapshot(c) \/ CancelCall(c) PROVE KeptInv'
<1>1. /\ snapBuild \in [Requests -> SnapBuilds] /\ request \in [Requests -> Requested]
      /\ pendingSnap \in [Policies -> Requests \union {NoRequest}] /\ PolicyOf[c] \in Policies
  BY VisibilityAssumption DEF VisInv, VisTypeOK
<1>2. CASE CreateSnapshot(c)
  <2> DEFINE b == IF pendingSnap[PolicyOf[c]] = NoRequest THEN c ELSE pendingSnap[PolicyOf[c]]
  <2>1. /\ request' = [request EXCEPT ![c].at = "waits", ![c].joined = b]
        /\ abortTimer' = abortTimer \ {<<"build", b>>}
        /\ snapBuild' = IF b # c THEN snapBuild
                 ELSE [snapBuild EXCEPT ![c].at = "marker", ![c].born = epoch, ![c].since = world]
        /\ load' = load /\ request[c].at = "new"
    BY <1>2 DEF CreateSnapshot, gitVars
  <2>2. b \in Requests
    BY <1>1
  <2> HIDE DEF b
  <2>3. /\ request'[c].at = "waits" /\ request'[c].joined = b /\ snapBuild[c].at = "none"
        /\ \A d \in Requests \ {c} : request'[d] = request[d]
    BY <1>1, <2>1 DEF Requested, KeptInv, Unborn
  <2>4. /\ \A d \in Requests \ {c} : snapBuild'[d] = snapBuild[d]
        /\ snapBuild'[c].ended = snapBuild[c].ended
        /\ b # c => snapBuild'[c] = snapBuild[c]
    BY <1>1, <2>1 DEF SnapBuilds
  <2>5. ASSUME NEW d \in Requests PROVE Kept(d)'
    <3>1. CASE d = b
      BY <2>3, <3>1 DEF Kept, Waiting
    <3>2. CASE d # b
      <4>1. snapBuild'[d] = snapBuild[d]
        BY <2>4, <3>2
      <4> QED BY <2>1, <2>3, <3>2, <4>1, KeptStays DEF KeptInv, Running
    <3> QED BY <3>1, <3>2
  <2>6. ASSUME NEW l \in Requests PROVE KeptLoad(l)'
    BY <2>1, <2>3, <2>4, KeptLoadStays DEF KeptInv, Loading
  <2>7. Unborn'
    BY <2>3, <2>4 DEF KeptInv, Unborn
  <2> QED BY <2>5, <2>6, <2>7 DEF KeptInv
<1>3. CASE CancelCall(c)
  <2>1. /\ request' = [request EXCEPT ![c] = [at |-> "done", joined |-> NoRequest, answer |-> Cancelled]]
        /\ abortTimer' = IF Waiting(request[c].joined) = {c}
              THEN abortTimer \union {<<"build", request[c].joined>>} ELSE abortTimer
        /\ UNCHANGED <<snapBuild, load>>
    BY <1>3 DEF CancelCall, gitVars
  <2>2. request'[c].at = "done" /\ \A d \in Requests \ {c} : request'[d] = request[d]
    BY <1>1, <2>1
  <2>3. ASSUME NEW d \in Requests PROVE Kept(d)'
    <3>1. CASE Waiting(d)' = {} /\ request[c].joined = d /\ Waiting(d) = {c}
      BY <2>1, <3>1 DEF Kept
    <3>2. CASE Waiting(d)' = {} /\ ~(request[c].joined = d /\ Waiting(d) = {c})
      <4>1. Waiting(d) \subseteq {c}
        BY <2>2, <3>2 DEF Waiting
      <4>2. Waiting(d) = {}
        BY <3>2, <4>1 DEF Waiting
      <4> QED BY <2>1, <4>2 DEF KeptInv, Kept, Running
    <3>3. CASE Waiting(d)' # {}
      BY <3>3 DEF Kept
    <3> QED BY <3>1, <3>2, <3>3
  <2>4. ASSUME NEW l \in Requests PROVE KeptLoad(l)'
    BY <2>1, KeptLoadStays DEF KeptInv, Loading
  <2>5. Unborn'
    BY <2>1, <2>2 DEF KeptInv, Unborn
  <2> QED BY <2>3, <2>4, <2>5 DEF KeptInv
<1> QED BY <1>2, <1>3

LEMMA EndingKeeps ==
  ASSUME VisInv, KeptInv, UNCHANGED request,
         \A d \in Requests : /\ snapBuild'[d].at = snapBuild[d].at
                             /\ snapBuild'[d].load = snapBuild[d].load
                             /\ snapBuild[d].ended # "no" => snapBuild'[d].ended # "no"
                             /\ load'[d].at = load[d].at
                             /\ load[d].ended # "no" => load'[d].ended # "no"
                             /\ <<"build", d>> \in abortTimer =>
                                  <<"build", d>> \in abortTimer' \/ snapBuild'[d].ended # "no"
                             /\ <<"load", d>> \in abortTimer =>
                                  <<"load", d>> \in abortTimer' \/ load'[d].ended # "no"
  PROVE  KeptInv'
<1>1. \A d \in Requests : Kept(d)'
  BY DEF KeptInv, Kept, Running, Waiting
<1>2. ASSUME NEW l \in Requests PROVE KeptLoad(l)'
  <2>1. GitConsumers(l)' = GitConsumers(l) /\ (Loading(l)' <=> Loading(l))
    BY DEF GitConsumers, Loading
  <2> QED BY <2>1 DEF KeptInv, KeptLoad
<1>3. Unborn'
  BY DEF KeptInv, Unborn
<1> QED BY <1>1, <1>2, <1>3 DEF KeptInv

LEMMA AbortKeeps ==
  ASSUME VisInv, KeptInv, UNCHANGED request, NEW ls \in SUBSET Requests, AbortPending(ls)
  PROVE  KeptInv'
<1>1. snapBuild \in [Requests -> SnapBuilds] /\ load \in [Requests -> Loads]
  BY DEF VisInv, VisTypeOK
<1>2. \A d \in Requests :
        /\ snapBuild'[d].at = snapBuild[d].at /\ snapBuild'[d].load = snapBuild[d].load
        /\ snapBuild[d].ended # "no" => snapBuild'[d].ended # "no"
        /\ d \in PendingBuilds => snapBuild'[d].ended # "no"
  BY <1>1 DEF AbortPending, SnapBuilds
<1>3. \A d \in Requests :
        /\ load'[d].at = load[d].at
        /\ load[d].ended # "no" => load'[d].ended # "no"
        /\ d \in ls => load'[d].ended # "no"
  BY <1>1 DEF AbortPending, Loads
<1>4. \A d \in Requests :
        /\ <<"build", d>> \in abortTimer /\ d \notin PendingBuilds => <<"build", d>> \in abortTimer'
        /\ <<"load", d>> \in abortTimer /\ d \notin ls => <<"load", d>> \in abortTimer'
  BY DEF AbortPending
<1> QED BY <1>2, <1>3, <1>4, EndingKeeps

LEMMA KeptInductive == VisInv /\ KeptInv /\ [VisNext]_visVars => KeptInv'
<1> SUFFICES ASSUME VisInv, KeptInv, [VisNext]_visVars PROVE KeptInv'
  OBVIOUS
<1>0. snapBuild \in [Requests -> SnapBuilds] /\ load \in [Requests -> Loads]
  BY DEF VisInv, VisTypeOK
<1>1. CASE UNCHANGED visVars
  BY <1>1, EndingKeeps DEF visVars
<1>2. ASSUME NEW c \in Requests, CreateSnapshot(c) \/ CancelCall(c) PROVE KeptInv'
  BY <1>2, CallKeeps
<1>3. ASSUME NEW c \in Requests, AbandonBuild(c) PROVE KeptInv'
  <2>1. /\ UNCHANGED <<request, load>> /\ abortTimer' = abortTimer \ {<<"build", c>>}
        /\ \A d \in Requests : /\ snapBuild'[d].at = snapBuild[d].at
                               /\ snapBuild'[d].load = snapBuild[d].load
                               /\ snapBuild[d].ended # "no" => snapBuild'[d].ended # "no"
        /\ snapBuild'[c].ended # "no"
    BY <1>0, <1>3 DEF AbandonBuild, gitVars, SnapBuilds
  <2>2. \A d \in Requests : /\ <<"build", d>> \in abortTimer => <<"build", d>> \in abortTimer' \/ d = c
                            /\ <<"load", d>> \in abortTimer => <<"load", d>> \in abortTimer'
    BY <2>1
  <2> QED BY <2>1, <2>2, EndingKeeps
<1>4. ASSUME NEW c \in Requests, AbandonLoad(c) PROVE KeptInv'
  <2>1. /\ UNCHANGED <<request, snapBuild>> /\ abortTimer' = abortTimer \ {<<"load", c>>}
        /\ \A d \in Requests : /\ load'[d].at = load[d].at
                               /\ load[d].ended # "no" => load'[d].ended # "no"
        /\ load'[c].ended # "no"
    BY <1>0, <1>4 DEF AbandonLoad, Loads
  <2>2. \A d \in Requests : /\ <<"load", d>> \in abortTimer => <<"load", d>> \in abortTimer' \/ d = c
                            /\ <<"build", d>> \in abortTimer => <<"build", d>> \in abortTimer'
    BY <2>1
  <2> QED BY <2>1, <2>2, EndingKeeps
<1>5. ASSUME NEW c \in Requests, SnapshotStep(c) PROVE KeptInv'
  BY <1>5, StepKeeps
<1>6. ASSUME NEW c \in Requests, LoadStep(c) PROVE KeptInv'
  <2>1. /\ UNCHANGED <<request, snapBuild>>
        /\ \A d \in Requests : d # c =>
             load'[d] = load[d] /\ (<<"load", d>> \in abortTimer => <<"load", d>> \in abortTimer')
        /\ \A d \in Requests : <<"build", d>> \in abortTimer => <<"build", d>> \in abortTimer'
    BY <1>0, <1>6 DEF LoadStep, LoadRead, LoadAborted, SettleLoad
  <2>2. \/ ~Loading(c)'
        \/ load'[c].ended = load[c].ended /\ abortTimer' = abortTimer /\ Loading(c)
    <3>1. CASE LoadAborted(c)
      BY <1>0, <3>1 DEF LoadAborted, SettleLoad, NewLoad, Loading
    <3>2. ASSUME NEW half \in {"paths", "state"}, LoadRead(c, half)
          PROVE  \/ ~Loading(c)'
                 \/ load'[c].ended = load[c].ended /\ abortTimer' = abortTimer /\ Loading(c)
      <4> DEFINE r == [load[c] EXCEPT !.todo = @ \ {half},
                     !.paths = IF half = "paths" THEN world["git"] ELSE @,
                     !.mark.state = IF half = "state" THEN world["git"] ELSE @]
      <4>1. \/ load' = [load EXCEPT ![c] = r] /\ UNCHANGED abortTimer
            \/ load' = [load EXCEPT ![c] = [r EXCEPT !.at = "settled"]]
        BY <3>2 DEF LoadRead, SettleLoad
      <4>2. r.ended = load[c].ended /\ [r EXCEPT !.at = "settled"].at = "settled" /\ Loading(c)
        BY <1>0, <3>2 DEF LoadRead, Loading, Loads
      <4> HIDE DEF r
      <4> QED BY <1>0, <4>1, <4>2 DEF Loading
    <3> QED BY <1>6, <3>1, <3>2 DEF LoadStep
  <2>3. \A d \in Requests : Kept(d)'
    BY <2>1, KeptStays DEF KeptInv, Running
  <2>4. ASSUME NEW l \in Requests PROVE KeptLoad(l)'
    BY <2>1, <2>2, KeptLoadStays DEF KeptInv, KeptLoad, Loading
  <2>5. Unborn'
    BY <2>1 DEF KeptInv, Unborn
  <2> QED BY <2>3, <2>4, <2>5 DEF KeptInv
<1>7. CASE InvalidateWorkspace \/ InvalidateAll
  <2>1. PICK ls \in SUBSET Requests : AbortPending(ls)
    BY <1>7 DEF InvalidateWorkspace, InvalidateAll, VisInv, VisTypeOK
  <2> QED BY <1>7, <2>1, AbortKeeps DEF InvalidateWorkspace, InvalidateAll
<1>8. ASSUME NEW part \in Parts, Edit(part) PROVE KeptInv'
  BY <1>8, EndingKeeps DEF Edit, gitVars
<1> QED BY <1>1, <1>2, <1>3, <1>4, <1>5, <1>6, <1>7, <1>8 DEF VisNext

LEMMA KeptHolds == VisSpec => []KeptInv
<1>1. VisInit => KeptInv
  BY DEF VisInit, KeptInv, Kept, KeptLoad, Unborn, Running, Loading, NewSnapBuild, NewLoad
<1> QED BY <1>1, VisInvHolds, KeptInductive, PTL DEF VisSpec

-----------------------------------------------------------------------------
(* A build or a git load that nobody waits for has been told to stop, or its abort
   timer runs: consume of shared-build.ts. *)
THEOREM NothingIsOrphaned == VisSpec => []NoOrphanBuild
<1>1. KeptInv => NoOrphanBuild
  BY DEF KeptInv, Kept, KeptLoad, NoOrphanBuild
<1> QED BY <1>1, KeptHolds, PTL

(* A cached snapshot whose stamps all match the disk was compiled from what is on the
   disk: scanRuleDirectory, addRuleFile and the git loader stamp before they read. *)
THEOREM SnapshotsAreCoherent == VisSpec => []SnapshotsCoherent
<1>1. VisInv /\ KeptInv => SnapshotsCoherent
  <2> SUFFICES ASSUME VisInv, KeptInv PROVE SnapshotsCoherent
    OBVIOUS
  <2>1. VisTypeOK /\ NoOrphanBuild
    BY DEF VisInv, KeptInv, Kept, KeptLoad, NoOrphanBuild
  <2>2. ASSUME NEW p \in Policies, snapCache[p] # NoSnapshot PROVE EntryCoherent(snapCache[p])
    <3>1. snapCache[p] \in SnapEntries /\ Sound(snapCache[p]) /\ world \in Disks
      BY <2>2 DEF VisInv, VisTypeOK, EntriesInv
    <3>2. world["git"] \in Nat /\ world["rules"] \in Nat
      BY <3>1, DisksAreNumbers
    <3> QED BY <3>1, <3>2, StampsAreNumbers DEF Sound, EntryCoherent
  <2> QED BY <2>1, <2>2 DEF SnapshotsCoherent
<1> QED BY <1>1, VisInvHolds, KeptHolds, PTL

(* A call is answered with nothing older than the beginning of its build: the stamps
   that visibilityStampsUnchanged compares and the texts that are compiled. *)
THEOREM AnswersAreOfTheBuild == VisSpec => AnswersOfBuild
<1>1. VisInv /\ [VisNext]_visVars =>
        [\A c \in Requests : Answered(c) /\ request'[c].answer # Cancelled =>
           LET begun == snapBuild[request[c].joined].since IN
           /\ request'[c].answer["rules"] >= begun["rules"]
           /\ Linked \/ request'[c].answer["git"] >= begun["git"]]_visVars
  BY AnswersAreGood DEF GoodAnswer
<1> QED BY <1>1, VisInvHolds, PTL DEF VisSpec, AnswersOfBuild

-----------------------------------------------------------------------------
(* The walk: what it holds between two steps. *)

(* A directory whose listing the walk goes through, or has gone through, unless it could
   not be read. *)
WalkedInto(d) ==
  \/ d = start
  \/ /\ d \in Nodes /\ IsDirectory(d)
     /\ event[d] = "entry" \/ (event[d] = "ignored" /\ ~Prune(snap, d))

InStack(p) == \E i \in 1..Len(stack) : \E j \in 1..Len(stack[i]) : stack[i][j] = p

WalkTypes ==
  /\ start \in Starts /\ explicit \in BOOLEAN /\ limit \in Nat
  /\ stack \in Seq(Seq(Nodes)) /\ event \in [Nodes -> Events]
  /\ scanned \in Nat /\ stopped \in BOOLEAN

(* What is left of the listings is of directories walked into, has not been reached, and
   nothing is listed twice. *)
StackExact ==
  \A p \in Nodes : \A i \in 1..Len(stack) : \A j \in 1..Len(stack[i]) : stack[i][j] = p =>
    /\ event[p] = "none" /\ p \in Below(start) /\ WalkedInto(Parent[p])
    /\ \A k \in 1..Len(stack) : \A l \in 1..Len(stack[k]) : stack[k][l] = p => k = i /\ l = j

(* What was reached was reached through directories walked into, and its event is true. *)
EventsExact ==
  \A p \in Nodes : event[p] # "none" =>
    /\ p \in Below(start) /\ WalkedInto(Parent[p])
    /\ \A q \in Between(p) : q \in Nodes /\ event[q] \in {"entry", "ignored"}
    /\ event[p] = "blocked" <=> p \in Blocked
    /\ event[p] = "symlink" => KindOf[p] = "symlink"
    /\ event[p] = "ignored" => Hidden(p)
    /\ event[p] = "entry" => ~Hidden(p)

(* Nothing is forgotten: what a directory walked into holds was reached or is listed,
   unless the budget is spent. *)
NothingForgotten ==
  ended \in {"no", "done"} /\ ~stopped =>
    \A p \in Nodes : WalkedInto(Parent[p]) => event[p] # "none" \/ InStack(p)

(* The inductive invariant of the walk, but for its budget. *)
WalkInv ==
  /\ WalkTypes /\ StackExact /\ EventsExact /\ NothingForgotten
  /\ ended = "done" => stack = <<>> /\ ~stopped

-----------------------------------------------------------------------------
(* The directories above a path. *)

LEMMA AboveClosed ==
  ASSUME NEW p \in Nodes
  PROVE  /\ Parent[p] \in Nodes \union {Root} /\ Parent[p] \in Above[p]
         /\ Above[p] \subseteq Nodes \union {Root} /\ Closed(Above[p])
         /\ \A S \in SUBSET (Nodes \union {Root}) :
              Parent[p] \in S /\ Closed(S) => Above[p] \subseteq S
<1>1. Parent[p] \in Nodes \union {Root}
  BY TreeAssumption
<1>2. Above[p] = {d \in Nodes \union {Root} :
            \A S \in SUBSET (Nodes \union {Root}) : Parent[p] \in S /\ Closed(S) => d \in S}
  BY DEF Above
<1>3. ASSUME NEW q \in Above[p] \ {Root} PROVE Parent[q] \in Above[p]
  <2>1. q \in Nodes /\ Parent[q] \in Nodes \union {Root}
    BY <1>2, TreeAssumption
  <2>2. ASSUME NEW S \in SUBSET (Nodes \union {Root}), Parent[p] \in S, Closed(S)
        PROVE  Parent[q] \in S
    BY <1>2, <2>1, <2>2 DEF Closed
  <2> QED BY <1>2, <2>1, <2>2
<1>4. Closed(Above[p])
  BY <1>3 DEF Closed
<1> QED BY <1>1, <1>2, <1>4

LEMMA AboveOfAbove ==
  ASSUME NEW p \in Nodes, NEW q \in Above[p], q # Root
  PROVE  q \in Nodes /\ Above[q] \subseteq Above[p]
<1>1. q \in Nodes /\ Parent[q] \in Above[p] /\ Above[p] \in SUBSET (Nodes \union {Root})
  BY AboveClosed DEF Closed
<1> QED BY <1>1, AboveClosed

LEMMA AboveIs ==
  ASSUME NEW p \in Nodes
  PROVE  Above[p] = {Parent[p]} \union (IF Parent[p] = Root THEN {} ELSE Above[Parent[p]])
<1> DEFINE Up == {Parent[p]} \union (IF Parent[p] = Root THEN {} ELSE Above[Parent[p]])
<1>1. Up \subseteq Above[p]
  BY AboveClosed, AboveOfAbove
<1>2. Parent[p] \in Up /\ Up \in SUBSET (Nodes \union {Root})
  BY <1>1, AboveClosed
<1>3. ASSUME NEW q \in Up \ {Root} PROVE Parent[q] \in Up
  <2>1. CASE q = Parent[p]
    <3>1. q \in Nodes /\ Parent[q] \in Above[q]
      BY <1>3, <2>1, AboveClosed
    <3> QED BY <1>3, <2>1, <3>1
  <2>2. CASE q # Parent[p]
    <3>1. Parent[p] # Root /\ q \in Above[Parent[p]] /\ Parent[p] \in Nodes
      BY <1>3, <2>2, AboveClosed
    <3>2. Parent[q] \in Above[Parent[p]]
      BY <1>3, <3>1, AboveClosed DEF Closed
    <3> QED BY <3>1, <3>2
  <2> QED BY <2>1, <2>2
<1>4. Closed(Up)
  BY <1>3 DEF Closed
<1>5. Above[p] \subseteq Up
  BY <1>2, <1>4, AboveClosed
<1> QED BY <1>1, <1>5

\* Of the directories above an entry, those below the start of the walk are its directory
\* and the ones between that directory and the start.
LEMMA BetweenOf ==
  ASSUME start \in Nodes \union {Root}, NEW p \in Nodes,
         Parent[p] = start \/ Parent[p] \in Below(start)
  PROVE  /\ p \in Below(start) /\ p # start
         /\ Between(p) = IF Parent[p] = start THEN {}
                         ELSE {Parent[p]} \union Between(Parent[p])
<1>1. p \in Below(start)
  <2>1. CASE Parent[p] = start
    BY <2>1, AboveClosed DEF Below
  <2>2. CASE Parent[p] \in Below(start)
    <3>1. Parent[p] \in Nodes /\ start \in Above[Parent[p]] /\ Parent[p] # Root
      BY <2>2, TreeAssumption DEF Below
    <3> QED BY <3>1, AboveIs DEF Below
  <2> QED BY <2>1, <2>2
<1>2. /\ start \notin Below(start)
      /\ \A q \in Nodes : q \in Above[start] /\ start \in Nodes => q \notin Below(start)
  <2>1. start \notin Below(start)
    BY TreeAssumption DEF Below
  <2>2. ASSUME NEW q \in Nodes, start \in Nodes, q \in Above[start], start \in Above[q] PROVE FALSE
    <3>1. q # Root
      BY TreeAssumption
    <3>2. start \in Above[start]
      BY <2>2, <3>1, AboveOfAbove
    <3> QED BY <2>2, <3>2, TreeAssumption
  <2> QED BY <2>1, <2>2 DEF Below
<1>3. CASE Parent[p] = start
  <2>1. \A q \in Above[p] : q = start \/ (start \in Nodes /\ q \in Above[start])
    BY <1>3, AboveIs
  <2>2. \A q \in Above[p] : q \notin Below(start)
    BY <1>2, <2>1 DEF Below
  <2> QED BY <1>1, <1>2, <1>3, <2>2 DEF Between
<1>4. CASE Parent[p] # start
  <2>1. Parent[p] \in Nodes /\ Parent[p] # Root /\ Parent[p] \in Below(start)
    BY <1>4, TreeAssumption DEF Below
  <2>2. Above[p] = {Parent[p]} \union Above[Parent[p]]
    BY <2>1, AboveIs
  <2> QED BY <1>1, <1>2, <1>4, <2>1, <2>2 DEF Between
<1> QED BY <1>3, <1>4

-----------------------------------------------------------------------------
(* The stack of listings. *)

LEMMA RestIs ==
  ASSUME stack \in Seq(Seq(Nodes)), Walking
  PROVE  /\ 1 \in 1..Len(stack) /\ 1 \in 1..Len(stack[1]) /\ Child = stack[1][1] /\ Child \in Nodes
         /\ Rest \in Seq(Seq(Nodes)) /\ Len(Rest) = Len(stack)
         /\ Len(Rest[1]) = Len(stack[1]) - 1
         /\ \A j \in 1..Len(Rest[1]) : j + 1 \in 1..Len(stack[1]) /\ Rest[1][j] = stack[1][j + 1]
         /\ \A i \in 1..Len(stack) : i # 1 => Rest[i] = stack[i]
         /\ \A i \in 1..Len(stack) : stack[i] \in Seq(Nodes) /\ Rest[i] \in Seq(Nodes)
<1>1. stack # <<>> /\ Head(stack) # <<>> /\ Head(stack) = stack[1] /\ stack[1] \in Seq(Nodes)
  BY DEF Walking
<1>2. 1 \in 1..Len(stack) /\ 1 \in 1..Len(stack[1]) /\ Child = stack[1][1] /\ Child \in Nodes
  BY <1>1 DEF Child
<1>3. /\ Tail(stack[1]) \in Seq(Nodes) /\ Len(Tail(stack[1])) = Len(stack[1]) - 1
      /\ \A j \in 1..Len(Tail(stack[1])) :
           j + 1 \in 1..Len(stack[1]) /\ Tail(stack[1])[j] = stack[1][j + 1]
  BY <1>1
<1>4. /\ Tail(stack) \in Seq(Seq(Nodes)) /\ Len(Tail(stack)) = Len(stack) - 1
      /\ \A i \in 1..Len(Tail(stack)) : Tail(stack)[i] = stack[i + 1]
  BY <1>1
<1>5. Rest = <<Tail(stack[1])>> \o Tail(stack)
  BY <1>1 DEF Rest
<1>6. Rest \in Seq(Seq(Nodes)) /\ Len(Rest) = Len(stack) /\ Rest[1] = Tail(stack[1])
  BY <1>1, <1>3, <1>4, <1>5
<1>7. ASSUME NEW i \in 1..Len(stack), i # 1 PROVE Rest[i] = stack[i]
  <2>1. i - 1 \in 1..Len(Tail(stack)) /\ Rest[i] = Tail(stack)[i - 1]
    BY <1>3, <1>4, <1>5, <1>7
  <2> QED BY <1>4, <1>7, <2>1
<1> QED BY <1>2, <1>3, <1>6, <1>7

\* What is left when the next entry is taken: each entry once, and not that one.
LEMMA RestExact ==
  ASSUME stack \in Seq(Seq(Nodes)), StackExact, Walking
  PROVE  /\ \A p \in Nodes : \A i \in 1..Len(Rest) : \A j \in 1..Len(Rest[i]) : Rest[i][j] = p =>
              /\ p # Child /\ event[p] = "none" /\ p \in Below(start) /\ WalkedInto(Parent[p])
              /\ \A k \in 1..Len(Rest) : \A l \in 1..Len(Rest[k]) : Rest[k][l] = p => k = i /\ l = j
         /\ \A p \in Nodes : InStack(p) =>
              p = Child \/ \E i \in 1..Len(Rest) : \E j \in 1..Len(Rest[i]) : Rest[i][j] = p
<1> DEFINE Place(i, j) == IF i = 1 THEN j + 1 ELSE j
<1>1. ASSUME NEW i \in 1..Len(Rest), NEW j \in 1..Len(Rest[i])
      PROVE  /\ i \in 1..Len(stack) /\ Place(i, j) \in 1..Len(stack[i])
             /\ Rest[i][j] = stack[i][Place(i, j)] /\ Rest[i][j] \in Nodes /\ ~(i = 1 /\ Place(i, j) = 1)
  <2>1. i \in 1..Len(stack) /\ Rest[i] \in Seq(Nodes)
    BY RestIs
  <2>2. CASE i = 1
    BY <2>1, <2>2, RestIs
  <2>3. CASE i # 1
    BY <2>1, <2>3, RestIs
  <2> QED BY <2>2, <2>3
<1>2. \A i, j, l : i \in 1..Len(Rest) /\ j \in Int /\ l \in Int /\ Place(i, j) = Place(i, l) => j = l
  OBVIOUS
<1> HIDE DEF Place
<1>3. ASSUME NEW p \in Nodes, NEW i \in 1..Len(Rest), NEW j \in 1..Len(Rest[i]), Rest[i][j] = p
      PROVE  /\ p # Child /\ event[p] = "none" /\ p \in Below(start) /\ WalkedInto(Parent[p])
             /\ \A k \in 1..Len(Rest) : \A l \in 1..Len(Rest[k]) : Rest[k][l] = p => k = i /\ l = j
  <2>1. /\ i \in 1..Len(stack) /\ Place(i, j) \in 1..Len(stack[i]) /\ p = stack[i][Place(i, j)]
        /\ ~(i = 1 /\ Place(i, j) = 1)
    BY <1>1, <1>3
  <2>2. /\ event[p] = "none" /\ p \in Below(start) /\ WalkedInto(Parent[p])
        /\ \A k \in 1..Len(stack) : \A l \in 1..Len(stack[k]) : stack[k][l] = p => k = i /\ l = Place(i, j)
    BY <2>1 DEF StackExact
  <2>3. p # Child
    BY <2>1, <2>2, RestIs
  <2>4. ASSUME NEW k \in 1..Len(Rest), NEW l \in 1..Len(Rest[k]), Rest[k][l] = p PROVE k = i /\ l = j
    <3>1. k \in 1..Len(stack) /\ Place(k, l) \in 1..Len(stack[k]) /\ stack[k][Place(k, l)] = p
      BY <1>1, <2>4
    <3>2. k = i /\ Place(i, l) = Place(i, j)
      BY <2>2, <3>1
    <3> QED BY <1>2, <3>2
  <2> QED BY <2>2, <2>3, <2>4
<1>4. ASSUME NEW p \in Nodes, InStack(p), p # Child
      PROVE  \E i \in 1..Len(Rest) : \E j \in 1..Len(Rest[i]) : Rest[i][j] = p
  <2>0. PICK i \in 1..Len(stack) : \E j \in 1..Len(stack[i]) : stack[i][j] = p
    BY <1>4 DEF InStack
  <2>1. PICK j \in 1..Len(stack[i]) : stack[i][j] = p
    BY <2>0
  <2>2. i \in 1..Len(Rest) /\ stack[i] \in Seq(Nodes)
    BY RestIs
  <2>3. CASE i = 1
    <3>1. j # 1
      BY <1>4, <2>1, <2>3, RestIs
    <3>2. j - 1 \in 1..Len(Rest[1]) /\ (j - 1) + 1 = j
      BY <2>2, <2>3, <3>1, RestIs
    <3>3. Rest[1][j - 1] = p
      BY <2>1, <2>3, <3>2, RestIs
    <3> QED BY <2>2, <2>3, <3>2, <3>3
  <2>4. CASE i # 1
    BY <2>1, <2>2, <2>4, RestIs
  <2> QED BY <2>3, <2>4
<1> QED BY <1>3, <1>4

\* The listing of a directory is put in front of what is left.
LEMMA PushIs ==
  ASSUME NEW s \in Seq(Nodes), NEW r \in Seq(Seq(Nodes)), NEW t, t = <<s>> \o r
  PROVE  /\ t \in Seq(Seq(Nodes)) /\ Len(t) = Len(r) + 1 /\ t[1] = s /\ 1 \in 1..Len(t)
         /\ \A i \in 1..Len(t) : i # 1 => i - 1 \in 1..Len(r) /\ t[i] = r[i - 1]
         /\ \A i \in 1..Len(r) : i + 1 \in 1..Len(t) /\ t[i + 1] = r[i] /\ i + 1 # 1
OBVIOUS

LEMMA ListingIs ==
  ASSUME NEW d \in {Root} \union {p \in Nodes : IsDirectory(p)}
  PROVE  /\ Listing[d] \in Seq(Nodes)
         /\ \A j \in 1..Len(Listing[d]) : Listing[d][j] \in Nodes /\ Parent[Listing[d][j]] = d
         /\ \A j, l \in 1..Len(Listing[d]) : Listing[d][j] = Listing[d][l] => j = l
         /\ \A p \in Nodes : Parent[p] = d => \E j \in 1..Len(Listing[d]) : Listing[d][j] = p
<1>1. /\ Listing[d] \in Seq(Nodes) /\ d \in DOMAIN Listing
      /\ ToSet(Listing[d]) = {p \in Nodes : Parent[p] = d} /\ IsInjective(Listing[d])
  BY WalkAssumption
<1>2. DOMAIN Listing[d] = 1..Len(Listing[d])
  BY <1>1
<1> QED BY <1>1, <1>2 DEF ToSet, IsInjective

-----------------------------------------------------------------------------
(* The steps. *)

LEMMA InputsKept ==
  ASSUME Inputs
  PROVE  /\ start' = start /\ (RootIgnored' <=> RootIgnored) /\ (Bypass' <=> Bypass)
         /\ Below(start)' = Below(start)
         /\ \A p \in Nodes : Between(p)' = Between(p) /\ (Hidden(p)' <=> Hidden(p))
         /\ \A d \in Nodes \union {Root} :
              WalkedInto(d)' <=>
                \/ d = start
                \/ /\ d \in Nodes /\ IsDirectory(d)
                   /\ event'[d] = "entry" \/ (event'[d] = "ignored" /\ ~Prune(snap, d))
BY DEF Inputs, Between, Hidden, Bypass, RootIgnored, WalkedInto

LEMMA StartIsDirectory ==
  ASSUME WalkTypes
  PROVE  /\ start \in {Root} \union {p \in Nodes : IsDirectory(p)}
         /\ start \in Nodes \union {Root} /\ start \notin Below(start)
BY WalkAssumption, TreeAssumption DEF WalkTypes, Below

\* The next entry is reached: skipped, or yielded, or walked into.
LEMMA WalkGoesOn ==
  ASSUME WalkInv, Walking, NEW c \in Nodes, c = Child, NEW what \in Events \ {"none"},
         Yield(c, what), Inputs, UNCHANGED <<stopped, ended>>, scanned' \in Nat,
         what = "blocked" <=> c \in Blocked, what = "symlink" => KindOf[c] = "symlink",
         what = "ignored" => Hidden(c), what = "entry" => ~Hidden(c),
         \/ stack' = Rest /\ ~WalkedInto(c)'
         \/ stack' = <<Listing[c]>> \o Rest /\ WalkedInto(c)'
  PROVE  WalkInv'
<1> USE DEF WalkInv
<1>1. /\ stack \in Seq(Seq(Nodes)) /\ event \in [Nodes -> Events] /\ Rest \in Seq(Seq(Nodes))
      /\ 1 \in 1..Len(stack) /\ 1 \in 1..Len(stack[1]) /\ c = stack[1][1]
  BY RestIs DEF WalkTypes
<1>2. event[c] = "none" /\ c \in Below(start) /\ WalkedInto(Parent[c])
  BY <1>1 DEF StackExact
<1>3. event' \in [Nodes -> Events] /\ event'[c] = what /\ \A p \in Nodes \ {c} : event'[p] = event[p]
  BY <1>1 DEF Yield
<1>4. /\ start' = start /\ Below(start)' = Below(start) /\ start \in Nodes \union {Root} /\ c # start
      /\ \A p \in Nodes : Between(p)' = Between(p) /\ (Hidden(p)' <=> Hidden(p))
  BY <1>2, InputsKept, StartIsDirectory
<1>5. \A d \in Nodes \union {Root} : d # c => (WalkedInto(d)' <=> WalkedInto(d))
  BY <1>3, InputsKept DEF WalkedInto
<1>6. ~WalkedInto(c)
  BY <1>2, <1>4 DEF WalkedInto
<1>7. \A d \in Nodes \union {Root} : WalkedInto(d) => WalkedInto(d)'
  BY <1>5, <1>6
<1>8. \A p \in Nodes : \A i \in 1..Len(Rest) : \A j \in 1..Len(Rest[i]) : Rest[i][j] = p =>
        /\ p # c /\ event[p] = "none" /\ p \in Below(start) /\ WalkedInto(Parent[p])
        /\ \A k \in 1..Len(Rest) : \A l \in 1..Len(Rest[k]) : Rest[k][l] = p => k = i /\ l = j
  BY <1>1, RestExact
<1>9. \A p \in Nodes : InStack(p) =>
        p = c \/ \E i \in 1..Len(Rest) : \E j \in 1..Len(Rest[i]) : Rest[i][j] = p
  BY <1>1, RestExact
<1>10. \A p \in Nodes : Parent[p] \in Nodes \union {Root}
  BY TreeAssumption
<1>11. ASSUME WalkedInto(c)'
       PROVE  /\ Listing[c] \in Seq(Nodes)
              /\ \A j \in 1..Len(Listing[c]) : Listing[c][j] \in Nodes /\ Parent[Listing[c][j]] = c
              /\ \A l, m \in 1..Len(Listing[c]) : Listing[c][l] = Listing[c][m] => l = m
              /\ \A p \in Nodes : Parent[p] = c =>
                   /\ event'[p] = "none" /\ event[p] = "none" /\ p \in Below(start)
                   /\ \E n \in 1..Len(Listing[c]) : Listing[c][n] = p
  <2>1. IsDirectory(c)
    BY <1>4, <1>11, InputsKept
  <2>2. ASSUME NEW p \in Nodes, Parent[p] = c
        PROVE  event'[p] = "none" /\ event[p] = "none" /\ p \in Below(start)
    <3>1. p \in Below(start) /\ p # c
      BY <1>2, <1>4, <2>2, BetweenOf, AboveClosed, TreeAssumption
    <3>2. event[p] = "none"
      BY <1>6, <2>2 DEF EventsExact
    <3> QED BY <1>3, <3>1, <3>2
  <2>3. c \in {Root} \union {p \in Nodes : IsDirectory(p)}
    BY <1>1, <2>1
  <2> QED BY <2>2, <2>3, ListingIs
<1>12. stack' \in Seq(Seq(Nodes)) /\ StackExact' /\ \A p \in Nodes : InStack(p) => p = c \/ InStack(p)'
  <2>1. CASE stack' = Rest
    <3>1. ASSUME NEW p \in Nodes, NEW i \in 1..Len(stack'), NEW j \in 1..Len(stack'[i]), stack'[i][j] = p
          PROVE  /\ event'[p] = "none" /\ p \in Below(start) /\ WalkedInto(Parent[p])'
                 /\ \A k \in 1..Len(stack') : \A l \in 1..Len(stack'[k]) : stack'[k][l] = p => k = i /\ l = j
      BY <1>3, <1>7, <1>8, <1>10, <2>1, <3>1
    <3>2. StackExact'
      BY <1>4, <3>1 DEF StackExact
    <3> QED BY <1>1, <1>9, <2>1, <3>2 DEF InStack
  <2>2. CASE stack' = <<Listing[c]>> \o Rest /\ WalkedInto(c)'
    <3>1. /\ stack' \in Seq(Seq(Nodes)) /\ Len(stack') = Len(Rest) + 1
          /\ stack'[1] = Listing[c] /\ 1 \in 1..Len(stack')
          /\ \A i \in 1..Len(stack') : i # 1 => i - 1 \in 1..Len(Rest) /\ stack'[i] = Rest[i - 1]
          /\ \A i \in 1..Len(Rest) : i + 1 \in 1..Len(stack') /\ stack'[i + 1] = Rest[i] /\ i + 1 # 1
      <4>1. Listing[c] \in Seq(Nodes) /\ Rest \in Seq(Seq(Nodes)) /\ stack' = <<Listing[c]>> \o Rest
        BY <1>1, <1>11, <2>2
      <4> HIDE DEF Rest
      <4> QED BY <4>1, PushIs
    <3>2. ASSUME NEW i \in 1..Len(stack'), NEW j \in 1..Len(stack'[i]), NEW p \in Nodes, stack'[i][j] = p,
                 i # 1
          PROVE  /\ i - 1 \in 1..Len(Rest) /\ j \in 1..Len(Rest[i - 1]) /\ Rest[i - 1][j] = p
                 /\ p # c /\ event[p] = "none" /\ p \in Below(start) /\ WalkedInto(Parent[p])
      <4>1. i - 1 \in 1..Len(Rest) /\ stack'[i] = Rest[i - 1]
        BY <3>1, <3>2
      <4>2. j \in 1..Len(Rest[i - 1]) /\ Rest[i - 1][j] = p
        BY <3>2, <4>1
      <4> QED BY <1>8, <4>1, <4>2
    <3>3. ASSUME NEW j \in 1..Len(stack'[1]), NEW p \in Nodes, stack'[1][j] = p
          PROVE  /\ j \in 1..Len(Listing[c]) /\ Listing[c][j] = p /\ Parent[p] = c
                 /\ event'[p] = "none" /\ p \in Below(start)
      BY <1>11, <2>2, <3>1, <3>3
    <3>4. ASSUME NEW p \in Nodes, NEW i \in 1..Len(stack'), NEW j \in 1..Len(stack'[i]), stack'[i][j] = p
          PROVE  /\ event'[p] = "none" /\ p \in Below(start) /\ WalkedInto(Parent[p])'
                 /\ \A k \in 1..Len(stack') : \A l \in 1..Len(stack'[k]) : stack'[k][l] = p => k = i /\ l = j
      <4>1. event'[p] = "none" /\ p \in Below(start) /\ WalkedInto(Parent[p])'
        <5>1. CASE i = 1
          <6>1. j \in 1..Len(stack'[1]) /\ stack'[1][j] = p
            BY <3>4, <5>1
          <6>2. event'[p] = "none" /\ p \in Below(start) /\ Parent[p] = c
            BY <3>3, <6>1
          <6> QED BY <2>2, <6>2
        <5>2. CASE i # 1
          <6>1. p # c /\ event[p] = "none" /\ p \in Below(start) /\ WalkedInto(Parent[p])
            BY <3>2, <3>4, <5>2
          <6> QED BY <1>3, <1>7, <1>10, <6>1
        <5> QED BY <5>1, <5>2
      <4>2. ASSUME NEW k \in 1..Len(stack'), NEW l \in 1..Len(stack'[k]), stack'[k][l] = p
            PROVE  k = i /\ l = j
        <5>1. CASE i = 1 /\ k = 1
          <6>1. /\ j \in 1..Len(stack'[1]) /\ stack'[1][j] = p
                /\ l \in 1..Len(stack'[1]) /\ stack'[1][l] = p
            BY <3>4, <4>2, <5>1
          <6>2. /\ j \in 1..Len(Listing[c]) /\ Listing[c][j] = p
                /\ l \in 1..Len(Listing[c]) /\ Listing[c][l] = p
            BY <3>3, <6>1
          <6> QED BY <1>11, <2>2, <5>1, <6>2
        <5>2. CASE i # 1 /\ k # 1
          <6>1. PICK d \in 1..Len(Rest) : d = i - 1 /\ stack'[i] = Rest[d]
            BY <3>1, <5>2
          <6>2. PICK e \in 1..Len(Rest) : e = k - 1 /\ stack'[k] = Rest[e]
            BY <3>1, <5>2
          <6>3. /\ j \in 1..Len(Rest[d]) /\ Rest[d][j] = p
                /\ l \in 1..Len(Rest[e]) /\ Rest[e][l] = p
            BY <3>4, <4>2, <6>1, <6>2
          <6>4. \A k1 \in 1..Len(Rest) : \A l1 \in 1..Len(Rest[k1]) :
                  Rest[k1][l1] = p => k1 = d /\ l1 = j
            BY <1>8, <6>3
          <6> HIDE DEF Rest
          <6>5. e = d /\ l = j
            BY <6>3, <6>4
          <6>6. i \in Int /\ k \in Int
            BY <3>1, <3>4, <4>2
          <6> QED BY <6>1, <6>2, <6>5, <6>6
        <5>3. CASE (i = 1 /\ k # 1) \/ (i # 1 /\ k = 1)
          <6>1. CASE i = 1 /\ k # 1
            <7>1. j \in 1..Len(stack'[1]) /\ stack'[1][j] = p
              BY <3>4, <6>1
            <7>2. WalkedInto(Parent[p])
              BY <3>2, <4>2, <6>1
            <7> QED BY <1>6, <3>3, <7>1, <7>2
          <6>2. CASE i # 1 /\ k = 1
            <7>1. l \in 1..Len(stack'[1]) /\ stack'[1][l] = p
              BY <4>2, <6>2
            <7>2. WalkedInto(Parent[p])
              BY <3>2, <3>4, <6>2
            <7> QED BY <1>6, <3>3, <7>1, <7>2
          <6> QED BY <5>3, <6>1, <6>2
        <5> QED BY <5>1, <5>2, <5>3
      <4> QED BY <4>1, <4>2
    <3>5. StackExact'
      BY <1>4, <3>4 DEF StackExact
    <3>6. \A p \in Nodes : InStack(p) => p = c \/ InStack(p)'
      <4> SUFFICES ASSUME NEW p \in Nodes, InStack(p), p # c PROVE InStack(p)'
        OBVIOUS
      <4>1. PICK i \in 1..Len(Rest) : \E j \in 1..Len(Rest[i]) : Rest[i][j] = p
        BY <1>9
      <4>2. PICK j \in 1..Len(Rest[i]) : Rest[i][j] = p
        BY <4>1
      <4>3. i + 1 \in 1..Len(stack') /\ stack'[i + 1] = Rest[i]
        BY <3>1
      <4> QED BY <4>2, <4>3 DEF InStack
    <3> QED BY <3>1, <3>5, <3>6
  <2> QED BY <2>1, <2>2
<1>13. EventsExact'
  <2> SUFFICES ASSUME NEW p \in Nodes, event'[p] # "none"
               PROVE  /\ p \in Below(start) /\ WalkedInto(Parent[p])'
                      /\ \A q \in Between(p) : q \in Nodes /\ event'[q] \in {"entry", "ignored"}
                      /\ event'[p] = "blocked" <=> p \in Blocked
                      /\ event'[p] = "symlink" => KindOf[p] = "symlink"
                      /\ event'[p] = "ignored" => Hidden(p)
                      /\ event'[p] = "entry" => ~Hidden(p)
    BY <1>4 DEF EventsExact
  <2>1. CASE p = c
    <3>1. \A q \in Between(c) : q \in Nodes /\ event[q] \in {"entry", "ignored"}
      <4>1. CASE Parent[c] = start
        BY <1>4, <4>1, BetweenOf
      <4>2. CASE Parent[c] # start
        <5>1. /\ Parent[c] \in Nodes /\ event[Parent[c]] \in {"entry", "ignored"}
              /\ Parent[c] \in Below(start)
          BY <1>2, <4>2 DEF WalkedInto, EventsExact
        <5>2. Between(c) = {Parent[c]} \union Between(Parent[c])
          BY <1>4, <4>2, <5>1, BetweenOf
        <5> QED BY <5>1, <5>2 DEF EventsExact
      <4> QED BY <4>1, <4>2
    <3>2. c \notin Between(c)
      BY TreeAssumption DEF Between
    <3> QED BY <1>2, <1>3, <1>7, <1>10, <2>1, <3>1, <3>2
  <2>2. CASE p # c
    <3>1. event'[p] = event[p] /\ event[p] # "none"
      BY <1>3, <2>2
    <3>2. \A q \in Between(p) : q # c
      BY <1>2, <3>1 DEF EventsExact
    <3> QED BY <1>3, <1>7, <1>10, <3>1, <3>2 DEF EventsExact
  <2> QED BY <2>1, <2>2
<1>14. NothingForgotten'
  <2> SUFFICES ASSUME ended \in {"no", "done"}, ~stopped, NEW p \in Nodes, WalkedInto(Parent[p])'
               PROVE  event'[p] # "none" \/ InStack(p)'
    BY DEF NothingForgotten
  <2>1. CASE Parent[p] = c
    <3>1. stack' = <<Listing[c]>> \o Rest /\ WalkedInto(c)'
      BY <2>1
    <3>2. PICK n \in 1..Len(Listing[c]) : Listing[c][n] = p
      BY <1>11, <2>1, <3>1
    <3>3. stack'[1] = Listing[c] /\ 1 \in 1..Len(stack')
      BY <1>1, <1>11, <3>1, PushIs
    <3> QED BY <3>2, <3>3 DEF InStack
  <2>2. CASE Parent[p] # c
    <3>1. WalkedInto(Parent[p])
      BY <1>5, <1>10, <2>2
    <3>2. event[p] # "none" \/ InStack(p)
      BY <3>1 DEF NothingForgotten
    <3> QED BY <1>3, <1>12, <3>2
  <2> QED BY <2>1, <2>2
<1>15. WalkTypes'
  BY <1>3, <1>12 DEF WalkTypes, Inputs
<1>16. ended' # "done"
  BY DEF Walking
<1> QED BY <1>12, <1>13, <1>14, <1>15, <1>16

\* A directory is left: its listing is read to the end, or the budget is spent.
LEMMA WalkReturns ==
  ASSUME WalkInv, ended = "no", stack # <<>>, Return, stopped' \in BOOLEAN, stopped => stopped',
         stopped' \/ Head(stack) = <<>>
  PROVE  WalkInv'
<1> USE DEF WalkInv
<1>1. /\ stack \in Seq(Seq(Nodes)) /\ stack' = Tail(stack) /\ stack' \in Seq(Seq(Nodes))
      /\ Len(stack') = Len(stack) - 1
      /\ \A i \in 1..Len(stack') : i + 1 \in 1..Len(stack) /\ stack'[i] = stack[i + 1]
      /\ \A i \in 1..Len(stack) : i # 1 => i - 1 \in 1..Len(stack') /\ stack'[i - 1] = stack[i]
  BY DEF WalkTypes, Return
<1>2. /\ UNCHANGED <<start, event, snap, explicit, limit, scanned>> /\ Below(start)' = Below(start)
      /\ \A p \in Nodes : Between(p)' = Between(p) /\ (Hidden(p)' <=> Hidden(p))
      /\ \A d \in Nodes \union {Root} : WalkedInto(d)' <=> WalkedInto(d)
      /\ \A p \in Nodes : Parent[p] \in Nodes \union {Root}
  BY InputsKept, TreeAssumption DEF Return, Inputs, WalkedInto
<1>3. WalkTypes'
  BY <1>1, <1>2 DEF WalkTypes
<1>4. StackExact'
  <2> SUFFICES ASSUME NEW p \in Nodes, NEW i \in 1..Len(stack'), NEW j \in 1..Len(stack'[i]), stack'[i][j] = p
               PROVE  /\ event[p] = "none" /\ p \in Below(start) /\ WalkedInto(Parent[p])
                      /\ \A k \in 1..Len(stack') : \A l \in 1..Len(stack'[k]) :
                           stack'[k][l] = p => k = i /\ l = j
    BY <1>2 DEF StackExact
  <2>1. i + 1 \in 1..Len(stack) /\ j \in 1..Len(stack[i + 1]) /\ stack[i + 1][j] = p
    BY <1>1
  <2>2. /\ event[p] = "none" /\ p \in Below(start) /\ WalkedInto(Parent[p])
        /\ \A k \in 1..Len(stack) : \A l \in 1..Len(stack[k]) : stack[k][l] = p => k = i + 1 /\ l = j
    BY <2>1 DEF StackExact
  <2>3. ASSUME NEW k \in 1..Len(stack'), NEW l \in 1..Len(stack'[k]), stack'[k][l] = p PROVE k = i /\ l = j
    <3>1. k + 1 \in 1..Len(stack) /\ l \in 1..Len(stack[k + 1]) /\ stack[k + 1][l] = p
      BY <1>1, <2>3
    <3>2. k + 1 = i + 1 /\ l = j
      BY <2>2, <3>1
    <3> QED BY <3>2
  <2> QED BY <2>2, <2>3
<1>5. EventsExact'
  BY <1>2 DEF EventsExact
<1>6. NothingForgotten'
  <2> SUFFICES ASSUME ~stopped', NEW p \in Nodes, WalkedInto(Parent[p]), event[p] = "none"
               PROVE  InStack(p)'
    BY <1>2 DEF NothingForgotten
  <2>1. InStack(p)
    BY DEF NothingForgotten
  <2>2. PICK i \in 1..Len(stack) : \E j \in 1..Len(stack[i]) : stack[i][j] = p
    BY <2>1 DEF InStack
  <2>3. stack[1] = <<>>
    BY <1>1
  <2>4. i # 1
    BY <2>2, <2>3
  <2>5. PICK j \in 1..Len(stack[i]) : stack[i][j] = p
    BY <2>2
  <2>6. i - 1 \in 1..Len(stack') /\ stack'[i - 1] = stack[i]
    BY <1>1, <2>4
  <2> QED BY <2>5, <2>6 DEF InStack
<1>7. ended' = "done" => stack' = <<>> /\ ~stopped'
  BY DEF Return
<1> QED BY <1>3, <1>4, <1>5, <1>6, <1>7

LEMMA WalkStarts == WalkInit => WalkInv /\ BudgetExact
<1> SUFFICES ASSUME WalkInit PROVE WalkInv /\ BudgetExact
  OBVIOUS
<1>1. /\ start \in {Root} \union {p \in Nodes : IsDirectory(p)} /\ start \in Nodes \union {Root}
      /\ start \in Starts /\ limit \in Nat /\ explicit \in BOOLEAN
      /\ scanned = 0 /\ stopped = FALSE /\ ended \in {"skipped", "no"}
      /\ event \in [Nodes -> Events] /\ \A p \in Nodes : event[p] = "none"
  <2>1. NoLimit \in Nat
    BY TreeAssumption, FS_CardinalityType DEF NoLimit
  <2> QED BY <2>1, WalkAssumption, TreeAssumption DEF WalkInit, Events
<1>2. \A p \in Nodes : WalkedInto(Parent[p]) <=> Parent[p] = start
  BY <1>1 DEF WalkedInto
<1>3. \A p \in Nodes : Parent[p] = start => p \in Below(start)
  BY <1>1, BetweenOf
<1>4. BudgetExact
  <2>1. {p \in Nodes : event[p] \notin {"none", "blocked"}} = {}
    BY <1>1
  <2> QED BY <1>1, <2>1, FS_EmptySet DEF BudgetExact
<1>5. EventsExact
  BY <1>1 DEF EventsExact
<1>6. CASE stack = <<>> /\ ended = "skipped"
  <2>1. stack \in Seq(Seq(Nodes)) /\ Len(stack) = 0
    BY <1>6
  <2>2. \A i \in 1..Len(stack) : FALSE
    BY <2>1
  <2>3. StackExact /\ NothingForgotten
    BY <1>6, <2>2 DEF StackExact, NothingForgotten
  <2> QED BY <1>1, <1>4, <1>5, <1>6, <2>1, <2>3 DEF WalkInv, WalkTypes
<1>7. CASE stack = <<Listing[start]>> /\ ended = "no"
  <2>1. /\ Listing[start] \in Seq(Nodes)
        /\ \A j \in 1..Len(Listing[start]) : Listing[start][j] \in Nodes /\ Parent[Listing[start][j]] = start
        /\ \A j, l \in 1..Len(Listing[start]) : Listing[start][j] = Listing[start][l] => j = l
        /\ \A p \in Nodes : Parent[p] = start => \E j \in 1..Len(Listing[start]) : Listing[start][j] = p
    BY <1>1, ListingIs
  <2>2. stack \in Seq(Seq(Nodes)) /\ Len(stack) = 1 /\ stack[1] = Listing[start]
    BY <1>7, <2>1
  <2>3. \A i \in 1..Len(stack) : i = 1
    BY <2>2
  <2>4. StackExact
    BY <1>1, <1>2, <1>3, <2>1, <2>2, <2>3 DEF StackExact
  <2>5. NothingForgotten
    BY <1>2, <2>1, <2>2 DEF NothingForgotten, InStack
  <2> QED BY <1>1, <1>4, <1>5, <1>7, <2>2, <2>4, <2>5 DEF WalkInv, WalkTypes
<1> QED BY <1>6, <1>7 DEF WalkInit

\* The next entry is told for what it is, and a directory is walked into unless it is pruned.
LEMMA ChildIsReached ==
  ASSUME WalkInv, Walking, Inputs, NEW what \in Events \ {"none"}, Yield(Child, what),
         UNCHANGED <<stopped, ended>>, scanned' \in Nat,
         what = "blocked" <=> Child \in Blocked, what = "symlink" => KindOf[Child] = "symlink",
         what = "ignored" => Hidden(Child), what = "entry" => ~Hidden(Child),
         stack' = IF IsDirectory(Child) /\ (what = "entry" \/ (what = "ignored" /\ ~Prune(snap, Child)))
                  THEN <<Listing[Child]>> \o Rest ELSE Rest
  PROVE  WalkInv'
<1>1. stack \in Seq(Seq(Nodes)) /\ event \in [Nodes -> Events]
  BY DEF WalkInv, WalkTypes
<1>2. PICK c \in Nodes : c = Child /\ 1 \in 1..Len(stack) /\ 1 \in 1..Len(stack[1]) /\ stack[1][1] = c
  BY <1>1, RestIs
<1>3. c \in Below(start)
  BY <1>2 DEF WalkInv, StackExact
<1>4. c # start
  BY <1>3, StartIsDirectory DEF WalkInv
<1>5. event'[c] = what /\ Yield(c, what)
  BY <1>1, <1>2 DEF Yield
<1>6. WalkedInto(c)' <=> IsDirectory(c) /\ (what = "entry" \/ (what = "ignored" /\ ~Prune(snap, c)))
  BY <1>4, <1>5, InputsKept
<1> QED BY <1>2, <1>5, <1>6, WalkGoesOn

\* The two ways in which the walk of a directory ends.
LEMMA WalkLeaves == WalkInv /\ (EntryLimit \/ LeaveStopped \/ DirectoryDone) => WalkInv'
<1> SUFFICES ASSUME WalkInv, EntryLimit \/ LeaveStopped \/ DirectoryDone PROVE WalkInv'
  OBVIOUS
<1>1. ended = "no" /\ stack # <<>> /\ Return /\ (stopped' \/ Head(stack) = <<>>)
  BY DEF EntryLimit, LeaveStopped, DirectoryDone, Walking
<1>2. stopped' \in BOOLEAN /\ (stopped => stopped')
  BY DEF EntryLimit, LeaveStopped, DirectoryDone, WalkInv, WalkTypes
<1> QED BY <1>1, <1>2, WalkReturns

LEMMA WalkInvKept == WalkInv /\ [WalkNext]_walkVars => WalkInv'
<1> SUFFICES ASSUME WalkInv, [WalkNext]_walkVars PROVE WalkInv'
  OBVIOUS
<1>1. stack \in Seq(Seq(Nodes)) /\ event \in [Nodes -> Events] /\ scanned \in Nat /\ stopped \in BOOLEAN
  BY DEF WalkInv, WalkTypes
<1>2. CASE SkipBlocked
  <2>1. /\ Walking /\ Inputs /\ Yield(Child, "blocked") /\ stack' = Rest /\ UNCHANGED <<stopped, ended>>
        /\ scanned' \in Nat /\ Child \in Blocked
    BY <1>1, <1>2 DEF SkipBlocked
  <2> QED BY <2>1, ChildIsReached DEF Events
<1>3. ASSUME Counted PROVE /\ Walking /\ Inputs /\ UNCHANGED <<stopped, ended>> /\ scanned' \in Nat
                           /\ (Child \in Blocked <=> FALSE)
  BY <1>1, <1>3 DEF Counted
<1>4. CASE ChildFails
  BY <1>3, <1>4, ChildIsReached DEF ChildFails, Events
<1>5. CASE SkipSymlink
  BY <1>3, <1>5, ChildIsReached DEF SkipSymlink, Events
<1>6. CASE SkipIgnored
  BY <1>3, <1>6, ChildIsReached DEF SkipIgnored, Events
<1>7. CASE YieldEntry
  BY <1>3, <1>7, ChildIsReached DEF YieldEntry, Events
<1>8. CASE ListingFails
  BY <1>3, <1>8, ChildIsReached DEF ListingFails, Events
<1>9. CASE EntryLimit \/ LeaveStopped \/ DirectoryDone
  BY <1>9, WalkLeaves
<1>10. CASE StopWalk
  BY <1>10, InputsKept
  DEF StopWalk, WalkInv, WalkTypes, StackExact, EventsExact, NothingForgotten, WalkedInto, Inputs
<1>11. CASE UNCHANGED walkVars
  BY <1>11, InputsKept
  DEF walkVars, WalkInv, WalkTypes, StackExact, EventsExact, NothingForgotten, WalkedInto, Inputs, InStack
<1> QED BY <1>2, <1>4, <1>5, <1>6, <1>7, <1>8, <1>9, <1>10, <1>11 DEF WalkNext

LEMMA BudgetKept == WalkInv /\ BudgetExact /\ [WalkNext]_walkVars => BudgetExact'
<1> DEFINE Spent == {p \in Nodes : event[p] \notin {"none", "blocked"}}
<1> SUFFICES ASSUME WalkInv, BudgetExact, [WalkNext]_walkVars PROVE BudgetExact'
  OBVIOUS
<1>1. /\ stack \in Seq(Seq(Nodes)) /\ event \in [Nodes -> Events] /\ scanned \in Nat /\ limit \in Nat
      /\ stopped \in BOOLEAN
  BY DEF WalkInv, WalkTypes
<1>2. ASSUME Walking
      PROVE  /\ Child \in Nodes /\ event[Child] = "none" /\ Child \in Below(start)
             /\ Parent[Child] = start \/ event[Parent[Child]] \in {"entry", "ignored"}
  <2>1. Child \in Nodes /\ 1 \in 1..Len(stack) /\ 1 \in 1..Len(stack[1]) /\ stack[1][1] = Child
    BY <1>1, <1>2, RestIs
  <2> QED BY <2>1 DEF WalkInv, StackExact, WalkedInto
<1>3. ASSUME Counted, NEW what \in Events \ {"none", "blocked"}, Yield(Child, what) PROVE BudgetExact'
  <2>1. Walking /\ scanned < limit /\ scanned' = scanned + 1 /\ limit' = limit /\ stopped' = stopped
    BY <1>3 DEF Counted, Inputs
  <2>2. Spent' = Spent \union {Child} /\ Child \notin Spent
    BY <1>1, <1>2, <1>3, <2>1 DEF Yield
  <2>3. IsFiniteSet(Spent)
    BY TreeAssumption, FS_Subset
  <2>4. Cardinality(Spent') = Cardinality(Spent) + 1
    BY <2>2, <2>3, FS_AddElement
  <2>5. ~stopped
    BY <1>1, <2>1 DEF BudgetExact
  <2> QED BY <1>1, <2>1, <2>4, <2>5 DEF BudgetExact
<1>4. CASE SkipBlocked
  <2>1. /\ Walking /\ Child \in Blocked /\ Yield(Child, "blocked") /\ Inputs
        /\ scanned' = scanned /\ limit' = limit /\ stopped' = stopped /\ start' = start
    BY <1>4 DEF SkipBlocked, Inputs
  <2>2. /\ Child \in Nodes /\ event[Child] = "none" /\ event'[Child] = "blocked"
        /\ \A p \in Nodes \ {Child} : event'[p] = event[p]
    BY <1>1, <1>2, <2>1 DEF Yield
  <2>3. Spent' = Spent
    BY <2>2
  <2>4. ASSUME stopped
        PROVE  \E p \in Below(start)' \ Blocked :
                 /\ event'[p] = "none"
                 /\ Parent[p] = start \/ event'[Parent[p]] \in {"entry", "ignored"}
    <3>1. PICK p \in Below(start) \ Blocked :
            /\ event[p] = "none"
            /\ Parent[p] = start \/ event[Parent[p]] \in {"entry", "ignored"}
      BY <2>4 DEF BudgetExact
    <3>2. p \in Nodes /\ p # Child /\ Below(start)' = Below(start)
      BY <2>1, <3>1, InputsKept DEF Below
    <3>3. Parent[p] = start \/ (Parent[p] \in Nodes /\ Parent[p] # Child)
      <4>1. CASE Parent[p] = Root
        <5>1. Above[p] = {Root}
          BY <3>2, <4>1, AboveIs
        <5> QED BY <3>1, <4>1, <5>1 DEF Below
      <4>2. CASE Parent[p] # Root
        BY <2>2, <3>1, <3>2, <4>2, TreeAssumption
      <4> QED BY <4>1, <4>2
    <3> QED BY <2>2, <3>1, <3>2, <3>3
  <2> QED BY <2>1, <2>3, <2>4 DEF BudgetExact
<1>5. CASE EntryLimit
  <2>1. /\ Walking /\ Child \notin Blocked /\ scanned >= limit /\ Inputs
        /\ UNCHANGED <<event, scanned, limit, start>>
    BY <1>5 DEF EntryLimit, Return, Inputs
  <2>2. scanned = limit /\ Below(start)' = Below(start)
    BY <1>1, <2>1, InputsKept DEF BudgetExact
  <2> QED BY <1>2, <2>1, <2>2 DEF BudgetExact
<1>6. CASE LeaveStopped \/ DirectoryDone \/ StopWalk \/ UNCHANGED walkVars
  <2>1. UNCHANGED <<snap, start, explicit, limit, event, scanned, stopped>>
    BY <1>6 DEF LeaveStopped, DirectoryDone, StopWalk, Return, Inputs, walkVars
  <2>2. Below(start)' = Below(start)
    BY <2>1, InputsKept DEF Inputs
  <2> QED BY <2>1, <2>2 DEF BudgetExact
<1>7. CASE ChildFails
  BY <1>3, <1>7 DEF ChildFails, Events
<1>8. CASE SkipSymlink
  BY <1>3, <1>8 DEF SkipSymlink, Events
<1>9. CASE SkipIgnored
  BY <1>3, <1>9 DEF SkipIgnored, Events
<1>10. CASE YieldEntry
  BY <1>3, <1>10 DEF YieldEntry, Events
<1>11. CASE ListingFails
  BY <1>3, <1>11 DEF ListingFails, Events
<1> QED BY <1>4, <1>5, <1>6, <1>7, <1>8, <1>9, <1>10, <1>11 DEF WalkNext

LEMMA WalkIsInvariant == WalkSpec => [](WalkInv /\ BudgetExact)
<1>1. WalkInv /\ BudgetExact /\ [WalkNext]_walkVars => (WalkInv /\ BudgetExact)'
  BY WalkInvKept, BudgetKept
<1> QED BY WalkStarts, <1>1, PTL DEF WalkSpec

(* A walk yields only visible files and directories that it may reach, and its budget
   counts every entry but the blocked ones and ends it only before an entry that would
   not fit (walk and its queue of children). *)
THEOREM WalksAreSound == WalkSpec => [](WalkSound /\ BudgetExact)
<1>1. WalkInv /\ BudgetExact => WalkSound /\ BudgetExact
  <2> SUFFICES ASSUME WalkInv, NEW p \in Nodes, event[p] = "entry"
               PROVE  Reachable(p) /\ (Bypass \/ ~Ignored(snap, p))
    BY DEF WalkSound
  <2>1. /\ p \in Below(start) /\ p \notin Blocked /\ ~Hidden(p)
        /\ \A q \in Between(p) : q \in Nodes /\ event[q] \in {"entry", "ignored"} /\ q \notin Blocked
    BY DEF WalkInv, EventsExact
  <2> QED BY <2>1 DEF Reachable, Hidden
<1> QED BY <1>1, WalkIsInvariant, PTL

\* What a walk to the end has not walked into it knows, and it missed what is above, too.
LEMMA MissedFromAbove ==
  ASSUME WalkInv, ended = "done", NEW p \in Nodes, p \in Below(start), event[p] = "none",
         \A d \in Between(p) : /\ d \notin Blocked /\ event[d] \notin {"error", "unread"}
                               /\ ~(event[d] = "ignored" /\ Prune(snap, d))
  PROVE  FALSE
<1> DEFINE Missed == {d \in Between(p) : ~WalkedInto(d)}
<1>1. /\ Above[p] \subseteq Nodes \union {Root} /\ Closed(Above[p]) /\ start \in Above[p]
      /\ start \in Nodes \union {Root} /\ start \notin Below(start) /\ event \in [Nodes -> Events]
      /\ Between(p) \subseteq Nodes /\ WalkedInto(start)
  BY AboveClosed, StartIsDirectory DEF WalkInv, WalkTypes, Below, Between, WalkedInto
<1>2. \A q \in Nodes : event[q] = "none" => ~WalkedInto(Parent[q])
  <2>1. stack = <<>> /\ ~stopped
    BY DEF WalkInv
  <2>2. \A q : ~InStack(q)
    BY <2>1 DEF InStack
  <2> QED BY <2>1, <2>2 DEF WalkInv, NothingForgotten
<1>3. ASSUME NEW q \in Nodes, q = p \/ q \in Between(p), event[q] = "none" PROVE Parent[q] \in Missed
  <2>1. Parent[q] # start /\ ~WalkedInto(Parent[q])
    BY <1>1, <1>2, <1>3
  <2>2. start \in Above[q] /\ Parent[q] \in Above[p]
    BY <1>1, <1>3, AboveClosed, TreeAssumption DEF Below, Between, Closed
  <2>3. Parent[q] \in Nodes /\ start \in Above[Parent[q]]
    BY <1>3, <2>1, <2>2, AboveIs, TreeAssumption
  <2> QED BY <2>1, <2>2, <2>3 DEF Between, Below
<1>4. \A d \in Above[p] : d = Root \/ IsDirectory(d)
  <2> DEFINE S == {d \in Nodes \union {Root} : d = Root \/ IsDirectory(d)}
  <2>1. Closed(S) /\ Parent[p] \in S /\ S \in SUBSET (Nodes \union {Root})
    BY TreeAssumption DEF Closed, IsDirectory
  <2>2. Above[p] \subseteq S
    BY <2>1, AboveClosed
  <2> QED BY <2>2
<1>5. ASSUME NEW d \in Missed PROVE event[d] = "none"
  <2>1. d \in Nodes /\ d # Root /\ IsDirectory(d) /\ event[d] \in Events
    BY <1>1, <1>4, TreeAssumption DEF Between
  <2>2. event[d] \notin {"blocked", "symlink"}
    BY <2>1 DEF WalkInv, EventsExact, IsDirectory
  <2> QED BY <2>1, <2>2 DEF WalkedInto, Events
<1>6. Closed(Missed) /\ Parent[p] \in Missed /\ Missed \in SUBSET (Nodes \union {Root})
  BY <1>1, <1>3, <1>5 DEF Closed
<1>7. Above[p] \subseteq Missed
  BY <1>6, AboveClosed
<1> QED BY <1>1, <1>7 DEF Between

(* A walk that ran to its end has yielded every visible file and directory it could reach,
   but for what is below a directory it pruned. *)
THEOREM WalksMissOnlyThePruned ==
  WalkSpec => [](ended = "done" =>
    \A p \in Nodes : Reachable(p) /\ KindOf[p] # "symlink" /\ ~Hidden(p) =>
      \/ event[p] \in {"entry", "unread"}
      \/ \E d \in Between(p) : event[d] = "ignored" /\ Prune(snap, d))
<1>1. ASSUME WalkInv, ended = "done", NEW p \in Nodes, Reachable(p), KindOf[p] # "symlink", ~Hidden(p),
             ~\E d \in Between(p) : event[d] = "ignored" /\ Prune(snap, d)
      PROVE  event[p] \in {"entry", "unread"}
  <2>1. event[p] # "none"
    BY <1>1, MissedFromAbove DEF Reachable
  <2> QED BY <1>1, <2>1 DEF WalkInv, WalkTypes, Events, EventsExact, Reachable
<1>2. WalkInv => (ended = "done" =>
        \A p \in Nodes : Reachable(p) /\ KindOf[p] # "symlink" /\ ~Hidden(p) =>
          \/ event[p] \in {"entry", "unread"}
          \/ \E d \in Between(p) : event[d] = "ignored" /\ Prune(snap, d))
  BY <1>1
<1> QED BY <1>2, WalkIsInvariant, PTL
=============================================================================

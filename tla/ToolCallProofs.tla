--------------------------- MODULE ToolCallProofs ---------------------------
(***************************************************************************)
(* What surrounds a tool call, for any numbers of calls, runs, sessions,   *)
(* requests, tasks and searches.                                           *)
(***************************************************************************)
EXTENDS ToolCalls, SequenceTheorems, FiniteSetTheorems, WellFoundedInduction, TLAPS

(* Telemetry.  A run is disabled only when its file failed, so in every other run the
   calls the collector waits for are those that are executing in it.                 *)

Entries == ToolCalls \cup {Header}
RunState == [enabled : BOOLEAN, closing : BOOLEAN, init : {"none", "opening", "ended"},
             writer : {"none", "open", "closed"}, queued : Seq(ToolCalls),
             file : Seq(Entries), predecessor : 0 .. MaxRuns]

TelTypes ==
  /\ current \in 0 .. MaxRuns /\ run \in [RunIds -> RunState] /\ records \in Seq(Entries)
  /\ toolAt \in [ToolCalls -> {"idle", "executing", "ended"}] /\ pendingIn \subseteq ToolCalls
  /\ finished \in [RunIds -> Seq(ToolCalls)] /\ startedIn \in [ToolCalls -> 0 .. MaxRuns]
  /\ broken \subseteq RunIds

\* The runs to come are untouched.
Ahead ==
  \A k \in RunIds : k > current => run[k] = NewRun /\ finished[k] = <<>> /\ k \notin broken

\* A run stops collecting when its file fails, and nothing else stops it; the writer
\* is closed for a run that closes.
Stops ==
  /\ \A k \in RunIds : ~run[k].enabled => k \in broken
  /\ current # 0 /\ current \in broken => ~run[current].enabled
  /\ \A k \in RunIds : run[k].writer = "closed" => run[k].closing
  /\ \A k \in RunIds : run[k].init = "opening" => run[k].writer = "none"

\* The collector waits for the calls that are executing in a run that collects.
Pending ==
  /\ \A c \in ToolCalls : startedIn[c] <= current
  /\ current = 0 => pendingIn = {}
  /\ current # 0 /\ (run[current].closing \/ ~run[current].enabled) => pendingIn = {}
  /\ current # 0 /\ run[current].enabled /\ ~run[current].closing =>
       \A c \in ToolCalls :
         c \in pendingIn <=> toolAt[c] = "executing" /\ startedIn[c] = current

\* The file of run k holds what ended in it, or nothing while that is queued.
FileOf(k) ==
  IF run[k].writer = "none"
  THEN /\ run[k].queued = finished[k] /\ run[k].file = <<>> /\ run[k].init # "ended"
       /\ finished[k] # <<>> => run[k].init = "opening"
  ELSE run[k].queued = <<>> /\ run[k].file = <<Header>> \o finished[k]

Files == \A k \in RunIds \ broken : FileOf(k)

Live ==
  current # 0 =>
    records = IF run[current].enabled THEN <<Header>> \o finished[current] ELSE <<>>

TelInv == TelTypes /\ Ahead /\ Stops /\ Pending /\ Files /\ Live

-----------------------------------------------------------------------------
(* Sequences behind their header. *)

LEMMA BehindHeader ==
  ASSUME NEW f \in Seq(ToolCalls), NEW c \in ToolCalls
  PROVE  /\ <<Header>> \o f \in Seq(Entries)
         /\ Append(f, c) \in Seq(ToolCalls) /\ Append(f, c) # <<>>
         /\ Append(<<Header>> \o f, c) = <<Header>> \o Append(f, c)
<1>1. <<Header>> \in Seq(Entries) /\ f \in Seq(Entries) /\ <<c>> \in Seq(Entries)
  BY DEF Entries
<1>2. <<Header>> \o f \in Seq(Entries)
  BY <1>1, ConcatProperties
<1>3. Append(f, c) \in Seq(ToolCalls) /\ Append(f, c) # <<>> /\ Append(f, c) = f \o <<c>>
  BY AppendProperties, AppendIsConcat
<1>4. Append(<<Header>> \o f, c) = (<<Header>> \o f) \o <<c>>
  BY <1>2, AppendIsConcat DEF Entries
<1>5. (<<Header>> \o f) \o <<c>> = <<Header>> \o (f \o <<c>>)
  BY <1>1, ConcatAssociative
<1> QED BY <1>2, <1>3, <1>4, <1>5

LEMMA HeaderAlone == <<Header>> \o <<>> = <<Header>> /\ <<Header>> \in Seq(Entries)
<1>1. <<Header>> \in Seq(Entries)
  BY DEF Entries
<1> QED BY <1>1, ConcatEmptySeq

\* The run of the session exists once the session has started.
LEMMA CurrentRun ==
  ASSUME TelInv, current # 0 PROVE current \in RunIds /\ run[current] \in RunState
BY TelemetryAssumption DEF TelInv, TelTypes, RunIds

-----------------------------------------------------------------------------

LEMMA TelInitInv == TelemetryInit => TelInv
<1> SUFFICES ASSUME TelemetryInit PROVE TelInv
  OBVIOUS
<1> USE TelemetryAssumption DEF TelemetryInit
<1>1. NewRun \in RunState
  BY DEF NewRun, RunState
<1>2. TelTypes
  BY <1>1 DEF TelTypes
<1>3. Ahead /\ Stops /\ Pending /\ Files /\ Live
  BY DEF Ahead, Stops, Pending, Files, Live, FileOf, NewRun, RunIds
<1> QED BY <1>2, <1>3 DEF TelInv

\* A step on which only the record of one run changes, and which leaves what that run
\* collects as it is.
LEMMA RunChanges ==
  ASSUME TelInv, NEW k \in RunIds, NEW r \in RunState, run' = [run EXCEPT ![k] = r],
         k <= current,
         UNCHANGED <<current, records, toolAt, pendingIn, finished, startedIn, broken>>,
         r.enabled = run[k].enabled, r.closing = run[k].closing,
         r.writer = "closed" => r.closing, r.init # "opening",
         k \notin broken => FileOf(k)'
  PROVE  TelInv'
<1>1. run'[k] = r /\ \A j \in RunIds \ {k} : run'[j] = run[j]
  BY DEF TelInv, TelTypes
<1>2. TelTypes'
  BY DEF TelInv, TelTypes
<1>3. Ahead' /\ Stops' /\ Pending' /\ Live'
  BY <1>1, CurrentRun DEF TelInv, TelTypes, Ahead, Stops, Pending, Live, RunIds
<1>4. Files'
  BY <1>1 DEF TelInv, Files, FileOf
<1> QED BY <1>2, <1>3, <1>4 DEF TelInv

LEMMA StartKeeps ==
  ASSUME TelInv, SessionStart PROVE TelInv'
<1> DEFINE n == current + 1
<1> USE TelemetryAssumption DEF TelInv
<1>0. current \in Nat /\ n \in RunIds /\ n > current /\ current' = n /\ n # 0 /\ n <= MaxRuns
      /\ UNCHANGED <<toolAt, finished, startedIn, broken>> /\ records' = <<Header>> /\ pendingIn' = {}
  BY DEF SessionStart, TelTypes, RunIds
<1>1. run[n] = NewRun /\ finished[n] = <<>> /\ n \notin broken
  BY <1>0 DEF Ahead
<1>2. \A k \in RunIds : run[k] \in RunState
  BY DEF TelTypes
<1>3. ASSUME NEW k \in RunIds
      PROVE  /\ run'[k] \in RunState
             /\ run'[k].enabled = run[k].enabled /\ run'[k].init = run[k].init
             /\ run'[k].writer = run[k].writer /\ run'[k].queued = run[k].queued
             /\ run'[k].file = run[k].file
             /\ run[k].closing => run'[k].closing
             /\ k > n => run'[k] = run[k]
             /\ k # current => run'[k].closing = run[k].closing
  <2>1. CASE k = current
    <3> DEFINE r == [run[k] EXCEPT !.closing = TRUE]
    <3>1. /\ r \in RunState /\ r.enabled = run[k].enabled /\ r.init = run[k].init
          /\ r.writer = run[k].writer /\ r.queued = run[k].queued /\ r.file = run[k].file
          /\ r.closing
      BY <1>2 DEF RunState
    <3>2. run'[k] = r
      BY <2>1 DEF SessionStart
    <3> HIDE DEF r
    <3> QED BY <1>0, <2>1, <3>1, <3>2
  <2>2. CASE k = n
    <3> DEFINE r == [run[k] EXCEPT !.predecessor = current]
    <3>1. /\ r \in RunState /\ r.enabled = run[k].enabled /\ r.init = run[k].init
          /\ r.writer = run[k].writer /\ r.queued = run[k].queued /\ r.file = run[k].file
          /\ r.closing = run[k].closing
      BY <1>2 DEF RunState, TelTypes
    <3>2. run'[k] = r
      BY <1>0, <2>2 DEF SessionStart
    <3> HIDE DEF r
    <3> QED BY <1>0, <2>2, <3>1, <3>2
  <2>3. CASE k # current /\ k # n
    <3>1. run'[k] = run[k]
      BY <2>3 DEF SessionStart
    <3> QED BY <1>2, <3>1
  <2> QED BY <2>1, <2>2, <2>3
<1>4. TelTypes'
  <2>1. run' \in [RunIds -> RunState]
    <3>1. run' = [k \in RunIds |-> run'[k]]
      BY DEF SessionStart
    <3> QED BY <1>3, <3>1
  <2> QED BY <1>0, <2>1, HeaderAlone DEF TelTypes, RunIds
<1>5. Ahead'
  BY <1>0, <1>3 DEF Ahead, RunIds
<1>6. run'[n].enabled /\ ~run'[n].closing
  BY <1>0, <1>1, <1>3 DEF NewRun
<1>7. Stops'
  BY <1>0, <1>1, <1>3, <1>6 DEF Stops
<1>8. Pending'
  <2>1. \A c \in ToolCalls : startedIn[c] <= current /\ startedIn[c] \in Nat
    BY DEF Pending, TelTypes
  <2>2. \A c \in ToolCalls : startedIn[c] <= n /\ startedIn[c] # n
    BY <1>0, <2>1
  <2> QED BY <1>0, <1>6, <2>2 DEF Pending
<1>9. Files'
  BY <1>0, <1>3 DEF Files, FileOf
<1>10. Live'
  BY <1>0, <1>1, <1>6, HeaderAlone DEF Live
<1> QED BY <1>4, <1>5, <1>7, <1>8, <1>9, <1>10

LEMMA ShutdownKeeps ==
  ASSUME TelInv, SessionShutdown PROVE TelInv'
<1> DEFINE r == [run[current] EXCEPT !.closing = TRUE]
<1> USE DEF TelInv
<1>0. current \in RunIds /\ run[current] \in RunState /\ run \in [RunIds -> RunState]
  BY CurrentRun DEF SessionShutdown, TelTypes
<1>1. /\ r \in RunState /\ r.enabled = run[current].enabled /\ r.init = run[current].init
      /\ r.writer = run[current].writer /\ r.queued = run[current].queued
      /\ r.file = run[current].file /\ r.closing /\ run' = [run EXCEPT ![current] = r]
  BY <1>0 DEF SessionShutdown, RunState
<1> HIDE DEF r
<1>2. run'[current] = r /\ \A j \in RunIds \ {current} : run'[j] = run[j]
  BY <1>0, <1>1
<1>3. UNCHANGED <<current, records, toolAt, finished, startedIn, broken>> /\ pendingIn' = {}
  BY DEF SessionShutdown
<1>4. TelTypes'
  BY <1>0, <1>1, <1>3 DEF TelTypes
<1>5. Ahead' /\ Stops' /\ Pending' /\ Live'
  BY <1>0, <1>1, <1>2, <1>3 DEF Ahead, Stops, Pending, Live, TelTypes, RunIds
<1>6. Files'
  BY <1>1, <1>2, <1>3 DEF Files, FileOf
<1> QED BY <1>4, <1>5, <1>6

LEMMA CloseKeeps ==
  ASSUME TelInv, NEW k \in RunIds, CloseEnds(k) PROVE TelInv'
<1> DEFINE r == [run[k] EXCEPT !.writer = "closed"]
<1>0. run[k] \in RunState /\ run \in [RunIds -> RunState] /\ k <= current
  BY DEF TelInv, TelTypes, Ahead, CloseEnds, NewRun, RunIds
<1>1. /\ r \in RunState /\ r.enabled = run[k].enabled /\ r.closing = run[k].closing
      /\ r.writer = "closed" /\ r.queued = run[k].queued /\ r.file = run[k].file
      /\ r.init # "opening"
      /\ run' = [run EXCEPT ![k] = r]
  BY <1>0 DEF CloseEnds, RunState
<1> HIDE DEF r
<1>2. run'[k] = r
  BY <1>0, <1>1
<1>3. k \notin broken => FileOf(k)'
  BY <1>1, <1>2 DEF TelInv, Files, FileOf, CloseEnds
<1> QED BY <1>0, <1>1, <1>3, RunChanges DEF CloseEnds

LEMMA OpenKeeps ==
  ASSUME TelInv, NEW k \in RunIds, Opened(k) PROVE TelInv'
<1>0. /\ run[k] \in RunState /\ run \in [RunIds -> RunState] /\ k <= current
      /\ run[k].init = "opening" /\ finished[k] \in Seq(ToolCalls)
  BY DEF TelInv, TelTypes, Ahead, Opened, MayOpen, NewRun, RunIds
<1>1. CASE ~run[k].enabled
  <2> DEFINE r == [run[k] EXCEPT !.init = "ended"]
  <2>1. /\ r \in RunState /\ r.enabled = run[k].enabled /\ r.closing = run[k].closing
        /\ r.writer = run[k].writer /\ run' = [run EXCEPT ![k] = r] /\ r.init # "opening"
    BY <1>0, <1>1 DEF Opened, RunState
  <2>2. k \in broken
    BY <1>1 DEF TelInv, Stops
  <2>3. run[k].writer = "closed" => run[k].closing
    BY DEF TelInv, Stops
  <2> HIDE DEF r
  <2> QED BY <1>0, <2>1, <2>2, <2>3, RunChanges DEF Opened
<1>2. CASE run[k].enabled
  <2> DEFINE f == <<Header>> \o run[k].queued
             r == [run[k] EXCEPT !.init = "ended", !.writer = "open", !.file = f,
                                 !.queued = <<>>]
  <2>0. <<Header>> \o run[k].queued \in Seq(Entries) /\ run[k].queued \in Seq(ToolCalls)
    <3>1. run[k].queued \in Seq(ToolCalls)
      BY <1>0 DEF RunState
    <3>2. <<Header>> \in Seq(Entries) /\ run[k].queued \in Seq(Entries)
      BY <3>1 DEF Entries
    <3> QED BY <3>1, <3>2, ConcatProperties
  <2>a. run' = [run EXCEPT ![k] = r]
    BY <1>0, <1>2 DEF Opened
  <2>b. <<>> \in Seq(ToolCalls)
    OBVIOUS
  <2>1. /\ r \in RunState /\ r.enabled = run[k].enabled /\ r.closing = run[k].closing
        /\ r.writer = "open" /\ r.queued = <<>> /\ r.file = <<Header>> \o run[k].queued
        /\ r.init # "opening"
    <3>1. f \in Seq(Entries) /\ f = <<Header>> \o run[k].queued
      BY <2>0
    <3> HIDE DEF f
    <3> QED BY <1>0, <2>b, <3>1 DEF RunState
  <2> HIDE DEF r
  <2>2. run'[k] = r /\ finished' = finished
    BY <1>0, <2>a DEF Opened
  <2>3. k \notin broken => FileOf(k)'
    <3> SUFFICES ASSUME k \notin broken PROVE FileOf(k)'
      OBVIOUS
    <3>1. run[k].queued = finished[k] \/ run[k].writer # "none"
      BY DEF TelInv, Files, FileOf
    <3>2. run[k].writer = "none"
      BY <1>0 DEF TelInv, Stops
    <3> QED BY <2>1, <2>2, <3>1, <3>2 DEF FileOf
  <2> QED BY <1>0, <2>a, <2>1, <2>3, RunChanges DEF Opened
<1> QED BY <1>1, <1>2 DEF TelInv, TelTypes, RunState

LEMMA ToolStartKeeps ==
  ASSUME TelInv, NEW c \in ToolCalls, ToolStart(c) PROVE TelInv'
<1> USE DEF TelInv
<1>0. /\ current \in RunIds /\ current # 0 /\ ~run[current].closing /\ toolAt[c] = "idle"
      /\ UNCHANGED <<current, run, records, finished, broken>>
  BY CurrentRun DEF ToolStart
<1>1. /\ toolAt' \in [ToolCalls -> {"idle", "executing", "ended"}]
      /\ startedIn' \in [ToolCalls -> 0 .. MaxRuns]
      /\ toolAt'[c] = "executing" /\ startedIn'[c] = current
      /\ \A d \in ToolCalls \ {c} : toolAt'[d] = toolAt[d] /\ startedIn'[d] = startedIn[d]
  BY <1>0 DEF ToolStart, TelTypes
<1>2. pendingIn' = IF run[current].enabled THEN pendingIn \cup {c} ELSE pendingIn
  BY <1>0 DEF ToolStart, Enabled
<1>3. TelTypes'
  BY <1>0, <1>1, <1>2 DEF TelTypes
<1>4. Pending'
  <2>1. \A d \in ToolCalls : startedIn'[d] <= current
    <3>1. current \in Nat /\ \A d \in ToolCalls : startedIn[d] <= current
      BY DEF Pending, TelTypes
    <3> QED BY <1>1, <3>1
  <2> QED BY <1>0, <1>1, <1>2, <2>1 DEF Pending
<1>5. Ahead' /\ Stops' /\ Files' /\ Live'
  BY <1>0 DEF Ahead, Stops, Files, FileOf, Live
<1> QED BY <1>3, <1>4, <1>5

\* The end of a call is a record of its run exactly when the collector waits for it,
\* and then the run is the one of the session, which neither closes nor has failed.
LEMMA ToolEndKeeps ==
  ASSUME TelInv, NEW c \in ToolCalls, ToolEnd(c) PROVE TelInv'
<1> USE DEF TelInv
<1>0. /\ UNCHANGED <<current, startedIn, broken>> /\ toolAt[c] = "executing"
      /\ toolAt' \in [ToolCalls -> {"idle", "executing", "ended"}]
      /\ toolAt'[c] = "ended" /\ \A d \in ToolCalls \ {c} : toolAt'[d] = toolAt[d]
  BY DEF ToolEnd, TelTypes
<1>1. CASE Enabled /\ c \in pendingIn
  <2> DEFINE k == current
  <2>0. /\ k \in RunIds /\ k # 0 /\ run[k].enabled /\ ~run[k].closing /\ startedIn[c] = k
        /\ run[k] \in RunState /\ run \in [RunIds -> RunState] /\ k \notin broken
        /\ run[k].writer # "closed"
    BY <1>0, <1>1, CurrentRun DEF Enabled, Pending, Stops, TelTypes
  <2>1. /\ finished' = [finished EXCEPT ![k] = Append(@, c)]
        /\ finished[k] \in Seq(ToolCalls) /\ finished \in [RunIds -> Seq(ToolCalls)]
    BY <2>0 DEF ToolEnd, TelTypes
  <2>2. /\ <<Header>> \o finished[k] \in Seq(Entries) /\ Append(finished[k], c) \in Seq(ToolCalls)
        /\ Append(finished[k], c) # <<>>
        /\ Append(<<Header>> \o finished[k], c) = <<Header>> \o Append(finished[k], c)
        /\ <<Header>> \o Append(finished[k], c) \in Seq(Entries)
    BY <2>1, BehindHeader
  <2>3. finished'[k] = Append(finished[k], c) /\ finished' \in [RunIds -> Seq(ToolCalls)]
        /\ \A j \in RunIds \ {k} : finished'[j] = finished[j]
    BY <2>0, <2>1, <2>2
  <2>4. records = <<Header>> \o finished[k]
    BY <2>0 DEF Live
  <2>5. PICK r \in RunState :
          /\ run' = [run EXCEPT ![k] = r] /\ r.enabled /\ ~r.closing
          /\ r.writer = run[k].writer /\ records' = Append(records, c)
          /\ \/ /\ r.writer = "none" /\ r.queued = Append(finished[k], c) /\ r.file = <<>>
                /\ r.init = "opening"
             \/ /\ r.writer = "open" /\ r.queued = <<>> /\ r.init = run[k].init
                /\ r.file = <<Header>> \o Append(finished[k], c)
    <3>1. CASE Queue(c)
      <4> DEFINE r == [run[k] EXCEPT !.queued = Append(run[k].queued, c), !.init = "opening"]
      <4>1. /\ run[k].writer = "none" /\ run[k].queued = finished[k] /\ run[k].file = <<>>
            /\ run[k].init \in {"none", "opening"} /\ records' = Append(records, c)
            /\ run' = [run EXCEPT ![k].queued = Append(@, c),
                                  ![k].init = IF @ = "none" THEN "opening" ELSE @]
        BY <2>0, <3>1 DEF Queue, Files, FileOf, RunState
      <4>2. /\ r \in RunState /\ r.enabled = run[k].enabled /\ r.closing = run[k].closing
            /\ r.writer = run[k].writer /\ r.file = run[k].file /\ r.init = "opening"
            /\ r.queued = Append(run[k].queued, c)
        BY <2>0, <2>2, <4>1 DEF RunState
      <4>3. run' = [run EXCEPT ![k] = r]
        BY <2>0, <4>1
      <4> HIDE DEF r
      <4>4. /\ r.enabled /\ ~r.closing /\ r.writer = "none" /\ r.file = <<>>
            /\ r.queued = Append(finished[k], c)
        BY <2>0, <4>1, <4>2
      <4> QED BY <4>1, <4>2, <4>3, <4>4
    <3>2. CASE Write(c)
      <4> DEFINE r == [run[k] EXCEPT !.file = Append(run[k].file, c)]
      <4>1. /\ run[k].writer = "open" /\ run[k].queued = <<>>
            /\ run[k].file = <<Header>> \o finished[k] /\ records' = Append(records, c)
            /\ run' = [run EXCEPT ![k].file = Append(@, c)]
        BY <2>0, <3>2 DEF Write, Files, FileOf, RunState
      <4>2. /\ r \in RunState /\ r.enabled = run[k].enabled /\ r.closing = run[k].closing
            /\ r.writer = run[k].writer /\ r.queued = run[k].queued /\ r.init = run[k].init
            /\ r.file = Append(run[k].file, c)
        BY <2>0, <2>2, <4>1 DEF RunState
      <4>3. run' = [run EXCEPT ![k] = r]
        BY <2>0, <4>1
      <4> HIDE DEF r
      <4>4. /\ r.enabled /\ ~r.closing /\ r.writer = "open" /\ r.queued = <<>>
            /\ r.file = <<Header>> \o Append(finished[k], c)
        BY <2>0, <2>2, <4>1, <4>2
      <4> QED BY <4>1, <4>2, <4>3, <4>4
    <3> QED BY <1>1, <3>1, <3>2 DEF ToolEnd
  <2>6. run'[k] = r /\ \A j \in RunIds \ {k} : run'[j] = run[j]
    BY <2>0, <2>5
  <2>7. pendingIn' = pendingIn \ {c}
    BY <1>1, <2>5, <2>6 DEF ToolEnd
  <2>8. TelTypes'
    BY <1>0, <2>0, <2>2, <2>3, <2>4, <2>5, <2>7 DEF TelTypes
  <2>9. Ahead'
    BY <1>0, <2>0, <2>3, <2>6 DEF Ahead, RunIds
  <2>10. Stops'
    BY <1>0, <2>0, <2>5, <2>6 DEF Stops
  <2>11. Pending'
    BY <1>0, <2>0, <2>5, <2>6, <2>7 DEF Pending
  <2>12. Files'
    <3>1. FileOf(k)'
      BY <1>0, <2>2, <2>3, <2>5, <2>6 DEF FileOf
    <3>2. \A j \in (RunIds \ broken) \ {k} : FileOf(j)'
      BY <1>0, <2>3, <2>6 DEF Files, FileOf
    <3> QED BY <1>0, <3>1, <3>2 DEF Files
  <2>13. Live'
    BY <1>0, <2>2, <2>3, <2>4, <2>5, <2>6 DEF Live
  <2> QED BY <2>8, <2>9, <2>10, <2>11, <2>12, <2>13
<1>2. CASE ~(Enabled /\ c \in pendingIn)
  <2>0. UNCHANGED <<run, records, pendingIn>>
    BY <1>2 DEF ToolEnd
  <2>1. /\ finished' = IF startedIn[c] = current /\ ~run[current].closing
                       THEN [finished EXCEPT ![current] = Append(@, c)] ELSE finished
        /\ finished \in [RunIds -> Seq(ToolCalls)]
    BY DEF ToolEnd, TelTypes
  <2>2. \/ finished' = finished
        \/ /\ current \in broken /\ current \in RunIds /\ ~run[current].enabled
           /\ finished' = [finished EXCEPT ![current] = Append(@, c)]
    <3> SUFFICES ASSUME finished' # finished PROVE
             /\ current \in broken /\ current \in RunIds /\ ~run[current].enabled
             /\ finished' = [finished EXCEPT ![current] = Append(@, c)]
      OBVIOUS
    <3>1. /\ startedIn[c] = current /\ ~run[current].closing
          /\ finished' = [finished EXCEPT ![current] = Append(@, c)]
      BY <2>1
    <3>2. current # 0
      <4> SUFFICES ASSUME current = 0 PROVE FALSE
        OBVIOUS
      <4>1. current \notin RunIds
        BY DEF RunIds
      <4>2. finished' = finished
        BY <2>1, <3>1, <4>1
      <4> QED BY <4>2
    <3>3. ~run[current].enabled
      BY <1>0, <1>2, <3>1, <3>2 DEF Pending, Enabled
    <3> QED BY <3>1, <3>2, <3>3, CurrentRun DEF Stops
  <2>3. /\ finished' \in [RunIds -> Seq(ToolCalls)]
        /\ \A j \in RunIds \ broken : finished'[j] = finished[j]
        /\ \A j \in RunIds : j > current => finished'[j] = finished[j]
        /\ current # 0 /\ run[current].enabled => finished'[current] = finished[current]
    <3>1. \A f \in Seq(ToolCalls) : Append(f, c) \in Seq(ToolCalls)
      BY BehindHeader
    <3>2. \A j \in RunIds : j > current => j # current
      BY TelemetryAssumption DEF TelTypes, RunIds
    <3>3. CASE finished' = finished
      BY <2>1, <3>3
    <3>4. CASE /\ current \in broken /\ current \in RunIds /\ ~run[current].enabled
               /\ finished' = [finished EXCEPT ![current] = Append(@, c)]
      <4>1. /\ finished' \in [RunIds -> Seq(ToolCalls)]
            /\ \A j \in RunIds \ {current} : finished'[j] = finished[j]
        BY <2>1, <3>1, <3>4
      <4> QED BY <3>2, <3>4, <4>1
    <3> QED BY <2>2, <3>3, <3>4
  <2>4. TelTypes'
    BY <1>0, <2>0, <2>3 DEF TelTypes
  <2>5. Ahead' /\ Stops' /\ Live'
    BY <1>0, <2>0, <2>3 DEF Ahead, Stops, Live
  <2>6. Pending'
    BY <1>0, <1>2, <2>0 DEF Pending, Enabled
  <2>7. Files'
    BY <1>0, <2>0, <2>3 DEF Files, FileOf
  <2> QED BY <2>4, <2>5, <2>6, <2>7
<1> QED BY <1>1, <1>2

\* A run whose file fails stops collecting if it is the run of the session.
LEMMA FailsKeep ==
  ASSUME TelInv, NEW k \in RunIds, OpenFails(k) \/ StreamFails(k) PROVE TelInv'
<1> USE DEF TelInv
<1>0. /\ k \notin broken /\ broken' = broken \cup {k} /\ k <= current /\ run[k].enabled
      /\ UNCHANGED <<current, toolAt, finished, startedIn>> /\ current \in RunIds
      /\ records' = IF k = current THEN <<>> ELSE records
      /\ pendingIn' = IF k = current THEN {} ELSE pendingIn
      /\ run[k] \in RunState /\ run \in [RunIds -> RunState]
  <2>1. run[k].init = "opening" \/ run[k].writer # "none"
    BY DEF OpenFails, StreamFails, MayOpen
  <2>2. k <= current
    BY <2>1 DEF Ahead, NewRun, TelTypes, RunIds
  <2>3. run[k].enabled /\ k \notin broken
    BY DEF OpenFails, StreamFails, Stops
  <2> QED BY <2>2, <2>3, TelemetryAssumption DEF OpenFails, StreamFails, DisablesNow, TelTypes, RunIds
<1>1. PICK r \in RunState :
        /\ run' = [run EXCEPT ![k] = r] /\ (r.enabled <=> k # current)
        /\ r.closing = run[k].closing /\ r.writer = run[k].writer
        /\ r.init = "opening" => run[k].init = "opening"
  <2> DEFINE q == [run[k] EXCEPT !.enabled = FALSE, !.queued = <<>>]
             d == IF k = current THEN q ELSE run[k]
             i == [d EXCEPT !.init = "ended"]
  <2>1. /\ q \in RunState /\ ~q.enabled /\ q.closing = run[k].closing
        /\ q.writer = run[k].writer /\ q.init = run[k].init
    <3>1. <<>> \in Seq(ToolCalls)
      OBVIOUS
    <3> QED BY <1>0, <3>1 DEF RunState
  <2>2. Disabled(run, k) = [run EXCEPT ![k] = d]
    BY <1>0 DEF Disabled
  <2> HIDE DEF q
  <2>3. /\ d \in RunState /\ (d.enabled <=> k # current) /\ d.closing = run[k].closing
        /\ d.writer = run[k].writer /\ d.init = run[k].init
    BY <1>0, <2>1
  <2> HIDE DEF d
  <2>4. /\ i \in RunState /\ (i.enabled <=> k # current) /\ i.closing = run[k].closing
        /\ i.writer = run[k].writer /\ i.init = "ended"
    BY <2>3 DEF RunState
  <2>5. [Disabled(run, k) EXCEPT ![k].init = "ended"] = [run EXCEPT ![k] = i]
    BY <1>0, <2>2
  <2> HIDE DEF i
  <2>6. run' = [run EXCEPT ![k] = d] \/ run' = [run EXCEPT ![k] = i]
    BY <2>2, <2>5 DEF OpenFails, StreamFails
  <2> QED BY <2>3, <2>4, <2>6
<1>2. run'[k] = r /\ \A j \in RunIds \ {k} : run'[j] = run[j]
  BY <1>0, <1>1
<1>3. TelTypes'
  BY <1>0, <1>1 DEF TelTypes
<1>4. Ahead'
  BY <1>0, <1>2 DEF Ahead, RunIds
<1>5. Stops'
  BY <1>0, <1>1, <1>2 DEF Stops
<1>6. Pending'
  BY <1>0, <1>1, <1>2 DEF Pending
<1>7. Files'
  BY <1>0, <1>2 DEF Files, FileOf
<1>8. Live'
  BY <1>0, <1>1, <1>2 DEF Live
<1> QED BY <1>3, <1>4, <1>5, <1>6, <1>7, <1>8

LEMMA TelNextInv == TelInv /\ [TelemetryNext]_telVars => TelInv'
<1> SUFFICES ASSUME TelInv, [TelemetryNext]_telVars PROVE TelInv'
  OBVIOUS
<1>1. CASE UNCHANGED telVars
  BY <1>1 DEF telVars, TelInv, TelTypes, Ahead, Stops, Pending, Files, FileOf, Live
<1> QED BY <1>1, StartKeeps, ShutdownKeeps, CloseKeeps, OpenKeeps, ToolStartKeeps, ToolEndKeeps,
           FailsKeep DEF TelemetryNext, RunStep

\* append, initializeRun, closeRun, snapshot(): the file of a run that did not fail, or
\* what waits for it, is every call that started and ended in the run, once each and in
\* order, and the live report is that of the run of the session.
THEOREM RecordsAreExact == TelemetrySpec => []RecordsExact
<1>1. TelInv => RecordsExact
  <2> SUFFICES ASSUME TelInv PROVE RecordsExact
    OBVIOUS
  <2>1. TelemetryTypeOK
    BY DEF TelInv, TelTypes, TelemetryTypeOK, RunState
  <2> QED BY <2>1 DEF TelInv, RecordsExact, Files, FileOf, Live
<1> QED BY <1>1, TelInitInv, TelNextInv, PTL DEF TelemetrySpec

-----------------------------------------------------------------------------
(* Approval.  As long as one process has written the rules file, and nothing was left
   half written, that process knows every rule the user was told is saved whenever it
   writes again: it has read the file since it started, or written it itself.        *)

Gates == [store : BOOLEAN, exact : SUBSET Requests, persistent : SUBSET Requests,
          at : {"idle", "loading", "deciding", "asking", "saving"}, request : Requests,
          verdict : {"none", "allow", "allowed", "deny", "failed"}]

GateTypes ==
  /\ policy \in [Requests -> Verdicts] /\ file \in (SUBSET Requests) \cup {Unreadable}
  /\ session \in [Sessions -> Gates] /\ grants \subseteq Requests /\ told \subseteq Requests
  /\ writers \subseteq Sessions /\ IsFiniteSet(writers) /\ torn \in BOOLEAN

Granted ==
  /\ file # Unreadable => file \subseteq grants
  /\ \A s \in Sessions : session[s].persistent \subseteq grants

\* A process that saves has the new rule in its store, and has made the store.
Saves ==
  \A s \in Sessions :
    /\ session[s].at # "idle" => session[s].store
    /\ session[s].at = "saving" =>
         s \in writers /\ Similar[session[s].request] \subseteq session[s].persistent

\* What the only writer knows.
Knows(s) ==
  IF session[s].at = "saving" THEN told \subseteq session[s].persistent
  ELSE /\ file # Unreadable /\ told \subseteq file
       /\ session[s].store /\ session[s].at # "loading" => told \subseteq session[s].persistent

Alone == ~torn /\ \A s, t \in writers : s = t
Sole == Alone => /\ writers = {} => told = {} /\ file # Unreadable
                 /\ \A s \in writers : Knows(s)

GateInv == GateTypes /\ Granted /\ Saves /\ Sole

\* A set of at most one element, told by its size.
LEMMA AtMostOne ==
  ASSUME NEW S, IsFiniteSet(S), Cardinality(S) <= 1, NEW s \in S, NEW t \in S
  PROVE  s = t
<1> SUFFICES ASSUME s # t PROVE FALSE
  OBVIOUS
<1>1. IsFiniteSet({s}) /\ Cardinality({s}) = 1
  BY FS_Singleton
<1>2. Cardinality({s} \cup {t}) = 2
  BY <1>1, FS_AddElement
<1>3. Cardinality({s} \cup {t}) <= Cardinality(S)
  BY FS_Subset
<1>4. Cardinality(S) \in Nat
  BY FS_CardinalityType
<1> QED BY <1>2, <1>3, <1>4

LEMMA GateInitInv == GateInit => GateInv
<1> SUFFICES ASSUME GateInit PROVE GateInv
  OBVIOUS
<1> USE GateAssumption DEF GateInit
<1>1. Fresh \in Gates
  <2>1. (CHOOSE q \in Requests : TRUE) \in Requests
    OBVIOUS
  <2> QED BY <2>1 DEF Fresh, Gates
<1>2. GateTypes
  BY <1>1, FS_EmptySet DEF GateTypes
<1>3. Granted /\ Saves /\ Sole
  BY DEF Granted, Saves, Sole, Alone, Fresh
<1> QED BY <1>2, <1>3 DEF GateInv

\* A step of one session that neither saves nor asks anything of the file.
LEMMA SessionChanges ==
  ASSUME GateInv, NEW s \in Sessions, NEW r \in Gates, session' = [session EXCEPT ![s] = r],
         UNCHANGED <<file, told, writers, torn>>, policy' = policy,
         grants' \subseteq Requests, grants \subseteq grants',
         session[s].at # "saving", r.at # "saving",
         r.at # "idle" => r.store,
         r.persistent \subseteq grants',
         \/ ~r.store \/ r.at = "loading"
         \/ file # Unreadable /\ r.persistent = file
         \/ /\ session[s].store /\ session[s].at # "loading"
            /\ session[s].persistent \subseteq r.persistent
         \/ file = Unreadable
  PROVE  GateInv'
<1> USE DEF GateInv
<1>1. session'[s] = r /\ \A t \in Sessions \ {s} : session'[t] = session[t]
  BY DEF GateTypes
<1>2. GateTypes'
  BY DEF GateTypes
<1>3. Granted'
  BY <1>1 DEF Granted
<1>4. Saves'
  BY <1>1 DEF Saves
<1>5. Sole'
  <2> SUFFICES ASSUME Alone PROVE (writers = {} => told = {} /\ file # Unreadable)
                                  /\ \A t \in writers : Knows(t)'
    BY DEF Sole, Alone
  <2>1. (writers = {} => told = {} /\ file # Unreadable) /\ \A t \in writers : Knows(t)
    BY DEF Sole
  <2>2. s \in writers => Knows(s)'
    BY <1>1, <2>1 DEF Knows
  <2>3. \A t \in writers \ {s} : Knows(t)'
    BY <1>1, <2>1 DEF Knows, GateTypes
  <2> QED BY <2>1, <2>2, <2>3
<1> QED BY <1>2, <1>3, <1>4, <1>5

\* The steps of a call that read, decide, or are answered without saving.
LEMMA DecisionsKeep ==
  ASSUME GateInv, NEW s \in Sessions,
         \/ \E q \in Requests : Call(s, q)
         \/ Load(s) \/ LoadFails(s) \/ Decide(s) \/ AllowOnce(s) \/ Deny(s)
         \/ AllowSession(s) \/ SaveFails(s)
  PROVE  GateInv'
<1> DEFINE old == session[s]
<1>0. old \in Gates /\ session \in [Sessions -> Gates] /\ file \in (SUBSET Requests) \cup {Unreadable}
      /\ old.persistent \subseteq grants /\ grants \subseteq Requests
      /\ (old.at # "idle" => old.store) /\ policy \in [Requests -> Verdicts]
  BY DEF GateInv, GateTypes, Granted, Saves
<1>1. ASSUME NEW q \in Requests, Call(s, q) PROVE GateInv'
  <2> DEFINE r == [old EXCEPT !.request = q, !.store = TRUE, !.verdict = "none",
                              !.at = IF old.store THEN "deciding" ELSE "loading"]
  <2>1. /\ r \in Gates /\ r.store /\ r.persistent = old.persistent
        /\ r.at = IF old.store THEN "deciding" ELSE "loading"
    BY <1>0 DEF Gates
  <2>2. session' = [session EXCEPT ![s] = r] /\ old.at = "idle"
    BY <1>0, <1>1 DEF Call
  <2> HIDE DEF r
  <2>3. /\ UNCHANGED <<file, told, writers, torn>> /\ policy' = policy /\ grants' = grants
    BY <1>1 DEF Call, history
  <2>4. /\ session[s].at # "saving" /\ r.at # "saving"
        /\ r.persistent \subseteq grants
        /\ r.at = "loading" \/ (session[s].store /\ session[s].at # "loading")
        /\ session[s].persistent \subseteq r.persistent
    BY <1>0, <2>1, <2>2
  <2> QED BY <1>0, <2>1, <2>2, <2>3, <2>4, SessionChanges
<1>2. CASE Load(s)
  <2> DEFINE r == [old EXCEPT !.persistent = file, !.at = "deciding"]
  <2>1. r \in Gates /\ r.store = old.store /\ r.persistent = file /\ r.at = "deciding"
    BY <1>0, <1>2 DEF Load, Gates
  <2>2. session' = [session EXCEPT ![s] = r] /\ old.at = "loading" /\ file # Unreadable
    BY <1>0, <1>2 DEF Load
  <2>3. file \subseteq grants
    BY <2>2 DEF GateInv, Granted
  <2> HIDE DEF r
  <2> QED BY <1>0, <1>2, <2>1, <2>2, <2>3, SessionChanges DEF Load, history
<1>3. ASSUME NEW verdict \in {"allow", "allowed", "deny", "failed"}, Goes(s, verdict),
             old.at \notin {"idle", "saving"}, old.at = "loading" => file = Unreadable,
             UNCHANGED <<policy, file, history>>
      PROVE  GateInv'
  <2> DEFINE r == [old EXCEPT !.at = "idle", !.verdict = verdict]
  <2>1. r \in Gates /\ r.store = old.store /\ r.persistent = old.persistent /\ r.at = "idle"
    BY <1>0 DEF Gates
  <2>2. session' = [session EXCEPT ![s] = r]
    BY <1>0, <1>3 DEF Goes
  <2> HIDE DEF r
  <2> QED BY <1>0, <1>3, <2>1, <2>2, SessionChanges DEF history
<1>4. CASE LoadFails(s)
  BY <1>3, <1>4 DEF LoadFails
<1>5. CASE Decide(s)
  <2>1. CASE Evaluated(s) = "ask"
    <3> DEFINE r == [old EXCEPT !.at = "asking"]
    <3>1. r \in Gates /\ r.store = old.store /\ r.persistent = old.persistent /\ r.at = "asking"
      BY <1>0 DEF Gates
    <3>2. session' = [session EXCEPT ![s] = r] /\ old.at = "deciding"
      BY <1>0, <1>5, <2>1 DEF Decide
    <3> HIDE DEF r
    <3> QED BY <1>0, <1>5, <3>1, <3>2, SessionChanges DEF Decide, history
  <2>2. CASE Evaluated(s) # "ask"
    <3>1. Evaluated(s) \in {"allow", "deny"}
      BY <1>0, <2>2 DEF Evaluated, Verdicts, Gates
    <3> QED BY <1>3, <1>5, <2>2, <3>1 DEF Decide
  <2> QED BY <2>1, <2>2
<1>6. CASE AllowOnce(s) \/ Deny(s)
  BY <1>3, <1>6 DEF AllowOnce, Deny
<1>7. CASE AllowSession(s)
  <2> DEFINE r == [old EXCEPT !.exact = @ \cup {old.request}, !.at = "idle", !.verdict = "allowed"]
  <2>1. r \in Gates /\ r.store = old.store /\ r.persistent = old.persistent /\ r.at = "idle"
    BY <1>0 DEF Gates
  <2>2. session' = [session EXCEPT ![s] = r] /\ old.at = "asking"
    BY <1>0, <1>7 DEF AllowSession
  <2> HIDE DEF r
  <2> QED BY <1>0, <1>7, <2>1, <2>2, SessionChanges DEF AllowSession, history
<1>8. CASE SaveFails(s)
  <2> DEFINE more == Similar[old.request]
             r == [old EXCEPT !.persistent = @ \cup more, !.at = "idle", !.verdict = "allowed"]
  <2>0. more \subseteq Requests
    BY <1>0, GateAssumption DEF Gates
  <2>1. /\ session' = [session EXCEPT ![s] = r] /\ old.at = "asking"
        /\ grants' = grants \cup more
    BY <1>0, <1>8 DEF SaveFails
  <2> HIDE DEF more
  <2>2. /\ r \in Gates /\ r.store = old.store /\ r.persistent = old.persistent \cup more
        /\ r.at = "idle"
    BY <1>0, <2>0 DEF Gates
  <2> HIDE DEF r
  <2> QED BY <1>0, <1>8, <2>0, <2>1, <2>2, SessionChanges DEF SaveFails
<1> QED BY <1>1, <1>2, <1>4, <1>5, <1>6, <1>7, <1>8

\* Saving: who begins to write is a second writer, or knows all that was saved.
LEMMA SavingKeeps ==
  ASSUME GateInv, NEW s \in Sessions, AllowSimilar(s) \/ Saved(s)
  PROVE  GateInv'
<1> DEFINE old == session[s]
           more == Similar[old.request]
<1> USE DEF GateInv
<1>0. old \in Gates /\ session \in [Sessions -> Gates] /\ old.persistent \subseteq grants
      /\ more \subseteq Requests /\ old.persistent \subseteq Requests /\ grants \subseteq Requests
  BY GateAssumption DEF GateTypes, Granted, Gates
<1>1. CASE AllowSimilar(s)
  <2> DEFINE r == [old EXCEPT !.persistent = @ \cup more, !.at = "saving"]
  <2>0. /\ session' = [session EXCEPT ![s] = r] /\ old.at = "asking" /\ file' = Unreadable
        /\ grants' = grants \cup more /\ writers' = writers \cup {s}
        /\ UNCHANGED <<policy, told, torn>>
    BY <1>0, <1>1 DEF AllowSimilar
  <2>1. more \subseteq Requests /\ old \in Gates
    BY <1>0
  <2>2. /\ r \in Gates /\ r.store = old.store /\ r.persistent = old.persistent \cup more
        /\ r.at = "saving" /\ r.request = old.request
    <3> HIDE DEF more, old
    <3> QED BY <2>1 DEF Gates
  <2> HIDE DEF r
  <2>3. session'[s] = r /\ \A t \in Sessions \ {s} : session'[t] = session[t]
    BY <1>0, <2>0
  <2>4. GateTypes'
    <3>1. IsFiniteSet(writers \cup {s})
      BY FS_AddElement DEF GateTypes
    <3> QED BY <1>0, <2>0, <2>2, <3>1 DEF GateTypes
  <2>5. Granted'
    BY <1>0, <2>0, <2>2, <2>3 DEF Granted
  <2>6. Saves'
    BY <2>0, <2>2, <2>3 DEF Saves
  <2>7. Sole'
    <3> SUFFICES ASSUME Alone' PROVE \A t \in writers' : Knows(t)'
      BY <2>0 DEF Sole
    <3>1. Alone /\ writers' = {s}
      BY <2>0 DEF Alone
    <3>2. told \subseteq old.persistent
      <4>1. CASE s \in writers
        BY <2>0, <3>1, <4>1 DEF Sole, Knows, Saves
      <4>2. CASE s \notin writers
        BY <2>0, <3>1, <4>2 DEF Sole
      <4> QED BY <4>1, <4>2
    <3> QED BY <2>0, <2>2, <2>3, <3>1, <3>2 DEF Knows
  <2> QED BY <2>4, <2>5, <2>6, <2>7
<1>2. CASE Saved(s)
  <2> DEFINE r == [old EXCEPT !.at = "idle", !.verdict = "allowed"]
  <2>0. /\ session' = [session EXCEPT ![s] = r] /\ old.at = "saving" /\ file' = old.persistent
        /\ told' = told \cup more /\ UNCHANGED <<policy, grants, writers, torn>>
    BY <1>0, <1>2 DEF Saved, Goes
  <2>1. /\ r \in Gates /\ r.store = old.store /\ r.persistent = old.persistent /\ r.at = "idle"
    BY <1>0 DEF Gates
  <2> HIDE DEF r
  <2>2. session'[s] = r /\ \A t \in Sessions \ {s} : session'[t] = session[t]
    BY <1>0, <2>0
  <2>3. s \in writers /\ more \subseteq old.persistent
    BY <2>0 DEF Saves
  <2>4. GateTypes'
    BY <1>0, <2>0, <2>1 DEF GateTypes
  <2>5. Granted'
    BY <1>0, <2>0, <2>1, <2>2 DEF Granted
  <2>6. Saves'
    BY <2>0, <2>1, <2>2 DEF Saves
  <2>7. Sole'
    <3> SUFFICES ASSUME Alone' PROVE \A t \in writers' : Knows(t)'
      BY <2>0, <2>3 DEF Sole
    <3>1. Alone /\ writers = {s} /\ writers' = {s}
      BY <2>0, <2>3 DEF Alone
    <3>2. told \subseteq old.persistent
      BY <2>0, <2>3, <3>1 DEF Sole, Knows
    <3>3. file' # Unreadable
      BY <1>0, <2>0, GateAssumption
    <3> QED BY <2>0, <2>1, <2>2, <2>3, <3>1, <3>2, <3>3 DEF Knows
  <2> QED BY <2>4, <2>5, <2>6, <2>7
<1> QED BY <1>1, <1>2

LEMMA WorldKeeps ==
  ASSUME GateInv,
         \/ \E q \in Requests, v \in Verdicts : Configure(q, v)
         \/ Spoil \/ \E s \in Sessions : Crash(s)
  PROVE  GateInv'
<1> USE DEF GateInv
<1>1. ASSUME NEW q \in Requests, NEW v \in Verdicts, Configure(q, v) PROVE GateInv'
  BY <1>1 DEF Configure, history, GateTypes, Granted, Saves, Sole, Alone, Knows
<1>2. CASE Spoil
  BY <1>2 DEF Spoil, GateTypes, Granted, Saves, Sole, Alone
<1>3. ASSUME NEW s \in Sessions, Crash(s) PROVE GateInv'
  <2>0. /\ session' = [session EXCEPT ![s] = Fresh]
        /\ torn' = (torn \/ session[s].at = "saving")
        /\ UNCHANGED <<policy, file, grants, told, writers>>
    BY <1>3 DEF Crash
  <2>1. /\ Fresh \in Gates /\ ~Fresh.store /\ Fresh.at = "idle" /\ Fresh.persistent = {}
    <3>1. (CHOOSE q \in Requests : TRUE) \in Requests
      BY GateAssumption
    <3> QED BY <3>1 DEF Fresh, Gates
  <2>2. session'[s] = Fresh /\ \A t \in Sessions \ {s} : session'[t] = session[t]
    BY <2>0 DEF GateTypes
  <2>3. GateTypes'
    BY <2>0, <2>1 DEF GateTypes
  <2>4. Granted' /\ Saves'
    BY <2>0, <2>1, <2>2 DEF Granted, Saves
  <2>5. Sole'
    BY <2>0, <2>1, <2>2 DEF Sole, Alone, Knows, GateTypes
  <2> QED BY <2>3, <2>4, <2>5
<1> QED BY <1>1, <1>2, <1>3

LEMMA GateNextInv == GateInv /\ [GateNext]_gateVars => GateInv'
<1> SUFFICES ASSUME GateInv, [GateNext]_gateVars PROVE GateInv'
  OBVIOUS
<1>1. CASE UNCHANGED gateVars
  BY <1>1 DEF gateVars, history, GateInv, GateTypes, Granted, Saves, Sole, Alone, Knows
<1>2. CASE GateNext
  BY <1>2, DecisionsKeep, SavingKeeps, WorldKeeps DEF GateNext, CallStep, Answer
<1> QED BY <1>1, <1>2

\* loadPersistentRules, writePersistentRules: no rule comes into force, or onto the file,
\* that no user agreed to, and what the user was told is saved stays on the file while
\* one process writes it and nothing leaves it unreadable.
THEOREM RulesAreKept == GateSpec => []RulesKept
<1>1. GateInv => RulesKept
  <2> SUFFICES ASSUME GateInv PROVE RulesKept
    OBVIOUS
  <2>1. GateTypeOK
    BY DEF GateInv, GateTypes, GateTypeOK, Gates
  <2>2. ASSUME ~torn, Cardinality(writers) <= 1, \A s \in Sessions : session[s].at # "saving"
        PROVE  file # Unreadable /\ told \subseteq file
    <3>1. Alone
      BY <2>2, AtMostOne DEF GateInv, GateTypes, Alone
    <3> QED BY <2>2, <3>1 DEF GateInv, Sole, Knows, GateTypes
  <2> QED BY <2>1, <2>2 DEF GateInv, RulesKept, Granted
<1> QED BY <1>1, GateInitInv, GateNextInv, PTL DEF GateSpec

-----------------------------------------------------------------------------
(* Subagents.  A worker's task begins in the step in which the one before it ends, so
   the tasks under way never outnumber the workers; tasks begin in order, so the next
   one has no child and no attempt yet.                                              *)

Begun == {"queued", "asking", "launching", "running", "delay", "persisting"} \cup Settled

TaskTypes ==
  /\ chain \in BOOLEAN /\ threw \in BOOLEAN /\ aborted \in BOOLEAN
  /\ call \in {"idle", "running", "cleaning", "returned"} /\ dir \in {"none", "full", "bare"}
  /\ next \in 1 .. (NTasks + 1) /\ touched \subseteq Capable
  /\ at \in [Tasks -> Begun] /\ attempt \in [Tasks -> 0 .. MaxAttempts]
  /\ child \in [Tasks -> Child \cup {NoChild}]
  /\ outcome \in [Tasks -> {"none", "timeout", "aborted", "exit", "stopped", "empty"}]

\* Tasks begin in order, and before the call begins none has.
InOrder ==
  /\ \A t \in Tasks : t >= next => at[t] = "queued"
  /\ call = "idle" => next = 1

\* Where a task has a child, attempts left, and no attempt yet.
Attempts ==
  \A t \in Tasks :
    /\ child[t].up => at[t] = "running"
    /\ at[t] \in {"launching", "delay"} => attempt[t] < MaxAttempts
    /\ at[t] \in {"queued", "asking"} => attempt[t] = 0

\* What changed something will not be tried again.
Once == \A t \in touched : at[t] \in {"running", "persisting"} \cup Settled

Slots == Cardinality(UnderWay) <= Width

Ends ==
  /\ call # "running" /\ ~threw => UnderWay = {}
  /\ call = "returned" /\ ~threw => dir = "none"

TaskInv == TaskTypes /\ InOrder /\ Attempts /\ Once /\ Slots /\ Ends

LEMMA TasksFinite ==
  ASSUME NEW S \in SUBSET Tasks PROVE IsFiniteSet(S) /\ Cardinality(S) \in Nat
<1>1. IsFiniteSet(Tasks)
  BY SubagentsAssumption, FS_Interval DEF Tasks, SubagentsAssumption
<1> QED BY <1>1, FS_Subset, FS_CardinalityType

LEMMA WidthType ==
  ASSUME TaskTypes
  PROVE  Width \in 1 .. NTasks /\ Width <= IF chain THEN 1 ELSE MaxConcurrency
BY SubagentsAssumption DEF TaskTypes, Width, SubagentsAssumption

\* The tasks under way before and after a step that concerns task t.
LEMMA FewerUnderWay ==
  ASSUME TaskInv, UnderWay' \subseteq UnderWay, chain' = chain
  PROVE  Slots'
<1>1. UnderWay \in SUBSET Tasks
  BY DEF UnderWay
<1>2. Cardinality(UnderWay') <= Cardinality(UnderWay)
  BY <1>1, TasksFinite, FS_Subset
<1>3. Cardinality(UnderWay) \in Nat /\ Cardinality(UnderWay') \in Nat
  BY <1>1, TasksFinite
<1>4. Width' = Width /\ Width \in Nat
  BY WidthType DEF Width, TaskInv
<1> QED BY <1>2, <1>3, <1>4 DEF TaskInv, Slots

LEMMA TaskInitInv == SubagentsInit => TaskInv
<1> SUFFICES ASSUME SubagentsInit PROVE TaskInv
  OBVIOUS
<1> USE SubagentsAssumption DEF SubagentsInit, SubagentsAssumption
<1>1. TaskTypes
  <2>1. next \in 1 .. (NTasks + 1) /\ 0 \in 0 .. MaxAttempts
    OBVIOUS
  <2>2. /\ at \in [Tasks -> Begun] /\ attempt \in [Tasks -> 0 .. MaxAttempts]
        /\ child \in [Tasks -> Child \cup {NoChild}]
        /\ outcome \in [Tasks -> {"none", "timeout", "aborted", "exit", "stopped", "empty"}]
    BY <2>1 DEF Begun
  <2> QED BY <2>1, <2>2 DEF TaskTypes
<1>2. UnderWay = {}
  <2>1. \A t \in Tasks : at[t] = "queued"
    OBVIOUS
  <2> QED BY <2>1 DEF UnderWay
<1>3. Slots
  <2>1. Cardinality({}) = 0
    BY FS_EmptySet
  <2> QED BY <1>1, <1>2, <2>1, WidthType DEF Slots
<1>4. InOrder /\ Attempts /\ Once
  BY DEF InOrder, Attempts, Once, NoChild, Tasks
<1>5. Ends
  BY <1>2 DEF Ends
<1> QED BY <1>1, <1>3, <1>4, <1>5 DEF TaskInv

LEMMA BeginKeeps ==
  ASSUME TaskInv, Begin \/ BeginFails PROVE TaskInv'
<1> USE SubagentsAssumption DEF TaskInv, SubagentsAssumption
<1>1. CASE Begin
  <2>0. /\ call = "idle" /\ call' = "running" /\ next' = Width + 1
        /\ at' = [t \in Tasks |-> IF t <= Width THEN "asking" ELSE "queued"]
        /\ dir' \in {"none", "full"} /\ Width \in 1 .. NTasks
        /\ UNCHANGED <<chain, threw, aborted, attempt, child, outcome, touched>>
    BY <1>1, WidthType DEF Begin
  <2>1. TaskTypes'
    BY <2>0 DEF TaskTypes, Begun
  <2>3. UnderWay' = 1 .. Width
    BY <2>0 DEF UnderWay, Tasks, Settled
  <2>4. Slots'
    <3>1. Cardinality(1 .. Width) = Width
      BY <2>0, FS_Interval
    <3>2. Width' = Width
      BY <2>0 DEF Width
    <3> QED BY <2>0, <2>3, <3>1, <3>2 DEF Slots
  <2>5. \A t \in Tasks : at[t] = "queued"
    BY <2>0, SubagentsAssumption DEF InOrder, Tasks, SubagentsAssumption
  <2>6. InOrder' /\ Ends'
    BY <2>0 DEF InOrder, Ends, Tasks
  <2>7. Attempts' /\ Once'
    BY <2>0, <2>5 DEF Attempts, Once, Settled, TaskTypes
  <2> QED BY <2>1, <2>4, <2>6, <2>7
<1>2. CASE BeginFails
  <2>0. /\ call' = "cleaning" /\ threw' = TRUE
        /\ UNCHANGED <<chain, aborted, next, at, attempt, child, outcome, touched, dir>>
    BY <1>2 DEF BeginFails
  <2> QED BY <2>0 DEF TaskTypes, InOrder, Attempts, Once, Slots, Ends, UnderWay, Width
<1> QED BY <1>1, <1>2

\* A step of the children alone: one may end up told, killed, heard or writing, none
\* comes up, and only what is up changes something.
LEMMA ChildrenKeep ==
  ASSUME TaskInv, UNCHANGED <<chain, call, threw, next, at, attempt, outcome, dir>>,
         aborted' \in BOOLEAN, child' \in [Tasks -> Child \cup {NoChild}],
         \A t \in Tasks : child'[t].up => child[t].up,
         touched' \subseteq Capable, \A t \in touched' : t \in touched \/ child[t].up
  PROVE  TaskInv'
<1>1. Capable \subseteq Tasks
  BY SubagentsAssumption DEF SubagentsAssumption
<1>2. TaskTypes' /\ InOrder' /\ Ends' /\ UnderWay' = UnderWay /\ Width' = Width
  BY DEF TaskInv, TaskTypes, InOrder, Ends, UnderWay, Width
<1>3. Attempts' /\ Once'
  BY <1>1 DEF TaskInv, Attempts, Once
<1> QED BY <1>2, <1>3 DEF TaskInv, Slots

LEMMA ChildTypes ==
  ASSUME TaskInv, NEW t \in Tasks, child[t].up
  PROVE  child[t] \in Child /\ at[t] = "running" /\ attempt[t] \in 0 .. MaxAttempts
BY DEF TaskInv, TaskTypes, Attempts, NoChild

\* A change of one child.
LEMMA ChildKeeps ==
  ASSUME TaskInv, NEW t \in Tasks, child[t].up, NEW c \in Child,
         child' = [child EXCEPT ![t] = c],
         UNCHANGED <<chain, call, threw, aborted, next, at, attempt, outcome, dir>>,
         touched' = touched \/ (t \in Capable /\ touched' = touched \cup {t})
  PROVE  TaskInv'
<1>1. child' \in [Tasks -> Child \cup {NoChild}]
  BY DEF TaskInv, TaskTypes
<1>2. \A u \in Tasks : child'[u].up => child[u].up
  BY DEF TaskInv, TaskTypes
<1>3. aborted' \in BOOLEAN /\ touched' \subseteq Capable
  BY DEF TaskInv, TaskTypes
<1>4. \A u \in touched' : u \in touched \/ child[u].up
  OBVIOUS
<1> QED BY <1>1, <1>2, <1>3, <1>4, ChildrenKeep

LEMMA CancelKeeps == ASSUME TaskInv, Cancel PROVE TaskInv'
<1>1. ASSUME NEW t \in Tasks, child[t].up
      PROVE  [Terminated(child[t]) EXCEPT !.aborted = TRUE] \in Child
  BY <1>1, ChildTypes DEF Child, Terminated
<1>2. child' \in [Tasks -> Child \cup {NoChild}]
  BY <1>1 DEF Cancel, TaskInv, TaskTypes
<1>3. \A t \in Tasks : child'[t].up => child[t].up
  BY DEF Cancel
<1> QED BY <1>2, <1>3, ChildrenKeep DEF Cancel, TaskInv, TaskTypes

LEMMA SignalsKeep ==
  ASSUME TaskInv, NEW t \in Tasks, Timeout(t) \/ GraceEnds(t) \/ Speak(t) \/ Change(t)
  PROVE  TaskInv'
<1>0. child[t].up
  BY DEF Timeout, GraceEnds, Speak, Change
<1>1. child[t] \in Child
  BY <1>0, ChildTypes
<1>2. child \in [Tasks -> Child \cup {NoChild}]
  BY DEF TaskInv, TaskTypes
<1>3. CASE Timeout(t)
  <2>1. [Terminated(child[t]) EXCEPT !.timedOut = TRUE] \in Child
    BY <1>1 DEF Child, Terminated
  <2>2. child' = [child EXCEPT ![t] = [Terminated(child[t]) EXCEPT !.timedOut = TRUE]]
    BY <1>3 DEF Timeout
  <2> QED BY <1>0, <1>3, <2>1, <2>2, ChildKeeps DEF Timeout
<1>4. CASE GraceEnds(t)
  <2>1. [child[t] EXCEPT !.kill = TRUE] \in Child
    BY <1>1 DEF Child
  <2>2. child' = [child EXCEPT ![t] = [child[t] EXCEPT !.kill = TRUE]]
    BY <1>4 DEF GraceEnds
  <2> QED BY <1>0, <1>4, <2>1, <2>2, ChildKeeps DEF GraceEnds
<1>5. CASE Speak(t)
  <2>1. PICK s \in Said : child' = [child EXCEPT ![t] = [child[t] EXCEPT !.said = s]]
    BY <1>5 DEF Speak
  <2>2. [child[t] EXCEPT !.said = s] \in Child
    BY <1>1, <2>1 DEF Child
  <2> QED BY <1>0, <1>5, <2>1, <2>2, ChildKeeps DEF Speak
<1>6. CASE Change(t)
  <2>1. [child[t] EXCEPT !.wrote = (t \in Named)] \in Child
    <3>1. \A w \in BOOLEAN : [child[t] EXCEPT !.wrote = w] \in Child
      BY <1>1 DEF Child
    <3>2. CASE t \in Named
      <4>1. (t \in Named) = TRUE
        BY <3>2
      <4> QED BY <3>1, <4>1
    <3>3. CASE t \notin Named
      <4>1. (t \in Named) = FALSE
        BY <3>3
      <4> QED BY <3>1, <4>1
    <3> QED BY <3>2, <3>3
  <2>2. child' = [child EXCEPT ![t] = [child[t] EXCEPT !.wrote = (t \in Named)]]
    BY <1>6 DEF Change
  <2> QED BY <1>0, <1>6, <2>1, <2>2, ChildKeeps DEF Change
<1> QED BY <1>3, <1>4, <1>5, <1>6

-----------------------------------------------------------------------------
\* The steps of one task that is under way and begins no other.
LEMMA UnderWayMeans ==
  ASSUME TaskInv, NEW t \in Tasks, at[t] # "queued", at[t] \notin Settled
  PROVE  t \in UnderWay /\ t < next /\ (call = "running" \/ threw) /\ call # "idle"
<1>1. t \in UnderWay
  BY DEF UnderWay
<1>2. ~(t >= next) /\ next \in Int /\ t \in Int /\ t >= 1
  BY SubagentsAssumption DEF TaskInv, InOrder, TaskTypes, Tasks, SubagentsAssumption
<1> QED BY <1>1, <1>2 DEF TaskInv, Ends, InOrder

LEMMA MoveKeeps ==
  ASSUME TaskInv, NEW t \in Tasks, at[t] # "queued", at[t] \notin Settled,
         NEW b \in Begun, b # "queued", at' = [at EXCEPT ![t] = b],
         UNCHANGED <<chain, next>>,
         call' = call \/ call' = "cleaning"
  PROVE  at' \in [Tasks -> Begun] /\ InOrder' /\ Slots'
<1>1. at' \in [Tasks -> Begun]
  BY DEF TaskInv, TaskTypes
<1>2. t < next /\ call # "idle" /\ t \in Int /\ next \in Int
  BY UnderWayMeans, SubagentsAssumption DEF TaskInv, TaskTypes, Tasks, SubagentsAssumption
<1>3. InOrder'
  <2>1. ASSUME NEW u \in Tasks, u >= next PROVE at'[u] = "queued"
    <3>1. u # t /\ at[u] = "queued"
      BY <1>2, <2>1, SubagentsAssumption DEF TaskInv, InOrder, Tasks, SubagentsAssumption
    <3> QED BY <3>1 DEF TaskInv, TaskTypes
  <2> QED BY <1>2, <2>1 DEF InOrder
<1>4. UnderWay' \subseteq UnderWay
  BY DEF UnderWay, TaskInv, TaskTypes
<1> QED BY <1>1, <1>3, <1>4, FewerUnderWay

\* A throw settles its task and, if no other error came first, the call.
LEMMA ThrowKeeps ==
  ASSUME TaskInv, NEW t \in Tasks, Throw(t),
         at[t] \in {"asking", "launching", "delay", "persisting"},
         UNCHANGED <<chain, aborted, next, attempt, child, outcome, touched>>,
         dir' \in {"none", "full", "bare"}
  PROVE  TaskInv'
<1>0. at[t] # "queued" /\ at[t] \notin Settled
  BY DEF Settled
<1>1. /\ at' = [at EXCEPT ![t] = "threw"] /\ "threw" \in Begun /\ "threw" \in Settled
      /\ \/ call = "running" /\ call' = "cleaning" /\ threw' = TRUE
         \/ call # "running" /\ call' = call /\ threw' = threw
  BY DEF Throw, Begun, Settled
<1>2. at' \in [Tasks -> Begun] /\ InOrder' /\ Slots'
  BY <1>0, <1>1, MoveKeeps
<1>3. TaskTypes'
  BY <1>1, <1>2 DEF TaskInv, TaskTypes
<1>4. threw'
  BY <1>0, <1>1, UnderWayMeans
<1>5. Attempts' /\ Once'
  <2>1. at \in [Tasks -> Begun] /\ ~child[t].up
    BY DEF TaskInv, TaskTypes, Attempts
  <2>2. \A u \in Tasks : u # t => at'[u] = at[u]
    BY <1>1, <2>1
  <2>3. at'[t] = "threw"
    BY <1>1, <2>1
  <2> QED BY <1>1, <2>1, <2>2, <2>3 DEF TaskInv, TaskTypes, Attempts, Once
<1> QED BY <1>2, <1>3, <1>4, <1>5 DEF TaskInv, Ends

LEMMA AcceptKeeps == ASSUME TaskInv, NEW t \in Tasks, Accept(t) PROVE TaskInv'
<1>0. at[t] = "asking" /\ at[t] # "queued" /\ at[t] \notin Settled
  BY DEF Accept, Settled
<1>1. /\ at' = [at EXCEPT ![t] = "launching"] /\ "launching" \in Begun
      /\ UNCHANGED <<chain, call, threw, aborted, next, attempt, child, outcome, touched, dir>>
  BY DEF Accept, Begun
<1>2. at' \in [Tasks -> Begun] /\ InOrder' /\ Slots'
  BY <1>0, <1>1, MoveKeeps
<1>3. TaskTypes'
  BY <1>1, <1>2 DEF TaskInv, TaskTypes
<1>4. call = "running" \/ threw
  BY <1>0, UnderWayMeans
<1>5. Attempts' /\ Once'
  <2>1. at \in [Tasks -> Begun] /\ ~child[t].up /\ t \notin touched /\ attempt[t] = 0
    BY <1>0 DEF TaskInv, TaskTypes, Attempts, Once, Settled
  <2>2. (\A u \in Tasks : u # t => at'[u] = at[u]) /\ at'[t] = "launching"
    BY <1>1, <2>1
  <2>3. 0 < MaxAttempts
    BY SubagentsAssumption DEF SubagentsAssumption
  <2> QED BY <1>1, <2>1, <2>2, <2>3, SubagentsAssumption
        DEF TaskInv, TaskTypes, Attempts, Once, SubagentsAssumption
<1> QED BY <1>1, <1>2, <1>3, <1>4, <1>5 DEF TaskInv, Ends

LEMMA LaunchKeeps == ASSUME TaskInv, NEW t \in Tasks, Launch(t) PROVE TaskInv'
<1> DEFINE c == [up |-> TRUE, term |-> aborted, kill |-> FALSE, timedOut |-> FALSE,
                 aborted |-> aborted, said |-> "nothing", wrote |-> FALSE]
<1>0. at[t] = "launching" /\ at[t] # "queued" /\ at[t] \notin Settled
  BY DEF Launch, Settled
<1>1. /\ at' = [at EXCEPT ![t] = "running"] /\ "running" \in Begun
      /\ attempt' = [attempt EXCEPT ![t] = attempt[t] + 1]
      /\ child' = [child EXCEPT ![t] = c] /\ dir' \in {dir, "bare"}
      /\ UNCHANGED <<chain, call, threw, aborted, next, outcome, touched>>
  BY DEF Launch, Begun
<1>2. at' \in [Tasks -> Begun] /\ InOrder' /\ Slots'
  BY <1>0, <1>1, MoveKeeps
<1>3. c \in Child
  BY DEF Child, Said, TaskInv, TaskTypes
<1> HIDE DEF c
<1>4. attempt[t] + 1 \in 0 .. MaxAttempts
  BY <1>0, SubagentsAssumption DEF TaskInv, TaskTypes, Attempts, SubagentsAssumption
<1>5. child' \in [Tasks -> Child \cup {NoChild}] /\ attempt' \in [Tasks -> 0 .. MaxAttempts]
  BY <1>1, <1>3, <1>4 DEF TaskInv, TaskTypes
<1>6. TaskTypes'
  BY <1>1, <1>2, <1>5 DEF TaskInv, TaskTypes
<1>7. call = "running" \/ threw
  BY <1>0, UnderWayMeans
<1>8. Attempts' /\ Once'
  <2>1. /\ \A u \in Tasks : u # t => at'[u] = at[u] /\ attempt'[u] = attempt[u] /\ child'[u] = child[u]
        /\ at'[t] = "running"
    BY <1>1 DEF TaskInv, TaskTypes
  <2>2. touched \subseteq Tasks
    BY SubagentsAssumption DEF TaskInv, TaskTypes, SubagentsAssumption
  <2>3. Attempts'
    BY <2>1 DEF TaskInv, Attempts
  <2> QED BY <1>1, <2>1, <2>2, <2>3 DEF TaskInv, Once
<1> QED BY <1>1, <1>2, <1>6, <1>7, <1>8 DEF TaskInv, Ends

\* A task whose child has ended is tried again only when it has attempts left and could
\* not have changed anything.
LEMMA EndKeeps == ASSUME TaskInv, NEW t \in Tasks, Close(t) PROVE TaskInv'
<1>0. at[t] = "running" /\ at[t] # "queued" /\ at[t] \notin Settled
  BY DEF Close, Settled, TaskInv, Attempts
<1>1. PICK code \in {0, 1} :
        /\ outcome' = [outcome EXCEPT ![t] = Failure(child[t], code)]
        /\ at' = [at EXCEPT ![t] = IF ~ShouldRetry(t, child[t], code) THEN "persisting"
                                   ELSE IF RetryDelay THEN "delay" ELSE "launching"]
  BY DEF Close
<1>2. /\ child' = [child EXCEPT ![t] = NoChild]
      /\ UNCHANGED <<chain, call, threw, aborted, next, attempt, touched, dir>>
  BY DEF Close
<1>3. PICK b \in {"persisting", "delay", "launching"} :
        /\ at' = [at EXCEPT ![t] = b]
        /\ b # "persisting" => attempt[t] < MaxAttempts /\ t \notin Capable
  <2>1. CASE ShouldRetry(t, child[t], code)
    <3>1. attempt[t] < MaxAttempts /\ t \notin Capable
      BY <2>1 DEF ShouldRetry
    <3> QED BY <1>1, <2>1, <3>1
  <2>2. CASE ~ShouldRetry(t, child[t], code)
    BY <1>1, <2>2
  <2> QED BY <2>1, <2>2
<1>4. b \in Begun /\ b # "queued"
  BY DEF Begun
<1>5. at' \in [Tasks -> Begun] /\ InOrder' /\ Slots'
  BY <1>0, <1>2, <1>3, <1>4, MoveKeeps
<1>6. Failure(child[t], code) \in {"none", "timeout", "aborted", "exit", "stopped", "empty"}
  BY DEF Failure
<1>7. TaskTypes'
  BY <1>1, <1>2, <1>5, <1>6 DEF TaskInv, TaskTypes
<1>8. call = "running" \/ threw
  BY <1>0, UnderWayMeans
<1>9. Attempts' /\ Once'
  <2>1. /\ \A u \in Tasks : u # t => at'[u] = at[u] /\ child'[u] = child[u]
        /\ at'[t] = b /\ child'[t] = NoChild /\ ~NoChild.up
    BY <1>2, <1>3 DEF TaskInv, TaskTypes, NoChild
  <2>2. touched \subseteq Capable /\ Capable \subseteq Tasks
    BY SubagentsAssumption DEF TaskInv, TaskTypes, SubagentsAssumption
  <2>3. Attempts'
    BY <1>2, <1>3, <2>1 DEF TaskInv, Attempts
  <2> QED BY <1>2, <1>3, <2>1, <2>2, <2>3 DEF TaskInv, Once
<1> QED BY <1>2, <1>5, <1>7, <1>8, <1>9 DEF TaskInv, Ends

LEMMA DelayKeeps == ASSUME TaskInv, NEW t \in Tasks, DelayEnds(t) PROVE TaskInv'
<1>0. at[t] = "delay" /\ at[t] # "queued" /\ at[t] \notin Settled
  BY DEF DelayEnds, Settled
<1>1. CASE Throw(t)
  <2>1. dir' \in {"none", "full", "bare"}
    BY DEF DelayEnds, TaskInv, TaskTypes
  <2> QED BY <1>0, <1>1, <2>1, ThrowKeeps DEF DelayEnds
<1>2. CASE at' = [at EXCEPT ![t] = "launching"] /\ UNCHANGED <<call, threw>>
  <2>0. "launching" \in Begun /\ UNCHANGED <<chain, aborted, next, attempt, child, outcome, touched, dir>>
    BY DEF DelayEnds, Begun
  <2>1. at' \in [Tasks -> Begun] /\ InOrder' /\ Slots'
    BY <1>0, <1>2, <2>0, MoveKeeps
  <2>2. TaskTypes' /\ (call = "running" \/ threw)
    BY <1>0, <1>2, <2>0, <2>1, UnderWayMeans DEF TaskInv, TaskTypes
  <2>3. Attempts' /\ Once'
    <3>1. /\ \A u \in Tasks : u # t => at'[u] = at[u]
          /\ at'[t] = "launching" /\ ~child[t].up /\ t \notin touched
      BY <1>0, <1>2 DEF TaskInv, TaskTypes, Attempts, Once, Settled
    <3>2. touched \subseteq Tasks
      BY SubagentsAssumption DEF TaskInv, TaskTypes, SubagentsAssumption
    <3> QED BY <1>0, <2>0, <3>1, <3>2 DEF TaskInv, Attempts, Once
  <2> QED BY <1>2, <2>0, <2>1, <2>2, <2>3 DEF TaskInv, Ends
<1> QED BY <1>1, <1>2 DEF DelayEnds

-----------------------------------------------------------------------------
\* A task has ended well: its worker takes the next one, or nothing is left to take.
LEMMA PersistKeeps == ASSUME TaskInv, NEW t \in Tasks, Persist(t) PROVE TaskInv'
<1> DEFINE new == {u \in {next} : Continues(t)}
<1>0. at[t] = "persisting" /\ at[t] # "queued" /\ at[t] \notin Settled
  BY DEF Persist, Settled
<1>1. /\ at' = [u \in Tasks |-> IF u = t THEN "done"
                                ELSE IF u = next /\ Continues(t) THEN "asking" ELSE at[u]]
      /\ next' = IF Continues(t) THEN next + 1 ELSE next
      /\ call' = IF call = "running" /\ ~Continues(t) /\ UnderWay = {t} THEN "cleaning" ELSE call
      /\ UNCHANGED <<chain, threw, aborted, attempt, child, outcome, touched, dir>>
  BY DEF Persist
<1>2. t \in UnderWay /\ t < next /\ (call = "running" \/ threw) /\ call # "idle"
  BY <1>0, UnderWayMeans
<1>3. /\ next \in 1 .. (NTasks + 1) /\ at \in [Tasks -> Begun] /\ NTasks \in Nat
      /\ Continues(t) => next \in Tasks /\ at[next] = "queued"
      /\ \A u \in Tasks : u >= next => at[u] = "queued"
  BY SubagentsAssumption DEF TaskInv, TaskTypes, InOrder, Tasks, Continues, SubagentsAssumption
<1>4. \A u \in Tasks : \/ u = t /\ at'[u] = "done"
                       \/ u # t /\ u = next /\ Continues(t) /\ at'[u] = "asking" /\ at[u] = "queued"
                       \/ u # t /\ ~(u = next /\ Continues(t)) /\ at'[u] = at[u]
  BY <1>1, <1>3
<1>5. TaskTypes'
  <2>1. next' \in 1 .. (NTasks + 1)
    BY <1>1, <1>3 DEF Continues
  <2>2. at' \in [Tasks -> Begun]
    BY <1>1, <1>3 DEF Begun, Settled
  <2> QED BY <1>1, <2>1, <2>2 DEF TaskInv, TaskTypes
<1>6. InOrder'
  <2>1. ASSUME NEW u \in Tasks, u >= next' PROVE at'[u] = "queued"
    <3>1. u >= next /\ u # t /\ ~(u = next /\ Continues(t))
      BY <1>1, <1>2, <1>3, <2>1 DEF Tasks
    <3> QED BY <1>3, <1>4, <3>1
  <2> QED BY <1>1, <1>2, <2>1 DEF InOrder
<1>7. Attempts'
  <2>1. ASSUME NEW u \in Tasks
        PROVE  /\ child[u].up => at'[u] = "running"
               /\ at'[u] \in {"launching", "delay"} => attempt[u] < MaxAttempts
               /\ at'[u] \in {"queued", "asking"} => attempt[u] = 0
    <3>1. child[t].up => at[t] = "running"
      BY DEF TaskInv, Attempts
    <3> QED BY <1>0, <1>4, <2>1, <3>1 DEF TaskInv, Attempts
  <2> QED BY <1>1, <2>1 DEF Attempts
<1>8. Once'
  <2>1. touched \subseteq Tasks
    BY SubagentsAssumption DEF TaskInv, TaskTypes, SubagentsAssumption
  <2>2. ASSUME NEW u \in touched PROVE at'[u] \in {"running", "persisting"} \cup Settled
    BY <1>4, <2>1, <2>2 DEF TaskInv, Once, Settled
  <2> QED BY <1>1, <2>2 DEF Once
<1>9. UnderWay' \subseteq (UnderWay \ {t}) \cup new
  BY <1>4 DEF UnderWay, Settled
<1>a. new = IF Continues(t) THEN {next} ELSE {}
  OBVIOUS
<1> HIDE DEF new
<1>10. Slots'
  <2>1. UnderWay \in SUBSET Tasks /\ UnderWay' \in SUBSET Tasks /\ Cardinality(new) <= 1
    <3>1. new = {} \/ new = {next}
      BY <1>a
    <3>2. Cardinality({}) = 0 /\ Cardinality({next}) = 1
      BY FS_EmptySet, FS_Singleton
    <3>3. Cardinality(new) <= 1
      BY <3>1, <3>2
    <3> QED BY <3>3 DEF UnderWay
  <2>2. IsFiniteSet(UnderWay) /\ Cardinality(UnderWay) \in Nat /\ Cardinality(UnderWay') \in Nat
    BY <2>1, TasksFinite
  <2>3. IsFiniteSet(UnderWay \ {t}) /\ Cardinality(UnderWay \ {t}) = Cardinality(UnderWay) - 1
    BY <1>2, <2>2, FS_RemoveElement
  <2>4. IsFiniteSet((UnderWay \ {t}) \cup new)
        /\ Cardinality((UnderWay \ {t}) \cup new) <= Cardinality(UnderWay)
    <3>1. CASE Continues(t)
      <4>1. (UnderWay \ {t}) \cup new = (UnderWay \ {t}) \cup {next}
        BY <3>1, <1>a
      <4>2. next \notin UnderWay \ {t}
        BY <3>1, <1>3 DEF UnderWay
      <4>3. /\ IsFiniteSet((UnderWay \ {t}) \cup {next})
            /\ Cardinality((UnderWay \ {t}) \cup {next}) = Cardinality(UnderWay \ {t}) + 1
        BY <4>2, <2>3, FS_AddElement
      <4>4. Cardinality((UnderWay \ {t}) \cup {next}) <= Cardinality(UnderWay)
        BY <4>3, <2>2, <2>3
      <4> QED BY <4>1, <4>3, <4>4
    <3>2. CASE ~Continues(t)
      <4>1. (UnderWay \ {t}) \cup new = UnderWay \ {t}
        BY <3>2, <1>a
      <4> QED BY <4>1, <2>2, <2>3
    <3> QED BY <3>1, <3>2
  <2>5. Cardinality(UnderWay') <= Cardinality((UnderWay \ {t}) \cup new)
        /\ Cardinality((UnderWay \ {t}) \cup new) \in Nat
    BY <1>9, <2>4, FS_Subset, FS_CardinalityType
  <2>6. Width' = Width /\ Width \in Nat
    BY <1>1, WidthType DEF Width, TaskInv
  <2> QED BY <2>2, <2>4, <2>5, <2>6 DEF TaskInv, Slots
<1>11. Ends'
  <2>1. CASE threw
    BY <1>1, <2>1 DEF Ends
  <2>2. CASE ~threw /\ call' = call
    BY <1>1, <1>2, <2>2 DEF Ends
  <2>3. CASE ~threw /\ call' # call
    <3>1. call' = "cleaning" /\ ~Continues(t) /\ UnderWay = {t}
      BY <1>1, <2>3
    <3>2. UnderWay' = {}
      BY <1>9, <1>a, <3>1
    <3> QED BY <3>1, <3>2 DEF Ends
  <2> QED BY <2>1, <2>2, <2>3
<1> QED BY <1>5, <1>6, <1>7, <1>8, <1>10, <1>11 DEF TaskInv

LEMMA CleanupKeeps == ASSUME TaskInv, Cleanup PROVE TaskInv'
<1>1. /\ call = "cleaning" /\ call' = "returned" /\ dir' = "none"
      /\ UNCHANGED <<chain, threw, aborted, next, at, attempt, child, outcome, touched>>
  BY DEF Cleanup
<1>2. TaskTypes' /\ InOrder' /\ Attempts' /\ Once' /\ UnderWay' = UnderWay /\ Width' = Width
  BY <1>1 DEF TaskInv, TaskTypes, InOrder, Attempts, Once, UnderWay, Width
<1> QED BY <1>1, <1>2 DEF TaskInv, Slots, Ends

LEMMA TaskNextInv == TaskInv /\ [SubagentsNext]_subVars => TaskInv'
<1> SUFFICES ASSUME TaskInv, [SubagentsNext]_subVars PROVE TaskInv'
  OBVIOUS
<1>1. CASE Begin \/ BeginFails
  BY <1>1, BeginKeeps
<1>2. CASE Cancel
  BY <1>2, CancelKeeps
<1>3. CASE Cleanup
  BY <1>3, CleanupKeeps
<1>4. ASSUME NEW t \in Tasks, TaskStep(t) PROVE TaskInv'
  <2>0. dir \in {"none", "full", "bare"}
    BY DEF TaskInv, TaskTypes
  <2>1. CASE Refuse(t)
    BY <2>0, <2>1, ThrowKeeps DEF Refuse
  <2>2. CASE PersistFails(t)
    BY <2>0, <2>2, ThrowKeeps DEF PersistFails
  <2>4. CASE LaunchFails(t)
    BY <2>0, <2>4, ThrowKeeps DEF LaunchFails
  <2>3. CASE Accept(t) \/ Launch(t) \/ DelayEnds(t) \/ Persist(t)
    BY <2>3, AcceptKeeps, LaunchKeeps, DelayKeeps, PersistKeeps
  <2> QED BY <1>4, <2>1, <2>2, <2>3, <2>4 DEF TaskStep
<1>5. ASSUME NEW t \in Tasks, Timeout(t) \/ GraceEnds(t) \/ Speak(t) \/ Change(t) \/ Close(t)
      PROVE  TaskInv'
  <2>1. CASE Close(t)
    BY <2>1, EndKeeps
  <2>2. CASE Timeout(t) \/ GraceEnds(t) \/ Speak(t) \/ Change(t)
    BY <2>2, SignalsKeep
  <2> QED BY <1>5, <2>1, <2>2
<1>6. CASE UNCHANGED subVars
  BY <1>6 DEF subVars, TaskInv, TaskTypes, InOrder, Attempts, Once, Slots, Ends, UnderWay, Width
<1> QED BY <1>1, <1>2, <1>3, <1>4, <1>5, <1>6 DEF SubagentsNext

(* mapWithConcurrency and the finally block: never more children than configured, and a
   call that answers with its results has no task under way, no child, no fork directory. *)
THEOREM ChildrenAreAccounted == SubagentsSpec => []ChildrenAccounted
<1>1. TaskInv => ChildrenAccounted
  <2> SUFFICES ASSUME TaskInv PROVE ChildrenAccounted
    OBVIOUS
  <2>1. SubagentsTypeOK
    BY DEF TaskInv, TaskTypes, SubagentsTypeOK, Begun
  <2>2. Up \subseteq UnderWay
    BY DEF TaskInv, Attempts, Up, UnderWay, Settled
  <2>3. Cardinality(UnderWay) <= IF chain THEN 1 ELSE MaxConcurrency
    <3>1. Cardinality(UnderWay) \in Nat
      BY TasksFinite DEF UnderWay
    <3> QED BY <3>1, WidthType, SubagentsAssumption DEF TaskInv, Slots, SubagentsAssumption
  <2> QED BY <2>1, <2>2, <2>3 DEF ChildrenAccounted, TaskInv, Ends
<1> QED BY <1>1, TaskInitInv, TaskNextInv, PTL DEF SubagentsSpec

(* shouldRetry: no attempt starts after one that changed something, whatever its tools are
   called and however it ended.                                                          *)
THEOREM NothingIsWrittenTwice == SubagentsSpec => NoSecondWriter
<1>1. TaskInv /\ [SubagentsNext]_subVars
        => [\A t \in Tasks : attempt'[t] > attempt[t] => t \notin touched]_subVars
  <2> SUFFICES ASSUME TaskInv, SubagentsNext, NEW t \in Tasks, attempt'[t] > attempt[t]
               PROVE  t \notin touched
    OBVIOUS
  <2>1. attempt \in [Tasks -> 0 .. MaxAttempts] /\ attempt[t] \in Int
    BY SubagentsAssumption DEF TaskInv, TaskTypes, SubagentsAssumption
  <2>2. PICK u \in Tasks : Launch(u)
    <3>1. attempt' # attempt
      BY <2>1
    <3> QED BY <3>1 DEF SubagentsNext, Begin, BeginFails, Cancel, Cleanup, TaskStep, Refuse,
            LaunchFails, Accept, DelayEnds, Persist, PersistFails, Timeout, GraceEnds, Speak, Change, Close
  <2>3. u = t /\ at[t] = "launching"
    <3>1. attempt' = [attempt EXCEPT ![u] = attempt[u] + 1] /\ at[u] = "launching"
      BY <2>2 DEF Launch
    <3> QED BY <2>1, <3>1
  <2> QED BY <2>3 DEF TaskInv, Once, Settled
<1> QED BY <1>1, TaskInitInv, TaskNextInv, PTL DEF SubagentsSpec, NoSecondWriter

-----------------------------------------------------------------------------
(* Web search.  Searches of one key share a flight because a key is freed in the very
   step in which its leader and its followers return (FlightsExact).  Requests are spaced
   because a sleeper never wakes before the interval that was left when it went to sleep
   is over, and only the head of the chain sleeps or is let in (ChainExact, PacingExact). *)

(* A key is in flight exactly while one call leads its flight; who follows, follows such
   a call; who asks, asks a provider of its candidates and has a call left.            *)
FlightsExact ==
  /\ \A c \in Calls : phase[c] \in Flying => key[c] \in Keys /\ inFlight[key[c]] = c
  /\ \A k \in Keys : inFlight[k] # None => phase[inFlight[k]] \in Flying /\ key[inFlight[k]] = k
  /\ \A c \in Calls : phase[c] = "following" => leader[c] \in Calls /\ phase[leader[c]] \in Flying
  /\ \A c \in Calls : phase[c] = "asking" =>
       pos[c] \in 1..Len(Order[key[c]]) /\ formalCalls[c] < 2

(* The promise chain of the gate holds the calls that are at the gate, each once. *)
ChainExact ==
  /\ \A c \in Calls : phase[c] = "gate" <=> \E i \in 1..Len(lock) : lock[i] = c
  /\ \A i, j \in 1..Len(lock) : lock[i] = lock[j] => i = j

(* No request before the interval is over, nor while a second one of a cooldown. *)
PacingExact ==
  /\ sinceSent + toNext >= Interval
  /\ sleeping => wake >= toNext
  /\ sentBlocked > 0 => sentBlocked = 1 /\ toUnblock > 0 /\ ~sleeping


(* The types, of the flights, of the health of providers, and of gate and clock. *)
FlightTypes ==
  /\ phase \in [Calls -> Flying \union {"idle", "following", "done"}]
  /\ key \in [Calls -> Keys \union {None}] /\ leader \in [Calls -> Calls \union {None}]
  /\ left \in [Calls -> 0..Deadline] /\ webAborted \in SUBSET Calls
  /\ pos \in [Calls -> Nat] /\ formalCalls \in [Calls -> 0..2]
  /\ hardFailed \in [Calls -> SUBSET Formal] /\ usable \in [Calls -> BOOLEAN]
  /\ cached \in [Keys -> 0..CacheTtl] /\ inFlight \in [Keys -> Calls \union {None}]

HealthTypes ==
  /\ shut \in SUBSET Formal /\ cooling \in [Formal -> 0..RetryAfter]
  /\ negative \in [Formal -> [Keys -> 0..RetryAfter + NegativeTtl]]
  /\ negativeHard \in SUBSET (Formal \X Keys)

PaceTypes == Gate!GateTypeOK /\ sinceSent \in 0..Interval /\ sentBlocked \in 0..2

FlightInv == FlightTypes /\ FlightsExact
PaceInv == PaceTypes /\ ChainExact /\ PacingExact
SearchInv == FlightInv /\ HealthTypes /\ PaceInv

-----------------------------------------------------------------------------
\* A set of naturals that is not empty has a least element, and Min is it.
LEMMA LeastOf ==
  ASSUME NEW S \in SUBSET Nat, S # {}
  PROVE  Min(S) \in S /\ \A x \in S : Min(S) <= x
<1> DEFINE Less == OpToRel(<, Nat)
<1>1. \E x \in S : \A y \in S : ~(<<y, x>> \in Less)
  BY NatLessThanWellFounded, WFMin
<1>2. \A x, y \in S : y < x => <<y, x>> \in Less
  BY DEF OpToRel
<1> HIDE DEF Less
<1>3. PICK x \in S : \A y \in S : ~(<<y, x>> \in Less)
  BY <1>1
<1>4. \A m, n \in S : ~(n < m) => m <= n
  OBVIOUS
<1>5. \A y \in S : x <= y
  BY <1>2, <1>3, <1>4, Zenon
<1> QED BY <1>3, <1>5 DEF Min

LEMMA LesserOf ==
  ASSUME NEW m \in Nat, NEW n \in Nat
  PROVE  Min({m, n}) = IF m <= n THEN m ELSE n
BY LeastOf

LEMMA Durations ==
  /\ Deadline \in Nat /\ Deadline > 0 /\ CacheTtl \in Nat /\ CacheTtl > 0
  /\ NegativeTtl \in Nat /\ NegativeTtl > 0 /\ RetryAfter \in Nat /\ RetryAfter > 0
  /\ Interval \in Nat /\ Interval > 0 /\ Cooldown \in Nat /\ Cooldown > 0
  /\ None \notin Calls /\ None \notin Keys /\ \A k \in Keys : Order[k] \in Seq(Formal)
BY SearchAssumption DEF SearchAssumption

LEMMA SearchStarts == ASSUME SearchInit PROVE SearchInv
<1>1. FlightTypes /\ HealthTypes
  BY Durations DEF SearchInit, FlightTypes, HealthTypes
<1>2. FlightsExact
  BY Durations DEF SearchInit, FlightsExact, Flying
<1>3. PaceInv
  <2>1. /\ lock = <<>> /\ sleeping = FALSE /\ wake = 0 /\ toNext = 0 /\ toUnblock = 0
        /\ sinceSent = Interval /\ sentBlocked = 0 /\ phase = [c \in Calls |-> "idle"]
    BY DEF SearchInit, Gate!GateInit
  <2>2. sleeping \in BOOLEAN /\ ~sleeping
    BY <2>1
  <2> <<>> \in Seq(Calls)
    OBVIOUS
  <2>3. PaceTypes
    BY <2>1, <2>2, Durations DEF PaceTypes, Gate!GateTypeOK
  <2>4. PacingExact
    BY <2>1, <2>2, Durations DEF PacingExact
  <2>5. ChainExact
    BY <2>1 DEF ChainExact
  <2> QED BY <2>3, <2>4, <2>5 DEF PaceInv
<1> QED BY <1>1, <1>2, <1>3 DEF SearchInv, FlightInv

-----------------------------------------------------------------------------
(* The chain of the gate: a call that comes, the head that goes, and nothing. *)

LEMMA ChainStays ==
  ASSUME ChainExact, UNCHANGED lock, \A d \in Calls : phase'[d] = "gate" <=> phase[d] = "gate"
  PROVE  ChainExact'
BY DEF ChainExact

LEMMA ChainGrows ==
  ASSUME ChainExact, lock \in Seq(Calls), NEW c \in Calls, lock' = Append(lock, c),
         phase[c] # "gate", phase'[c] = "gate",
         \A d \in Calls \ {c} : phase'[d] = "gate" <=> phase[d] = "gate"
  PROVE  lock' \in Seq(Calls) /\ lock' # <<>> /\ ChainExact'
<1>1. /\ lock' \in Seq(Calls) /\ Len(lock') = Len(lock) + 1 /\ lock'[Len(lock) + 1] = c
      /\ \A i \in 1..Len(lock) : lock'[i] = lock[i] /\ lock[i] \in Calls /\ lock[i] # c
  BY DEF ChainExact
<1>2. \A i \in 1..Len(lock') : i \in 1..Len(lock) \/ i = Len(lock) + 1
  BY <1>1
<1>3. ASSUME NEW d \in Calls PROVE phase'[d] = "gate" <=> \E i \in 1..Len(lock') : lock'[i] = d
  <2>1. CASE d = c
    BY <1>1, <2>1
  <2>2. CASE d # c
    <3>1. (\E i \in 1..Len(lock') : lock'[i] = d) <=> \E i \in 1..Len(lock) : lock[i] = d
      BY <1>1, <1>2, <2>2
    <3> QED BY <2>2, <3>1 DEF ChainExact
  <2> QED BY <2>1, <2>2
<1>4. ASSUME NEW i \in 1..Len(lock'), NEW j \in 1..Len(lock'), lock'[i] = lock'[j] PROVE i = j
  BY <1>1, <1>2, <1>4 DEF ChainExact
<1> QED BY <1>1, <1>3, <1>4 DEF ChainExact

LEMMA ChainShrinks ==
  ASSUME ChainExact, lock \in Seq(Calls), NEW c \in Calls, Gate!AtHead(c), lock' = Tail(lock),
         phase'[c] # "gate", \A d \in Calls \ {c} : phase'[d] = "gate" <=> phase[d] = "gate"
  PROVE  lock' \in Seq(Calls) /\ ChainExact'
<1>1. /\ lock # <<>> /\ lock[1] = c /\ lock' \in Seq(Calls) /\ Len(lock') = Len(lock) - 1
      /\ \A i \in 1..Len(lock') : i + 1 \in 1..Len(lock) /\ lock'[i] = lock[i + 1]
  BY DEF Gate!AtHead
<1>2. 1 \in 1..Len(lock) /\ \A i \in 1..Len(lock) : i = 1 \/ i - 1 \in 1..Len(lock')
  BY <1>1
<1>3. ASSUME NEW d \in Calls PROVE phase'[d] = "gate" <=> \E i \in 1..Len(lock') : lock'[i] = d
  <2>1. CASE d = c
    <3>1. \A i \in 1..Len(lock') : lock'[i] # c
      BY <1>1, <1>2 DEF ChainExact
    <3> QED BY <2>1, <3>1
  <2>2. CASE d # c
    <3>1. (\E i \in 1..Len(lock') : lock'[i] = d) <=> \E i \in 1..Len(lock) : lock[i] = d
      <4>1. ASSUME NEW i \in 1..Len(lock'), lock'[i] = d PROVE \E j \in 1..Len(lock) : lock[j] = d
        BY <1>1, <4>1
      <4>2. ASSUME NEW i \in 1..Len(lock), lock[i] = d PROVE \E j \in 1..Len(lock') : lock'[j] = d
        <5>1. i - 1 \in 1..Len(lock') /\ lock'[i - 1] = lock[(i - 1) + 1] /\ (i - 1) + 1 = i
          BY <1>1, <1>2, <2>2, <4>2
        <5> QED BY <4>2, <5>1
      <4> QED BY <4>1, <4>2
    <3> QED BY <2>2, <3>1 DEF ChainExact
  <2> QED BY <2>1, <2>2
<1>4. ASSUME NEW i \in 1..Len(lock'), NEW j \in 1..Len(lock'), lock'[i] = lock'[j] PROVE i = j
  BY <1>1, <1>4 DEF ChainExact
<1> QED BY <1>1, <1>3, <1>4 DEF ChainExact

-----------------------------------------------------------------------------
(* The gate and the two histories under each of its steps. *)

\* Nothing happens at the gate, or a challenge starts the cooldown again.
LEMMA PaceStays ==
  ASSUME PaceInv, Gate!MarkProviderBlocked \/ UNCHANGED chainVars, UNCHANGED paceVars,
         \A d \in Calls : phase'[d] = "gate" <=> phase[d] = "gate"
  PROVE  PaceInv'
<1>1. /\ UNCHANGED <<lock, sleeping, wake, toNext, sinceSent, sentBlocked>>
      /\ toUnblock' = Cooldown \/ toUnblock' = toUnblock
  BY DEF Gate!MarkProviderBlocked, chainVars, paceVars
<1>2. PaceTypes'
  BY <1>1, Durations DEF PaceInv, PaceTypes, Gate!GateTypeOK
<1>3. PacingExact'
  BY <1>1, Durations DEF PaceInv, PacingExact
<1>4. ChainExact'
  BY <1>1, ChainStays DEF PaceInv
<1> QED BY <1>2, <1>3, <1>4 DEF PaceInv

LEMMA PaceQueues ==
  ASSUME PaceInv, NEW c \in Calls, Gate!Queue(c), UNCHANGED paceVars,
         phase[c] # "gate", phase'[c] = "gate",
         \A d \in Calls \ {c} : phase'[d] = "gate" <=> phase[d] = "gate"
  PROVE  PaceInv'
<1>1. /\ UNCHANGED <<sleeping, wake, toNext, toUnblock, sinceSent, sentBlocked>>
      /\ lock' = Append(lock, c)
  BY DEF Gate!Queue, paceVars
<1>2. lock' \in Seq(Calls) /\ lock' # <<>> /\ ChainExact'
  BY <1>1, ChainGrows DEF PaceInv, PaceTypes, Gate!GateTypeOK
<1>3. PaceTypes'
  BY <1>1, <1>2 DEF PaceInv, PaceTypes, Gate!GateTypeOK
<1>4. PacingExact'
  BY <1>1 DEF PaceInv, PacingExact
<1> QED BY <1>2, <1>3, <1>4 DEF PaceInv

LEMMA PaceUnlocks ==
  ASSUME PaceInv, NEW c \in Calls, Gate!AtHead(c), Gate!Unlock, UNCHANGED toUnblock,
         phase'[c] # "gate", \A d \in Calls \ {c} : phase'[d] = "gate" <=> phase[d] = "gate",
         toNext' \in 0..Interval, sinceSent' \in 0..Interval, sinceSent' + toNext' >= Interval,
         sentBlocked' \in 0..2, sentBlocked' > 0 => sentBlocked' = 1 /\ toUnblock > 0
  PROVE  PaceInv'
<1>1. lock' = Tail(lock) /\ sleeping' \in BOOLEAN /\ ~sleeping' /\ wake' = 0
  BY DEF Gate!Unlock
<1>2. lock' \in Seq(Calls) /\ ChainExact'
  BY <1>1, ChainShrinks DEF PaceInv, PaceTypes, Gate!GateTypeOK
<1>3. PaceTypes'
  BY <1>1, <1>2, Durations DEF PaceInv, PaceTypes, Gate!GateTypeOK
<1>4. PacingExact'
  BY <1>1 DEF PaceInv, PacingExact
<1> QED BY <1>2, <1>3, <1>4 DEF PaceInv

LEMMA PaceSleeps ==
  ASSUME PaceInv, NEW c \in Calls, Gate!Sleep(c), UNCHANGED <<phase, paceVars>>
  PROVE  PaceInv'
<1>1. /\ UNCHANGED <<phase, lock, toNext, toUnblock, sinceSent, sentBlocked>> /\ lock # <<>>
      /\ sleeping' \in BOOLEAN /\ sleeping' /\ wake' = toNext /\ toUnblock = 0
  BY DEF Gate!Sleep, Gate!AtHead, paceVars
<1>2. PaceTypes'
  BY <1>1 DEF PaceInv, PaceTypes, Gate!GateTypeOK
<1>3. PacingExact'
  BY <1>1, Durations DEF PaceInv, PaceTypes, Gate!GateTypeOK, PacingExact
<1>4. ChainExact'
  BY <1>1, ChainStays DEF PaceInv
<1> QED BY <1>2, <1>3, <1>4 DEF PaceInv

LEMMA DownBy == ASSUME NEW m \in Nat, NEW n \in 0..m PROVE Gate!Down(n) \in 0..m
BY DEF Gate!Down

LEMMA PaceTicks == ASSUME PaceInv, Tick PROVE PaceInv'
<1>1. /\ UNCHANGED <<phase, lock, sleeping>> /\ sinceSent' = Min({Interval, sinceSent + 1})
      /\ wake' = (IF wake = 0 THEN 0 ELSE wake - 1)
      /\ toNext' = (IF toNext = 0 THEN 0 ELSE toNext - 1)
      /\ toUnblock' = (IF toUnblock = 0 THEN 0 ELSE toUnblock - 1)
      /\ sentBlocked' = IF toUnblock' = 0 THEN 0 ELSE sentBlocked
  BY DEF Tick, Gate!GateTick, Gate!Down
<1>2. /\ wake \in 0..Interval /\ toNext \in 0..Interval /\ toUnblock \in 0..Cooldown
      /\ sinceSent \in 0..Interval /\ sentBlocked \in 0..2
      /\ sinceSent + toNext >= Interval /\ (sleeping => wake >= toNext)
      /\ (sentBlocked > 0 => sentBlocked = 1 /\ toUnblock > 0 /\ ~sleeping)
  BY DEF PaceInv, PaceTypes, PacingExact, Gate!GateTypeOK
<1>3. sinceSent' = IF Interval <= sinceSent + 1 THEN Interval ELSE sinceSent + 1
  BY <1>1, <1>2, Durations, LesserOf
<1>4. PaceTypes'
  BY <1>1, <1>2, <1>3, Durations DEF PaceInv, PaceTypes, Gate!GateTypeOK
<1>5. PacingExact'
  BY <1>1, <1>2, <1>3, Durations DEF PacingExact
<1>6. ChainExact'
  BY <1>1, ChainStays DEF PaceInv
<1> QED BY <1>4, <1>5, <1>6 DEF PaceInv

-----------------------------------------------------------------------------
(* The flights. *)

\* Call c has the flight of k, or may begin it.
MayFly(c, k) ==
  \/ phase[c] \in Flying /\ key[c] = k
  \/ phase[c] = "idle" /\ inFlight[k] = None

LEMMA FlightEnds ==
  ASSUME FlightInv, NEW c \in Calls, NEW k \in Keys, NEW ok \in BOOLEAN,
         MayFly(c, k), EndFlight(c, k, ok)
  PROVE  /\ FlightInv' /\ phase'[c] = "done"
         /\ \A d \in Calls \ {c} : phase'[d] = "gate" <=> phase[d] = "gate"
<1> DEFINE Away == {c} \union {d \in Calls : phase[d] = "following" /\ leader[d] = c}
<1>1. /\ phase' = [d \in Calls |-> IF d \in Away THEN "done" ELSE phase[d]]
      /\ leader' = [d \in Calls |-> IF d \in Away THEN None ELSE leader[d]]
      /\ key' = [key EXCEPT ![c] = None] /\ webAborted' = webAborted \ {c}
      /\ left' = [left EXCEPT ![c] = 0] /\ pos' = [pos EXCEPT ![c] = 0]
      /\ formalCalls' = [formalCalls EXCEPT ![c] = 0]
      /\ hardFailed' = [hardFailed EXCEPT ![c] = {}] /\ usable' = [usable EXCEPT ![c] = FALSE]
      /\ inFlight' = [inFlight EXCEPT ![k] = None]
      /\ cached' = IF ok THEN [cached EXCEPT ![k] = CacheTtl] ELSE cached
  BY DEF EndFlight
<1>2. \A d \in Calls : d \in Away <=> d = c \/ (phase[d] = "following" /\ leader[d] = c)
  OBVIOUS
<1> HIDE DEF Away
<1>3. FlightTypes'
  BY <1>1, Durations DEF FlightInv, FlightTypes, Flying
<1>4. \A d \in Calls : /\ phase'[d] = (IF d \in Away THEN "done" ELSE phase[d])
                       /\ leader'[d] = (IF d \in Away THEN None ELSE leader[d])
                       /\ d # c => UNCHANGED <<key[d], pos[d], formalCalls[d]>>
  BY <1>1 DEF FlightInv, FlightTypes
<1>5. inFlight'[k] = None /\ \A j \in Keys \ {k} : inFlight'[j] = inFlight[j]
  BY <1>1 DEF FlightInv, FlightTypes
<1>6. (inFlight[k] = c /\ phase[c] \in Flying /\ key[c] = k) \/ (inFlight[k] = None /\ phase[c] \notin Flying)
  BY DEF MayFly, FlightInv, FlightsExact, Flying
<1>7. ASSUME NEW d \in Calls, phase'[d] \in Flying PROVE key'[d] \in Keys /\ inFlight'[key'[d]] = d
  BY <1>2, <1>4, <1>5, <1>6, <1>7, Durations DEF FlightInv, FlightsExact, Flying
<1>8. ASSUME NEW j \in Keys, inFlight'[j] # None
      PROVE  phase'[inFlight'[j]] \in Flying /\ key'[inFlight'[j]] = j
  <2>1. j # k /\ inFlight'[j] = inFlight[j] /\ inFlight[j] \in Calls
    BY <1>5, <1>8 DEF FlightInv, FlightTypes
  <2>2. phase[inFlight[j]] \in Flying /\ key[inFlight[j]] = j
    BY <1>8, <2>1 DEF FlightInv, FlightsExact
  <2>3. inFlight[j] # c /\ inFlight[j] \notin Away
    BY <1>2, <1>6, <2>1, <2>2 DEF Flying
  <2> QED BY <1>4, <2>1, <2>2, <2>3
<1>9. ASSUME NEW d \in Calls, phase'[d] = "following"
      PROVE  leader'[d] \in Calls /\ phase'[leader'[d]] \in Flying
  <2>1. d \notin Away /\ phase[d] = "following" /\ leader'[d] = leader[d] /\ leader[d] # c
    BY <1>2, <1>4, <1>9
  <2>2. leader[d] \in Calls /\ phase[leader[d]] \in Flying
    BY <2>1 DEF FlightInv, FlightsExact
  <2> QED BY <1>2, <1>4, <2>1, <2>2 DEF Flying
<1>10. ASSUME NEW d \in Calls, phase'[d] = "asking"
       PROVE  pos'[d] \in 1..Len(Order[key'[d]]) /\ formalCalls'[d] < 2
  BY <1>2, <1>4, <1>10 DEF FlightInv, FlightsExact
<1>11. FlightsExact'
  BY <1>7, <1>8, <1>9, <1>10 DEF FlightsExact, Flying
<1> QED BY <1>2, <1>3, <1>4, <1>11 DEF FlightInv

LEMMA FlightGoesOn ==
  ASSUME FlightInv, NEW c \in Calls, NEW k \in Keys, MayFly(c, k),
         NEW p \in {"asking", "gate"}, NEW time \in 0..Deadline, NEW i \in Nat, NEW n \in 0..2,
         NEW hard \in SUBSET Formal, NEW good \in BOOLEAN,
         phase' = [phase EXCEPT ![c] = p], key' = [key EXCEPT ![c] = k],
         left' = [left EXCEPT ![c] = time], pos' = [pos EXCEPT ![c] = i],
         formalCalls' = [formalCalls EXCEPT ![c] = n],
         hardFailed' = [hardFailed EXCEPT ![c] = hard], usable' = [usable EXCEPT ![c] = good],
         inFlight' = [inFlight EXCEPT ![k] = c], UNCHANGED <<leader, webAborted, cached>>,
         p = "asking" => i \in 1..Len(Order[k]) /\ n < 2
  PROVE  FlightInv'
<1>1. FlightTypes'
  BY DEF FlightInv, FlightTypes, Flying
<1>2. /\ phase'[c] = p /\ key'[c] = k /\ pos'[c] = i /\ formalCalls'[c] = n /\ leader' = leader
      /\ \A d \in Calls \ {c} : UNCHANGED <<phase[d], key[d], pos[d], formalCalls[d]>>
  BY DEF FlightInv, FlightTypes
<1>3. inFlight'[k] = c /\ \A j \in Keys \ {k} : inFlight'[j] = inFlight[j]
  BY DEF FlightInv, FlightTypes
<1>4. (inFlight[k] = c /\ phase[c] \in Flying /\ key[c] = k) \/ (inFlight[k] = None /\ phase[c] \notin Flying)
  BY DEF MayFly, FlightInv, FlightsExact, Flying
<1>5. ASSUME NEW d \in Calls, phase'[d] \in Flying PROVE key'[d] \in Keys /\ inFlight'[key'[d]] = d
  BY <1>2, <1>3, <1>4, <1>5, Durations DEF FlightInv, FlightsExact
<1>6. ASSUME NEW j \in Keys, inFlight'[j] # None
      PROVE  phase'[inFlight'[j]] \in Flying /\ key'[inFlight'[j]] = j
  <2>1. CASE j = k
    BY <1>2, <1>3, <2>1 DEF Flying
  <2>2. CASE j # k
    <3>1. inFlight'[j] = inFlight[j] /\ inFlight[j] \in Calls
      BY <1>3, <1>6, <2>2 DEF FlightInv, FlightTypes
    <3>2. phase[inFlight[j]] \in Flying /\ key[inFlight[j]] = j
      BY <1>6, <3>1 DEF FlightInv, FlightsExact
    <3>3. inFlight[j] # c
      BY <1>4, <2>2, <3>2
    <3> QED BY <1>2, <3>1, <3>2, <3>3
  <2> QED BY <2>1, <2>2
<1>7. ASSUME NEW d \in Calls, phase'[d] = "following"
      PROVE  leader'[d] \in Calls /\ phase'[leader'[d]] \in Flying
  <2>1. d # c /\ phase[d] = "following"
    BY <1>2, <1>7
  <2>2. leader[d] \in Calls /\ phase[leader[d]] \in Flying
    BY <2>1 DEF FlightInv, FlightsExact
  <2> QED BY <1>2, <2>2 DEF Flying
<1>8. ASSUME NEW d \in Calls, phase'[d] = "asking"
      PROVE  pos'[d] \in 1..Len(Order[key'[d]]) /\ formalCalls'[d] < 2
  BY <1>2, <1>8 DEF FlightInv, FlightsExact
<1>9. FlightsExact'
  BY <1>5, <1>6, <1>7, <1>8 DEF FlightsExact, Flying
<1> QED BY <1>1, <1>9 DEF FlightInv

\* What the router does with an answer, or when a search begins.
LEMMA RouterKeeps ==
  ASSUME FlightInv, PaceInv, NEW c \in Calls, NEW k \in Keys, MayFly(c, k), phase[c] # "gate",
         NEW i \in Nat, NEW n \in 0..2, NEW hard \in SUBSET Formal, NEW good \in BOOLEAN,
         NEW time \in 0..Deadline, Continue(c, k, i, n, hard, good, time), UNCHANGED paceVars
  PROVE  FlightInv' /\ PaceInv'
<1> DEFINE Open == {j \in (i + 1)..Len(Order[k]) :
                      ~Unavailable(Order[k][j]) /\ negative'[Order[k][j]][k] = 0}
           Upto == IF Open = {} THEN Len(Order[k]) + 1 ELSE Min(Open)
           Over == n = 2 \/ time = 0
           Hard == {p \in {Order[k][j] : j \in (i + 1)..(Upto - 1)} :
                      ~Unavailable(p) /\ <<p, k>> \in negativeHard'}
           Out == IF Over THEN hard ELSE hard \union Hard
<1>1. Len(Order[k]) \in Nat /\ \A j \in 1..Len(Order[k]) : Order[k][j] \in Formal
  BY Durations
<1>2. Open \in SUBSET Nat /\ \A j \in Open : j \in 1..Len(Order[k])
  BY <1>1
<1>3. Open # {} => Upto \in Open
  BY <1>2, LeastOf
<1>4. Upto \in Nat /\ Upto <= Len(Order[k]) + 1
  BY <1>1, <1>2, <1>3
<1>5. Out \in SUBSET Formal
  <2>1. \A m, last \in Nat : m <= last + 1 =>
          \A j \in (i + 1)..(m - 1) : j \in 1..last
    OBVIOUS
  <2>2. \A j \in (i + 1)..(Upto - 1) : j \in 1..Len(Order[k])
    BY <1>1, <1>4, <2>1
  <2> QED BY <1>1, <2>2
<1>6. \A d \in Calls \ {c} : [phase EXCEPT ![c] = "asking"][d] = phase[d] /\ [phase EXCEPT ![c] = "gate"][d] = phase[d]
  OBVIOUS
<1>7. phase = [d \in Calls |-> phase[d]]
  BY DEF FlightInv, FlightTypes
<1>8. CASE ~Over /\ Open # {}
  <2>1. /\ phase' = [phase EXCEPT ![c] = "asking"] /\ pos' = [pos EXCEPT ![c] = Upto]
        /\ formalCalls' = [formalCalls EXCEPT ![c] = n]
        /\ hardFailed' = [hardFailed EXCEPT ![c] = Out]
        /\ usable' = [usable EXCEPT ![c] = good] /\ left' = [left EXCEPT ![c] = time]
        /\ inFlight' = [inFlight EXCEPT ![k] = c] /\ key' = [key EXCEPT ![c] = k]
        /\ UNCHANGED <<leader, webAborted, cached, chainVars>>
    BY <1>8 DEF Continue
  <2> HIDE DEF Out
  <2>2. n < 2
    BY <1>8
  <2>3. Upto \in 1..Len(Order[k])
    BY <1>2, <1>3, <1>8
  <2> HIDE DEF Upto, Open
  <2>4. FlightInv'
    BY <1>4, <1>5, <2>1, <2>2, <2>3, FlightGoesOn
  <2>5. PaceInv'
    BY <1>7, <2>1, PaceStays
  <2> QED BY <2>4, <2>5
<1>9. CASE /\ ~(~Over /\ Open # {})
           /\ ~good /\ time > 0 /\ \A p \in Formal : p \in Out \/ Unavailable(p)
  <2>1. /\ Gate!Queue(c)
        /\ phase' = [phase EXCEPT ![c] = "gate"] /\ left' = [left EXCEPT ![c] = time]
        /\ pos' = [pos EXCEPT ![c] = 0] /\ formalCalls' = [formalCalls EXCEPT ![c] = 0]
        /\ hardFailed' = [hardFailed EXCEPT ![c] = {}] /\ usable' = [usable EXCEPT ![c] = FALSE]
        /\ inFlight' = [inFlight EXCEPT ![k] = c] /\ key' = [key EXCEPT ![c] = k]
        /\ UNCHANGED <<leader, webAborted, cached>>
    BY <1>9 DEF Continue
  <2> HIDE DEF Out, Upto, Open, Over
  <2>2. /\ "gate" \in {"asking", "gate"} /\ "gate" # "asking"
        /\ 0 \in Nat /\ 0 \in 0..2 /\ {} \in SUBSET Formal /\ FALSE \in BOOLEAN
    OBVIOUS
  <2>3. FlightInv'
    BY <2>1, <2>2, FlightGoesOn
  <2>4. PaceInv'
    BY <1>7, <2>1, PaceQueues
  <2> QED BY <2>3, <2>4
<1>10. CASE /\ ~(~Over /\ Open # {})
            /\ ~(~good /\ time > 0 /\ \A p \in Formal : p \in Out \/ Unavailable(p))
  <2>1. EndFlight(c, k, good) /\ UNCHANGED chainVars
    BY <1>10 DEF Continue
  <2> HIDE DEF Out, Upto, Open, Over
  <2>2. /\ FlightInv' /\ phase'[c] = "done"
        /\ \A d \in Calls \ {c} : phase'[d] = "gate" <=> phase[d] = "gate"
    BY <2>1, FlightEnds
  <2>3. PaceInv'
    BY <2>1, <2>2, PaceStays
  <2> QED BY <2>2, <2>3
<1> QED BY <1>8, <1>9, <1>10

-----------------------------------------------------------------------------
(* The steps of the calls. *)

LEMMA SearchKeeps ==
  ASSUME SearchInv, NEW c \in Calls, NEW k \in Keys, Search(c, k)
  PROVE  SearchInv'
<1> USE DEF SearchInv
<1>1. /\ phase[c] = "idle" /\ UNCHANGED <<shut, cooling, negative, negativeHard, sinceSent, sentBlocked>>
      /\ UNCHANGED paceVars
  BY DEF Search, healthVars, paceVars
<1>2. HealthTypes'
  BY <1>1 DEF HealthTypes
<1>3. FlightTypes /\ FlightsExact
  BY DEF FlightInv
<1>4. ASSUME NEW p \in {"done", "following"}, phase' = [phase EXCEPT ![c] = p],
             UNCHANGED <<key, left, pos, formalCalls, hardFailed, usable, webAborted, cacheVars, chainVars>>,
             \/ p = "done" /\ leader' = leader
             \/ p = "following" /\ leader' = [leader EXCEPT ![c] = inFlight[k]] /\ inFlight[k] # None
      PROVE  SearchInv'
  <2>1. /\ UNCHANGED <<cached, inFlight>>
        /\ \A d \in Calls : phase'[d] = IF d = c THEN p ELSE phase[d]
        /\ \A d \in Calls : d # c => leader'[d] = leader[d]
    BY <1>3, <1>4 DEF cacheVars, FlightTypes
  <2>2. FlightTypes'
    BY <1>3, <1>4, <2>1 DEF FlightTypes
  <2>3. p = "following" => leader'[c] \in Calls /\ phase[leader'[c]] \in Flying
    BY <1>3, <1>4 DEF FlightTypes, FlightsExact
  <2>4. \A d \in Calls : phase[d] \in Flying => d # c /\ phase'[d] = phase[d]
    BY <1>1, <2>1 DEF Flying
  <2>5. ASSUME NEW d \in Calls, phase'[d] = "following"
        PROVE  leader'[d] \in Calls /\ phase'[leader'[d]] \in Flying
    <3>1. leader'[d] \in Calls /\ phase[leader'[d]] \in Flying
      BY <1>3, <2>1, <2>3, <2>5 DEF FlightsExact
    <3> QED BY <2>4, <3>1
  <2>6. ASSUME NEW d \in Calls, phase'[d] \in Flying PROVE key'[d] \in Keys /\ inFlight'[key'[d]] = d
    <3>1. phase[d] \in Flying
      BY <2>1, <2>6 DEF Flying
    <3> QED BY <1>3, <1>4, <2>1, <3>1 DEF FlightsExact
  <2>7. ASSUME NEW j \in Keys, inFlight'[j] # None
        PROVE  phase'[inFlight'[j]] \in Flying /\ key'[inFlight'[j]] = j
    <3>1. inFlight[j] \in Calls /\ phase[inFlight[j]] \in Flying /\ key[inFlight[j]] = j
      BY <1>3, <2>1, <2>7 DEF FlightTypes, FlightsExact
    <3> QED BY <1>4, <2>1, <2>4, <3>1
  <2>8. ASSUME NEW d \in Calls, phase'[d] = "asking"
        PROVE  pos'[d] \in 1..Len(Order[key'[d]]) /\ formalCalls'[d] < 2
    BY <1>3, <1>4, <2>1, <2>8 DEF FlightsExact
  <2>9. FlightsExact'
    BY <2>5, <2>6, <2>7, <2>8 DEF FlightsExact, Flying
  <2>10. PaceInv'
    BY <1>1, <1>4, <2>1, PaceStays
  <2> QED BY <1>2, <2>2, <2>9, <2>10 DEF FlightInv
<1>5. CASE SearchCached(c, k)
  <2>1. "done" \in {"done", "following"}
    OBVIOUS
  <2> QED BY <1>4, <1>5, <2>1 DEF SearchCached
<1>6. CASE Follow(c, k)
  <2>1. "following" \in {"done", "following"}
    OBVIOUS
  <2> QED BY <1>4, <1>6, <2>1 DEF Follow
<1>7. CASE Lead(c, k)
  <2>1. MayFly(c, k) /\ Continue(c, k, 0, 0, {}, FALSE, Deadline)
    BY <1>1, <1>7 DEF Lead, MayFly
  <2>2. 0 \in Nat /\ 0 \in 0..2 /\ {} \in SUBSET Formal /\ FALSE \in BOOLEAN /\ Deadline \in 0..Deadline
    BY Durations
  <2>3. phase[c] # "gate"
    BY <1>1
  <2>4. FlightInv' /\ PaceInv'
    BY <1>1, <2>1, <2>2, <2>3, RouterKeeps
  <2> QED BY <1>2, <2>4
<1> QED BY <1>5, <1>6, <1>7 DEF Search

\* What a call that asks, or is at DuckDuckGo, knows of its flight.
LEMMA InFlight ==
  ASSUME FlightInv, NEW c \in Calls, phase[c] \in Flying
  PROVE  /\ key[c] \in Keys /\ MayFly(c, key[c]) /\ left[c] \in 0..Deadline
         /\ pos[c] \in Nat /\ formalCalls[c] \in 0..2 /\ hardFailed[c] \in SUBSET Formal
         /\ usable[c] \in BOOLEAN
         /\ phase[c] = "asking" => Asked(c) \in Formal /\ formalCalls[c] + 1 \in 0..2
<1>1. key[c] \in Keys /\ MayFly(c, key[c])
  BY DEF FlightInv, FlightsExact, MayFly
<1>2. /\ left[c] \in 0..Deadline /\ pos[c] \in Nat /\ formalCalls[c] \in 0..2
      /\ hardFailed[c] \in SUBSET Formal /\ usable[c] \in BOOLEAN
  BY DEF FlightInv, FlightTypes
<1>3. ASSUME phase[c] = "asking" PROVE Asked(c) \in Formal /\ formalCalls[c] + 1 \in 0..2
  <2>1. pos[c] \in 1..Len(Order[key[c]]) /\ formalCalls[c] < 2
    BY <1>3 DEF FlightInv, FlightsExact
  <2>2. Order[key[c]] \in Seq(Formal)
    BY <1>1, Durations
  <2> QED BY <1>2, <2>1, <2>2 DEF Asked
<1> QED BY <1>1, <1>2, <1>3

\* What an answer makes of the health of its provider.
LEMMA HealthKeeps ==
  ASSUME HealthTypes, NEW p \in Formal, NEW k \in Keys,
         Healthy(p) \/ Shut(p) \/ CoolDown(p) \/ UNCHANGED <<shut, cooling>>,
         \/ UNCHANGED <<negative, negativeHard>>
         \/ Remember(p, k, NegativeTtl, FALSE)
         \/ Remember(p, k, NegativeTtl, TRUE)
         \/ Remember(p, k, RetryAfter, TRUE)
  PROVE  HealthTypes'
<1>1. shut' \in SUBSET Formal /\ cooling' \in [Formal -> 0..RetryAfter]
  <2>1. 0 \in 0..RetryAfter /\ RetryAfter \in 0..RetryAfter
    BY Durations
  <2>2. \/ cooling' = cooling
        \/ \E ticks \in 0..RetryAfter : cooling' = [cooling EXCEPT ![p] = ticks]
    BY <2>1 DEF Healthy, Shut, CoolDown
  <2>3. shut' \in {shut, shut \ {p}, shut \union {p}}
    BY DEF Healthy, Shut, CoolDown
  <2> QED BY <2>2, <2>3 DEF HealthTypes
<1>2. NegativeTtl \in 0..RetryAfter + NegativeTtl /\ RetryAfter \in 0..RetryAfter + NegativeTtl
  BY Durations
<1>3. ASSUME NEW ttl \in 0..RetryAfter + NegativeTtl, NEW hard \in BOOLEAN, Remember(p, k, ttl, hard)
      PROVE  /\ negative' \in [Formal -> [Keys -> 0..RetryAfter + NegativeTtl]]
             /\ negativeHard' \in SUBSET (Formal \X Keys)
  <2>1. [negative[p] EXCEPT ![k] = ttl] \in [Keys -> 0..RetryAfter + NegativeTtl]
    BY DEF HealthTypes
  <2>2. negative' = [negative EXCEPT ![p] = [negative[p] EXCEPT ![k] = ttl]]
    BY <1>3 DEF Remember
  <2>3. negative' \in [Formal -> [Keys -> 0..RetryAfter + NegativeTtl]]
    BY <2>1, <2>2 DEF HealthTypes
  <2>4. negativeHard' \in SUBSET (Formal \X Keys)
    BY <1>3 DEF Remember, HealthTypes
  <2> QED BY <2>3, <2>4
<1>4. /\ negative' \in [Formal -> [Keys -> 0..RetryAfter + NegativeTtl]]
      /\ negativeHard' \in SUBSET (Formal \X Keys)
  BY <1>2, <1>3 DEF HealthTypes
<1> QED BY <1>1, <1>4 DEF HealthTypes

LEMMA ProviderAnswersKeeps ==
  ASSUME SearchInv, NEW c \in Calls, ProviderAnswers(c)
  PROVE  SearchInv'
<1> USE DEF SearchInv
<1>1. phase[c] = "asking" /\ phase[c] \in Flying /\ phase[c] # "gate" /\ UNCHANGED paceVars
  BY DEF ProviderAnswers, Flying
<1>2. /\ key[c] \in Keys /\ MayFly(c, key[c]) /\ left[c] \in 0..Deadline
      /\ pos[c] \in Nat /\ formalCalls[c] \in 0..2 /\ hardFailed[c] \in SUBSET Formal
      /\ usable[c] \in BOOLEAN /\ Asked(c) \in Formal /\ formalCalls[c] + 1 \in 0..2
      /\ hardFailed[c] \union {Asked(c)} \in SUBSET Formal /\ TRUE \in BOOLEAN
  BY <1>1, InFlight
<1>3. ASSUME NEW n \in 0..2, NEW hard \in SUBSET Formal, NEW good \in BOOLEAN,
             ContinueWith(c, n, hard, good)
      PROVE  FlightInv' /\ PaceInv'
  <2>1. Continue(c, key[c], pos[c], n, hard, good, left[c])
    BY <1>3 DEF ContinueWith
  <2> QED BY <1>1, <1>2, <2>1, RouterKeeps
<1>4. ASSUME NEW ok \in BOOLEAN, EndFlight(c, key[c], ok), UNCHANGED chainVars
      PROVE  FlightInv' /\ PaceInv'
  <2>1. /\ FlightInv' /\ phase'[c] = "done"
        /\ \A d \in Calls \ {c} : phase'[d] = "gate" <=> phase[d] = "gate"
    BY <1>2, <1>4, FlightEnds
  <2> QED BY <1>1, <1>4, <2>1, PaceStays
<1>5. CASE Accepted(c)
  <2>1. HealthTypes'
    BY <1>2, <1>5, HealthKeeps DEF Accepted
  <2> QED BY <1>2, <1>4, <1>5, <2>1 DEF Accepted
<1>6. CASE Partial(c)
  <2>1. HealthTypes'
    BY <1>2, <1>6, HealthKeeps DEF Partial
  <2> QED BY <1>2, <1>3, <1>6, <2>1 DEF Partial
<1>7. CASE SoftMiss(c)
  <2>1. HealthTypes'
    BY <1>2, <1>7, HealthKeeps DEF SoftMiss
  <2> QED BY <1>2, <1>3, <1>7, <2>1 DEF SoftMiss
<1>8. CASE Skipped(c)
  <2>1. HealthTypes'
    BY <1>2, <1>8, HealthKeeps DEF Skipped
  <2> QED BY <1>2, <1>3, <1>8, <2>1 DEF Skipped
<1>9. CASE HardFailure(c)
  <2>1. HealthTypes'
    BY <1>2, <1>9, HealthKeeps DEF HardFailure
  <2> QED BY <1>2, <1>3, <1>9, <2>1 DEF HardFailure
<1>10. CASE Terminal(c)
  <2>1. HealthTypes'
    BY <1>2, <1>10, HealthKeeps DEF Terminal
  <2>2. FALSE \in BOOLEAN
    OBVIOUS
  <2> QED BY <1>2, <1>4, <1>10, <2>1, <2>2 DEF Terminal
<1> QED BY <1>5, <1>6, <1>7, <1>8, <1>9, <1>10 DEF ProviderAnswers

-----------------------------------------------------------------------------
(* The steps at the gate, and time. *)

\* A call leaves the gate without having sent a request.
LEMMA LeavesGate ==
  ASSUME SearchInv, NEW c \in Calls, phase[c] = "gate", Gate!AtHead(c), Gate!Unlock,
         UNCHANGED <<toUnblock, paceVars, healthVars>>, toNext' \in {toNext, Interval},
         EndFlight(c, key[c], FALSE)
  PROVE  SearchInv'
<1> USE DEF SearchInv
<1>1. key[c] \in Keys /\ MayFly(c, key[c]) /\ FALSE \in BOOLEAN
  BY InFlight DEF Flying
<1>2. /\ FlightInv' /\ phase'[c] = "done"
      /\ \A d \in Calls \ {c} : phase'[d] = "gate" <=> phase[d] = "gate"
  BY <1>1, FlightEnds
<1>3. /\ sinceSent' = sinceSent /\ sentBlocked' = sentBlocked
      /\ toNext \in 0..Interval /\ sinceSent \in 0..Interval /\ sinceSent + toNext >= Interval
      /\ sentBlocked \in 0..2 /\ (sentBlocked > 0 => sentBlocked = 1 /\ toUnblock > 0)
  BY DEF PaceInv, PaceTypes, PacingExact, Gate!GateTypeOK, paceVars
<1>4. toNext' \in 0..Interval /\ sinceSent' + toNext' >= Interval
  BY <1>3, Durations
<1>5. PaceInv'
  BY <1>2, <1>3, <1>4, PaceUnlocks
<1>6. HealthTypes'
  BY DEF HealthTypes, healthVars
<1> QED BY <1>2, <1>5, <1>6

\* What a grant says of the gate.
LEMMA ReadyAt ==
  ASSUME PaceInv, NEW c \in Calls, Gate!Ready(c)
  PROVE  /\ Gate!AtHead(c) /\ Gate!Unlock /\ toNext' = Interval /\ UNCHANGED toUnblock
         /\ sinceSent = Interval
         /\ toUnblock > 0 => sentBlocked = 0
<1>1. /\ Gate!AtHead(c) /\ Gate!Unlock /\ toNext' = Interval /\ UNCHANGED toUnblock
      /\ (toUnblock = 0 /\ toNext = 0) \/ (sleeping /\ wake = 0)
  BY DEF Gate!Ready, Gate!ReadyAtOnce, Gate!Woken
<1>2. /\ toNext \in 0..Interval /\ toUnblock \in 0..Cooldown /\ wake \in 0..Interval
      /\ sinceSent \in 0..Interval /\ sinceSent + toNext >= Interval /\ sentBlocked \in 0..2
      /\ sleeping => wake >= toNext
      /\ sentBlocked > 0 => sentBlocked = 1 /\ toUnblock > 0 /\ ~sleeping
  BY DEF PaceInv, PaceTypes, PacingExact, Gate!GateTypeOK
<1>3. toNext = 0
  BY <1>1, <1>2, Durations
<1>4. sinceSent = Interval
  BY <1>2, <1>3, Durations
<1> QED BY <1>1, <1>2, <1>4, Durations

LEMMA GrantKeeps == ASSUME SearchInv, NEW c \in Calls, Grant(c) PROVE SearchInv'
<1> USE DEF SearchInv
<1>1. /\ phase[c] = "gate" /\ Gate!Ready(c) /\ UNCHANGED healthVars
      /\ \/ EndFlight(c, key[c], FALSE) /\ UNCHANGED paceVars
         \/ /\ phase' = [phase EXCEPT ![c] = "ddg"] /\ sinceSent' = 0
            /\ sentBlocked' = IF toUnblock > 0 THEN Min({2, sentBlocked + 1}) ELSE 0
            /\ UNCHANGED <<key, leader, left, pos, formalCalls, hardFailed, usable>>
            /\ UNCHANGED <<webAborted, cacheVars>>
  BY DEF Grant
<1>2. /\ Gate!AtHead(c) /\ Gate!Unlock /\ toNext' = Interval /\ UNCHANGED toUnblock
      /\ toUnblock > 0 => sentBlocked = 0
  BY <1>1, ReadyAt
<1>3. CASE EndFlight(c, key[c], FALSE) /\ UNCHANGED paceVars
  BY <1>1, <1>2, <1>3, LeavesGate
<1>4. CASE /\ phase' = [phase EXCEPT ![c] = "ddg"] /\ sinceSent' = 0
           /\ sentBlocked' = (IF toUnblock > 0 THEN Min({2, sentBlocked + 1}) ELSE 0)
           /\ UNCHANGED <<key, leader, left, pos, formalCalls, hardFailed, usable>>
           /\ UNCHANGED <<webAborted, cacheVars>>
  <2>1. phase'[c] = "ddg" /\ \A d \in Calls \ {c} : phase'[d] = phase[d]
    BY <1>4 DEF FlightInv, FlightTypes
  <2>2. FlightTypes'
    BY <1>4 DEF FlightInv, FlightTypes, cacheVars, Flying
  <2>3. \A d \in Calls : /\ phase'[d] \in Flying <=> phase[d] \in Flying
                         /\ phase'[d] = "following" => phase[d] = "following"
                         /\ phase'[d] = "asking" => phase[d] = "asking"
    BY <1>1, <2>1 DEF Flying
  <2>4. FlightsExact'
    BY <1>4, <2>3 DEF FlightInv, FlightTypes, FlightsExact, cacheVars
  <2>5. sentBlocked' = IF toUnblock > 0 THEN 1 ELSE 0
    <3>1. toUnblock > 0 => sentBlocked + 1 = 1 /\ Min({2, 1}) = 1
      BY <1>2, LesserOf
    <3> QED BY <1>4, <3>1
  <2>6. /\ sinceSent' \in 0..Interval /\ toNext' \in 0..Interval /\ sinceSent' + toNext' >= Interval
        /\ sentBlocked' \in 0..2 /\ (sentBlocked' > 0 => sentBlocked' = 1 /\ toUnblock > 0)
    BY <1>2, <1>4, <2>5, Durations
  <2>7. PaceInv'
    BY <1>2, <2>1, <2>6, PaceUnlocks
  <2>8. HealthTypes'
    BY <1>1 DEF HealthTypes, healthVars
  <2> QED BY <2>2, <2>4, <2>7, <2>8 DEF FlightInv
<1> QED BY <1>1, <1>3, <1>4

LEMMA RefusedKeeps == ASSUME SearchInv, NEW c \in Calls, Refused(c) PROVE SearchInv'
BY LeavesGate DEF Refused, Gate!Blocked, Gate!SleepAborted

LEMMA PauseKeeps == ASSUME SearchInv, NEW c \in Calls, Pause(c) PROVE SearchInv'
<1>1. /\ Gate!Sleep(c) /\ UNCHANGED <<phase, paceVars>>
      /\ UNCHANGED <<key, leader, left, pos, formalCalls, hardFailed, usable>>
      /\ UNCHANGED <<webAborted, cached, inFlight, shut, cooling, negative, negativeHard>>
  BY DEF Pause, flightVars, cacheVars, healthVars
<1>2. PaceInv'
  BY <1>1, PaceSleeps DEF SearchInv
<1>3. FlightTypes' /\ HealthTypes'
  BY <1>1 DEF SearchInv, FlightInv, FlightTypes, HealthTypes
<1>4. FlightsExact'
  BY <1>1 DEF SearchInv, FlightInv, FlightsExact
<1> QED BY <1>2, <1>3, <1>4 DEF SearchInv, FlightInv

LEMMA DdgAnswerKeeps == ASSUME SearchInv, NEW c \in Calls, DdgAnswer(c) PROVE SearchInv'
<1> USE DEF SearchInv
<1>1. PICK ok \in BOOLEAN :
        /\ EndFlight(c, key[c], ok) /\ (Gate!MarkProviderBlocked \/ UNCHANGED chainVars)
        /\ phase[c] = "ddg" /\ UNCHANGED <<healthVars, paceVars>>
  BY DEF DdgAnswer
<1>2. key[c] \in Keys /\ MayFly(c, key[c])
  BY <1>1, InFlight DEF Flying
<1>3. /\ FlightInv' /\ phase'[c] = "done"
      /\ \A d \in Calls \ {c} : phase'[d] = "gate" <=> phase[d] = "gate"
  BY <1>1, <1>2, FlightEnds
<1>4. PaceInv'
  BY <1>1, <1>3, PaceStays
<1>5. HealthTypes'
  BY <1>1 DEF HealthTypes, healthVars
<1> QED BY <1>3, <1>4, <1>5

LEMMA AbortKeeps == ASSUME SearchInv, NEW c \in Calls, Abort(c) PROVE SearchInv'
<1>1. /\ webAborted' = webAborted \union {c} /\ UNCHANGED <<chainVars, paceVars, phase>>
      /\ UNCHANGED <<key, leader, left, pos, formalCalls, hardFailed, usable>>
      /\ UNCHANGED <<cached, inFlight, shut, cooling, negative, negativeHard>>
  BY DEF Abort, flightVars, cacheVars, healthVars
<1>2. PaceInv'
  BY <1>1, PaceStays DEF SearchInv
<1>3. FlightTypes' /\ HealthTypes'
  BY <1>1 DEF SearchInv, FlightInv, FlightTypes, HealthTypes
<1>4. FlightsExact'
  BY <1>1 DEF SearchInv, FlightInv, FlightsExact
<1> QED BY <1>2, <1>3, <1>4 DEF SearchInv, FlightInv

LEMMA TickKeeps == ASSUME SearchInv, Tick PROVE SearchInv'
<1>1. /\ left' = [c \in Calls |-> Gate!Down(left[c])]
      /\ cached' = [k \in Keys |-> Gate!Down(cached[k])]
      /\ cooling' = [p \in Formal |-> Gate!Down(cooling[p])]
      /\ negative' = [p \in Formal |-> [k \in Keys |-> Gate!Down(negative[p][k])]]
      /\ negativeHard' \subseteq negativeHard
      /\ UNCHANGED <<phase, key, leader, webAborted, pos, formalCalls, hardFailed, usable,
                     inFlight, shut>>
  BY DEF Tick
<1>2. PaceInv'
  BY PaceTicks DEF SearchInv
<1>3. /\ \A c \in Calls : Gate!Down(left[c]) \in 0..Deadline
      /\ \A k \in Keys : Gate!Down(cached[k]) \in 0..CacheTtl
      /\ \A p \in Formal : Gate!Down(cooling[p]) \in 0..RetryAfter
      /\ \A p \in Formal, k \in Keys : Gate!Down(negative[p][k]) \in 0..RetryAfter + NegativeTtl
  <2>1. RetryAfter + NegativeTtl \in Nat
    BY Durations
  <2>2. \A p \in Formal, k \in Keys : negative[p][k] \in 0..RetryAfter + NegativeTtl
    BY DEF SearchInv, HealthTypes
  <2>3. \A p \in Formal, k \in Keys : Gate!Down(negative[p][k]) \in 0..RetryAfter + NegativeTtl
    BY <2>1, <2>2, DownBy
  <2> QED BY <2>3, Durations, DownBy DEF SearchInv, FlightInv, FlightTypes, HealthTypes
<1>4. FlightTypes'
  BY <1>1, <1>3 DEF SearchInv, FlightInv, FlightTypes
<1>5. HealthTypes'
  BY <1>1, <1>3 DEF SearchInv, HealthTypes
<1>6. FlightsExact'
  BY <1>1 DEF SearchInv, FlightInv, FlightsExact
<1> QED BY <1>2, <1>4, <1>5, <1>6 DEF SearchInv, FlightInv

LEMMA SearchesKeep == ASSUME SearchInv, [SearchNext]_searchVars PROVE SearchInv'
<1>1. ASSUME UNCHANGED searchVars PROVE SearchInv'
  <2>1. /\ UNCHANGED <<phase, key, leader, left, pos, formalCalls, hardFailed, usable>>
        /\ UNCHANGED <<webAborted, cached, inFlight, shut, cooling, negative, negativeHard>>
        /\ UNCHANGED <<chainVars, paceVars>>
    BY <1>1 DEF searchVars, flightVars, cacheVars, healthVars
  <2>2. FlightTypes' /\ HealthTypes'
    BY <2>1 DEF SearchInv, FlightInv, FlightTypes, HealthTypes
  <2>3. FlightsExact'
    BY <2>1 DEF SearchInv, FlightInv, FlightsExact
  <2>4. PaceInv'
    BY <2>1, PaceStays DEF SearchInv
  <2> QED BY <2>2, <2>3, <2>4 DEF SearchInv, FlightInv
<1> QED BY <1>1, SearchKeeps, ProviderAnswersKeeps, RefusedKeeps, PauseKeeps, GrantKeeps,
           DdgAnswerKeeps, AbortKeeps, TickKeeps DEF SearchNext, Step

-----------------------------------------------------------------------------
LEMMA SearchInvariance == SearchSpec => []SearchInv
BY SearchStarts, SearchesKeep, PTL DEF SearchSpec

\* For any searches, keys, candidates and durations: two searches of one key never ask
\* providers at once, whatever ends a flight (an answer, a deadline, an abort, the gate),
\* and the types hold: the second part of the property NothingTwice.
THEOREM FlightsAreShared == SearchSpec => [](SearchTypeOK /\ OneFlightPerKey)
<1>1. ASSUME SearchInv PROVE SearchTypeOK
  BY <1>1 DEF SearchInv, FlightInv, FlightTypes, HealthTypes, PaceInv, PaceTypes, SearchTypeOK
<1>2. ASSUME SearchInv PROVE OneFlightPerKey
  <2> SUFFICES ASSUME NEW k \in Keys
               PROVE  {c \in Calls : phase[c] \in Flying /\ key[c] = k} =
                        IF inFlight[k] = None THEN {} ELSE {inFlight[k]}
    BY DEF OneFlightPerKey
  <2>1. \A c \in Calls : phase[c] \in Flying /\ key[c] = k => inFlight[k] = c /\ c # None
    BY <1>2, Durations DEF SearchInv, FlightInv, FlightsExact
  <2>2. inFlight[k] # None =>
          inFlight[k] \in Calls /\ phase[inFlight[k]] \in Flying /\ key[inFlight[k]] = k
    BY <1>2 DEF SearchInv, FlightInv, FlightTypes, FlightsExact
  <2> QED BY <2>1, <2>2
<1> QED BY <1>1, <1>2, SearchInvariance, PTL

\* Nobody waits for a flight that is over, and the chain of the gate holds every call that
\* waits at it exactly once: no call is stranded there and none is let in twice.
THEOREM WaitersAreLed ==
  SearchSpec => []/\ \A c \in Calls : phase[c] = "following" =>
                       leader[c] \in Calls /\ phase[leader[c]] \in Flying
                  /\ ChainExact
<1>1. SearchInv => /\ \A c \in Calls : phase[c] = "following" =>
                        leader[c] \in Calls /\ phase[leader[c]] \in Flying
                   /\ ChainExact
  BY DEF SearchInv, FlightInv, FlightsExact, PaceInv
<1> QED BY <1>1, SearchInvariance, PTL

\* Only a grant that finds no signal fired sends a request.
LEMMA OnlyGrantsSend ==
  ASSUME SearchInv, SearchNext, NEW d \in Calls, phase[d] = "gate", phase'[d] = "ddg"
  PROVE  Grant(d)
<1>1. \A c \in Calls, k \in Keys, ok \in BOOLEAN : ~EndFlight(c, k, ok)
  BY DEF EndFlight, SearchInv, FlightInv, FlightTypes
<1>2. phase \in [Calls -> Flying \union {"idle", "following", "done"}]
  BY DEF SearchInv, FlightInv, FlightTypes
<1>3. ASSUME NEW c \in Calls, NEW p, p # "ddg", phase' = [phase EXCEPT ![c] = p] PROVE FALSE
  BY <1>2, <1>3
<1>4. phase' # phase
  OBVIOUS
<1>5. ASSUME NEW c \in Calls, NEW k \in Keys, NEW i, NEW n, NEW hard, NEW good \in BOOLEAN, NEW time
      PROVE  ~Continue(c, k, i, n, hard, good, time)
  BY <1>1, <1>3 DEF Continue
<1>6. ASSUME NEW c \in Calls, NEW k \in Keys, Search(c, k) PROVE FALSE
  BY <1>3, <1>5, <1>6 DEF Search, SearchCached, Follow, Lead
<1>7. ASSUME NEW c \in Calls, ProviderAnswers(c) PROVE FALSE
  <2>1. phase[c] = "asking" /\ key[c] \in Keys /\ usable[c] \in BOOLEAN
    BY <1>7, InFlight DEF ProviderAnswers, Flying, SearchInv
  <2> QED BY <1>1, <1>5, <1>7, <2>1 DEF ProviderAnswers, Accepted, Partial, SoftMiss, Skipped,
                                       HardFailure, Terminal, ContinueWith
<1>8. ASSUME NEW c \in Calls, Refused(c) \/ Pause(c) \/ DdgAnswer(c) \/ Abort(c) \/ Tick PROVE FALSE
  <2>1. phase[c] \in {"gate", "ddg"} => key[c] \in Keys
    BY InFlight DEF Flying, SearchInv
  <2> QED BY <1>1, <1>4, <1>8, <2>1 DEF Refused, Pause, DdgAnswer, Abort, Tick, flightVars
<1>9. ASSUME NEW c \in Calls, Grant(c) PROVE c = d
  <2>1. phase[c] = "gate" /\ key[c] \in Keys
    BY <1>9, InFlight DEF Grant, Flying, SearchInv
  <2>2. phase' = [phase EXCEPT ![c] = "ddg"]
    BY <1>1, <1>9, <2>1 DEF Grant
  <2> QED BY <1>2, <2>2
<1> QED BY <1>6, <1>7, <1>8, <1>9 DEF SearchNext, Step

\* For any searches and durations, whatever queues, sleeps or is aborted at the gate: two
\* requests to DuckDuckGo are at least the interval apart, and a cooldown lets at most one
\* through: the third part of the property NothingTwice.
THEOREM RequestsArePaced == SearchSpec => RequestsPaced
<1>1. ASSUME SearchInv, SearchNext, NEW c \in Calls, phase[c] = "gate", phase'[c] = "ddg"
      PROVE  sinceSent = Interval
  <2>1. Gate!Ready(c)
    BY <1>1, OnlyGrantsSend DEF Grant
  <2> QED BY <1>1, <2>1, ReadyAt DEF SearchInv
<1>2. ASSUME SearchInv, [SearchNext]_searchVars
      PROVE  [\A c \in Calls : phase[c] = "gate" /\ phase'[c] = "ddg" => sinceSent = Interval]_searchVars
  BY <1>1, <1>2
<1>3. ASSUME SearchInv PROVE sentBlocked <= 1
  BY <1>3 DEF SearchInv, PaceInv, PaceTypes, PacingExact
<1> QED BY <1>2, <1>3, SearchInvariance, PTL DEF SearchSpec, RequestsPaced

\* Side by side: no second attempt after one that wrote, no second flight of a key, no
\* request before its time, for any tasks, retries, searches and durations.
THEOREM NothingIsDoneTwice == SubagentsSpec /\ SearchSpec => NothingTwice
BY NothingIsWrittenTwice, FlightsAreShared, RequestsArePaced, PTL DEF NothingTwice
=============================================================================

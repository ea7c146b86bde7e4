---------------------------- MODULE FileToolsProofs ----------------------------
(* What the file tools read: the layers of a configuration and the bytes of a file are
   handed out as they were at one moment, and a session knows what it edits.

   ConfigLayers: a call is given layers that were on disk together, at a moment since
   it began, for any number of calls, layers, attempts and edits.  Versions only grow.
   When the fingerprint before the layers is complete, the disk is at some m: what the
   fingerprint says is at most m, what is read later is at least m, and so is the
   fingerprint after.  When the two are equal, both are m, and so are the layers.  A call
   that began later than m and found the same fingerprint began when the disk was still
   at m.

   A load that fails found a broken layer, at its fingerprint or at what it has become
   since, so a kept failure is of broken layers unless an edit met the load (SoundInv).

   FileReads: a file whose time stamp is the one the call began with has not changed
   since, or changed twice in a millisecond; what was read of it so far is then its
   beginning, and at the end of the file all of it.

   FileTools: a store is given to calls of one session only, and holds what the session
   knows.  It is disposed by the call that made it, before anything is recorded in it; so
   what a session's last commit recorded is still there, unless others shared the store
   or a read of the session put back what it had loaded before (ToolsInv).          *)
EXTENDS FileTools, ConfigLayers, FileReads, FiniteSetTheorems, TLAPS

Active == {"before", "read", "after", "failed"}
Under(c) == pc[c] \in {"print", "wait"}
NotAfter(v, w) == \A l \in Layers : v[l] <= w[l]
\* m is one of the moments of call c, or no later than any of them.
Known(c, m) == m \in since[c] \/ \A w \in since[c] : NotAfter(m, w)

\* The moments of a call end with the present one, and its fingerprint is not older.
MomentsInv ==
  \A c \in Calls : Under(c) =>
    /\ version \in since[c]
    /\ \A w \in since[c] : NotAfter(w, version)
    /\ \E w \in since[c] : \A l \in Layers : seen[c][l] # Unread => w[l] <= seen[c][l]
    /\ \A l \in Layers : seen[c][l] <= version[l]
IdleInv == \A c \in Calls : pc[c] = "idle" => seen[c] = Nothing

\* A call that waits has the fingerprint of the call whose load it waits for.
LeaderInv ==
  /\ \A k \in Calls : step[k] \in Active => pc[k] = "wait" /\ leader[k] = k /\ Complete(seen[k])
  /\ \A c \in Calls : pc[c] = "wait" => step[leader[c]] \in Active /\ seen[leader[c]] = seen[c]
  /\ \A k \in pending : step[k] \in Active

\* The parts of a load are read one after the other.
LoadInv ==
  \A k \in Calls :
    /\ pc[k] \in {"idle", "print"} => step[k] = "none"
    /\ step[k] = "none" => before[k] = Nothing
    /\ step[k] \in {"none", "before"} => read[k] = Nothing
    /\ step[k] \in {"none", "before", "read"} => after[k] = Nothing
    /\ step[k] \in {"read", "after"} => Complete(before[k])
    /\ step[k] = "after" => Complete(read[k])
    /\ step[k] \in {"before", "read", "after"} =>
         \A l \in Layers : before[k][l] # Unread => seen[k][l] <= before[k][l] /\ before[k][l] <= version[l]

\* The moment at which the fingerprint before the layers was complete.
Middle(k, m) ==
  /\ NotAfter(before[k], m) /\ NotAfter(m, version)
  /\ \A l \in Layers : read[k][l] # Unread => m[l] <= read[k][l] /\ read[k][l] <= version[l]
  /\ \A l \in Layers : after[k][l] # Unread => read[k][l] <= after[k][l]
  /\ \A c \in Calls : Under(c) => Known(c, m)
MiddleInv == \A k \in Calls : step[k] \in {"read", "after"} => \E m \in since[k] : Middle(k, m)

CacheInv ==
  cache.ok => /\ cache.layers = cache.print /\ NotAfter(cache.layers, version)
              /\ \A c \in Calls : Under(c) => Known(c, cache.layers)
AnswerInv == \A c \in Calls : answer[c].ok => pc[c] = "done" /\ answer[c].layers \in since[c]

LayersInv ==
  /\ ConfigTypeOK /\ MomentsInv /\ IdleInv /\ LeaderInv /\ LoadInv /\ MiddleInv /\ CacheInv
  /\ AnswerInv

-----------------------------------------------------------------------------
LEMMA NothingIsPrint == Nothing \in Prints
  BY DEF Nothing, Prints
LEMMA FailureIsAnswer == ASSUME NEW reason \in {"none", "config", "shutdown"} PROVE Failure(reason) \in Answers
  BY NothingIsPrint DEF Failure, Answers
LEMMA AnswerOfIsAnswer == ASSUME NEW e \in Entries PROVE AnswerOf(e) \in Answers
  BY FailureIsAnswer DEF AnswerOf, Config, Answers, Entries

LEMMA EditIsVersion ==
  ASSUME NEW v \in Versions, NEW l \in Layers
  PROVE  v[l] + 1 \in Nat /\ [v EXCEPT ![l] = @ + 1] \in Versions
<1>1. v[l] \in Nat BY DEF Versions
<1>2. v[l] + 1 \in Nat BY <1>1
<1> QED BY <1>2 DEF Versions

LEMMA AttemptsBounded ==
  /\ 1 \in 0 .. MaxAttempts
  /\ \A n \in 0 .. MaxAttempts : n < MaxAttempts => n + 1 \in 0 .. MaxAttempts
  BY LayersAssumption

LEMMA TypeInductive == ConfigTypeOK /\ [ConfigNext]_configVars => ConfigTypeOK'
<1> SUFFICES ASSUME ConfigTypeOK, [ConfigNext]_configVars PROVE ConfigTypeOK'
  OBVIOUS
<1> USE NothingIsPrint, FailureIsAnswer, AnswerOfIsAnswer DEF ConfigTypeOK
<1>1. ASSUME NEW l \in Layers, Edit(l) PROVE ConfigTypeOK'
  <2>0. version[l] + 1 \in Nat BY EditIsVersion
  <2>1. version' \in Versions BY <1>1, EditIsVersion DEF Edit
  <2>2. since' \in [Calls -> SUBSET Versions] BY <1>1, <2>1 DEF Edit
  <2>3. broken' \in [{"syntax", "schema"} -> SUBSET (Layers \X Nat)]
    <3>1. PICK how \in {"good", "syntax", "schema"} :
            broken' = IF how = "good" THEN broken
                      ELSE [broken EXCEPT ![how] = @ \cup {<<l, version[l] + 1>>}]
      BY <1>1 DEF Edit
    <3>2. <<l, version[l] + 1>> \in Layers \X Nat BY <2>0
    <3>3. broken.syntax \cup {<<l, version[l] + 1>>} \in SUBSET (Layers \X Nat)
      BY <3>2
    <3>4. broken.schema \cup {<<l, version[l] + 1>>} \in SUBSET (Layers \X Nat)
      BY <3>2
    <3> QED BY <3>1, <3>3, <3>4
  <2> QED BY <1>1, <2>1, <2>2, <2>3 DEF Edit, callState, loadState
<1>2. ASSUME NEW c \in Calls, Begin(c) PROVE ConfigTypeOK'
  <2>1. Failure("shutdown") \in Answers /\ {version} \in SUBSET Versions OBVIOUS
  <2>2. answer' \in [Calls -> Answers] /\ since' \in [Calls -> SUBSET Versions]
    BY <1>2, <2>1 DEF Begin
  <2> QED BY <1>2, <2>2 DEF Begin, world, loadState
<1>3. ASSUME NEW c \in Calls, NEW l \in Layers, Stamp(c, l) PROVE ConfigTypeOK'
  <2>1. version[l] \in Nat BY DEF Versions
  <2> QED BY <1>3, <2>1 DEF Stamp, world, loadState, Prints
<1>4. ASSUME NEW c \in Calls, TakeCached(c) PROVE ConfigTypeOK'
  BY <1>4 DEF TakeCached, world, loadState
<1>5. ASSUME NEW c \in Calls, Join(c) PROVE ConfigTypeOK'
  BY <1>5 DEF Join, world, loadState
<1>6. ASSUME NEW c \in Calls, Lead(c) PROVE ConfigTypeOK'
  <2>1. 1 \in 0 .. MaxAttempts BY AttemptsBounded
  <2> QED BY <1>6, <2>1 DEF Lead, world
<1>7. ASSUME NEW k \in Calls, NEW l \in Layers, StatBefore(k, l) PROVE ConfigTypeOK'
  <2>1. version[l] \in Nat BY DEF Versions
  <2> QED BY <1>7, <2>1 DEF StatBefore, world, callState, Prints
<1>8. ASSUME NEW k \in Calls, NEW l \in Layers, ReadLayer(k, l) PROVE ConfigTypeOK'
  <2>1. version[l] \in Nat BY DEF Versions
  <2> QED BY <1>8, <2>1 DEF ReadLayer, world, callState, Prints
<1>9. ASSUME NEW k \in Calls, NEW l \in Layers, StatAfter(k, l) PROVE ConfigTypeOK'
  <2>1. version[l] \in Nat BY DEF Versions
  <2> QED BY <1>9, <2>1 DEF StatAfter, world, callState, Prints
<1>10. ASSUME NEW k \in Calls, Restart(k) PROVE ConfigTypeOK'
  <2>1. attempt[k] \in 0 .. MaxAttempts OBVIOUS
  <2>2. attempt[k] + 1 \in 0 .. MaxAttempts BY <1>10, <2>1, AttemptsBounded DEF Restart
  <2> QED BY <1>10, <2>2 DEF Restart, world, callState
<1>11. ASSUME NEW k \in Calls, Refuse(k) PROVE ConfigTypeOK'
  BY <1>11 DEF Refuse, world, callState
<1>12. ASSUME NEW k \in Calls, NEW e \in Entries, NEW b \in BOOLEAN, Settle(k, e, b)
       PROVE ConfigTypeOK'
  BY <1>12 DEF Settle, world
<1>13. ASSUME NEW k \in Calls, Succeed(k) PROVE ConfigTypeOK'
  BY <1>13, <1>12 DEF Succeed, Entries
<1>14. ASSUME NEW k \in Calls, Fail(k) PROVE ConfigTypeOK'
  <2>1. [print |-> after[k], ok |-> FALSE, layers |-> Nothing] \in Entries BY DEF Entries
  <2> QED BY <1>14, <1>12, <2>1 DEF Fail, Settle
<1>15. CASE Dispose
  BY <1>15 DEF Dispose, NoEntry, Entries, world, callState, loadState
<1>16. CASE UNCHANGED configVars
  BY <1>16 DEF configVars, world, callState, loadState
<1> QED
  BY <1>1, <1>2, <1>3, <1>4, <1>5, <1>6, <1>7, <1>8, <1>9, <1>10, <1>11, <1>13, <1>14, <1>15,
     <1>16 DEF ConfigNext, CallStep, LoadStep

-----------------------------------------------------------------------------
(* Fingerprints and versions. *)

LEMMA VersionTypes ==
  ASSUME ConfigTypeOK
  PROVE  /\ \A l \in Layers : version[l] \in Nat
         /\ \A c \in Calls : \A w \in since[c] : \A l \in Layers : w[l] \in Nat
         /\ \A c \in Calls, l \in Layers :
              /\ seen[c][l] \in Int /\ before[c][l] \in Int /\ read[c][l] \in Int
              /\ after[c][l] \in Int
         /\ \A l \in Layers : cache.print[l] \in Int /\ cache.layers[l] \in Int
  BY DEF ConfigTypeOK, Prints, Versions, Entries, Unread

LEMMA EqualVersions ==
  ASSUME NEW v \in Versions, NEW p \in Prints, \A l \in Layers : v[l] = p[l] PROVE v = p
  BY DEF Versions, Prints

\* A moment no later than those of a call, and not before its fingerprint, is one of them.
LEMMA KnownMeets ==
  ASSUME ConfigTypeOK, NEW c \in Calls, Complete(seen[c]),
         \E w \in since[c] : \A l \in Layers : seen[c][l] # Unread => w[l] <= seen[c][l],
         NEW m \in Prints, Known(c, m), \A l \in Layers : seen[c][l] <= m[l]
  PROVE  m \in since[c]
<1>1. SUFFICES ASSUME \A w \in since[c] : NotAfter(m, w) PROVE m \in since[c]
  BY DEF Known
<1>2. PICK w \in since[c] : \A l \in Layers : w[l] <= seen[c][l]
  BY DEF Complete
<1>3. w \in Versions BY DEF ConfigTypeOK
<1>4. ASSUME NEW l \in Layers PROVE w[l] = m[l]
  <2>1. w[l] \in Int /\ m[l] \in Int /\ seen[c][l] \in Int
    BY <1>3, VersionTypes DEF Versions, Prints, Unread
  <2>2. m[l] <= w[l] BY <1>1 DEF NotAfter
  <2> QED BY <1>2, <2>1, <2>2
<1> QED BY <1>3, <1>4, EqualVersions

-----------------------------------------------------------------------------
(* The world and the calls. *)

LEMMA EditKeeps ==
  ASSUME LayersInv, NEW e \in Layers, Edit(e), ConfigTypeOK' PROVE LayersInv'
<1> USE DEF LayersInv
<1>1. \A l \in Layers : version[l] \in Nat /\ version'[l] \in Nat /\ version[l] <= version'[l]
  BY VersionTypes, EditIsVersion DEF Edit, ConfigTypeOK, Versions
<1>2. /\ UNCHANGED <<pc, seen, leader, answer, step, before, read, after, pending, cache>>
      /\ \A c \in Calls : since'[c] = IF Under(c) THEN since[c] \cup {version'} ELSE since[c]
  BY DEF Edit, callState, loadState, Under, ConfigTypeOK
<1>3. ASSUME NEW v, \A l \in Layers : v[l] \in Int, NotAfter(v, version) PROVE NotAfter(v, version')
  BY <1>1, <1>3 DEF NotAfter
<1>4. ASSUME NEW c \in Calls, NEW m, \A l \in Layers : m[l] \in Int, NotAfter(m, version), Known(c, m)
      PROVE  Known(c, m)'
  BY <1>2, <1>3, <1>4 DEF Known
<1>5. MomentsInv'
  <2> SUFFICES ASSUME NEW c \in Calls, Under(c) PROVE
         /\ version' \in since'[c]
         /\ \A w \in since'[c] : NotAfter(w, version')
         /\ \E w \in since'[c] : \A l \in Layers : seen[c][l] # Unread => w[l] <= seen[c][l]
         /\ \A l \in Layers : seen[c][l] <= version'[l]
    BY <1>2 DEF MomentsInv, Under
  <2>1. \A w \in since'[c] : NotAfter(w, version')
    <3>1. NotAfter(version', version') BY <1>1 DEF NotAfter
    <3>2. ASSUME NEW w \in since[c] PROVE NotAfter(w, version')
      BY <1>3, VersionTypes DEF MomentsInv
    <3> QED BY <1>2, <3>1, <3>2
  <2>2. \A l \in Layers : seen[c][l] <= version'[l]
    BY <1>1, VersionTypes DEF MomentsInv
  <2> QED BY <1>2, <2>1, <2>2 DEF MomentsInv
<1>6. LoadInv'
  BY <1>1, <1>2, VersionTypes DEF LoadInv, Complete
<1>7. MiddleInv'
  <2> SUFFICES ASSUME NEW k \in Calls, step[k] \in {"read", "after"}
               PROVE  \E m \in since'[k] : Middle(k, m)'
    BY <1>2 DEF MiddleInv
  <2>1. PICK m \in since[k] : Middle(k, m) BY DEF MiddleInv
  <2>2. \A l \in Layers : m[l] \in Int BY VersionTypes
  <2>3. NotAfter(m, version)' BY <1>3, <2>1, <2>2 DEF Middle, NotAfter
  <2>4. \A c \in Calls : Under(c)' => Known(c, m)'
    BY <1>2, <1>4, <2>1, <2>2 DEF Middle, Under
  <2>5. \A l \in Layers : read[k][l] # Unread => m[l] <= read[k][l] /\ read[k][l] <= version'[l]
    BY <1>1, <2>1, <2>2, VersionTypes DEF Middle
  <2>6. Middle(k, m)' BY <1>2, <2>1, <2>3, <2>4, <2>5 DEF Middle, NotAfter
  <2> QED BY <1>2, <2>1, <2>6
<1>8. CacheInv'
  <2>1. \A l \in Layers : cache.layers[l] \in Int BY VersionTypes
  <2> QED BY <1>2, <1>3, <1>4, <2>1 DEF CacheInv, NotAfter, Under
<1>9. IdleInv' /\ AnswerInv'
  BY <1>2 DEF IdleInv, AnswerInv, Under
<1>10. LeaderInv'
  BY <1>2 DEF LeaderInv, Complete
<1> QED BY <1>5, <1>6, <1>7, <1>8, <1>9, <1>10

LEMMA BeginKeeps ==
  ASSUME LayersInv, NEW b \in Calls, Begin(b), ConfigTypeOK' PROVE LayersInv'
<1> USE DEF LayersInv
<1>1. /\ UNCHANGED <<version, seen, leader, step, before, read, after, pending, cache>>
      /\ pc[b] = "idle" /\ ~Under(b) /\ seen[b] = Nothing
  BY DEF Begin, world, loadState, IdleInv, Under
<1>2. CASE disposed
  <2>1. /\ since' = since /\ pc' = [pc EXCEPT ![b] = "done"]
        /\ answer' = [answer EXCEPT ![b] = Failure("shutdown")]
    BY <1>2 DEF Begin
  <2>10. pc'[b] = "done" /\ \A c \in Calls : c # b => pc'[c] = pc[c]
    BY <2>1 DEF ConfigTypeOK
  <2>2. /\ \A c \in Calls : Under(c)' <=> Under(c)
        /\ \A c \in Calls : c # b => pc'[c] = pc[c]
        /\ pc'[b] = "done"
    BY <1>1, <2>10 DEF Under
  <2>8. \A c \in Calls : \A m : Known(c, m)' = Known(c, m)
    BY <2>1 DEF Known
  <2>3. MomentsInv' BY <1>1, <2>1, <2>2 DEF MomentsInv, NotAfter
  <2>4. IdleInv' /\ LeaderInv'
    BY <1>1, <2>2 DEF IdleInv, LeaderInv, Complete
  <2>9. LoadInv'
    BY <1>1, <2>2 DEF LoadInv, Complete
  <2>5. MiddleInv'
    <3>1. \A k \in Calls : \A m : Middle(k, m)' = Middle(k, m)
      BY <1>1, <2>2, <2>8 DEF Middle, NotAfter
    <3> QED BY <1>1, <2>1, <3>1 DEF MiddleInv
  <2>6. CacheInv' BY <1>1, <2>2, <2>8 DEF CacheInv, NotAfter
  <2>7. AnswerInv' BY <1>1, <2>1, <2>2 DEF AnswerInv, Failure, ConfigTypeOK
  <2> QED BY <2>3, <2>4, <2>5, <2>6, <2>7, <2>9
<1>3. CASE ~disposed
  <2>1. /\ answer' = answer /\ pc' = [pc EXCEPT ![b] = "print"]
        /\ since' = [since EXCEPT ![b] = {version}]
    BY <1>3 DEF Begin
  <2>2. /\ \A c \in Calls : c # b => /\ Under(c)' = Under(c) /\ since'[c] = since[c]
                                    /\ \A m : Known(c, m)' = Known(c, m)
        /\ since'[b] = {version}
        /\ \A m : NotAfter(m, version) => Known(b, m)'
        /\ \A c \in Calls : pc[c] = "wait" <=> pc'[c] = "wait"
    BY <1>1, <2>1 DEF Under, ConfigTypeOK, Known, NotAfter
  <2>3. MomentsInv'
    <3>1. \A l \in Layers : seen[b][l] = Unread /\ Unread <= version[l] /\ version[l] <= version[l]
      BY <1>1, VersionTypes DEF Nothing, Unread
    <3> QED BY <1>1, <2>1, <2>2, <3>1 DEF MomentsInv, NotAfter
  <2>4. IdleInv' /\ LeaderInv' /\ LoadInv'
    BY <1>1, <2>1, <2>2 DEF IdleInv, LeaderInv, LoadInv, Complete, ConfigTypeOK
  <2>5. MiddleInv'
    <3> SUFFICES ASSUME NEW k \in Calls, step[k] \in {"read", "after"}
                 PROVE  \E m \in since'[k] : Middle(k, m)'
      BY <1>1 DEF MiddleInv
    <3>1. k # b BY <1>1 DEF LoadInv
    <3>2. PICK m \in since[k] : Middle(k, m) BY DEF MiddleInv
    <3>3. Middle(k, m)' BY <1>1, <2>2, <3>2 DEF Middle, NotAfter
    <3> QED BY <2>2, <3>1, <3>2, <3>3
  <2>6. CacheInv' BY <1>1, <2>1, <2>2 DEF CacheInv, NotAfter
  <2>7. AnswerInv' BY <1>1, <2>1 DEF AnswerInv, ConfigTypeOK
  <2> QED BY <2>3, <2>4, <2>5, <2>6, <2>7
<1> QED BY <1>2, <1>3

\* Steps of a call that leave the disk, the loads, the cache and the moments alone.
Calm == UNCHANGED <<version, step, before, read, after, cache, since>>

LEMMA CalmKeeps ==
  ASSUME LayersInv, Calm, \A c \in Calls : Under(c)' => Under(c)
  PROVE  MiddleInv' /\ CacheInv'
<1> USE DEF LayersInv
<1>1. \A c \in Calls : \A m : Known(c, m)' = Known(c, m) BY DEF Calm, Known
<1>2. \A k \in Calls : \A m : Middle(k, m) => Middle(k, m)' BY <1>1 DEF Calm, Middle, NotAfter
<1> QED BY <1>1, <1>2 DEF Calm, MiddleInv, CacheInv, NotAfter

LEMMA StampKeeps ==
  ASSUME LayersInv, NEW b \in Calls, NEW e \in Layers, Stamp(b, e), ConfigTypeOK'
  PROVE  LayersInv'
<1> USE DEF LayersInv
<1>1. /\ Calm /\ UNCHANGED <<pc, leader, answer, pending>> /\ pc[b] = "print"
      /\ seen' = [seen EXCEPT ![b][e] = version[e]] /\ \A c \in Calls : Under(c)' = Under(c)
  BY DEF Stamp, world, loadState, Calm, Under
<1>2. \A c \in Calls, l \in Layers : seen'[c][l] = IF c = b /\ l = e THEN version[e] ELSE seen[c][l]
  BY <1>1 DEF ConfigTypeOK, Prints
<1>3. \A c \in Calls : c # b => seen'[c] = seen[c]
  BY <1>1 DEF ConfigTypeOK
<1>4. MomentsInv'
  <2> SUFFICES ASSUME NEW c \in Calls, Under(c) PROVE
         /\ \E w \in since[c] : \A l \in Layers : seen'[c][l] # Unread => w[l] <= seen'[c][l]
         /\ \A l \in Layers : seen'[c][l] <= version[l]
    BY <1>1 DEF MomentsInv, Calm, NotAfter
  <2>1. PICK w \in since[c] : \A l \in Layers : seen[c][l] # Unread => w[l] <= seen[c][l]
    BY DEF MomentsInv
  <2>2. NotAfter(w, version) BY DEF MomentsInv
  <2>3. \A l \in Layers : seen'[c][l] # Unread => w[l] <= seen'[c][l]
    BY <1>2, <2>1, <2>2 DEF NotAfter
  <2>4. \A l \in Layers : seen'[c][l] <= version[l]
    BY <1>2, VersionTypes DEF MomentsInv
  <2> QED BY <2>3, <2>4
<1>5. IdleInv' BY <1>1, <1>3 DEF IdleInv
<1>6. LeaderInv'
  <2>1. \A k \in Calls : step[k] \in Active => k # b BY <1>1 DEF LeaderInv
  <2>2. \A c \in Calls : pc[c] = "wait" => c # b /\ leader[c] # b
    BY <1>1, <2>1 DEF LeaderInv
  <2> QED BY <1>1, <1>3, <2>1, <2>2 DEF LeaderInv, Calm, Complete, ConfigTypeOK
<1>7. LoadInv'
  <2>1. \A k \in Calls : step[k] \in Active => k # b BY <1>1 DEF LeaderInv
  <2> QED BY <1>1, <1>3, <2>1 DEF LoadInv, Calm, Complete, Active
<1>8. AnswerInv' BY <1>1 DEF AnswerInv, Calm
<1> QED BY <1>1, <1>4, <1>5, <1>6, <1>7, <1>8, CalmKeeps

LEMMA TakeCachedKeeps ==
  ASSUME LayersInv, NEW b \in Calls, TakeCached(b), ConfigTypeOK' PROVE LayersInv'
<1> USE DEF LayersInv
<1>1. /\ Calm /\ UNCHANGED <<seen, leader, pending>>
      /\ pc[b] = "print" /\ Complete(seen[b]) /\ cache.print = seen[b]
      /\ answer' = [answer EXCEPT ![b] = AnswerOf(cache)]
      /\ pc' = [pc EXCEPT ![b] = "done"]
  BY DEF TakeCached, world, loadState, Calm
<1>2. pc'[b] = "done" /\ \A c \in Calls : c # b => pc'[c] = pc[c]
  BY <1>1 DEF ConfigTypeOK
<1>3. \A c \in Calls : Under(c)' => Under(c) /\ c # b
  BY <1>2 DEF Under
<1>4. MomentsInv' BY <1>1, <1>3 DEF MomentsInv, Calm, NotAfter
<1>5. IdleInv' BY <1>1, <1>2 DEF IdleInv
<1>6. LeaderInv' BY <1>1, <1>2 DEF LeaderInv, Calm, Complete
<1>7. LoadInv' BY <1>1, <1>2 DEF LoadInv, Calm, Complete
<1>8. AnswerInv'
  <2>1. ASSUME cache.ok PROVE cache.layers \in since[b]
    <3>1. Under(b) BY <1>1 DEF Under
    <3>2. cache.layers = seen[b] /\ Known(b, cache.layers) BY <1>1, <2>1, <3>1 DEF CacheInv
    <3>3. cache.layers \in Prints BY DEF ConfigTypeOK, Entries
    <3>4. \A l \in Layers : seen[b][l] <= cache.layers[l] BY <3>2, VersionTypes
    <3> QED BY <1>1, <3>1, <3>2, <3>3, <3>4, KnownMeets DEF MomentsInv
  <2>2. answer'[b].ok => cache.ok /\ answer'[b].layers = cache.layers
    BY <1>1 DEF AnswerOf, Config, Failure, ConfigTypeOK
  <2>3. \A c \in Calls : c # b => answer'[c] = answer[c]
    BY <1>1 DEF ConfigTypeOK
  <2> QED BY <1>1, <1>2, <2>1, <2>2, <2>3 DEF AnswerInv, Calm
<1> QED BY <1>1, <1>3, <1>4, <1>5, <1>6, <1>7, <1>8, CalmKeeps

LEMMA JoinKeeps ==
  ASSUME LayersInv, NEW b \in Calls, Join(b), ConfigTypeOK' PROVE LayersInv'
<1> USE DEF LayersInv
<1>1. /\ Calm /\ UNCHANGED <<seen, answer, pending>>
      /\ pc[b] = "print" /\ pc' = [pc EXCEPT ![b] = "wait"]
  BY DEF Join, world, loadState, Calm
<1>2. PICK k \in pending : seen[k] = seen[b] /\ leader' = [leader EXCEPT ![b] = k]
  BY DEF Join
<1>3. /\ pc'[b] = "wait" /\ leader'[b] = k /\ k \in Calls /\ k # b
      /\ \A c \in Calls : c # b => pc'[c] = pc[c] /\ leader'[c] = leader[c]
  BY <1>1, <1>2 DEF ConfigTypeOK, LeaderInv
<1>4. \A c \in Calls : Under(c)' <=> Under(c)
  BY <1>1, <1>3 DEF Under
<1>5. MomentsInv' BY <1>1, <1>4 DEF MomentsInv, Calm, NotAfter
<1>6. IdleInv' BY <1>1, <1>3 DEF IdleInv
<1>7. LeaderInv'
  <2>1. step[k] \in Active /\ \A j \in Calls : step[j] \in Active => j # b
    BY <1>1 DEF LeaderInv
  <2>2. \A c \in Calls : pc'[c] = "wait" => step[leader'[c]] \in Active /\ seen[leader'[c]] = seen[c]
    BY <1>2, <1>3, <2>1 DEF LeaderInv
  <2>3. \A j \in Calls : step[j] \in Active => pc'[j] = "wait" /\ leader'[j] = j /\ Complete(seen[j])
    BY <1>3, <2>1 DEF LeaderInv
  <2> QED BY <1>1, <2>2, <2>3 DEF LeaderInv, Calm, Complete
<1>8. LoadInv' BY <1>1, <1>3 DEF LoadInv, Calm, Complete
<1>9. AnswerInv' BY <1>1, <1>3 DEF AnswerInv, Calm
<1> QED BY <1>1, <1>4, <1>5, <1>6, <1>7, <1>8, <1>9, CalmKeeps

LEMMA LeadKeeps ==
  ASSUME LayersInv, NEW b \in Calls, Lead(b), ConfigTypeOK' PROVE LayersInv'
<1> USE DEF LayersInv
<1>1. /\ UNCHANGED <<version, before, read, after, cache, since, seen, answer>>
      /\ pc[b] = "print" /\ Complete(seen[b]) /\ pending' = pending \cup {b}
      /\ pc' = [pc EXCEPT ![b] = "wait"] /\ leader' = [leader EXCEPT ![b] = b]
      /\ step' = [step EXCEPT ![b] = "before"]
  BY DEF Lead, world
<1>2. /\ pc'[b] = "wait" /\ leader'[b] = b /\ step'[b] = "before"
      /\ \A c \in Calls : c # b => pc'[c] = pc[c] /\ leader'[c] = leader[c] /\ step'[c] = step[c]
  BY <1>1 DEF ConfigTypeOK
<1>3. step[b] = "none" /\ \A j \in Calls : step[j] \in Active => j # b
  BY <1>1 DEF LoadInv, LeaderInv
<1>4. \A c \in Calls : Under(c)' <=> Under(c)
  BY <1>1, <1>2 DEF Under
<1>5. MomentsInv' BY <1>1, <1>4 DEF MomentsInv, NotAfter
<1>6. IdleInv' BY <1>1, <1>2 DEF IdleInv
<1>7. LeaderInv'
  <2>1. \A c \in Calls : pc'[c] = "wait" => step'[leader'[c]] \in Active /\ seen[leader'[c]] = seen[c]
    BY <1>2, <1>3 DEF LeaderInv, Active, ConfigTypeOK
  <2>2. \A j \in Calls : step'[j] \in Active => pc'[j] = "wait" /\ leader'[j] = j /\ Complete(seen[j])
    BY <1>1, <1>2 DEF LeaderInv
  <2>3. \A j \in pending' : step'[j] \in Active
    BY <1>1, <1>2 DEF LeaderInv, Active, ConfigTypeOK
  <2> QED BY <1>1, <2>1, <2>2, <2>3 DEF LeaderInv, Complete
<1>8. LoadInv'
  <2>1. before[b] = Nothing /\ read[b] = Nothing /\ after[b] = Nothing
    BY <1>3 DEF LoadInv
  <2> QED BY <1>1, <1>2, <2>1 DEF LoadInv, Complete, Nothing
<1>9. MiddleInv' /\ CacheInv'
  <2>1. \A c \in Calls : \A m : Known(c, m)' = Known(c, m) BY <1>1 DEF Known
  <2>2. \A k \in Calls : \A m : Middle(k, m) => Middle(k, m)' BY <1>1, <1>4, <2>1 DEF Middle, NotAfter
  <2> QED BY <1>1, <1>2, <1>4, <2>1, <2>2 DEF MiddleInv, CacheInv, NotAfter
<1>10. AnswerInv' BY <1>1, <1>2 DEF AnswerInv
<1> QED BY <1>5, <1>6, <1>7, <1>8, <1>9, <1>10

-----------------------------------------------------------------------------
(* The loads. *)

\* A step of the load of k alone, which does not end.
Loading(k) ==
  /\ UNCHANGED <<version, pc, seen, leader, answer, since, pending, cache>>
  /\ step[k] \in Active /\ step'[k] \in Active
  /\ \A j \in Calls : j # k => /\ step'[j] = step[j] /\ before'[j] = before[j]
                               /\ read'[j] = read[j] /\ after'[j] = after[j]

LEMMA LoadingKeeps ==
  ASSUME LayersInv, NEW k \in Calls, Loading(k)
  PROVE  /\ MomentsInv' /\ IdleInv' /\ LeaderInv' /\ CacheInv' /\ AnswerInv'
         /\ \A c \in Calls : \A m : Known(c, m) <=> Known(c, m)'
         /\ \A j \in Calls : j # k /\ step[j] \in {"read", "after"} => \E m \in since'[j] : Middle(j, m)'
<1> USE DEF LayersInv
<1>1. MomentsInv' BY DEF Loading, MomentsInv, Under, NotAfter
<1>2. IdleInv' BY DEF Loading, IdleInv
<1>3. LeaderInv' BY DEF Loading, LeaderInv, Complete, ConfigTypeOK
<1>4. \A c \in Calls : \A m : Known(c, m) <=> Known(c, m)' BY DEF Loading, Known, NotAfter
<1>5. CacheInv' BY <1>4 DEF Loading, CacheInv, NotAfter, Under
<1>6. AnswerInv' BY DEF Loading, AnswerInv
<1>7. ASSUME NEW j \in Calls, j # k, step[j] \in {"read", "after"}
      PROVE  \E m \in since'[j] : Middle(j, m)'
  <2>1. PICK m \in since[j] : Middle(j, m) BY <1>7 DEF MiddleInv
  <2>2. Middle(j, m)' BY <1>4, <1>7, <2>1 DEF Middle, Loading, NotAfter, Under
  <2> QED BY <2>1, <2>2 DEF Loading
<1> QED BY <1>1, <1>2, <1>3, <1>4, <1>5, <1>6, <1>7

LEMMA StatBeforeKeeps ==
  ASSUME LayersInv, NEW k \in Calls, NEW e \in Layers, StatBefore(k, e), ConfigTypeOK'
  PROVE  LayersInv'
<1> USE DEF LayersInv
<1>1. /\ UNCHANGED <<version, pc, seen, leader, answer, since, pending, cache, read, after>>
      /\ step[k] = "before" /\ before' = [before EXCEPT ![k][e] = version[e]]
      /\ step' = [step EXCEPT ![k] = IF Complete(before'[k]) THEN "read" ELSE @]
  BY DEF StatBefore, world, callState
<1>2. /\ step'[k] = IF Complete(before'[k]) THEN "read" ELSE "before"
      /\ \A j \in Calls : j # k => step'[j] = step[j] /\ before'[j] = before[j]
      /\ \A l \in Layers : before'[k][l] = IF l = e THEN version[e] ELSE before[k][l]
  BY <1>1 DEF ConfigTypeOK, Prints
<1>3. Loading(k) BY <1>1, <1>2 DEF Loading, Active
<1>4. pc[k] = "wait" /\ Under(k) BY <1>1 DEF LeaderInv, Active, Under
<1>5. \A l \in Layers : before'[k][l] # Unread => seen[k][l] <= before'[k][l] /\ before'[k][l] <= version[l]
  BY <1>1, <1>2, <1>4, VersionTypes DEF LoadInv, MomentsInv
<1>6. LoadInv'
  <2>1. \A j \in Calls : j # k =>
          /\ (step[j] = "none" => before'[j] = Nothing)
          /\ (step[j] \in {"read", "after"} => Complete(before'[j]))
    BY <1>2 DEF LoadInv
  <2>2. read[k] = Nothing /\ after[k] = Nothing BY <1>1 DEF LoadInv
  <2> QED BY <1>1, <1>2, <1>4, <1>5, <2>1, <2>2 DEF LoadInv, Complete
<1>7. MiddleInv'
  <2>1. ASSUME step'[k] = "read" PROVE \E m \in since'[k] : Middle(k, m)'
    <3>1. version \in since[k] /\ \A c \in Calls : Under(c) => Known(c, version)
      BY <1>4 DEF MomentsInv, Known
    <3>2. \A l \in Layers : read'[k][l] = Unread /\ after'[k][l] = Unread
      BY <1>1 DEF LoadInv, Nothing
    <3>3. NotAfter(before'[k], version) /\ NotAfter(version, version)
      BY <1>2, <1>5, <2>1, VersionTypes DEF Complete, NotAfter
    <3>4. Middle(k, version)' BY <1>1, <3>1, <3>2, <3>3 DEF Middle, NotAfter, Known, Under
    <3> QED BY <1>1, <3>1, <3>4
  <2>2. step'[k] # "after" BY <1>2
  <2> QED BY <1>2, <1>3, <2>1, <2>2, LoadingKeeps DEF MiddleInv
<1> QED BY <1>3, <1>6, <1>7, LoadingKeeps

LEMMA ReadLayerKeeps ==
  ASSUME LayersInv, NEW k \in Calls, NEW e \in Layers, ReadLayer(k, e), ConfigTypeOK'
  PROVE  LayersInv'
<1> USE DEF LayersInv
<1>1. /\ UNCHANGED <<version, pc, seen, leader, answer, since, pending, cache, before, after>>
      /\ step[k] = "read" /\ read' = [read EXCEPT ![k][e] = version[e]]
      /\ step'[k] \in {"read", "after", "failed"} /\ (step'[k] = "after" => Complete(read'[k]))
      /\ \A j \in Calls : j # k => step'[j] = step[j]
  BY DEF ReadLayer, world, callState, ConfigTypeOK
<1>2. /\ \A j \in Calls : j # k => read'[j] = read[j]
      /\ \A l \in Layers : read'[k][l] = IF l = e THEN version[e] ELSE read[k][l]
  BY <1>1 DEF ConfigTypeOK, Prints
<1>3. Loading(k) BY <1>1, <1>2 DEF Loading, Active
<1>4. pc[k] = "wait" BY <1>1 DEF LeaderInv, Active
<1>5. after[k] = Nothing BY <1>1 DEF LoadInv
<1>6. LoadInv'
  <2>1. Complete(before[k]) BY <1>1 DEF LoadInv
  <2> QED BY <1>1, <1>2, <1>4, <1>5, <2>1 DEF LoadInv, Complete
<1>7. \E m \in since'[k] : Middle(k, m)'
  <2>1. PICK m \in since[k] : Middle(k, m) BY <1>1 DEF MiddleInv
  <2>2. \A l \in Layers : m[l] <= version[l] BY <2>1 DEF Middle, NotAfter
  <2>3. \A l \in Layers : read'[k][l] # Unread => m[l] <= read'[k][l] /\ read'[k][l] <= version[l]
    BY <1>2, <2>1, <2>2, VersionTypes DEF Middle
  <2>4. \A l \in Layers : after'[k][l] = Unread BY <1>1, <1>5 DEF Nothing
  <2>5. Middle(k, m)' BY <1>1, <1>3, <2>1, <2>3, <2>4, LoadingKeeps DEF Middle, NotAfter, Under
  <2> QED BY <1>1, <2>1, <2>5
<1>8. MiddleInv' BY <1>1, <1>3, <1>7, LoadingKeeps DEF MiddleInv
<1> QED BY <1>3, <1>6, <1>8, LoadingKeeps

LEMMA StatAfterKeeps ==
  ASSUME LayersInv, NEW k \in Calls, NEW e \in Layers, StatAfter(k, e), ConfigTypeOK'
  PROVE  LayersInv'
<1> USE DEF LayersInv
<1>1. /\ UNCHANGED <<version, pc, seen, leader, answer, since, pending, cache, step, before, read>>
      /\ step[k] \in {"after", "failed"} /\ after' = [after EXCEPT ![k][e] = version[e]]
  BY DEF StatAfter, world, callState
<1>2. /\ \A j \in Calls : j # k => after'[j] = after[j]
      /\ \A l \in Layers : after'[k][l] = IF l = e THEN version[e] ELSE after[k][l]
  BY <1>1 DEF ConfigTypeOK, Prints
<1>3. Loading(k) BY <1>1, <1>2 DEF Loading, Active
<1>4. LoadInv' BY <1>1, <1>2 DEF LoadInv, Complete
<1>5. ASSUME step[k] = "after" PROVE \E m \in since'[k] : Middle(k, m)'
  <2>1. PICK m \in since[k] : Middle(k, m) BY <1>5 DEF MiddleInv
  <2>2. \A l \in Layers : read[k][l] <= version[l] BY <1>5, <2>1 DEF Middle, LoadInv, Complete
  <2>3. \A l \in Layers : after'[k][l] # Unread => read'[k][l] <= after'[k][l]
    BY <1>1, <1>2, <2>1, <2>2 DEF Middle
  <2>4. Middle(k, m)' BY <1>1, <1>3, <2>1, <2>3, LoadingKeeps DEF Middle, NotAfter, Under
  <2> QED BY <1>1, <2>1, <2>4
<1>6. MiddleInv' BY <1>1, <1>3, <1>5, LoadingKeeps DEF MiddleInv
<1> QED BY <1>3, <1>4, <1>6, LoadingKeeps

LEMMA AgainKeeps ==
  ASSUME LayersInv, NEW k \in Calls, Restart(k) \/ Refuse(k), ConfigTypeOK' PROVE LayersInv'
<1> USE DEF LayersInv
<1>1. /\ UNCHANGED <<version, pc, seen, leader, answer, since, pending, cache>>
      /\ step[k] = "after" /\ step'[k] \in {"before", "failed"}
      /\ step'[k] = "before" => before'[k] = Nothing /\ read'[k] = Nothing /\ after'[k] = Nothing
      /\ \A j \in Calls : j # k => /\ step'[j] = step[j] /\ before'[j] = before[j]
                                   /\ read'[j] = read[j] /\ after'[j] = after[j]
  BY DEF Restart, Refuse, world, callState, ConfigTypeOK
<1>2. Loading(k) BY <1>1 DEF Loading, Active
<1>3. pc[k] = "wait" BY <1>1 DEF LeaderInv, Active
<1>4. LoadInv' BY <1>1, <1>3 DEF LoadInv, Complete, Nothing
<1>5. MiddleInv' BY <1>1, <1>2, LoadingKeeps DEF MiddleInv
<1> QED BY <1>2, <1>4, <1>5, LoadingKeeps

LEMMA SettleKeeps ==
  ASSUME LayersInv, NEW k \in Calls, step[k] \in Active, NEW e \in Entries, NEW kept \in BOOLEAN,
         Settle(k, e, kept), ConfigTypeOK',
         e.ok => /\ e.layers = e.print /\ NotAfter(e.layers, version)
                 /\ \A c \in Calls : Under(c) => Known(c, e.layers)
                 /\ \A c \in Calls : pc[c] = "wait" /\ leader[c] = k => e.layers \in since[c]
  PROVE  LayersInv'
<1> USE DEF LayersInv
<1>1. /\ UNCHANGED <<version, seen, leader, before, read, after, since>>
      /\ step'[k] = "ended" /\ \A j \in Calls : j # k => step'[j] = step[j]
      /\ pending' = pending \ {k}
      /\ \A c \in Calls : pc'[c] = IF pc[c] = "wait" /\ leader[c] = k THEN "done" ELSE pc[c]
      /\ cache' \in {e, cache}
  BY DEF Settle, world, ConfigTypeOK
<1>2. \A c \in Calls : Under(c)' => Under(c)
  BY <1>1 DEF Under
<1>3. \A c \in Calls : \A m : Known(c, m) <=> Known(c, m)'
  BY <1>1 DEF Known, NotAfter
<1>4. MomentsInv' BY <1>1, <1>2 DEF MomentsInv, NotAfter
<1>5. IdleInv' BY <1>1 DEF IdleInv
<1>6. LeaderInv'
  <2>1. \A j \in Calls : step'[j] \in Active => pc'[j] = "wait" /\ leader[j] = j /\ Complete(seen[j])
    BY <1>1 DEF LeaderInv, Active
  <2>2. \A c \in Calls : pc'[c] = "wait" => step'[leader[c]] \in Active /\ seen[leader[c]] = seen[c]
    BY <1>1 DEF LeaderInv, ConfigTypeOK
  <2>3. \A j \in pending' : step'[j] \in Active
    BY <1>1 DEF LeaderInv, ConfigTypeOK
  <2> QED BY <1>1, <2>1, <2>2, <2>3 DEF LeaderInv, Complete
<1>7. LoadInv'
  <2>1. pc[k] = "wait" /\ leader[k] = k BY DEF LeaderInv
  <2>2. pc'[k] = "done" BY <1>1, <2>1
  <2>3. \A j \in Calls : j # k => step'[j] = step[j] BY <1>1
  <2> QED BY <1>1, <2>1, <2>2, <2>3 DEF LoadInv, Complete
<1>8. MiddleInv'
  <2> SUFFICES ASSUME NEW j \in Calls, step'[j] \in {"read", "after"}
               PROVE  \E m \in since'[j] : Middle(j, m)'
    BY DEF MiddleInv
  <2>1. step[j] \in {"read", "after"} BY <1>1
  <2>2. PICK m \in since[j] : Middle(j, m) BY <2>1 DEF MiddleInv
  <2>3. Middle(j, m)' BY <1>1, <1>2, <1>3, <2>2 DEF Middle, NotAfter
  <2> QED BY <1>1, <2>2, <2>3
<1>9. CacheInv'
  <2>1. CASE cache' = e BY <1>1, <1>2, <1>3, <2>1 DEF CacheInv, NotAfter
  <2>2. CASE cache' = cache BY <1>1, <1>2, <1>3, <2>2 DEF CacheInv, NotAfter
  <2> QED BY <1>1, <2>1, <2>2
<1>10. AnswerInv'
  <2> SUFFICES ASSUME NEW c \in Calls, answer'[c].ok PROVE pc'[c] = "done" /\ answer'[c].layers \in since[c]
    BY <1>1 DEF AnswerInv
  <2>1. CASE pc[c] = "wait" /\ leader[c] = k
    <3>1. answer'[c] = IF disposed THEN Failure("shutdown") ELSE AnswerOf(e)
      BY <2>1 DEF Settle
    <3>2. Failure("shutdown").ok = FALSE /\ Failure("config").ok = FALSE BY DEF Failure
    <3>3. answer'[c] = AnswerOf(e)
      <4>1. CASE disposed
        <5>1. answer'[c] = Failure("shutdown") BY <3>1, <4>1
        <5> QED BY <3>2, <5>1
      <4>2. CASE ~disposed BY <3>1, <4>2
      <4> QED BY <4>1, <4>2
    <3>4. e.ok
      <4>1. CASE ~e.ok
        <5>1. answer'[c] = Failure("config") BY <3>3, <4>1 DEF AnswerOf
        <5> QED BY <3>2, <5>1
      <4> QED BY <4>1
    <3>5. answer'[c].layers = e.layers BY <3>3, <3>4 DEF AnswerOf, Config
    <3> QED BY <1>1, <2>1, <3>4, <3>5
  <2>2. CASE ~(pc[c] = "wait" /\ leader[c] = k)
    <3>1. answer'[c] = answer[c] BY <2>2 DEF Settle
    <3> QED BY <1>1, <2>2, <3>1 DEF AnswerInv
  <2> QED BY <2>1, <2>2
<1> QED BY <1>4, <1>5, <1>6, <1>7, <1>8, <1>9, <1>10

\* The fingerprints around the layers are equal: the layers are the middle moment.
LEMMA SucceedKeeps ==
  ASSUME LayersInv, NEW k \in Calls, Succeed(k), ConfigTypeOK' PROVE LayersInv'
<1> USE DEF LayersInv
<1> DEFINE e == [print |-> after[k], ok |-> TRUE, layers |-> read[k]]
<1>1. step[k] = "after" /\ Complete(after[k]) /\ before[k] = after[k] /\ Settle(k, e, TRUE)
  BY DEF Succeed, Stable
<1>2. PICK m \in since[k] : Middle(k, m) BY <1>1 DEF MiddleInv
<1>3. m \in Versions BY DEF ConfigTypeOK
<1>4. Complete(read[k]) BY <1>1 DEF LoadInv
<1>5. \A l \in Layers : m[l] = read[k][l] /\ m[l] = after[k][l] /\ m[l] = before[k][l]
  <2> TAKE l \in Layers
  <2>1. m[l] \in Int BY <1>3 DEF Versions
  <2>2. before[k][l] <= m[l] /\ m[l] <= read[k][l] /\ read[k][l] <= after[k][l]
    BY <1>1, <1>2, <1>4 DEF Middle, NotAfter, Complete
  <2> QED BY <1>1, <2>1, <2>2, VersionTypes
<1>6. read[k] \in Prints /\ after[k] \in Prints BY DEF ConfigTypeOK
<1>7. m = read[k] /\ m = after[k] BY <1>3, <1>5, <1>6, EqualVersions
<1>8. e \in Entries BY <1>6 DEF Entries
<1>9. ASSUME NEW c \in Calls, pc[c] = "wait", leader[c] = k PROVE m \in since[c]
  <2>1. Under(c) /\ seen[c] = seen[k] /\ Complete(seen[k])
    BY <1>1, <1>9 DEF LeaderInv, Under, Active
  <2>2. \A l \in Layers : seen[c][l] <= m[l]
    BY <1>1, <1>5, <2>1 DEF LoadInv, Complete
  <2>3. Known(c, m) BY <1>2, <2>1 DEF Middle
  <2> QED BY <1>6, <1>7, <2>1, <2>2, <2>3, KnownMeets DEF MomentsInv
<1>10. NotAfter(m, version) /\ \A c \in Calls : Under(c) => Known(c, m)
  BY <1>2 DEF Middle
<1>11. e.layers = m /\ e.print = m BY <1>7
<1> HIDE DEF e
<1> QED BY <1>1, <1>8, <1>9, <1>10, <1>11, SettleKeeps DEF Active

LEMMA FailKeeps ==
  ASSUME LayersInv, NEW k \in Calls, Fail(k), ConfigTypeOK' PROVE LayersInv'
<1> USE DEF LayersInv
<1> DEFINE e == [print |-> after[k], ok |-> FALSE, layers |-> Nothing]
<1>1. step[k] = "failed" /\ Settle(k, e, keeps) /\ keeps \in BOOLEAN
  BY DEF Fail, ConfigTypeOK
<1>2. e \in Entries /\ ~e.ok BY NothingIsPrint DEF Entries, ConfigTypeOK
<1> HIDE DEF e
<1> QED BY <1>1, <1>2, SettleKeeps DEF Active

LEMMA DisposeKeeps == ASSUME LayersInv, Dispose, ConfigTypeOK' PROVE LayersInv'
<1> USE DEF LayersInv
<1>1. /\ UNCHANGED <<version, pc, seen, leader, answer, since, step, before, read, after>>
      /\ pending' = {} /\ ~cache'.ok
  BY DEF Dispose, NoEntry, world, callState, loadState
<1>2. \A c \in Calls : \A m : Known(c, m) <=> Known(c, m)'
  BY <1>1 DEF Known, NotAfter
<1>3. \A j \in Calls : \A m : Middle(j, m) <=> Middle(j, m)'
  BY <1>1, <1>2 DEF Middle, NotAfter, Under
<1>4. MomentsInv' /\ IdleInv' BY <1>1 DEF MomentsInv, IdleInv, Under, NotAfter
<1>5. LeaderInv' /\ LoadInv' BY <1>1 DEF LeaderInv, LoadInv, Complete
<1>6. MiddleInv' /\ CacheInv' /\ AnswerInv'
  BY <1>1, <1>3 DEF MiddleInv, CacheInv, AnswerInv
<1> QED BY <1>4, <1>5, <1>6

-----------------------------------------------------------------------------
LEMMA LayersInit == ConfigInit => LayersInv
<1> SUFFICES ASSUME ConfigInit PROVE LayersInv OBVIOUS
<1>1. ConfigTypeOK
  <2>1. version \in Versions BY DEF ConfigInit, Versions
  <2>2. NoAnswer \in Answers /\ NoEntry \in Entries /\ Nothing \in Prints
    BY NothingIsPrint DEF NoAnswer, Answers, NoEntry, Entries
  <2>3. 0 \in 0 .. MaxAttempts BY LayersAssumption
  <2>4. broken \in [{"syntax", "schema"} -> SUBSET (Layers \X Nat)] BY DEF ConfigInit
  <2> QED BY <2>1, <2>2, <2>3, <2>4 DEF ConfigInit, ConfigTypeOK
<1>2. \A c \in Calls : pc[c] = "idle" /\ step[c] = "none" /\ ~answer[c].ok
  BY DEF ConfigInit, NoAnswer
<1>3. MomentsInv /\ IdleInv /\ LeaderInv
  BY <1>2 DEF ConfigInit, MomentsInv, IdleInv, LeaderInv, Under, Active
<1>4. LoadInv /\ MiddleInv /\ CacheInv /\ AnswerInv
  BY <1>2 DEF ConfigInit, LoadInv, MiddleInv, CacheInv, AnswerInv, NoEntry
<1> QED BY <1>1, <1>3, <1>4 DEF LayersInv

LEMMA LayersInductive == LayersInv /\ [ConfigNext]_configVars => LayersInv'
<1> SUFFICES ASSUME LayersInv, [ConfigNext]_configVars PROVE LayersInv' OBVIOUS
<1>0. ConfigTypeOK' BY TypeInductive DEF LayersInv
<1>1. CASE \E l \in Layers : Edit(l) BY <1>0, <1>1, EditKeeps
<1>2. ASSUME NEW c \in Calls, Begin(c) \/ CallStep(c) PROVE LayersInv'
  BY <1>0, <1>2, BeginKeeps, StampKeeps, TakeCachedKeeps, JoinKeeps, LeadKeeps DEF CallStep
<1>3. ASSUME NEW k \in Calls, LoadStep(k) PROVE LayersInv'
  BY <1>0, <1>3, StatBeforeKeeps, ReadLayerKeeps, StatAfterKeeps, AgainKeeps, SucceedKeeps,
     FailKeeps DEF LoadStep
<1>4. CASE Dispose BY <1>0, <1>4, DisposeKeeps
<1>5. CASE UNCHANGED configVars
  <2> USE <1>5 DEF configVars, world, callState, loadState
  <2>1. \A c \in Calls : \A m : Known(c, m) <=> Known(c, m)' BY DEF Known, NotAfter
  <2>2. \A j \in Calls : \A m : Middle(j, m) <=> Middle(j, m)' BY <2>1 DEF Middle, NotAfter, Under
  <2>3. MomentsInv' /\ IdleInv' BY DEF LayersInv, MomentsInv, IdleInv, Under, NotAfter
  <2>4. LeaderInv' /\ LoadInv' BY DEF LayersInv, LeaderInv, LoadInv, Complete
  <2>5. MiddleInv' /\ CacheInv' /\ AnswerInv'
    BY <2>1, <2>2 DEF LayersInv, MiddleInv, CacheInv, AnswerInv, Under, NotAfter
  <2> QED BY <1>0, <2>3, <2>4, <2>5 DEF LayersInv
<1> QED BY <1>1, <1>2, <1>3, <1>4, <1>5 DEF ConfigNext

\* The configuration a call is given is that of one moment since the call began, for any
\* calls, layers, attempts and edits (config-loader.ts:121, config.ts of the file and web
\* tools).
THEOREM ConfigsOfOneMoment == ConfigSpec => []ConfigOfOneMoment
<1>1. LayersInv => ConfigOfOneMoment BY DEF LayersInv, AnswerInv, ConfigOfOneMoment
<1> QED BY <1>1, LayersInit, LayersInductive, PTL DEF ConfigSpec

-----------------------------------------------------------------------------
(* What the cache keeps besides the configurations that were handed out. *)

Bad(l, n) == <<l, n>> \in broken.syntax \cup broken.schema
\* What is on disk now is the last of the versions anybody has seen.
PastInv ==
  /\ \A c \in Calls : IsFiniteSet(since[c]) /\ \A w \in since[c] : NotAfter(w, version)
  /\ \A k \in Calls, l \in Layers : after[k][l] <= version[l]
\* A load goes on with layers that parse; it fails only when a layer has changed since its
\* fingerprint was taken, or was broken then.
ParsedInv ==
  \A k \in Calls : step[k] \in {"read", "after"} =>
    \A l \in Layers : read[k][l] # Unread => <<l, read[k][l]>> \notin broken.syntax
ReasonInv ==
  \A k \in Calls : step[k] = "failed" =>
    \E l \in Layers : version[l] > seen[k][l] \/ Bad(l, seen[k][l])
\* The cache of the web tools holds no failure.
KeptInv ==
  /\ cache.ok => \A l \in Layers : ~Bad(l, cache.layers[l])
  /\ ~keeps => cache.ok \/ cache.print = Nothing
DoneInv == \A c \in Calls : answer[c].why = "config" => pc[c] = "done"

SoundInv ==
  PastInv /\ ParsedInv /\ ReasonInv /\ KeptInv /\ DoneInv /\ OnlyValidConfigs /\ KeptFailuresAside

LEMMA TwoMoments ==
  ASSUME NEW S, IsFiniteSet(S), NEW v \in S, NEW w \in S, v # w PROVE Cardinality(S) > 1
<1>1. IsFiniteSet({v}) /\ Cardinality({v}) = 1
  BY FS_Singleton
<1>2. w \notin {v}
  OBVIOUS
<1>3. IsFiniteSet({v} \cup {w}) /\ Cardinality({v} \cup {w}) = Cardinality({v}) + 1
  BY <1>1, <1>2, FS_AddElement
<1>4. Cardinality({v} \cup {w}) <= Cardinality(S) /\ Cardinality(S) \in Nat
  <2>1. {v} \cup {w} \subseteq S
    OBVIOUS
  <2> QED BY <2>1, FS_Subset, FS_CardinalityType
<1>5. Cardinality({v} \cup {w}) = 2
  BY <1>1, <1>3
<1> QED BY <1>4, <1>5

\* A call whose load failed for a reason has that reason itself: it has the fingerprint of
\* the load, and what its fingerprint says was on disk since it began.
LEMMA ReasonIsOwn ==
  ASSUME LayersInv, PastInv, ReasonInv, NEW k \in Calls, step[k] = "failed",
         NEW c \in Calls, pc[c] = "wait", leader[c] = k
  PROVE  \/ Cardinality(since[c]) > 1
         \/ \E v \in since[c], l \in Layers : Bad(l, v[l])
<1> USE DEF LayersInv
<1>1. seen[c] = seen[k] /\ Complete(seen[c]) /\ Under(c)
  BY DEF LeaderInv, Active, Under
<1>2. PICK l \in Layers : version[l] > seen[c][l] \/ Bad(l, seen[c][l])
  BY <1>1 DEF ReasonInv
<1>3. PICK w \in since[c] : w[l] <= seen[c][l]
  BY <1>1 DEF MomentsInv, Complete
<1>4. version \in since[c] /\ seen[c][l] <= version[l]
  BY <1>1 DEF MomentsInv
<1>5. w[l] \in Int /\ seen[c][l] \in Int /\ version[l] \in Int
  BY VersionTypes
<1>6. CASE version[l] # w[l]
  <2>1. version # w
    BY <1>6
  <2> QED BY <1>3, <1>4, <2>1, TwoMoments DEF PastInv
<1>7. CASE version[l] = w[l]
  <2>1. version[l] = seen[c][l]
    BY <1>3, <1>4, <1>5, <1>7
  <2>2. Bad(l, version[l])
    BY <1>2, <1>5, <2>1
  <2> QED BY <1>4, <2>2
<1> QED BY <1>6, <1>7

\* Steps after which the world, the answers, the cache and the moments are as before.
Silent == UNCHANGED <<world, answer, cache, since>>
LEMMA SilentKeeps ==
  ASSUME LayersInv, SoundInv, Silent, \A c \in Calls : pc[c] = "done" => pc'[c] = "done"
  PROVE  KeptInv' /\ DoneInv' /\ OnlyValidConfigs' /\ KeptFailuresAside'
         /\ \A c \in Calls : IsFiniteSet(since'[c]) /\ \A w \in since'[c] : NotAfter(w, version)'
<1> USE DEF SoundInv, Silent, world
<1>1. KeptInv'
  BY DEF KeptInv, Bad
<1>2. DoneInv'
  BY DEF DoneInv
<1>3. OnlyValidConfigs'
  BY DEF OnlyValidConfigs
<1>4. KeptFailuresAside'
  BY DEF KeptFailuresAside, FailuresFollowTheFiles, RefusedForAReason
<1> QED BY <1>1, <1>2, <1>3, <1>4 DEF PastInv, NotAfter

LEMMA SoundEdit ==
  ASSUME LayersInv, SoundInv, NEW e \in Layers, Edit(e), LayersInv' PROVE SoundInv'
<1> USE DEF SoundInv, LayersInv
<1>1. /\ UNCHANGED <<keeps, pc, seen, leader, answer, step, before, read, after, cache>>
      /\ \A c \in Calls : since'[c] = IF Under(c) THEN since[c] \cup {version'} ELSE since[c]
  BY DEF Edit, callState, loadState, Under, ConfigTypeOK
<1>2. \A l \in Layers : version[l] \in Nat /\ version'[l] \in Nat /\ version[l] <= version'[l]
  BY VersionTypes, EditIsVersion DEF Edit, ConfigTypeOK, Versions
<1>3. /\ broken.syntax \subseteq broken'.syntax /\ broken.schema \subseteq broken'.schema
      /\ \A l \in Layers, n \in Int : n <= version[l] =>
           /\ <<l, n>> \in broken'.syntax => <<l, n>> \in broken.syntax
           /\ <<l, n>> \in broken'.schema => <<l, n>> \in broken.schema
  <2>1. PICK how \in {"good", "syntax", "schema"} :
          broken' = IF how = "good" THEN broken
                    ELSE [broken EXCEPT ![how] = @ \cup {<<e, version[e] + 1>>}]
    BY DEF Edit
  <2>2. /\ broken'.syntax = broken.syntax \/ broken'.syntax = broken.syntax \cup {<<e, version[e] + 1>>}
        /\ broken'.schema = broken.schema \/ broken'.schema = broken.schema \cup {<<e, version[e] + 1>>}
    BY <2>1 DEF ConfigTypeOK
  <2>3. \A l \in Layers, n \in Int : n <= version[l] => <<l, n>> # <<e, version[e] + 1>>
    BY <1>2
  <2> QED BY <2>2, <2>3
<1>4. \A l \in Layers, n \in Int : n <= version[l] => (Bad(l, n)' <=> Bad(l, n))
  BY <1>3 DEF Bad
<1>5. PastInv'
  <2>1. ASSUME NEW c \in Calls PROVE IsFiniteSet(since'[c]) /\ \A w \in since'[c] : NotAfter(w, version')
    <3>1. IsFiniteSet(since[c] \cup {version'})
      BY FS_AddElement DEF PastInv
    <3>2. \A w \in since[c] : NotAfter(w, version')
      BY <1>2, VersionTypes DEF PastInv, NotAfter
    <3>3. NotAfter(version', version')
      BY <1>2 DEF NotAfter
    <3> QED BY <1>1, <3>1, <3>2, <3>3 DEF PastInv
  <2>2. \A k \in Calls, l \in Layers : after'[k][l] <= version'[l]
    BY <1>1, <1>2, VersionTypes DEF PastInv
  <2> QED BY <2>1, <2>2 DEF PastInv, NotAfter
<1>6. ParsedInv'
  <2> SUFFICES ASSUME NEW k \in Calls, step[k] \in {"read", "after"}, NEW l \in Layers, read[k][l] # Unread
               PROVE  <<l, read[k][l]>> \notin broken'.syntax
    BY <1>1 DEF ParsedInv
  <2>1. PICK m \in since[k] : Middle(k, m)
    BY DEF MiddleInv
  <2>2. read[k][l] \in Int /\ read[k][l] <= version[l]
    BY <2>1, VersionTypes DEF Middle
  <2> QED BY <1>3, <2>2 DEF ParsedInv
<1>7. ReasonInv'
  <2> SUFFICES ASSUME NEW k \in Calls, step[k] = "failed"
               PROVE  \E l \in Layers : version'[l] > seen[k][l] \/ Bad(l, seen[k][l])'
    BY <1>1 DEF ReasonInv, Bad
  <2>1. PICK l \in Layers : version[l] > seen[k][l] \/ Bad(l, seen[k][l])
    BY DEF ReasonInv
  <2>2. Bad(l, seen[k][l]) => Bad(l, seen[k][l])'
    BY <1>1, <1>3 DEF Bad
  <2> QED BY <1>2, <2>1, <2>2, VersionTypes
<1>8. KeptInv'
  <2>1. \A l \in Layers : cache.ok => cache.layers[l] \in Int /\ cache.layers[l] <= version[l]
    BY VersionTypes DEF CacheInv, NotAfter
  <2> QED BY <1>1, <1>4, <2>1 DEF KeptInv, Bad
<1>9. DoneInv'
  BY <1>1 DEF DoneInv
<1>10. OnlyValidConfigs'
  <2> SUFFICES ASSUME NEW c \in Calls, answer[c].ok, NEW l \in Layers
               PROVE  ~Bad(l, answer[c].layers[l])'
    BY <1>1 DEF OnlyValidConfigs, Bad
  <2>1. answer[c].layers \in since[c]
    BY DEF AnswerInv
  <2>2. answer[c].layers[l] \in Int /\ answer[c].layers[l] <= version[l]
    BY <2>1, VersionTypes DEF PastInv, NotAfter
  <2>3. ~Bad(l, answer[c].layers[l])
    BY DEF OnlyValidConfigs, Bad
  <2> QED BY <1>1, <1>3, <2>2, <2>3 DEF Bad
<1>11. KeptFailuresAside'
  <2> SUFFICES ASSUME ~keeps, NEW c \in Calls, answer[c].why = "config"
               PROVE  RefusedForAReason(c)'
    BY <1>1 DEF KeptFailuresAside, FailuresFollowTheFiles, RefusedForAReason
  <2>1. since'[c] = since[c] /\ RefusedForAReason(c)
    BY <1>1 DEF DoneInv, Under, KeptFailuresAside, FailuresFollowTheFiles
  <2> QED BY <1>1, <1>3, <2>1 DEF RefusedForAReason
<1> QED BY <1>5, <1>6, <1>7, <1>8, <1>9, <1>10, <1>11

LEMMA SoundBegin ==
  ASSUME LayersInv, SoundInv, NEW b \in Calls, Begin(b), LayersInv' PROVE SoundInv'
<1> USE DEF SoundInv, LayersInv
<1>1. /\ UNCHANGED <<version, broken, keeps, seen, leader, step, before, read, after, cache>>
      /\ pc[b] = "idle" /\ \A c \in Calls : c # b => pc'[c] = pc[c]
  BY DEF Begin, world, loadState, ConfigTypeOK
<1>2. /\ \A c \in Calls : c # b => since'[c] = since[c] /\ answer'[c] = answer[c]
      /\ since'[b] \in {since[b], {version}}
  BY DEF Begin, ConfigTypeOK
<1>3. answer[b].why # "config" /\ answer'[b] \in {answer[b], Failure("shutdown")}
  BY <1>1 DEF Begin, DoneInv, ConfigTypeOK
<1>4. ~Failure("shutdown").ok /\ Failure("shutdown").why # "config"
  BY DEF Failure
<1>5. answer'[b].why # "config" /\ (answer'[b].ok => answer'[b] = answer[b])
  BY <1>3, <1>4
<1>6. PastInv'
  <2>1. IsFiniteSet({version})
    BY FS_Singleton
  <2>2. NotAfter(version, version)
    BY VersionTypes DEF NotAfter
  <2> QED BY <1>1, <1>2, <2>1, <2>2 DEF PastInv, NotAfter
<1>7. ParsedInv' /\ ReasonInv' /\ KeptInv'
  BY <1>1 DEF ParsedInv, ReasonInv, KeptInv, Bad
<1>8. DoneInv'
  BY <1>1, <1>2, <1>5 DEF DoneInv
<1>9. OnlyValidConfigs'
  BY <1>1, <1>2, <1>5 DEF OnlyValidConfigs
<1>10. KeptFailuresAside'
  BY <1>1, <1>2, <1>5 DEF KeptFailuresAside, FailuresFollowTheFiles, RefusedForAReason
<1> QED BY <1>6, <1>7, <1>8, <1>9, <1>10

LEMMA SoundStamp ==
  ASSUME LayersInv, SoundInv, NEW b \in Calls, NEW e \in Layers, Stamp(b, e), LayersInv'
  PROVE  SoundInv'
<1> USE DEF SoundInv, LayersInv
<1>1. Silent /\ UNCHANGED <<pc, step, before, read, after>> /\ pc[b] = "print"
  BY DEF Stamp, Silent, loadState
<1>2. \A c \in Calls : c # b => seen'[c] = seen[c]
  BY DEF Stamp, ConfigTypeOK
<1>3. ReasonInv'
  <2>1. \A k \in Calls : step[k] = "failed" => k # b
    BY <1>1 DEF LeaderInv, Active
  <2> QED BY <1>1, <1>2, <2>1 DEF ReasonInv, Silent, world, Bad
<1>4. ParsedInv' /\ PastInv'
  BY <1>1, SilentKeeps DEF ParsedInv, PastInv, Silent, world
<1> QED BY <1>1, <1>3, <1>4, SilentKeeps

LEMMA SoundJoin ==
  ASSUME LayersInv, SoundInv, NEW b \in Calls, Join(b) \/ Lead(b), LayersInv' PROVE SoundInv'
<1> USE DEF SoundInv, LayersInv
<1>1. /\ Silent /\ UNCHANGED <<seen, before, read, after>> /\ pc[b] = "print"
      /\ \A c \in Calls : pc[c] = "done" => pc'[c] = "done"
      /\ \A k \in Calls : step'[k] = step[k] \/ step'[k] = "before"
  BY DEF Join, Lead, Silent, loadState, ConfigTypeOK
<1>2. ReasonInv' /\ ParsedInv' /\ PastInv'
  BY <1>1, SilentKeeps DEF ReasonInv, ParsedInv, PastInv, Silent, world, Bad
<1> QED BY <1>1, <1>2, SilentKeeps

LEMMA SoundTake ==
  ASSUME LayersInv, SoundInv, NEW b \in Calls, TakeCached(b), LayersInv' PROVE SoundInv'
<1> USE DEF SoundInv, LayersInv
<1>1. /\ UNCHANGED <<world, cache, seen, step, before, read, after, since>>
      /\ pc[b] = "print" /\ Complete(seen[b]) /\ cache.print = seen[b]
      /\ pc'[b] = "done" /\ answer'[b] = AnswerOf(cache)
      /\ \A c \in Calls : c # b => pc'[c] = pc[c] /\ answer'[c] = answer[c]
  BY DEF TakeCached, loadState, ConfigTypeOK
<1>2. PastInv' /\ ParsedInv' /\ ReasonInv' /\ KeptInv'
  BY <1>1 DEF PastInv, ParsedInv, ReasonInv, KeptInv, Bad, NotAfter, world
<1>3. DoneInv'
  BY <1>1 DEF DoneInv
<1>4. OnlyValidConfigs'
  <2>1. answer'[b].ok => cache.ok /\ answer'[b].layers = cache.layers
    BY <1>1 DEF AnswerOf, Config, Failure
  <2>2. answer'[b].ok => \A l \in Layers : <<l, answer'[b].layers[l]>> \notin broken.syntax \cup broken.schema
    BY <2>1 DEF KeptInv, Bad
  <2> QED BY <1>1, <2>2 DEF OnlyValidConfigs, world
<1>5. KeptFailuresAside'
  <2>1. ASSUME ~keeps PROVE cache.ok
    <3>1. 1 \in Layers
      BY LayersAssumption DEF Layers
    <3>2. seen[b] # Nothing
      BY <1>1, <3>1 DEF Complete, Nothing
    <3> QED BY <1>1, <2>1, <3>2 DEF KeptInv
  <2>2. ~keeps => answer'[b].why # "config"
    BY <1>1, <2>1 DEF AnswerOf, Config
  <2> QED BY <1>1, <2>2 DEF KeptFailuresAside, FailuresFollowTheFiles, RefusedForAReason, world
<1> QED BY <1>2, <1>3, <1>4, <1>5

-----------------------------------------------------------------------------
\* A step of the load of k alone.
LEMMA SoundLoading ==
  ASSUME LayersInv, SoundInv, NEW k \in Calls, Silent, Loading(k),
         step'[k] \in {"read", "after"} =>
           \A l \in Layers : read'[k][l] # Unread => <<l, read'[k][l]>> \notin broken.syntax,
         step'[k] = "failed" => \E l \in Layers : version[l] > seen[k][l] \/ Bad(l, seen[k][l]),
         \A l \in Layers : after'[k][l] <= version[l]
  PROVE  SoundInv'
<1> USE DEF SoundInv
<1>1. ParsedInv'
  BY DEF ParsedInv, Loading, Silent, world
<1>2. ReasonInv'
  BY DEF ReasonInv, Loading, Silent, world, Bad
<1>3. PastInv'
  BY SilentKeeps DEF PastInv, Loading, Silent, world
<1> QED BY <1>1, <1>2, <1>3, SilentKeeps DEF Loading

LEMMA SoundStats ==
  ASSUME LayersInv, SoundInv, NEW k \in Calls, NEW e \in Layers,
         StatBefore(k, e) \/ StatAfter(k, e), LayersInv'
  PROVE  SoundInv'
<1> USE DEF SoundInv, LayersInv
<1>1. /\ Silent /\ Loading(k) /\ read' = read
      /\ step'[k] = step[k] \/ (step[k] = "before" /\ step'[k] = "read")
  BY DEF StatBefore, StatAfter, Silent, Loading, Active, world, callState, ConfigTypeOK
<1>2. \A l \in Layers : after'[k][l] = after[k][l] \/ after'[k][l] = version[l]
  BY DEF StatBefore, StatAfter, ConfigTypeOK, Prints
<1>3. \A l \in Layers : after'[k][l] <= version[l]
  BY <1>2, VersionTypes DEF PastInv
<1>4. step[k] = "before" => \A l \in Layers : read[k][l] = Unread
  BY DEF LoadInv, Nothing
<1> QED BY <1>1, <1>3, <1>4, SoundLoading DEF ParsedInv, ReasonInv

LEMMA SoundRead ==
  ASSUME LayersInv, SoundInv, NEW k \in Calls, NEW e \in Layers, ReadLayer(k, e), LayersInv'
  PROVE  SoundInv'
<1> USE DEF SoundInv, LayersInv
<1>1. /\ Silent /\ step[k] = "read" /\ after' = after /\ before' = before /\ seen' = seen
      /\ UNCHANGED <<pc, leader, pending>>
      /\ read' = [read EXCEPT ![k][e] = version[e]]
      /\ step' = [step EXCEPT ![k] = IF <<e, version[e]>> \in broken.syntax THEN "failed"
                                     ELSE IF Complete(read'[k]) THEN "after" ELSE @]
  BY DEF ReadLayer, Silent, callState
<1>2. /\ step'[k] = IF <<e, version[e]>> \in broken.syntax THEN "failed"
                    ELSE IF Complete(read'[k]) THEN "after" ELSE "read"
      /\ \A j \in Calls : j # k => step'[j] = step[j] /\ read'[j] = read[j]
      /\ \A l \in Layers : read'[k][l] = IF l = e THEN version[e] ELSE read[k][l]
  BY <1>1 DEF ConfigTypeOK, Prints
<1>3. Loading(k)
  BY <1>1, <1>2 DEF Loading, Active, Silent, world
<1>4. step'[k] \in {"read", "after"} =>
        \A l \in Layers : read'[k][l] # Unread => <<l, read'[k][l]>> \notin broken.syntax
  BY <1>1, <1>2 DEF ParsedInv
<1>5. step'[k] = "failed" => \E l \in Layers : version[l] > seen[k][l] \/ Bad(l, seen[k][l])
  <2>1. pc[k] = "wait" /\ Under(k)
    BY <1>1 DEF LeaderInv, Active, Under
  <2>2. seen[k][e] <= version[e] /\ seen[k][e] \in Int /\ version[e] \in Int
    BY <2>1, VersionTypes DEF MomentsInv
  <2>3. step'[k] = "failed" => Bad(e, version[e])
    BY <1>2 DEF Bad
  <2>4. version[e] > seen[k][e] \/ version[e] = seen[k][e]
    BY <2>2
  <2> QED BY <2>3, <2>4
<1>6. \A l \in Layers : after'[k][l] <= version[l]
  BY <1>1 DEF PastInv
<1> QED BY <1>1, <1>3, <1>4, <1>5, <1>6, SoundLoading

LEMMA SoundAgain ==
  ASSUME LayersInv, SoundInv, NEW k \in Calls, Restart(k) \/ Refuse(k), LayersInv'
  PROVE  SoundInv'
<1> USE DEF SoundInv, LayersInv
<1>1. /\ Silent /\ Loading(k) /\ step[k] = "after" /\ step'[k] \in {"before", "failed"}
      /\ after'[k] = Nothing /\ (step'[k] = "failed" => Refuse(k))
  BY DEF Restart, Refuse, Silent, Loading, Active, world, callState, ConfigTypeOK
<1>2. ASSUME Refuse(k) PROVE \E l \in Layers : version[l] > seen[k][l] \/ Bad(l, seen[k][l])
  <2>1. PICK m \in since[k] : Middle(k, m)
    BY <1>1 DEF MiddleInv
  <2>2. Complete(before[k]) /\ Complete(read[k]) /\ Complete(after[k])
    BY <1>1, <1>2 DEF LoadInv, Refuse
  <2>3. \A l \in Layers :
          /\ seen[k][l] <= before[k][l] /\ before[k][l] <= m[l] /\ m[l] <= read[k][l]
          /\ read[k][l] <= after[k][l] /\ after[k][l] <= version[l] /\ m[l] \in Int
          /\ seen[k][l] \in Int /\ before[k][l] \in Int /\ read[k][l] \in Int
          /\ after[k][l] \in Int /\ version[l] \in Int
    BY <1>1, <2>1, <2>2, VersionTypes DEF Middle, NotAfter, Complete, LoadInv, PastInv
  <2>4. CASE Stable(k)
    <3>1. PICK l \in Layers : Bad(l, read[k][l])
      BY <1>2, <2>4 DEF Refuse, Bad
    <3>2. seen[k][l] = read[k][l] \/ version[l] > seen[k][l]
      BY <2>3
    <3> QED BY <3>1, <3>2
  <2>5. CASE ~Stable(k)
    <3>1. PICK l \in Layers : before[k][l] # after[k][l]
      BY <2>5 DEF Stable, ConfigTypeOK, Prints
    <3>2. version[l] > seen[k][l]
      BY <2>3, <3>1
    <3> QED BY <3>2
  <2> QED BY <2>4, <2>5
<1>3. \A l \in Layers : after'[k][l] <= version[l]
  BY <1>1, VersionTypes DEF Nothing, Unread
<1> QED BY <1>1, <1>2, <1>3, SoundLoading

-----------------------------------------------------------------------------
\* What the calls that wait are told, and what the cache keeps of it.
LEMMA SoundSettle ==
  ASSUME LayersInv, SoundInv, NEW k \in Calls, step[k] \in Active, NEW e \in Entries,
         NEW kept \in BOOLEAN, Settle(k, e, kept),
         e.ok => \A l \in Layers : ~Bad(l, e.layers[l]),
         ~keeps => e.ok \/ ~kept,
         ~e.ok => \A c \in Calls : pc[c] = "wait" /\ leader[c] = k => RefusedForAReason(c)'
  PROVE  SoundInv'
<1> USE DEF SoundInv, LayersInv
<1>1. /\ UNCHANGED <<world, seen, before, read, after, since>>
      /\ step'[k] = "ended" /\ \A j \in Calls : j # k => step'[j] = step[j]
      /\ \A c \in Calls : pc[c] = "wait" /\ leader[c] = k => pc'[c] = "done"
      /\ \A c \in Calls : ~(pc[c] = "wait" /\ leader[c] = k) => pc'[c] = pc[c] /\ answer'[c] = answer[c]
      /\ cache' = cache \/ (kept /\ cache' = e)
  BY DEF Settle, ConfigTypeOK
<1>2. ASSUME NEW c \in Calls, pc[c] = "wait", leader[c] = k
      PROVE  /\ answer'[c].ok => e.ok /\ answer'[c].layers = e.layers
             /\ answer'[c].why = "config" => ~e.ok
  <2>1. answer'[c] = IF disposed THEN Failure("shutdown") ELSE AnswerOf(e)
    BY <1>2 DEF Settle
  <2> QED BY <2>1 DEF Failure, AnswerOf, Config
<1>3. PastInv'
  BY <1>1 DEF PastInv, NotAfter, world
<1>4. ParsedInv' /\ ReasonInv'
  BY <1>1 DEF ParsedInv, ReasonInv, Bad, world
<1>5. KeptInv'
  <2>1. CASE cache' = cache
    BY <1>1, <2>1 DEF KeptInv, Bad, world
  <2>2. CASE kept /\ cache' = e
    BY <1>1, <2>2 DEF KeptInv, Bad, world
  <2> QED BY <1>1, <2>1, <2>2
<1>6. DoneInv'
  BY <1>1 DEF DoneInv
<1>7. OnlyValidConfigs'
  <2> SUFFICES ASSUME NEW c \in Calls, answer'[c].ok, NEW l \in Layers
               PROVE  ~Bad(l, answer'[c].layers[l])
    BY <1>1 DEF OnlyValidConfigs, Bad, world
  <2>1. CASE pc[c] = "wait" /\ leader[c] = k
    BY <1>2, <2>1
  <2>2. CASE ~(pc[c] = "wait" /\ leader[c] = k)
    <3>1. answer'[c] = answer[c]
      BY <1>1, <2>2
    <3> QED BY <3>1 DEF OnlyValidConfigs, Bad
  <2> QED BY <2>1, <2>2
<1>8. KeptFailuresAside'
  <2> SUFFICES ASSUME ~keeps, NEW c \in Calls, answer'[c].why = "config"
               PROVE  RefusedForAReason(c)'
    BY <1>1 DEF KeptFailuresAside, FailuresFollowTheFiles, RefusedForAReason, world
  <2>1. CASE pc[c] = "wait" /\ leader[c] = k
    BY <1>2, <2>1
  <2>2. CASE ~(pc[c] = "wait" /\ leader[c] = k)
    <3>1. answer'[c] = answer[c]
      BY <1>1, <2>2
    <3>2. RefusedForAReason(c)
      BY <3>1 DEF KeptFailuresAside, FailuresFollowTheFiles
    <3> QED BY <1>1, <3>1, <3>2 DEF RefusedForAReason, world
  <2> QED BY <2>1, <2>2
<1> QED BY <1>3, <1>4, <1>5, <1>6, <1>7, <1>8

LEMMA SoundSucceed ==
  ASSUME LayersInv, SoundInv, NEW k \in Calls, Succeed(k), LayersInv' PROVE SoundInv'
<1> DEFINE e == [print |-> after[k], ok |-> TRUE, layers |-> read[k]]
<1>1. step[k] = "after" /\ Settle(k, e, TRUE)
      /\ \A l \in Layers : <<l, read[k][l]>> \notin broken.schema
  BY DEF Succeed
<1>2. e \in Entries /\ e.ok /\ e.layers = read[k]
  BY DEF Entries, LayersInv, ConfigTypeOK
<1>3. Complete(read[k])
  BY <1>1 DEF LayersInv, LoadInv
<1>4. \A l \in Layers : ~Bad(l, read[k][l])
  BY <1>1, <1>3 DEF Complete, SoundInv, ParsedInv, Bad
<1> HIDE DEF e
<1> QED BY <1>1, <1>2, <1>4, SoundSettle DEF Active

LEMMA SoundFail ==
  ASSUME LayersInv, SoundInv, NEW k \in Calls, Fail(k), LayersInv' PROVE SoundInv'
<1> DEFINE e == [print |-> after[k], ok |-> FALSE, layers |-> Nothing]
<1>1. step[k] = "failed" /\ Settle(k, e, keeps) /\ keeps \in BOOLEAN
  BY DEF Fail, LayersInv, ConfigTypeOK
<1>2. e \in Entries /\ ~e.ok
  BY NothingIsPrint DEF Entries, LayersInv, ConfigTypeOK
<1>3. ASSUME NEW c \in Calls, pc[c] = "wait", leader[c] = k PROVE RefusedForAReason(c)'
  <2>1. \/ Cardinality(since[c]) > 1
        \/ \E v \in since[c], l \in Layers : Bad(l, v[l])
    BY <1>1, <1>3, ReasonIsOwn DEF SoundInv
  <2>2. since' = since /\ broken' = broken
    BY <1>1 DEF Settle, world
  <2> QED BY <2>1, <2>2 DEF RefusedForAReason, Bad
<1> HIDE DEF e
<1> QED BY <1>1, <1>2, <1>3, SoundSettle DEF Active

LEMMA SoundDispose == ASSUME LayersInv, SoundInv, Dispose PROVE SoundInv'
<1>1. /\ UNCHANGED <<world, pc, seen, answer, since, step, before, read, after>>
      /\ keeps /\ cache' = NoEntry
  BY DEF Dispose, callState, loadState
<1> QED BY <1>1 DEF SoundInv, PastInv, ParsedInv, ReasonInv, KeptInv, DoneInv, OnlyValidConfigs,
     KeptFailuresAside, NoEntry, Bad, NotAfter, world

LEMMA SoundInit == ConfigInit => SoundInv
<1> SUFFICES ASSUME ConfigInit PROVE SoundInv
  OBVIOUS
<1>1. \A c \in Calls : /\ since[c] = {} /\ step[c] = "none" /\ after[c] = Nothing
                       /\ answer[c].ok = FALSE /\ answer[c].why = "none"
  BY DEF ConfigInit, NoAnswer
<1>2. PastInv
  BY <1>1, FS_EmptySet DEF ConfigInit, PastInv, Nothing, Unread
<1>3. ParsedInv /\ ReasonInv /\ DoneInv /\ OnlyValidConfigs
  BY <1>1 DEF ParsedInv, ReasonInv, DoneInv, OnlyValidConfigs
<1>4. KeptInv /\ KeptFailuresAside
  BY <1>1 DEF ConfigInit, KeptInv, NoEntry, KeptFailuresAside, FailuresFollowTheFiles, RefusedForAReason
<1> QED BY <1>2, <1>3, <1>4 DEF SoundInv

LEMMA SoundInductive == LayersInv /\ SoundInv /\ LayersInv' /\ [ConfigNext]_configVars => SoundInv'
<1> SUFFICES ASSUME LayersInv, SoundInv, LayersInv', [ConfigNext]_configVars PROVE SoundInv'
  OBVIOUS
<1>1. CASE \E l \in Layers : Edit(l)
  BY <1>1, SoundEdit
<1>2. ASSUME NEW c \in Calls, Begin(c) \/ CallStep(c) PROVE SoundInv'
  BY <1>2, SoundBegin, SoundStamp, SoundTake, SoundJoin DEF CallStep
<1>3. ASSUME NEW k \in Calls, LoadStep(k) PROVE SoundInv'
  BY <1>3, SoundStats, SoundRead, SoundAgain, SoundSucceed, SoundFail DEF LoadStep
<1>4. CASE Dispose
  BY <1>4, SoundDispose
<1>5. CASE UNCHANGED configVars
  BY <1>5 DEF configVars, world, callState, loadState, SoundInv, PastInv, ParsedInv, ReasonInv,
     KeptInv, DoneInv, OnlyValidConfigs, KeptFailuresAside, FailuresFollowTheFiles,
     RefusedForAReason, Bad, NotAfter
<1> QED BY <1>1, <1>2, <1>3, <1>4, <1>5 DEF ConfigNext

(* A configuration that is handed out passed both checks, and a call of the web tools is
   refused only for what was broken, or changed, since it began (web-tools/config.ts:50). *)
THEOREM ConfigsAreSound == ConfigSpec => []ConfigsSound
<1>1. LayersInv /\ SoundInv => ConfigsSound
  BY DEF LayersInv, SoundInv, ConfigsSound
<1> QED BY <1>1, LayersInit, SoundInit, LayersInductive, SoundInductive, PTL DEF ConfigSpec

-----------------------------------------------------------------------------
(* FileReads. *)

\* The file of the handle has not changed since the call began to read it.
Unchanged == stamp[handle] = first[2]

\* Two changes of a file in one millisecond blur: without them a time stamp that is the
\* same means a content that is the same.
StampInv ==
  /\ \A i \in Inodes : stamp[i] <= now
  /\ at \in {"again", "validate", "read", "verify"} => handle \in Inodes
  /\ at \in {"read", "verify"} => first[2] <= stamp[handle]

\* As long as the file is unchanged the bytes so far are its beginning, then all of it.
PrefixInv ==
  ~blurred /\ Unchanged =>
    /\ at = "read" => Len(loaded) <= Size(handle) /\ loaded = SubSeq(text[handle], 1, Len(loaded))
    /\ at = "verify" => loaded = text[handle]

MomentInv ==
  /\ place \in Inodes => text[place] \in moments
  /\ at \notin {"read", "verify", "done"} => loaded = <<>>
  /\ result # "none" => at = "done"

ReadsInv == ReadsTypeOK /\ StampInv /\ PrefixInv /\ MomentInv /\ ReadOfOneMoment

LEMMA JoinedSeq ==
  ASSUME NEW S, NEW a \in Seq(S), NEW b \in Seq(S)
  PROVE  /\ a \o b \in Seq(S) /\ Len(a \o b) = Len(a) + Len(b)
         /\ \A i \in 1 .. (Len(a) + Len(b)) :
              (a \o b)[i] = IF i <= Len(a) THEN a[i] ELSE b[i - Len(a)]
<1>. QED
  OBVIOUS

\* The next piece of a text continues its beginning.
LEMMA PieceContinues ==
  ASSUME NEW S, NEW t \in Seq(S), NEW p \in Nat, NEW n \in Nat, p + n <= Len(t)
  PROVE  /\ SubSeq(t, p + 1, p + n) \in Seq(S) /\ Len(SubSeq(t, p + 1, p + n)) = n
         /\ Len(SubSeq(t, 1, p)) = p
         /\ SubSeq(t, 1, p) \o SubSeq(t, p + 1, p + n) = SubSeq(t, 1, p + n)
<1>. DEFINE a == SubSeq(t, 1, p)
            b == SubSeq(t, p + 1, p + n)
            w == SubSeq(t, 1, p + n)
<1>1. a \in Seq(S) /\ Len(a) = p /\ \A i \in 1 .. p : a[i] = t[i]
  OBVIOUS
<1>2. b \in Seq(S) /\ Len(b) = n /\ \A i \in 1 .. n : b[i] = t[p + i]
  OBVIOUS
<1>3. w \in Seq(S) /\ Len(w) = p + n /\ \A i \in 1 .. (p + n) : w[i] = t[i]
  OBVIOUS
<1>. HIDE DEF a, b, w
<1>4. a \o b \in Seq(S) /\ Len(a \o b) = p + n
  BY <1>1, <1>2, JoinedSeq
<1>5. \A i \in 1 .. (p + n) : (a \o b)[i] = IF i <= p THEN a[i] ELSE b[i - p]
  BY <1>1, <1>2, JoinedSeq
<1>6. ASSUME NEW i \in 1 .. (p + n) PROVE (a \o b)[i] = w[i]
  <2>1. CASE i <= p
    BY <1>1, <1>3, <1>5, <2>1
  <2>2. CASE ~(i <= p)
    <3>. DEFINE j == i - p
    <3>1. j \in 1 .. n /\ p + j = i
      BY <2>2
    <3>. HIDE DEF j
    <3>2. (a \o b)[i] = b[j]
      BY <1>5, <2>2 DEF j
    <3>3. b[j] = t[p + j]
      BY <1>2, <3>1
    <3>. QED
      BY <1>3, <3>1, <3>2, <3>3
  <2>. QED
    BY <2>1, <2>2
<1>7. a \o b = w
  BY <1>3, <1>4, <1>6
<1>. QED
  BY <1>1, <1>2, <1>7 DEF a, b, w

LEMMA WholeIsAll ==
  ASSUME NEW S, NEW t \in Seq(S)
  PROVE  SubSeq(t, 1, Len(t)) = t
<1>. QED
  OBVIOUS

-----------------------------------------------------------------------------
LEMMA RoomIsInteger == ReadsTypeOK => Room \in Int
<1>. SUFFICES ASSUME ReadsTypeOK PROVE Room \in Int
  OBVIOUS
<1>1. \A x, y \in Int : Least({x, y}) \in Int
  <2>. SUFFICES ASSUME NEW x \in Int, NEW y \in Int PROVE Least({x, y}) \in {x, y}
    OBVIOUS
  <2>1. \E m \in {x, y} : \A z \in {x, y} : m <= z
    OBVIOUS
  <2>. QED
    BY <2>1 DEF Least
<1>2. Len(loaded) \in Nat /\ first[1] \in Nat
  BY DEF ReadsTypeOK, Characters
<1>. QED
  BY <1>1, <1>2, ReadsAssumption DEF Room

LEMMA ReadsTypes == ReadsInv /\ [ReadsNext]_readVars => ReadsTypeOK'
<1>. SUFFICES ASSUME ReadsInv, [ReadsNext]_readVars PROVE ReadsTypeOK'
  OBVIOUS
<1>. USE DEF ReadsInv, ReadsTypeOK, diskState, options, Characters
<1>1. CASE ClockTick
  BY <1>1 DEF ClockTick
<1>2. CASE Replace
  BY <1>2 DEF Replace
<1>3. CASE Abort
  BY <1>3 DEF Abort
<1>4. ASSUME NEW i \in Inodes, Overwrite(i) PROVE ReadsTypeOK'
  <2>1. PICK t \in Texts : text' = [text EXCEPT ![i] = t]
    BY <1>4 DEF Overwrite
  <2>2. text' \in [Inodes -> Characters]
    BY <2>1, ReadsAssumption
  <2>3. stamp' \in [Inodes -> Nat] /\ changes' \in Nat
    BY <1>4 DEF Overwrite
  <2>4. moments' \in SUBSET Characters /\ blurred' \in BOOLEAN
    <3>1. text'[i] \in Characters /\ blurred' = (blurred \/ stamp[i] = now)
      BY <1>4, <2>2 DEF Overwrite
    <3>2. moments' \in {moments, moments \cup {text'[i]}}
      BY <1>4 DEF Overwrite
    <3>. QED
      BY <3>1, <3>2
  <2>5. UNCHANGED <<place, now, options, at, why, looked, handle, lent, first, loaded, aborted, result>>
    BY <1>4 DEF Overwrite
  <2>6. ReadsTypeOK
    OBVIOUS
  <2>. HIDE DEF ReadsInv, Characters
  <2>. QED
    BY <2>2, <2>3, <2>4, <2>5, <2>6
<1>5. CASE Look
  BY <1>5 DEF Look, OpenFails
<1>6. CASE OpenHandle
  <2>1. CASE OpenFails("failed") /\ UNCHANGED <<handle, lent, looked>>
    BY <2>1 DEF OpenFails
  <2>2. CASE /\ place \in Inodes /\ handle' = place /\ lent' = "open" /\ at' = "again"
             /\ UNCHANGED <<diskState, options, why, first, loaded, aborted, result, looked>>
    BY <2>2
  <2>. QED
    BY <1>6, <2>1, <2>2 DEF OpenHandle
<1>7. CASE LookAgain
  BY <1>7 DEF LookAgain, OpenFails, Leaked
<1>8. CASE Recheck
  BY <1>8 DEF Recheck, EndAs
<1>9. CASE Validate
  <2>1. at = "validate" /\ UNCHANGED <<diskState, options, why, looked, handle, aborted, loaded>>
    BY <1>9 DEF Validate, EndAs
  <2>2. /\ at' \in {"done", "read"} /\ lent' \in {lent, "closed"}
        /\ result' \in {result, "aborted", "changed", "large"}
    BY <1>9 DEF Validate, EndAs
  <2>3. first' \in {first, Version(handle)}
    BY <1>9 DEF Validate, EndAs
  <2>4. handle \in Inodes /\ Version(handle) \in Nat \X Nat
    BY <2>1 DEF StampInv, Version, Size
  <2>5. first' \in Nat \X Nat
    BY <2>3, <2>4
  <2>. QED
    BY <2>1, <2>2, <2>5
<1>10. CASE ReadPiece
  <2>1. PICK n \in 1 .. Room :
          /\ Len(loaded) + n <= Size(handle)
          /\ loaded' = loaded \o SubSeq(text[handle], Len(loaded) + 1, Len(loaded) + n)
    BY <1>10 DEF ReadPiece
  <2>2. n \in Nat /\ handle \in Inodes /\ Len(loaded) \in Nat
    BY <1>10, RoomIsInteger DEF ReadPiece, StampInv
  <2>3. loaded' \in Characters
    BY <2>1, <2>2, PieceContinues DEF Size
  <2>4. at' \in {"read", "done"} /\ result' \in {result, "large", "binary"} /\ lent' \in {lent, "closed"}
    BY <1>10 DEF ReadPiece, GiveLines
  <2>. QED
    BY <1>10, <2>3, <2>4 DEF ReadPiece
<1>11. CASE ReadEnd
  BY <1>11 DEF ReadEnd, EndAs
<1>12. CASE ReadFails
  BY <1>12 DEF ReadFails, EndAs
<1>13. CASE Verify
  BY <1>13 DEF Verify, EndAs
<1>14. CASE StopScan
  BY <1>14 DEF StopScan, EndAs
<1>15. CASE UNCHANGED readVars
  BY <1>15 DEF readVars
<1>. QED
  BY <1>1, <1>2, <1>3, <1>4, <1>5, <1>6, <1>7, <1>8, <1>9, <1>10, <1>11, <1>12, <1>13, <1>14,
     <1>15 DEF ReadsNext

\* A file changes: its time stamp grows, or the change is a blur.
LEMMA OverwriteKeeps ==
  ASSUME ReadsInv, NEW i \in Inodes, Overwrite(i)
  PROVE  StampInv' /\ PrefixInv' /\ MomentInv' /\ ReadOfOneMoment'
<1>. USE DEF ReadsInv, ReadsTypeOK
<1>1. /\ at # "done" /\ stamp' = [stamp EXCEPT ![i] = now] /\ blurred' = (blurred \/ stamp[i] = now)
      /\ moments' = IF place = i THEN moments \cup {text'[i]} ELSE moments
      /\ UNCHANGED <<place, now, options, at, why, looked, handle, lent, first, loaded, aborted, result>>
  BY DEF Overwrite
<1>2. PICK t \in Texts : text' = [text EXCEPT ![i] = t]
  BY DEF Overwrite
<1>3. StampInv'
  BY <1>1 DEF StampInv
<1>4. PrefixInv'
  <2>. SUFFICES ASSUME ~blurred', Unchanged', at \in {"read", "verify"} PROVE PrefixInv'
    BY <1>1 DEF PrefixInv
  <2>1. handle \in Inodes /\ handle # i
    <3>1. stamp[i] # now
      BY <1>1
    <3>2. handle \in Inodes /\ first[2] <= stamp[handle] /\ stamp[i] <= now
      BY <1>1 DEF StampInv
    <3>3. first[2] \in Nat /\ now \in Nat /\ stamp[handle] \in Nat /\ stamp'[handle] = first[2]
      BY <1>1, <3>2 DEF Unchanged
    <3>. QED
      BY <1>1, <3>1, <3>2, <3>3
  <2>. QED
    BY <1>1, <1>2, <2>1 DEF PrefixInv, Unchanged, Size
<1>5. MomentInv'
  BY <1>1, <1>2 DEF MomentInv
<1>6. ReadOfOneMoment'
  BY <1>1 DEF ReadOfOneMoment, MomentInv
<1>. QED
  BY <1>3, <1>4, <1>5, <1>6

\* Steps that do not read: the bytes so far stay.
LEMMA QuietKeeps ==
  ASSUME ReadsInv, UNCHANGED <<text, stamp, blurred, first, loaded, stable>>, now <= now', now' \in Nat,
         moments \subseteq moments', place' \in Inodes => text[place'] \in moments',
         result' \notin {"ok"} \/ ~stable \/ result' = result,
         result' # "none" => at' = "done",
         at' \notin {"read", "verify", "done"} => at \notin {"read", "verify", "done"},
         at' \in {"again", "validate", "read", "verify"} => handle' \in Inodes,
         at' \in {"read", "verify"} => at' = at /\ handle' = handle
  PROVE  StampInv' /\ PrefixInv' /\ MomentInv' /\ ReadOfOneMoment'
<1>. USE DEF ReadsInv, ReadsTypeOK
<1>1. StampInv'
  BY DEF StampInv
<1>2. PrefixInv'
  BY DEF PrefixInv, Unchanged, Size
<1>3. MomentInv'
  BY DEF MomentInv
<1>4. ReadOfOneMoment'
  BY DEF ReadOfOneMoment
<1>. QED
  BY <1>1, <1>2, <1>3, <1>4

LEMMA ReadsInductive == ReadsInv /\ [ReadsNext]_readVars => ReadsInv'
<1>. SUFFICES ASSUME ReadsInv, [ReadsNext]_readVars PROVE ReadsInv'
  OBVIOUS
<1>. DEFINE Rest == StampInv' /\ PrefixInv' /\ MomentInv' /\ ReadOfOneMoment'
<1>. SUFFICES Rest
  BY ReadsTypes DEF ReadsInv
<1>. USE DEF diskState, options
<1>1. CASE ClockTick
  BY <1>1, QuietKeeps DEF ClockTick, ReadsInv, ReadsTypeOK, StampInv, MomentInv
<1>2. CASE Replace
  BY <1>2, QuietKeeps DEF Replace, ReadsInv, ReadsTypeOK, StampInv, MomentInv
<1>3. CASE Abort
  BY <1>3, QuietKeeps DEF Abort, ReadsInv, ReadsTypeOK, StampInv, MomentInv
<1>4. ASSUME NEW i \in Inodes, Overwrite(i) PROVE Rest
  BY <1>4, OverwriteKeeps
<1>5. CASE Look
  BY <1>5, QuietKeeps DEF Look, OpenFails, ReadsInv, ReadsTypeOK, StampInv, MomentInv
<1>6. CASE OpenHandle
  BY <1>6, QuietKeeps DEF OpenHandle, OpenFails, ReadsInv, ReadsTypeOK, StampInv, MomentInv
<1>7. CASE LookAgain
  BY <1>7, QuietKeeps DEF LookAgain, OpenFails, ReadsInv, ReadsTypeOK, StampInv, MomentInv
<1>8. CASE Recheck
  BY <1>8, QuietKeeps DEF Recheck, EndAs, ReadsInv, ReadsTypeOK, StampInv, MomentInv
<1>9. CASE Validate
  <2>1. CASE at' = "done"
    BY <1>9, <2>1, QuietKeeps DEF Validate, EndAs, ReadsInv, ReadsTypeOK, StampInv, MomentInv
  <2>2. CASE at' # "done"
    <3>1. /\ at = "validate" /\ at' = "read" /\ first' = Version(handle) /\ loaded' = loaded
          /\ UNCHANGED <<diskState, options, handle, result>>
      BY <1>9, <2>2 DEF Validate, EndAs
    <3>2. loaded = <<>> /\ handle \in Inodes /\ text[handle] \in Characters
      BY <3>1 DEF ReadsInv, ReadsTypeOK, MomentInv, StampInv
    <3>3. first'[2] = stamp[handle] /\ Size(handle) \in Nat /\ SubSeq(text[handle], 1, 0) = <<>>
      BY <3>1, <3>2 DEF Version, Size, Characters
    <3>4. StampInv'
      BY <3>1, <3>2, <3>3 DEF ReadsInv, ReadsTypeOK, StampInv
    <3>5. PrefixInv'
      BY <3>1, <3>2, <3>3 DEF ReadsInv, PrefixInv, Size
    <3>. QED
      BY <3>1, <3>4, <3>5 DEF ReadsInv, MomentInv, ReadOfOneMoment
  <2>. QED
    BY <2>1, <2>2
<1>10. CASE ReadPiece
  <2>1. PICK n \in 1 .. Room :
          /\ Len(loaded) + n <= Size(handle)
          /\ loaded' = loaded \o SubSeq(text[handle], Len(loaded) + 1, Len(loaded) + n)
    BY <1>10 DEF ReadPiece
  <2>2. /\ at = "read" /\ n \in Nat /\ handle \in Inodes /\ Len(loaded) \in Nat
        /\ text[handle] \in Characters
    BY <1>10, RoomIsInteger DEF ReadPiece, ReadsInv, ReadsTypeOK, StampInv, Characters
  <2>3. at' \in {"read", "done"} /\ result' # "ok" /\ (at' = "read" => result' = result)
    BY <1>10 DEF ReadPiece, GiveLines, ReadsInv, MomentInv
  <2>4. UNCHANGED <<diskState, options, handle, first>>
    BY <1>10 DEF ReadPiece
  <2>5. StampInv'
    BY <2>2, <2>3, <2>4 DEF ReadsInv, ReadsTypeOK, StampInv
  <2>6. PrefixInv'
    <3>. SUFFICES ASSUME ~blurred, Unchanged, at' = "read" PROVE PrefixInv'
      BY <2>3, <2>4 DEF PrefixInv, Unchanged
    <3>1. loaded = SubSeq(text[handle], 1, Len(loaded))
      BY <2>2 DEF ReadsInv, PrefixInv
    <3>2. loaded' = SubSeq(text[handle], 1, Len(loaded) + n)
      BY <2>1, <2>2, <3>1, PieceContinues DEF Size, Characters
    <3>3. Len(loaded') = Len(loaded) + n
      BY <2>1, <2>2, <3>2 DEF Size, Characters
    <3>. QED
      BY <2>1, <2>4, <3>2, <3>3 DEF PrefixInv, Size
  <2>7. MomentInv'
    BY <2>2, <2>3, <2>4 DEF ReadsInv, MomentInv
  <2>. QED
    BY <2>3, <2>5, <2>6, <2>7 DEF ReadOfOneMoment
<1>11. CASE ReadEnd
  <2>1. CASE at' = "done"
    BY <1>11, <2>1, QuietKeeps DEF ReadEnd, EndAs, ReadsInv, ReadsTypeOK, StampInv, MomentInv
  <2>2. CASE at' # "done"
    <3>1. /\ at = "read" /\ at' = "verify" /\ Size(handle) <= Len(loaded)
          /\ UNCHANGED <<diskState, options, handle, first, loaded, result>>
      BY <1>11, <2>2 DEF ReadEnd, EndAs
    <3>2. handle \in Inodes /\ text[handle] \in Characters /\ Len(loaded) \in Nat
      BY <3>1 DEF ReadsInv, ReadsTypeOK, StampInv, Characters
    <3>3. ~blurred /\ Unchanged => loaded = text[handle]
      BY <3>1, <3>2, WholeIsAll DEF ReadsInv, PrefixInv, Size, Characters
    <3>4. StampInv' /\ PrefixInv'
      BY <3>1, <3>2, <3>3 DEF ReadsInv, ReadsTypeOK, StampInv, PrefixInv, Unchanged
    <3>. QED
      BY <3>1, <3>4 DEF ReadsInv, MomentInv, ReadOfOneMoment
  <2>. QED
    BY <2>1, <2>2
<1>12. CASE ReadFails
  BY <1>12, QuietKeeps DEF ReadFails, EndAs, ReadsInv, ReadsTypeOK, StampInv, MomentInv
<1>13. CASE Verify
  <2>1. /\ at = "verify" /\ at' = "done"
        /\ UNCHANGED <<diskState, options, handle, first, loaded>>
    BY <1>13 DEF Verify, EndAs
  <2>2. ASSUME result' = "ok", ~blurred PROVE loaded \in moments
    <3>1. SameFile /\ SameVersion
      BY <1>13, <2>2 DEF Verify, EndAs
    <3>2. Unchanged /\ handle \in Inodes
      BY <2>1, <3>1 DEF SameVersion, Version, Unchanged, ReadsInv, StampInv
    <3>. QED
      BY <2>1, <2>2, <3>1, <3>2 DEF SameFile, ReadsInv, PrefixInv, MomentInv
  <2>3. StampInv' /\ PrefixInv'
    BY <2>1 DEF ReadsInv, StampInv, PrefixInv
  <2>. QED
    BY <2>1, <2>2, <2>3 DEF ReadsInv, MomentInv, ReadOfOneMoment
<1>14. CASE StopScan
  BY <1>14, QuietKeeps DEF StopScan, EndAs, ReadsInv, ReadsTypeOK, StampInv, MomentInv
<1>15. CASE UNCHANGED readVars
  BY <1>15 DEF readVars, ReadsInv, StampInv, PrefixInv, Unchanged, Size, MomentInv, ReadOfOneMoment
<1>. QED
  BY <1>1, <1>2, <1>3, <1>4, <1>5, <1>6, <1>7, <1>8, <1>9, <1>10, <1>11, <1>12, <1>13, <1>14,
     <1>15 DEF ReadsNext

LEMMA ReadsInitInv == ReadsInit => ReadsInv
<1>. SUFFICES ASSUME ReadsInit PROVE ReadsInv
  OBVIOUS
<1>1. Texts \subseteq Characters /\ <<>> \in Characters
  BY ReadsAssumption DEF Characters
<1>2. ReadsTypeOK
  BY <1>1 DEF ReadsInit, ReadsTypeOK
<1>. QED
  BY <1>2 DEF ReadsInit, ReadsInv, StampInv, PrefixInv, MomentInv, ReadOfOneMoment

\* Where the handle is while the call goes on.
HandleInv ==
  /\ at \in {"look", "open"} => lent = "never"
  /\ at \in {"again", "validate", "read", "verify"} => lent = "open"
  /\ at \in {"recheck", "done"} => lent \in {"never", "closed"} \/ (lent = "leaked" /\ aborted)

LEMMA HandleKept == ReadsTypeOK /\ HandleInv /\ [ReadsNext]_readVars => HandleInv'
<1>. SUFFICES ASSUME ReadsTypeOK, HandleInv, [ReadsNext]_readVars PROVE HandleInv'
  OBVIOUS
<1>. USE DEF HandleInv
<1>1. CASE ClockTick \/ Replace \/ \E i \in Inodes : Overwrite(i)
  <2>1. UNCHANGED <<at, lent, aborted>>
    BY <1>1 DEF ClockTick, Replace, Overwrite
  <2>. QED
    BY <2>1
<1>2. CASE Abort
  BY <1>2 DEF Abort
<1>3. CASE Look
  BY <1>3 DEF Look, OpenFails
<1>4. CASE OpenHandle
  BY <1>4 DEF OpenHandle, OpenFails
<1>5. CASE LookAgain
  BY <1>5 DEF LookAgain, OpenFails, Leaked
<1>6. ASSUME NEW outcome, EndAs(outcome), at # "done" PROVE HandleInv'
  <2>1. at' = "done" /\ aborted' = aborted /\ lent' = IF lent = "open" THEN "closed" ELSE lent
    BY <1>6 DEF EndAs
  <2>2. at \in {"look", "open", "again", "recheck", "validate", "read", "verify"}
    BY <1>6 DEF ReadsTypeOK
  <2>. QED
    BY <2>1, <2>2
<1>7. CASE Recheck
  BY <1>6, <1>7 DEF Recheck
<1>8. CASE Validate
  <2>1. CASE \E outcome : EndAs(outcome)
    BY <1>6, <1>8, <2>1 DEF Validate
  <2>2. CASE at' = "read" /\ lent' = lent
    BY <1>8, <2>2 DEF Validate
  <2>. QED
    BY <1>8, <2>1, <2>2 DEF Validate
<1>9. CASE ReadPiece
  <2>1. at = "read" /\ ((at' = at /\ lent' = lent) \/ (at' = "done" /\ lent' = "closed"))
    BY <1>9 DEF ReadPiece, GiveLines
  <2>. QED
    BY <2>1
<1>10. CASE ReadEnd
  <2>1. at = "read" /\ ((\E outcome : EndAs(outcome)) \/ (at' = "verify" /\ lent' = lent))
    BY <1>10 DEF ReadEnd
  <2>. QED
    BY <1>6, <2>1
<1>11. CASE ReadFails
  BY <1>6, <1>11 DEF ReadFails
<1>12. CASE Verify
  BY <1>6, <1>12 DEF Verify
<1>13. CASE StopScan
  BY <1>6, <1>13 DEF StopScan
<1>14. CASE UNCHANGED readVars
  BY <1>14 DEF readVars
<1>. QED
  BY <1>1, <1>2, <1>3, <1>4, <1>5, <1>7, <1>8, <1>9, <1>10, <1>11, <1>12, <1>13, <1>14 DEF ReadsNext

\* With a limit a read asks for one character more than it leaves, at most.
LEMMA RoomWithinLimit ==
  ReadsTypeOK /\ limited /\ Len(loaded) <= MaxBytes => Room <= MaxBytes - Len(loaded) + 1
<1>. SUFFICES ASSUME ReadsTypeOK, limited, Len(loaded) <= MaxBytes
              PROVE  Room <= MaxBytes - Len(loaded) + 1
  OBVIOUS
<1>1. ASSUME NEW x \in Int, NEW y \in Int
      PROVE  Least({x, y}) \in Int /\ Least({x, y}) <= x /\ Least({x, y}) <= y
  <2>1. \E m \in {x, y} : \A z \in {x, y} : m <= z
    OBVIOUS
  <2>2. Least({x, y}) \in {x, y} /\ \A z \in {x, y} : Least({x, y}) <= z
    BY <2>1 DEF Least
  <2>. QED
    BY <2>2
<1>2. PICK p \in Nat, h \in Nat : p = Len(loaded) /\ h = first[1]
  BY DEF ReadsTypeOK, Characters
<1>3. PICK m \in Int : m = MaxBytes - p + 1
  BY ReadsAssumption
<1>4. PICK q \in Int : q = h - p
  OBVIOUS
<1>5. PICK b \in Int : b = Least({Piece, m}) /\ b <= m
  <2>1. Piece \in Int
    BY ReadsAssumption
  <2>2. Least({Piece, m}) \in Int /\ Least({Piece, m}) <= m
    BY <1>1, <2>1
  <2>. QED
    BY <2>2
<1>6. Room = IF p < h THEN Least({b, q}) ELSE IF p = h THEN 1 ELSE b
  BY <1>2, <1>3, <1>4, <1>5 DEF Room
<1>7. Least({b, q}) \in Int /\ Least({b, q}) <= b
  BY <1>1
<1>8. 1 <= m
  BY <1>2, <1>3, ReadsAssumption
<1>. QED
  BY <1>2, <1>3, <1>5, <1>6, <1>7, <1>8

\* A call that goes on has not gone over its limit.
LimitInv ==
  limited => /\ Len(loaded) <= MaxBytes + 1
             /\ at \in {"read", "verify"} \/ result = "ok" => Len(loaded) <= MaxBytes

LEMMA LimitInvKept == ReadsInv /\ LimitInv /\ [ReadsNext]_readVars => LimitInv'
<1>. SUFFICES ASSUME ReadsInv, LimitInv, [ReadsNext]_readVars, limited' PROVE LimitInv'
  BY DEF LimitInv
<1>. USE DEF diskState, options
<1>1. limited /\ MaxBytes \in Nat
  BY ReadsAssumption DEF ReadsNext, ClockTick, Replace, Abort, Overwrite, Look, OpenHandle, LookAgain, OpenFails,
       Recheck, Validate, EndAs, ReadPiece, ReadEnd, ReadFails, Verify, StopScan, readVars
<1>2. ASSUME loaded' = loaded, at' \in {"read", "verify"} => at' = at \/ at \in {"validate", "read"},
             result' = "ok" => result = "ok" \/ at \in {"read", "verify"}
      PROVE  LimitInv'
  <2>1. at = "validate" => Len(loaded) = 0
    BY DEF ReadsInv, MomentInv
  <2>. QED
    BY <1>1, <1>2, <2>1 DEF LimitInv
<1>3. CASE ClockTick \/ Replace \/ Abort \/ \E i \in Inodes : Overwrite(i)
  <2>1. UNCHANGED <<at, loaded, result>>
    BY <1>3 DEF ClockTick, Replace, Abort, Overwrite
  <2>. QED
    BY <1>2, <2>1
<1>4. CASE Look \/ OpenHandle \/ LookAgain
  <2>1. UNCHANGED <<loaded, result>> /\ at' \notin {"read", "verify"}
    BY <1>4 DEF Look, OpenHandle, LookAgain, OpenFails
  <2>. QED
    BY <1>2, <2>1
<1>5. CASE Recheck
  <2>1. why # "ok"
    BY DEF ReadsInv, ReadsTypeOK
  <2>2. loaded' = loaded /\ at' = "done" /\ result' # "ok"
    BY <1>5, <2>1 DEF Recheck, EndAs
  <2>. QED
    BY <1>2, <2>2
<1>6. CASE Validate
  <2>1. at = "validate" /\ loaded' = loaded /\ (at' = "done" \/ at' = "read")
    BY <1>6 DEF Validate, EndAs
  <2>2. result' = "ok" => result = "ok"
    BY <1>6 DEF Validate, EndAs
  <2>. QED
    BY <1>2, <2>1, <2>2
<1>7. CASE ReadPiece
  <2>1. PICK n \in 1 .. Room :
          /\ Len(loaded) + n <= Size(handle)
          /\ loaded' = loaded \o SubSeq(text[handle], Len(loaded) + 1, Len(loaded) + n)
          /\ TooLarge(Len(loaded) + n) => at' = "done" /\ result' = "large"
    BY <1>7 DEF ReadPiece
  <2>2. /\ at = "read" /\ result' # "ok" /\ handle \in Inodes /\ n \in Nat /\ Room \in Int
        /\ Len(loaded) \in Nat /\ text[handle] \in Characters /\ loaded \in Characters
    <3>1. at = "read" /\ handle \in Inodes /\ loaded \in Characters /\ text \in [Inodes -> Characters]
      BY <1>7 DEF ReadPiece, ReadsInv, ReadsTypeOK, StampInv
    <3>2. result # "ok" /\ result' \in {result, "large", "binary"}
      BY <1>7, <3>1 DEF ReadPiece, GiveLines, ReadsInv, MomentInv
    <3>3. Room \in Int
      BY RoomIsInteger DEF ReadsInv
    <3>. QED
      BY <3>1, <3>2, <3>3 DEF Characters
  <2> DEFINE piece == SubSeq(text[handle], Len(loaded) + 1, Len(loaded) + n)
  <2>3. piece \in Seq(STRING) /\ Len(piece) = n
    <3>1. Len(loaded) + n <= Len(text[handle]) /\ text[handle] \in Seq(STRING)
      BY <2>1, <2>2 DEF Size, Characters
    <3>. QED
      BY <2>2, <3>1, PieceContinues
  <2>4. Len(loaded') = Len(loaded) + n
    <3>1. loaded' = loaded \o piece /\ loaded \in Seq(STRING)
      BY <2>1, <2>2 DEF Characters
    <3>. HIDE DEF piece
    <3>. QED
      BY <2>3, <3>1, JoinedSeq
  <2>. HIDE DEF piece
  <2>5. Len(loaded) <= MaxBytes /\ n <= Room
    BY <1>1, <2>1, <2>2 DEF LimitInv
  <2>6. Room <= MaxBytes - Len(loaded) + 1
    BY <1>1, <2>5, RoomWithinLimit DEF ReadsInv
  <2>7. Len(loaded') <= MaxBytes + 1
    BY <1>1, <2>2, <2>4, <2>5, <2>6
  <2>8. at' \in {"read", "verify"} => Len(loaded') <= MaxBytes
    BY <1>1, <2>1, <2>2, <2>4 DEF TooLarge
  <2>. QED
    BY <2>2, <2>7, <2>8 DEF LimitInv
<1>8. CASE ReadEnd
  <2>1. at = "read" /\ loaded' = loaded
    BY <1>8 DEF ReadEnd
  <2>. QED
    BY <1>2, <2>1
<1>9. CASE ReadFails \/ StopScan
  <2>1. at \in {"read", "verify"} /\ loaded' = loaded
    BY <1>9 DEF ReadFails, StopScan
  <2>2. at' = "done" /\ result' # "ok"
    BY <1>9 DEF ReadFails, StopScan, EndAs
  <2>. QED
    BY <1>2, <2>1, <2>2
<1>10. CASE Verify
  <2>1. at = "verify" /\ loaded' = loaded /\ at' = "done"
    BY <1>10 DEF Verify, EndAs
  <2>. QED
    BY <1>2, <2>1
<1>11. CASE UNCHANGED readVars
  BY <1>2, <1>11 DEF readVars
<1>. QED
  BY <1>3, <1>4, <1>5, <1>6, <1>7, <1>8, <1>9, <1>10, <1>11 DEF ReadsNext

\* readBytes, scanLines: what a stable read returns was the content of the path at one
\* moment of the call, whatever is written, replaced and removed meanwhile, as long as no
\* file changed twice in one millisecond (verifyStable); no call holds more than one
\* character over its limit or returns more than it (readBufferSize); and a call that ended
\* has closed its handle, unless it was aborted while it was opening it.
THEOREM ReadsAreSound == ReadsSpec => []ReadsSound
<1>1. ReadsInit => HandleInv /\ LimitInv
  BY ReadsAssumption DEF ReadsInit, HandleInv, LimitInv
<1>2. ReadsInv /\ HandleInv /\ LimitInv /\ [ReadsNext]_readVars => (ReadsInv /\ HandleInv /\ LimitInv)'
  BY ReadsInductive, HandleKept, LimitInvKept DEF ReadsInv
<1>3. ReadsInv /\ HandleInv /\ LimitInv => ReadsSound
  BY DEF ReadsInv, ReadsSound, HandleInv, HandleReleased, LimitInv, LimitKept
<1>. QED
  BY <1>1, <1>2, <1>3, ReadsInitInv, PTL DEF ReadsSpec

-----------------------------------------------------------------------------
(* FileTools. *)

\* A call that has begun has its arguments and a store of its session.
StartedInv ==
  /\ shut => ~accepting
  /\ \A c \in ToolCalls : toolPc[c] # "idle" =>
       /\ session[c] \in Sessions /\ path[c] \in Paths /\ tool[c] \in ToolNames
       /\ store[c] \in ToolCalls /\ toolPc[store[c]] # "idle" /\ session[store[c]] = session[c]
  /\ \A c \in ToolCalls :
       /\ toolPc[c] \in {"load", "remember", "enter"} => target[c] \in Files
       /\ toolPc[c] = "commit" => locked[c] \in Files

\* The store of a session is open and was made by one of its calls.
SessionsInv ==
  /\ \A st \in closed : toolPc[st] # "idle"
  /\ \A s \in Sessions : sessions[s] # None =>
       sessions[s] \notin closed /\ toolPc[sessions[s]] # "idle" /\ session[sessions[s]] = s

\* A call has the store of its session, but for the end of the host or a store that was
\* disposed under it; only the call that made a store disposes it, and ends with that.
StoresInv ==
  \A d \in ToolCalls : toolPc[d] # "idle" =>
    \/ store[d] = sessions[session[d]]
    \/ /\ store[d] \in closed
       /\ shut \/ session[d] \in dropped \/ (toolPc[d] = "done" /\ store[d] = d)

\* The store of a session that wrote last was given to the call that wrote, so that no other
\* call disposes it unnoticed.
WriterInv ==
  ~shut => \A s \in Sessions, f \in Files : lastWriter[f] = s /\ s \notin dropped =>
    /\ \E d \in ToolCalls : toolPc[d] = "done" /\ session[d] = s /\ store[d] = sessions[s]
    /\ <<s, f>> \notin overtaken => observed[sessions[s]][f] = disk[f]

\* What a store holds, and what an edit is of, its session knows.
KnownInv ==
  /\ \A st \in ToolCalls, f \in Files : observed[st][f] # NoVersion =>
       toolPc[st] # "idle" /\ observed[st][f] \in known[session[st]]
  /\ \A c \in ToolCalls : toolPc[c] = "commit" /\ tool[c] = "edit" =>
       snap[c] # Missing /\ snap[c] \in known[session[c]]

ToolsInv == ToolsTypeOK /\ StartedInv /\ SessionsInv /\ StoresInv /\ WriterInv /\ KnownInv

Quiet == <<worldVars, hostVars, argVars, store, obsVars>>
Running(c) == toolPc[c] \notin {"idle", "done"}

(* What a process leaves in a file is a content. *)
LEMMA LeftIsContent == ASSUME NEW m \in Contents PROVE m \in FileContent
<1>1. CASE m = Missing
  BY <1>1 DEF FileContent
<1>2. CASE m # Missing
  <2>1. m \subseteq WriteMarks
    BY <1>2 DEF WriteMarks
  <2> QED BY <2>1 DEF FileContent
<1> QED BY <1>1, <1>2

(* A mutation makes a content. *)
LEMMA AppliedIsContent ==
  ASSUME NEW c \in ToolCalls, NEW m \in FileContent, tool[c] = "edit" => m # Missing
  PROVE  Apply(c, m) \in FileContent /\ Apply(c, m) # NoVersion
<1>1. c \in WriteMarks
  BY DEF WriteMarks
<1>2. Apply(c, m) \in FileContent
  BY <1>1 DEF Apply, FileContent
<1> QED BY <1>2, FileToolsAssumption

Results == {"pending", "ok", "failed", "READ_REQUIRED", "STALE_READ"}
\* What a call keeps to itself; a step changes that of call c alone.
OwnTypes ==
  /\ toolPc \in [ToolCalls -> PCs] /\ locked \in [ToolCalls -> Files \union {None}]
  /\ snap \in [ToolCalls -> FileContent] /\ target \in [ToolCalls -> Files \union {None}]
  /\ toolResult \in [ToolCalls -> Results]
OnlyOf(c) ==
  \A d \in ToolCalls \ {c} : /\ toolPc'[d] = toolPc[d] /\ locked'[d] = locked[d]
                             /\ snap'[d] = snap[d] /\ target'[d] = target[d]

(* A step that only takes a running call on, with what it keeps to itself. *)
LEMMA QuietStep ==
  ASSUME ToolsInv, NEW c \in ToolCalls, Running(c), UNCHANGED Quiet, OwnTypes', OnlyOf(c),
         toolPc'[c] # "idle",
         toolPc'[c] \in {"load", "remember", "enter"} => target'[c] \in Files,
         toolPc'[c] = "commit" => locked'[c] \in Files,
         toolPc'[c] = "commit" /\ tool[c] = "edit" =>
           snap'[c] # Missing /\ snap'[c] \in known[session[c]]
  PROVE  ToolsInv'
<1>1. toolPc[c] # "idle" /\ toolPc[c] # "done"
  BY DEF Running
<1>2. \A d \in ToolCalls : toolPc[d] # "idle" <=> toolPc'[d] # "idle"
  BY <1>1 DEF OnlyOf
<1>3. \A d \in ToolCalls : toolPc[d] = "done" => toolPc'[d] = "done"
  BY <1>1 DEF OnlyOf
<1>4. UNCHANGED <<disk, link, outside, lastWriter, accepting, shut, sessions, closed, dropped, tool,
                  session, path, store, observed, known, overtaken>>
  BY DEF Quiet, worldVars, hostVars, argVars, obsVars
<1>5. /\ closed \subseteq ToolCalls
      /\ \A s \in Sessions : sessions[s] # None => sessions[s] \in ToolCalls
  BY DEF ToolsInv, ToolsTypeOK
<1>6. SessionsInv'
  BY <1>2, <1>4, <1>5 DEF ToolsInv, SessionsInv
<1>7. StoresInv'
  BY <1>2, <1>3, <1>4 DEF ToolsInv, StoresInv
<1>8. WriterInv'
  BY <1>3, <1>4 DEF ToolsInv, WriterInv
<1>9. ToolsTypeOK'
  BY <1>4 DEF ToolsInv, ToolsTypeOK, OwnTypes, Results
<1>12. StartedInv'
  BY <1>2, <1>4 DEF ToolsInv, StartedInv, OnlyOf
<1>13. KnownInv'
  <2>1. \A st \in ToolCalls, g \in Files : observed'[st][g] # NoVersion =>
          toolPc'[st] # "idle" /\ observed'[st][g] \in known'[session'[st]]
    BY <1>2, <1>4 DEF ToolsInv, KnownInv
  <2>2. \A d \in ToolCalls : toolPc'[d] = "commit" /\ tool'[d] = "edit" =>
          snap'[d] # Missing /\ snap'[d] \in known'[session'[d]]
    BY <1>4 DEF ToolsInv, KnownInv, OnlyOf
  <2> QED BY <2>1, <2>2 DEF KnownInv
<1> QED BY <1>6, <1>7, <1>8, <1>9, <1>12, <1>13 DEF ToolsInv

LEMMA OwnAreTyped == ToolsInv => OwnTypes
  BY DEF ToolsInv, ToolsTypeOK, OwnTypes, Results

LEMMA ToolsOpened == ASSUME ToolsInv, NEW c \in ToolCalls, Opened(c) PROVE ToolsInv'
<1>1. Running(c) /\ UNCHANGED <<Quiet, target, snap>> /\ OwnTypes
  BY OwnAreTyped DEF Opened, Running, Quiet
<1>2. CASE accepting
  <2>1. toolPc' = [toolPc EXCEPT ![c] = "resolve"] /\ UNCHANGED <<toolResult, locked>>
    BY <1>2 DEF Opened, Goto
  <2>2. toolPc'[c] = "resolve" /\ OwnTypes' /\ OnlyOf(c)
    BY <1>1, <2>1 DEF OwnTypes, OnlyOf, PCs
  <2> QED BY <1>1, <2>2, QuietStep
<1>3. CASE ~accepting
  <2>1. Finish(c, "failed")
    BY <1>3 DEF Opened
  <2>2. toolPc'[c] = "done" /\ OwnTypes' /\ OnlyOf(c)
    BY <1>1, <2>1 DEF Finish, OwnTypes, OnlyOf, PCs, Results
  <2> QED BY <1>1, <2>2, QuietStep
<1> QED BY <1>2, <1>3

LEMMA ToolsResolve == ASSUME ToolsInv, NEW c \in ToolCalls, Resolve(c) PROVE ToolsInv'
<1> DEFINE f == link[path[c]]
<1>1. Running(c) /\ UNCHANGED <<Quiet, snap>> /\ target' = [target EXCEPT ![c] = f] /\ OwnTypes
  BY OwnAreTyped DEF Resolve, Running, Quiet
<1>2. f \in Files
  BY <1>1 DEF ToolsInv, ToolsTypeOK, StartedInv, Running
<1>3. CASE Finish(c, "failed")
  <2> HIDE DEF f
  <2>1. /\ toolPc'[c] = "done" /\ OwnTypes' /\ OnlyOf(c)
    BY <1>1, <1>2, <1>3 DEF Finish, OwnTypes, OnlyOf, PCs, Results
  <2> QED BY <1>1, <2>1, QuietStep
<1>4. CASE Goto(c, IF tool[c] = "read" THEN "load" ELSE "enter")
  <2> HIDE DEF f
  <2>1. /\ toolPc'[c] \in {"load", "enter"} /\ target'[c] \in Files /\ OwnTypes' /\ OnlyOf(c)
    BY <1>1, <1>2, <1>4 DEF Goto, OwnTypes, OnlyOf, PCs
  <2> QED BY <1>1, <2>1, QuietStep
<1> QED BY <1>3, <1>4 DEF Resolve

LEMMA ToolsLoad == ASSUME ToolsInv, NEW c \in ToolCalls, Load(c) PROVE ToolsInv'
<1> DEFINE b == disk[target[c]]
<1>1. Running(c) /\ UNCHANGED <<Quiet, target, toolResult, locked>> /\ OwnTypes
  BY OwnAreTyped DEF Load, Running, Quiet, Goto
<1>2. snap' = [snap EXCEPT ![c] = b] /\ toolPc' = [toolPc EXCEPT ![c] = "remember"]
  BY DEF Load, Goto
<1>3. target[c] \in Files
  BY DEF Load, ToolsInv, StartedInv
<1>4. b \in FileContent
  BY <1>3 DEF ToolsInv, ToolsTypeOK
<1> HIDE DEF b
<1>5. /\ toolPc'[c] = "remember" /\ target'[c] \in Files /\ OwnTypes' /\ OnlyOf(c)
  BY <1>1, <1>2, <1>3, <1>4 DEF OwnTypes, OnlyOf, PCs
<1> QED BY <1>1, <1>5, QuietStep

LEMMA ToolsEnterWrite == ASSUME ToolsInv, NEW c \in ToolCalls, EnterWrite(c) PROVE ToolsInv'
<1> DEFINE f == link[path[c]]
           b == disk[f]
<1>1. Running(c) /\ UNCHANGED <<Quiet, target, toolResult>> /\ OwnTypes /\ tool[c] # "edit"
  BY OwnAreTyped DEF EnterWrite, Running, Quiet
<1>2. /\ snap' = [snap EXCEPT ![c] = b] /\ toolPc' = [toolPc EXCEPT ![c] = "commit"]
      /\ locked' = [locked EXCEPT ![c] = f]
  BY DEF EnterWrite
<1>3. f \in Files
  BY <1>1 DEF ToolsInv, ToolsTypeOK, StartedInv, Running
<1>4. b \in FileContent
  BY <1>3 DEF ToolsInv, ToolsTypeOK
<1> HIDE DEF f, b
<1>5. /\ toolPc'[c] = "commit" /\ locked'[c] \in Files /\ OwnTypes' /\ OnlyOf(c)
  BY <1>1, <1>2, <1>3, <1>4 DEF OwnTypes, OnlyOf, PCs
<1> QED BY <1>1, <1>5, QuietStep

(* An edit that goes on is of the content its store holds, which its session knows. *)
LEMMA VerdictOfKnown ==
  ASSUME ToolsInv, NEW c \in ToolCalls, toolPc[c] = "enter", NEW m \in FileContent,
         EditVerdict(observed[store[c]][target[c]], m) = "ok"
  PROVE  m # Missing /\ m \in known[session[c]]
<1>1. /\ store[c] \in ToolCalls /\ session[store[c]] = session[c] /\ target[c] \in Files
  BY DEF ToolsInv, StartedInv
<1>2. m # Missing /\ observed[store[c]][target[c]] # NoVersion /\ observed[store[c]][target[c]] = m
  BY DEF EditVerdict
<1> QED BY <1>1, <1>2 DEF ToolsInv, KnownInv

LEMMA ToolsEnterEdit == ASSUME ToolsInv, NEW c \in ToolCalls, EnterEdit(c) PROVE ToolsInv'
<1> DEFINE f == link[path[c]]
           b == disk[f]
           verdict == EditVerdict(observed[store[c]][target[c]], b)
<1>1. /\ Running(c) /\ UNCHANGED <<Quiet, target>> /\ snap' = [snap EXCEPT ![c] = b] /\ OwnTypes
      /\ toolPc[c] = "enter"
  BY OwnAreTyped DEF EnterEdit, Running, Quiet
<1>2. f \in Files
  BY <1>1 DEF ToolsInv, ToolsTypeOK, StartedInv
<1>3. b \in FileContent
  BY <1>2 DEF ToolsInv, ToolsTypeOK
<1>4. CASE /\ verdict = "ok" /\ locked' = [locked EXCEPT ![c] = f]
           /\ toolPc' = [toolPc EXCEPT ![c] = "commit"] /\ UNCHANGED toolResult
  <2>1. b # Missing /\ b \in known[session[c]]
    BY <1>1, <1>3, <1>4, VerdictOfKnown
  <2> HIDE DEF f, b
  <2>2. /\ toolPc'[c] = "commit" /\ locked'[c] \in Files /\ snap'[c] = b /\ OwnTypes' /\ OnlyOf(c)
    BY <1>1, <1>2, <1>3, <1>4 DEF OwnTypes, OnlyOf, PCs
  <2> QED BY <1>1, <2>1, <2>2, QuietStep
<1>5. CASE Finish(c, IF verdict = "ok" THEN "failed" ELSE verdict)
  <2>1. verdict \in {"failed", "READ_REQUIRED", "STALE_READ", "ok"}
    BY DEF EditVerdict
  <2> HIDE DEF b, verdict
  <2>2. /\ toolPc'[c] = "done" /\ OwnTypes' /\ OnlyOf(c)
    BY <1>1, <1>3, <1>5, <2>1 DEF Finish, OwnTypes, OnlyOf, PCs, Results
  <2> QED BY <1>1, <2>2, QuietStep
<1> QED BY <1>4, <1>5 DEF EnterEdit

LEMMA ToolsFail == ASSUME ToolsInv, NEW c \in ToolCalls, FailTool(c) PROVE ToolsInv'
<1>1. Running(c) /\ UNCHANGED <<Quiet, target, snap>> /\ Finish(c, "failed") /\ OwnTypes
  BY OwnAreTyped DEF FailTool, Running, Quiet
<1>2. /\ toolPc'[c] = "done" /\ OwnTypes' /\ OnlyOf(c)
  BY <1>1 DEF Finish, OwnTypes, OnlyOf, PCs, Results
<1> QED BY <1>1, <1>2, QuietStep

-----------------------------------------------------------------------------
(* Steps that change sessions, stores or files. *)

LEMMA ToolsOpen ==
  ASSUME ToolsInv, NEW c \in ToolCalls, NEW t \in ToolNames, NEW s \in Sessions, NEW p \in Paths,
         Open(c, t, s, p)
  PROVE  ToolsInv'
<1> DEFINE st == IF sessions[s] = None THEN c ELSE sessions[s]
<1>1. /\ toolPc[c] = "idle" /\ accepting
      /\ tool' = [tool EXCEPT ![c] = t] /\ session' = [session EXCEPT ![c] = s]
      /\ path' = [path EXCEPT ![c] = p] /\ toolPc' = [toolPc EXCEPT ![c] = "opening"]
      /\ UNCHANGED <<disk, link, outside, lastWriter, accepting, shut, closed, dropped, target, snap,
                     locked, toolResult, observed, known, overtaken>>
  BY DEF Open, Goto, worldVars, obsVars
<1>2. /\ toolPc \in [ToolCalls -> PCs] /\ session \in [ToolCalls -> Sessions \union {None}]
      /\ sessions \in [Sessions -> ToolCalls \union {None}]
      /\ store \in [ToolCalls -> ToolCalls \union {None}]
      /\ tool \in [ToolCalls -> ToolNames \union {None}] /\ path \in [ToolCalls -> Paths \union {None}]
      /\ None \notin ToolCalls /\ closed \subseteq ToolCalls
  BY FileToolsAssumption DEF ToolsInv, ToolsTypeOK
<1>3. sessions' = [sessions EXCEPT ![s] = st] /\ st \in ToolCalls /\ sessions'[s] = st
  BY <1>2 DEF Open
<1>4. store' = [store EXCEPT ![c] = st]
  BY <1>3 DEF Open
<1>5. \A d \in ToolCalls : toolPc[d] # "idle" => d # c
  BY <1>1
<1>6. \A d \in ToolCalls : d # c => /\ toolPc'[d] = toolPc[d] /\ session'[d] = session[d]
                                    /\ store'[d] = store[d] /\ tool'[d] = tool[d]
                                    /\ path'[d] = path[d]
  BY <1>1, <1>2, <1>4
<1>7. toolPc'[c] = "opening" /\ session'[c] = s /\ store'[c] = st /\ tool'[c] = t /\ path'[c] = p
  BY <1>1, <1>2, <1>4
<1>8. c \notin closed
  BY <1>1 DEF ToolsInv, SessionsInv
<1>9. st # c => toolPc[st] # "idle" /\ session[st] = s /\ st \notin closed
  BY <1>2 DEF ToolsInv, SessionsInv
<1>10. \A r \in Sessions : r # s => sessions'[r] = sessions[r]
  BY <1>2, <1>3
<1>11. sessions[s] = st \/ (sessions[s] = None /\ st = c)
  OBVIOUS
<1> HIDE DEF st
<1>12. ToolsTypeOK'
  <2>1. "opening" \in PCs
    BY DEF PCs
  <2> QED BY <1>1, <1>3, <1>4, <2>1 DEF ToolsInv, ToolsTypeOK
<1>13. StartedInv'
  BY <1>1, <1>3, <1>6, <1>7, <1>9 DEF ToolsInv, StartedInv
<1>14. SessionsInv'
  <2>1. \A r \in Sessions : r # s /\ sessions[r] # None => sessions[r] # c /\ sessions[r] \in ToolCalls
    BY <1>1, <1>2 DEF ToolsInv, SessionsInv
  <2>2. st \notin closed /\ toolPc'[st] # "idle" /\ session'[st] = s
    BY <1>3, <1>6, <1>7, <1>8, <1>9
  <2>3. \A e \in closed' : toolPc'[e] # "idle"
    BY <1>1, <1>2, <1>6, <1>7 DEF ToolsInv, SessionsInv
  <2> QED BY <1>1, <1>3, <1>6, <1>10, <2>1, <2>2, <2>3 DEF ToolsInv, SessionsInv
<1>15. StoresInv'
  <2>1. \A d \in ToolCalls : d # c /\ toolPc[d] # "idle" =>
          \/ store[d] = sessions'[session[d]]
          \/ store[d] \in closed /\ (shut \/ session[d] \in dropped \/ (toolPc[d] = "done" /\ store[d] = d))
    <3> SUFFICES ASSUME NEW d \in ToolCalls, d # c, toolPc[d] # "idle", store[d] = sessions[session[d]]
                 PROVE  store[d] = sessions'[session[d]]
      BY DEF ToolsInv, StoresInv
    <3>1. store[d] \in ToolCalls /\ session[d] \in Sessions
      BY DEF ToolsInv, StartedInv
    <3> QED BY <1>2, <1>3, <1>10, <1>11, <3>1
  <2> QED BY <1>1, <1>3, <1>6, <1>7, <2>1 DEF StoresInv
<1>16. WriterInv'
  <2> SUFFICES ASSUME ~shut, NEW r \in Sessions, NEW f \in Files, lastWriter[f] = r, r \notin dropped
               PROVE  /\ \E d \in ToolCalls : toolPc'[d] = "done" /\ session'[d] = r
                                              /\ store'[d] = sessions'[r]
                      /\ <<r, f>> \notin overtaken => observed[sessions'[r]][f] = disk[f]
    BY <1>1 DEF WriterInv
  <2>1. PICK d \in ToolCalls : toolPc[d] = "done" /\ session[d] = r /\ store[d] = sessions[r]
    BY DEF ToolsInv, WriterInv
  <2>2. store[d] \in ToolCalls /\ d # c
    BY <1>5, <2>1 DEF ToolsInv, StartedInv
  <2>3. sessions'[r] = sessions[r]
    BY <1>2, <1>3, <1>10, <1>11, <2>1, <2>2
  <2> QED BY <1>6, <2>1, <2>2, <2>3 DEF ToolsInv, WriterInv
<1>17. KnownInv'
  <2>1. \A e \in ToolCalls, f \in Files : observed'[e][f] # NoVersion =>
          toolPc'[e] # "idle" /\ observed'[e][f] \in known'[session'[e]]
    BY <1>1, <1>6 DEF ToolsInv, KnownInv
  <2> QED BY <1>1, <1>6, <1>7, <2>1 DEF ToolsInv, KnownInv
<1> QED BY <1>12, <1>13, <1>14, <1>15, <1>16, <1>17 DEF ToolsInv

LEMMA ToolsOpenRefused == ASSUME ToolsInv, NEW c \in ToolCalls, OpenRefused(c) PROVE ToolsInv'
<1>1. /\ Running(c) /\ toolPc[c] = "opening" /\ Finish(c, "failed") /\ OwnTypes
      /\ UNCHANGED <<disk, link, outside, lastWriter, accepting, shut, tool, session, path, store,
                     target, snap, known, overtaken>>
  BY OwnAreTyped DEF OpenRefused, Running, worldVars, argVars
<1>2. /\ toolPc'[c] = "done" /\ OwnTypes' /\ OnlyOf(c)
  BY <1>1 DEF Finish, OwnTypes, OnlyOf, PCs, Results
<1>3. CASE ~(store[c] = c /\ sessions[session[c]] = c)
  <2>1. UNCHANGED Quiet
    BY <1>1, <1>3 DEF OpenRefused, Quiet, worldVars, hostVars, argVars, obsVars
  <2> QED BY <1>1, <1>2, <2>1, QuietStep
<1>4. CASE store[c] = c /\ sessions[session[c]] = c
  <2> DEFINE s == session[c]
  <2>1. /\ closed' = closed \union {c} /\ sessions' = [sessions EXCEPT ![s] = None]
        /\ observed' = [observed EXCEPT ![c] = [f \in Files |-> NoVersion]]
        /\ dropped' = IF Shared(c) THEN dropped \union {s} ELSE dropped
    BY <1>4 DEF OpenRefused
  <2>2. s \in Sessions /\ None \notin ToolCalls
    BY <1>1, FileToolsAssumption DEF ToolsInv, StartedInv
  <2>3. /\ sessions \in [Sessions -> ToolCalls \union {None}]
        /\ observed \in [ToolCalls -> [Files -> FileContent \union {NoVersion}]]
        /\ store \in [ToolCalls -> ToolCalls \union {None}] /\ closed \subseteq ToolCalls
    BY DEF ToolsInv, ToolsTypeOK
  <2>4. sessions'[s] = None /\ \A r \in Sessions : r # s => sessions'[r] = sessions[r]
    BY <2>1, <2>2, <2>3
  <2>5. \A d \in ToolCalls : toolPc[d] # "idle" <=> toolPc'[d] # "idle"
    BY <1>1, <1>2 DEF OnlyOf
  <2>6. \A d \in ToolCalls \ {c} : store[d] = c => s \in dropped'
    BY <2>1 DEF Shared
  <2>7. dropped \subseteq dropped' /\ closed \subseteq closed' /\ dropped' \subseteq dropped \union {s}
    BY <2>1
  <2> HIDE DEF s
  <2>8. ToolsTypeOK'
    BY <1>1, <1>2, <2>1, <2>2 DEF ToolsInv, ToolsTypeOK, OwnTypes, Results
  <2>9. StartedInv'
    BY <1>1, <1>2, <2>5 DEF ToolsInv, StartedInv, OnlyOf
  <2>10. SessionsInv'
    <3>1. \A r \in Sessions : r # s /\ sessions[r] # None => sessions[r] # c /\ sessions[r] \in ToolCalls
      BY <2>3 DEF ToolsInv, SessionsInv, s
    <3>2. \A e \in closed' : toolPc'[e] # "idle"
      BY <1>2, <2>1, <2>3, <2>5 DEF ToolsInv, SessionsInv
    <3> QED BY <1>1, <2>1, <2>4, <2>5, <3>1, <3>2 DEF ToolsInv, SessionsInv
  <2>11. StoresInv'
    <3> SUFFICES ASSUME NEW d \in ToolCalls, toolPc[d] # "idle"
                 PROVE  \/ store[d] = sessions'[session[d]]
                        \/ store[d] \in closed'
                             /\ (shut \/ session[d] \in dropped' \/ (toolPc'[d] = "done" /\ store[d] = d))
      BY <1>1, <2>5 DEF StoresInv
    <3>1. CASE d = c
      BY <1>2, <1>4, <2>1, <3>1
    <3>2. CASE d # c /\ store[d] = sessions[session[d]]
      <4>1. session[d] \in Sessions
        BY DEF ToolsInv, StartedInv
      <4>2. CASE session[d] = s
        <5>1. store[d] = c
          BY <1>4, <3>2, <4>2 DEF s
        <5> QED BY <2>1, <2>6, <3>2, <4>2, <5>1
      <4> QED BY <2>4, <3>2, <4>1, <4>2
    <3>3. CASE d # c /\ store[d] # sessions[session[d]]
      <4>1. toolPc'[d] = toolPc[d]
        BY <1>2, <3>3 DEF OnlyOf
      <4> QED BY <2>7, <3>3, <4>1 DEF ToolsInv, StoresInv
    <3> QED BY <3>1, <3>2, <3>3
  <2>12. WriterInv'
    <3> SUFFICES ASSUME ~shut, NEW r \in Sessions, NEW f \in Files, lastWriter[f] = r, r \notin dropped'
                 PROVE  /\ \E d \in ToolCalls : toolPc'[d] = "done" /\ session[d] = r
                                                /\ store[d] = sessions'[r]
                        /\ <<r, f>> \notin overtaken => observed'[sessions'[r]][f] = disk[f]
      BY <1>1 DEF WriterInv
    <3>1. PICK d \in ToolCalls : toolPc[d] = "done" /\ session[d] = r /\ store[d] = sessions[r]
      BY <2>7 DEF ToolsInv, WriterInv
    <3>2. d # c /\ toolPc'[d] = "done" /\ store[d] \in ToolCalls
      BY <1>1, <1>2, <3>1 DEF OnlyOf, ToolsInv, StartedInv
    <3>3. r # s
      BY <1>4, <2>6, <3>1, <3>2 DEF s
    <3>4. sessions'[r] = sessions[r] /\ sessions[r] # c
      BY <2>4, <3>1, <3>2, <3>3, <2>2 DEF ToolsInv, SessionsInv, s
    <3>5. observed'[sessions[r]] = observed[sessions[r]]
      BY <2>1, <2>3, <3>1, <3>2, <3>4
    <3> QED BY <2>7, <3>1, <3>2, <3>4, <3>5 DEF ToolsInv, WriterInv
  <2>13. KnownInv'
    <3>1. \A st \in ToolCalls, f \in Files : observed'[st][f] # NoVersion => observed'[st][f] = observed[st][f]
      BY <2>1, <2>3
    <3>2. \A st \in ToolCalls, f \in Files : observed'[st][f] # NoVersion =>
            toolPc'[st] # "idle" /\ observed'[st][f] \in known'[session'[st]]
      BY <1>1, <2>5, <3>1 DEF ToolsInv, KnownInv
    <3> QED BY <1>1, <1>2, <3>2 DEF ToolsInv, KnownInv, OnlyOf
  <2> QED BY <2>8, <2>9, <2>10, <2>11, <2>12, <2>13 DEF ToolsInv
<1> QED BY <1>3, <1>4

LEMMA ToolsStop == ASSUME ToolsInv, StopHost PROVE ToolsInv'
<1>1. UNCHANGED <<disk, link, outside, lastWriter, shut, sessions, closed, dropped, tool, session, path,
                  toolPc, store, target, snap, locked, toolResult, observed, known, overtaken>>
      /\ accepting' = FALSE
  BY DEF StopHost, worldVars, argVars, callVars, obsVars
<1>2. ToolsTypeOK'
  BY <1>1 DEF ToolsInv, ToolsTypeOK
<1>3. StartedInv' /\ SessionsInv'
  BY <1>1 DEF ToolsInv, StartedInv, SessionsInv
<1>4. StoresInv' /\ WriterInv' /\ KnownInv'
  BY <1>1 DEF ToolsInv, StoresInv, WriterInv, KnownInv
<1> QED BY <1>2, <1>3, <1>4 DEF ToolsInv

LEMMA ToolsDispose == ASSUME ToolsInv, DisposeHost PROVE ToolsInv'
<1>1. /\ UNCHANGED <<disk, link, outside, lastWriter, accepting, dropped, tool, session, path,
                     toolPc, store, target, snap, locked, toolResult, known, overtaken>>
      /\ ~accepting /\ shut' = TRUE
      /\ closed' = closed \union ({sessions[s] : s \in Sessions} \ {None})
      /\ observed' = [c \in ToolCalls |-> [f \in Files |-> NoVersion]]
      /\ sessions' = [s \in Sessions |-> None]
  BY DEF DisposeHost, worldVars, argVars, callVars
<1>2. sessions \in [Sessions -> ToolCalls \union {None}] /\ closed \subseteq ToolCalls
  BY DEF ToolsInv, ToolsTypeOK
<1>3. ToolsTypeOK'
  BY <1>1, <1>2 DEF ToolsInv, ToolsTypeOK
<1>4. StartedInv' /\ WriterInv'
  BY <1>1 DEF ToolsInv, StartedInv, WriterInv
<1>5. SessionsInv'
  BY <1>1, <1>2 DEF ToolsInv, SessionsInv
<1>6. StoresInv'
  <2> SUFFICES ASSUME NEW d \in ToolCalls, toolPc[d] # "idle" PROVE store[d] \in closed'
    BY <1>1 DEF StoresInv
  <2>1. session[d] \in Sessions /\ store[d] \in ToolCalls /\ None \notin ToolCalls
    BY FileToolsAssumption DEF ToolsInv, StartedInv
  <2> QED BY <1>1, <2>1 DEF ToolsInv, StoresInv
<1>7. KnownInv'
  BY <1>1 DEF ToolsInv, KnownInv
<1> QED BY <1>3, <1>4, <1>5, <1>6, <1>7 DEF ToolsInv

(* A call that records what its session learns of a file, and ends: a read of what it loaded, a
   mutation of what it has written. *)
LEMMA ToolsRecord ==
  ASSUME ToolsInv, NEW c \in ToolCalls, Running(c), ~shut, NEW f \in Files, NEW new \in FileContent,
         Record(store[c], f, new), Learn(c, f, new), Finish(c, "ok"),
         UNCHANGED <<link, outside, hostVars, argVars, store, target, snap>>,
         disk' \in [Files -> FileContent], lastWriter' \in [Files -> Sessions \union {None}],
         \A g \in Files \ {f} : disk'[g] = disk[g] /\ lastWriter'[g] = lastWriter[g],
         \/ disk'[f] = disk[f] /\ lastWriter'[f] = lastWriter[f]
         \/ disk'[f] = new /\ lastWriter'[f] = session[c]
  PROVE  ToolsInv'
<1> DEFINE s == session[c]
           st == store[c]
<1>1. /\ UNCHANGED <<accepting, shut, sessions, closed, dropped, tool, session, path>>
      /\ OwnTypes /\ new # NoVersion
  BY OwnAreTyped, FileToolsAssumption DEF hostVars, argVars
<1>2. /\ toolPc'[c] = "done" /\ OwnTypes' /\ OnlyOf(c)
  BY <1>1 DEF Finish, OwnTypes, OnlyOf, PCs, Results
<1>3. toolPc[c] # "idle" /\ toolPc[c] # "done"
  BY DEF Running
<1>4. s \in Sessions /\ st \in ToolCalls /\ toolPc[st] # "idle" /\ session[st] = s
  BY <1>3 DEF ToolsInv, StartedInv
<1>5. \A d \in ToolCalls : /\ toolPc[d] # "idle" <=> toolPc'[d] # "idle"
                           /\ toolPc[d] = "done" => toolPc'[d] = "done"
  BY <1>2, <1>3 DEF OnlyOf
<1>6. /\ known \in [Sessions -> SUBSET FileContent] /\ overtaken \in SUBSET (Sessions \X Files)
      /\ observed \in [ToolCalls -> [Files -> FileContent \union {NoVersion}]]
      /\ sessions \in [Sessions -> ToolCalls \union {None}] /\ None \notin ToolCalls
      /\ closed \subseteq ToolCalls
  BY FileToolsAssumption DEF ToolsInv, ToolsTypeOK
<1>7. /\ known' = [known EXCEPT ![s] = @ \union {new}]
      /\ overtaken' = IF new = disk'[f] THEN overtaken \ {<<s, f>>} ELSE overtaken \union {<<s, f>>}
      /\ observed' = IF st \in closed THEN observed ELSE [observed EXCEPT ![st][f] = new]
  BY DEF Learn, Record
<1> HIDE DEF s, st
<1>8. /\ known' \in [Sessions -> SUBSET FileContent] /\ overtaken' \in SUBSET (Sessions \X Files)
      /\ observed' \in [ToolCalls -> [Files -> FileContent \union {NoVersion}]]
  BY <1>4, <1>6, <1>7
<1>9. \A r \in Sessions : known[r] \subseteq known'[r]
  BY <1>4, <1>6, <1>7
<1>10. new \in known'[s]
  BY <1>4, <1>6, <1>7
<1>11. \A e \in ToolCalls, g \in Files : observed'[e][g] = observed[e][g] \/ (e = st /\ g = f /\ observed'[e][g] = new)
  BY <1>4, <1>6, <1>7
<1>12. \A r \in Sessions, g \in Files : r # s \/ g # f => (<<r, g>> \in overtaken' <=> <<r, g>> \in overtaken)
  BY <1>7
<1>13. <<s, f>> \notin overtaken' => new = disk'[f]
  BY <1>7
<1>14. ToolsTypeOK'
  BY <1>1, <1>2, <1>8 DEF ToolsInv, ToolsTypeOK, OwnTypes, Results
<1>15. StartedInv'
  BY <1>1, <1>2, <1>5 DEF ToolsInv, StartedInv, OnlyOf
<1>16. SessionsInv'
  BY <1>1, <1>5, <1>6 DEF ToolsInv, SessionsInv
<1>17. StoresInv'
  BY <1>1, <1>5 DEF ToolsInv, StoresInv
<1>18. WriterInv'
  <2> SUFFICES ASSUME NEW r \in Sessions, NEW g \in Files, lastWriter'[g] = r, r \notin dropped
               PROVE  /\ \E d \in ToolCalls : toolPc'[d] = "done" /\ session[d] = r /\ store[d] = sessions[r]
                      /\ <<r, g>> \notin overtaken' => observed'[sessions[r]][g] = disk'[g]
    BY <1>1 DEF WriterInv
  <2>1. r = s => st = sessions[r] /\ st \notin closed
    <3>1. r = s => st = sessions[s]
      BY <1>3, <1>4 DEF ToolsInv, StoresInv, s, st
    <3> QED BY <1>4, <1>6, <3>1 DEF ToolsInv, SessionsInv
  <2>2. CASE r = s /\ g = f
    <3>1. \E d \in ToolCalls : toolPc'[d] = "done" /\ session[d] = r /\ store[d] = sessions[r]
      BY <1>2, <2>1, <2>2 DEF s, st
    <3>2. observed'[st][f] = new
      BY <1>4, <1>6, <1>7, <2>1, <2>2
    <3> QED BY <1>13, <2>1, <2>2, <3>1, <3>2
  <2>3. CASE r # s \/ g # f
    <3>1. lastWriter[g] = r /\ disk'[g] = disk[g]
      BY <2>3 DEF s
    <3>2. PICK d \in ToolCalls : toolPc[d] = "done" /\ session[d] = r /\ store[d] = sessions[r]
      BY <3>1 DEF ToolsInv, WriterInv
    <3>3. sessions[r] \in ToolCalls /\ session[sessions[r]] = r
      BY <1>6, <3>2 DEF ToolsInv, StartedInv, SessionsInv
    <3>4. observed'[sessions[r]][g] = observed[sessions[r]][g]
      BY <1>4, <1>6, <1>7, <2>3, <3>3
    <3> QED BY <1>5, <1>12, <2>3, <3>1, <3>2, <3>4 DEF ToolsInv, WriterInv
  <2> QED BY <2>2, <2>3
<1>19. KnownInv'
  <2>1. \A e \in ToolCalls, g \in Files : observed'[e][g] # NoVersion =>
          toolPc'[e] # "idle" /\ observed'[e][g] \in known'[session[e]]
    <3> SUFFICES ASSUME NEW e \in ToolCalls, NEW g \in Files, observed'[e][g] # NoVersion
                 PROVE  toolPc'[e] # "idle" /\ observed'[e][g] \in known'[session[e]]
      OBVIOUS
    <3>1. CASE observed'[e][g] = observed[e][g]
      <4>1. toolPc[e] # "idle" /\ observed[e][g] \in known[session[e]] /\ session[e] \in Sessions
        BY <3>1 DEF ToolsInv, KnownInv, StartedInv
      <4> QED BY <1>5, <1>9, <3>1, <4>1
    <3>2. CASE e = st /\ observed'[e][g] = new
      BY <1>4, <1>5, <1>10, <3>2
    <3> QED BY <1>11, <3>1, <3>2
  <2>2. \A d \in ToolCalls : toolPc'[d] = "commit" /\ tool[d] = "edit" =>
          snap'[d] # Missing /\ snap'[d] \in known'[session[d]]
    <3> SUFFICES ASSUME NEW d \in ToolCalls, toolPc'[d] = "commit", tool[d] = "edit"
                 PROVE  snap'[d] # Missing /\ snap'[d] \in known'[session[d]]
      OBVIOUS
    <3>1. d # c /\ toolPc[d] = "commit" /\ snap'[d] = snap[d]
      BY <1>2 DEF OnlyOf
    <3>2. session[d] \in Sessions
      BY <3>1 DEF ToolsInv, StartedInv
    <3> QED BY <1>9, <3>1, <3>2 DEF ToolsInv, KnownInv
  <2> QED BY <1>1, <2>1, <2>2 DEF KnownInv
<1> QED BY <1>14, <1>15, <1>16, <1>17, <1>18, <1>19 DEF ToolsInv

LEMMA ToolsRemember == ASSUME ToolsInv, NEW c \in ToolCalls, Remember(c) PROVE ToolsInv'
<1>1. /\ Running(c) /\ toolPc[c] = "remember" /\ ~shut
      /\ Record(store[c], target[c], snap[c]) /\ Learn(c, target[c], snap[c]) /\ Finish(c, "ok")
      /\ UNCHANGED <<disk, lastWriter>>
      /\ UNCHANGED <<link, outside, hostVars, argVars, store, target, snap>>
  BY DEF Remember, Running, worldVars
<1>2. target[c] \in Files
  BY <1>1 DEF ToolsInv, StartedInv
<1>3. /\ snap[c] \in FileContent /\ disk \in [Files -> FileContent]
      /\ lastWriter \in [Files -> Sessions \union {None}]
  BY DEF ToolsInv, ToolsTypeOK
<1>4. disk' \in [Files -> FileContent] /\ lastWriter' \in [Files -> Sessions \union {None}]
  BY <1>1, <1>3
<1> QED BY <1>1, <1>2, <1>3, <1>4, ToolsRecord

LEMMA ToolsCommit == ASSUME ToolsInv, NEW c \in ToolCalls, Commit(c) PROVE ToolsInv'
<1> DEFINE f == locked[c]
           new == Apply(c, snap[c])
<1>1. /\ Running(c) /\ toolPc[c] = "commit" /\ ~shut
      /\ disk' = [disk EXCEPT ![f] = new] /\ lastWriter' = [lastWriter EXCEPT ![f] = session[c]]
      /\ Record(store[c], f, disk'[f]) /\ Learn(c, f, disk'[f]) /\ Finish(c, "ok")
      /\ UNCHANGED <<link, outside, hostVars, argVars, store, target, snap>>
  BY DEF Commit, Running
<1>2. f \in Files /\ session[c] \in Sessions
  BY <1>1 DEF ToolsInv, StartedInv
<1>3. /\ disk \in [Files -> FileContent] /\ lastWriter \in [Files -> Sessions \union {None}]
      /\ snap[c] \in FileContent
  BY DEF ToolsInv, ToolsTypeOK
<1>4. new \in FileContent
  BY <1>1, <1>3, AppliedIsContent DEF ToolsInv, KnownInv
<1> HIDE DEF f, new
<1>5. disk'[f] = new /\ lastWriter'[f] = session[c]
  BY <1>1, <1>2, <1>3
<1>6. disk' \in [Files -> FileContent] /\ lastWriter' \in [Files -> Sessions \union {None}]
  BY <1>1, <1>2, <1>3, <1>4
<1>7. \A g \in Files \ {f} : disk'[g] = disk[g] /\ lastWriter'[g] = lastWriter[g]
  BY <1>1, <1>3
<1>8. Record(store[c], f, new) /\ Learn(c, f, new)
  BY <1>1, <1>5
<1> QED BY <1>1, <1>2, <1>4, <1>5, <1>6, <1>7, <1>8, ToolsRecord

LEMMA ToolsOutsideWrite == ASSUME ToolsInv, NEW f \in Files, OutsideWrite(f) PROVE ToolsInv'
<1>1. /\ UNCHANGED <<link, accepting, shut, sessions, closed, dropped, tool, session, path,
                     toolPc, store, target, snap, locked, toolResult, observed, known, overtaken>>
      /\ lastWriter' = [lastWriter EXCEPT ![f] = None]
      /\ outside < MaxOutside /\ outside' = outside + 1
  BY DEF OutsideWrite, hostVars, argVars, callVars, obsVars
<1>2. PICK content \in Contents : disk' = [disk EXCEPT ![f] = content]
  BY DEF OutsideWrite
<1>3. content \in FileContent /\ None \notin Sessions /\ outside' \in 0 .. MaxOutside
  BY <1>1, LeftIsContent, FileToolsAssumption DEF ToolsInv, ToolsTypeOK
<1>4. ToolsTypeOK'
  BY <1>1, <1>2, <1>3 DEF ToolsInv, ToolsTypeOK
<1>5. disk \in [Files -> FileContent] /\ lastWriter \in [Files -> Sessions \union {None}]
  BY DEF ToolsInv, ToolsTypeOK
<1>6. \A g \in Files : lastWriter'[g] # None => lastWriter'[g] = lastWriter[g] /\ disk'[g] = disk[g]
  BY <1>1, <1>2, <1>5
<1>7. WriterInv'
  BY <1>1, <1>3, <1>6 DEF ToolsInv, WriterInv
<1>8. StartedInv' /\ SessionsInv'
  BY <1>1 DEF ToolsInv, StartedInv, SessionsInv
<1>9. StoresInv' /\ KnownInv'
  BY <1>1 DEF ToolsInv, StoresInv, KnownInv
<1> QED BY <1>4, <1>7, <1>8, <1>9 DEF ToolsInv

LEMMA ToolsOutsideRetarget == ASSUME ToolsInv, NEW p \in Paths, OutsideRetarget(p) PROVE ToolsInv'
<1>1. /\ UNCHANGED <<disk, lastWriter, accepting, shut, sessions, closed, dropped, tool, session, path,
                     toolPc, store, target, snap, locked, toolResult, observed, known, overtaken>>
      /\ outside < MaxOutside /\ outside' = outside + 1
  BY DEF OutsideRetarget, hostVars, argVars, callVars, obsVars
<1>2. PICK f \in Files : link' = [link EXCEPT ![p] = f]
  BY DEF OutsideRetarget
<1>3. outside' \in 0 .. MaxOutside
  BY <1>1, FileToolsAssumption DEF ToolsInv, ToolsTypeOK
<1>4. ToolsTypeOK'
  BY <1>1, <1>2, <1>3 DEF ToolsInv, ToolsTypeOK
<1>5. StartedInv' /\ SessionsInv'
  BY <1>1 DEF ToolsInv, StartedInv, SessionsInv
<1>6. StoresInv' /\ WriterInv' /\ KnownInv'
  BY <1>1 DEF ToolsInv, StoresInv, WriterInv, KnownInv
<1> QED BY <1>4, <1>5, <1>6 DEF ToolsInv

LEMMA ToolsInvInit == ToolsInit => ToolsInv
<1> SUFFICES ASSUME ToolsInit PROVE ToolsInv
  OBVIOUS
<1>1. Contents \subseteq FileContent /\ Missing \in FileContent
  BY LeftIsContent DEF FileContent
<1>2. MaxOutside \in Nat /\ None \notin Sessions
  BY FileToolsAssumption
<1>3. disk \in [Files -> FileContent]
  BY <1>1 DEF ToolsInit
<1>4. ToolsTypeOK
  <2>1. outside \in 0 .. MaxOutside /\ link \in [Paths -> Files]
    BY <1>2 DEF ToolsInit
  <2>6. accepting \in BOOLEAN /\ shut \in BOOLEAN
    BY Zenon DEF ToolsInit
  <2>2. /\ sessions \in [Sessions -> ToolCalls \union {None}]
        /\ closed \in SUBSET ToolCalls /\ dropped \in SUBSET Sessions
        /\ overtaken \in SUBSET (Sessions \X Files) /\ known \in [Sessions -> SUBSET FileContent]
    BY DEF ToolsInit
  <2>3. /\ observed \in [ToolCalls -> [Files -> FileContent \union {NoVersion}]]
        /\ lastWriter \in [Files -> Sessions \union {None}]
    BY DEF ToolsInit
  <2>4. /\ toolPc \in [ToolCalls -> PCs] /\ tool \in [ToolCalls -> ToolNames \union {None}]
        /\ session \in [ToolCalls -> Sessions \union {None}]
        /\ path \in [ToolCalls -> Paths \union {None}]
        /\ store \in [ToolCalls -> ToolCalls \union {None}]
    BY DEF ToolsInit, PCs
  <2>5. /\ target \in [ToolCalls -> Files \union {None}]
        /\ locked \in [ToolCalls -> Files \union {None}]
        /\ snap \in [ToolCalls -> FileContent]
        /\ toolResult \in [ToolCalls -> {"pending", "ok", "failed", "READ_REQUIRED", "STALE_READ"}]
    BY <1>1 DEF ToolsInit
  <2> QED BY <1>3, <2>1, <2>2, <2>3, <2>4, <2>5, <2>6 DEF ToolsTypeOK
<1>5. \A c \in ToolCalls : toolPc[c] = "idle"
  BY DEF ToolsInit
<1>6. StartedInv /\ SessionsInv /\ StoresInv
  BY <1>5 DEF ToolsInit, StartedInv, SessionsInv, StoresInv
<1>7. WriterInv /\ KnownInv
  BY <1>2, <1>5 DEF ToolsInit, WriterInv, KnownInv
<1> QED BY <1>4, <1>6, <1>7 DEF ToolsInv

LEMMA ToolsInductive == ToolsInv /\ [ToolsNext]_toolVars => ToolsInv'
<1> SUFFICES ASSUME ToolsInv, [ToolsNext]_toolVars PROVE ToolsInv'
  OBVIOUS
<1>1. ASSUME NEW c \in ToolCalls,
             \/ \E t \in ToolNames, s \in Sessions, p \in Paths : Open(c, t, s, p)
             \/ OpenRefused(c) \/ Opened(c) \/ Resolve(c)
      PROVE  ToolsInv'
  BY <1>1, ToolsOpen, ToolsOpenRefused, ToolsOpened, ToolsResolve
<1>2. ASSUME NEW c \in ToolCalls,
             \/ Load(c) \/ Remember(c) \/ EnterWrite(c) \/ EnterEdit(c) \/ Commit(c) \/ FailTool(c)
      PROVE  ToolsInv'
  BY <1>2, ToolsLoad, ToolsRemember, ToolsEnterWrite, ToolsEnterEdit, ToolsCommit, ToolsFail
<1>3. CASE StopHost \/ DisposeHost
  BY <1>3, ToolsStop, ToolsDispose
<1>4. CASE (\E f \in Files : OutsideWrite(f)) \/ (\E p \in Paths : OutsideRetarget(p))
  BY <1>4, ToolsOutsideWrite, ToolsOutsideRetarget
<1>5. CASE UNCHANGED toolVars
  <2>1. UNCHANGED <<disk, link, outside, lastWriter, accepting, shut, sessions, closed, dropped, tool,
                    session, path, toolPc, store, target, snap, locked, toolResult, observed, known,
                    overtaken>>
    BY <1>5 DEF toolVars, worldVars, hostVars, argVars, callVars, obsVars
  <2>2. ToolsTypeOK'
    BY <2>1 DEF ToolsInv, ToolsTypeOK
  <2>3. StartedInv' /\ SessionsInv'
    BY <2>1 DEF ToolsInv, StartedInv, SessionsInv
  <2>4. StoresInv' /\ WriterInv' /\ KnownInv'
    BY <2>1 DEF ToolsInv, StoresInv, WriterInv, KnownInv
  <2> QED BY <2>2, <2>3, <2>4 DEF ToolsInv
<1> QED BY <1>1, <1>2, <1>3, <1>4, <1>5 DEF ToolsNext

(* After its commit a session can edit again at once, whatever other calls, sessions, links and
   the end of the host do, unless a read of its own overlapped the commit
   (file-tools/write/command.ts, docs/file-tools/contracts.md:67). *)
THEOREM CommitsAreRemembered == ToolsSpec => []CommitKeepsObservation
<1>1. ToolsInv => CommitKeepsObservation
  <2> SUFFICES ASSUME ToolsInv PROVE CommitKeepsObservation
    OBVIOUS
  <2>1. \A c \in ToolCalls : toolPc[c] \notin {"idle", "done"} =>
          store[c] = sessions[session[c]] \/ store[c] \in closed
    BY DEF ToolsInv, StoresInv
  <2>2. ASSUME ~shut, NEW s \in Sessions, NEW f \in Files,
               lastWriter[f] = s /\ s \notin dropped /\ <<s, f>> \notin overtaken
        PROVE  Observation(s, f) = disk[f]
    <3>1. PICK d \in ToolCalls : toolPc[d] = "done" /\ session[d] = s /\ store[d] = sessions[s]
      BY <2>2 DEF ToolsInv, WriterInv
    <3>2. sessions[s] # None
      BY <3>1, FileToolsAssumption DEF ToolsInv, StartedInv
    <3> QED BY <2>2, <3>2 DEF ToolsInv, WriterInv, Observation
  <2> QED BY <2>1, <2>2 DEF ToolsInv, CommitKeepsObservation
<1> QED BY <1>1, ToolsInvInit, ToolsInductive, PTL DEF ToolsSpec

(* An edit is committed only over a content its session has been shown or has written itself
   (file-tools/edit/command.ts:164, prepareSnapshot). *)
THEOREM EditsAreOfKnownContent == ToolsSpec => EditOfKnownContent
<1> DEFINE KnownWhenCommitted == \A c \in ToolCalls : Committed(c) /\ tool[c] = "edit" =>
                       disk[locked[c]] \in known[session[c]]
<1>1. ToolsInv /\ [ToolsNext]_toolVars => [KnownWhenCommitted]_toolVars
  <2> SUFFICES ASSUME ToolsInv, ToolsNext, NEW c \in ToolCalls, Committed(c), tool[c] = "edit"
               PROVE  disk[locked[c]] \in known[session[c]]
    OBVIOUS
  <2>1. /\ toolPc \in [ToolCalls -> PCs]
        /\ toolResult \in [ToolCalls -> {"pending", "ok", "failed", "READ_REQUIRED", "STALE_READ"}]
    BY DEF ToolsInv, ToolsTypeOK
  <2>2. toolPc[c] = "commit" /\ toolPc'[c] = "done" /\ toolResult'[c] = "ok"
    BY DEF Committed
  <2>3. Commit(c)
    <3>1. ASSUME NEW d \in ToolCalls, toolPc[d] # "commit", NEW p, toolPc' = [toolPc EXCEPT ![d] = p]
          PROVE  FALSE
      BY <2>1, <2>2, <3>1
    <3>2. ASSUME NEW d \in ToolCalls,
                 \/ \E t \in ToolNames, s \in Sessions, q \in Paths : Open(d, t, s, q)
                 \/ OpenRefused(d) \/ Opened(d) \/ Resolve(d) \/ Load(d) \/ Remember(d)
                 \/ EnterWrite(d) \/ EnterEdit(d)
          PROVE  FALSE
      <4>1. toolPc[d] # "commit"
        BY <3>2 DEF Open, OpenRefused, Opened, Resolve, Load, Remember, EnterWrite, EnterEdit
      <4>2. \E p : toolPc' = [toolPc EXCEPT ![d] = p]
        BY <3>2 DEF Open, OpenRefused, Opened, Resolve, Load, Remember, EnterWrite, EnterEdit,
             Finish, Goto
      <4> QED BY <3>1, <4>1, <4>2
    <3>3. ASSUME NEW d \in ToolCalls, FailTool(d) PROVE FALSE
      <4>1. toolPc' = [toolPc EXCEPT ![d] = "done"] /\ toolResult' = [toolResult EXCEPT ![d] = "failed"]
        BY <3>3 DEF FailTool, Finish
      <4> QED BY <2>1, <2>2, <4>1
    <3>4. ASSUME NEW d \in ToolCalls, Commit(d) PROVE d = c
      <4>1. toolPc' = [toolPc EXCEPT ![d] = "done"]
        BY <3>4 DEF Commit, Finish
      <4> QED BY <2>1, <2>2, <4>1
    <3>5. CASE \/ StopHost \/ DisposeHost \/ \E f \in Files : OutsideWrite(f)
               \/ \E p \in Paths : OutsideRetarget(p)
      BY <2>2, <3>5 DEF StopHost, DisposeHost, OutsideWrite, OutsideRetarget, callVars
    <3> QED BY <3>2, <3>3, <3>4, <3>5 DEF ToolsNext
  <2> QED BY <2>2, <2>3 DEF Commit, ToolsInv, KnownInv
<1> QED BY <1>1, ToolsInvInit, ToolsInductive, PTL DEF ToolsSpec, EditOfKnownContent
=============================================================================

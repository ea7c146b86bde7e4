------------------------------ MODULE WebSearch ------------------------------
(***************************************************************************)
(* websearch (src/web-tools): the result cache and its single flights, the *)
(* provider router with provider health and the negative cache, and the    *)
(* DuckDuckGo fallback behind SearchGate. What a provider returns is one   *)
(* of the classes the router tells apart. Time is in ticks, as in the gate.*)
(***************************************************************************)
EXTENDS Naturals, Sequences, FiniteSets, FiniteSetsExt

CONSTANTS
  Calls,         \* calls of the tool
  Keys,          \* normalized searches (search cache keys)
  Formal,        \* the formal providers that are configured
  Order,         \* Order[k]: candidateOrder of search k
  None,          \* no key, no call
  Deadline,      \* total_deadline_seconds
  CacheTtl,      \* cache_ttl_seconds
  NegativeTtl,   \* negative_cache_ttl_seconds
  RetryAfter,    \* Retry-After of a rate limit
  Interval, Cooldown

SearchAssumption ==
  /\ {Deadline, CacheTtl, NegativeTtl, RetryAfter, Interval, Cooldown} \subseteq Nat \ {0}
  /\ Order \in [Keys -> Seq(Formal)]
  /\ None \notin Calls \union Keys
ASSUME SearchAssumption

VARIABLES
  phase,       \* idle, following, asking (a formal provider), gate, ddg, done
  key,         \* key[c]: what the flight of leader c searches
  leader,      \* leader[c]: the call whose flight c awaits
  left,        \* left[c]: ticks to the deadline of the flight of leader c
  webAborted,  \* leaders of flights whose user aborted
  pos,         \* pos[c]: index in Order[key[c]] of the provider asked
  formalCalls, \* formalProviderCalls
  hardFailed,  \* hardFailed
  usable,      \* usable[c]: some formal result is usable
  cached,      \* cached[k]: ticks the cached result is still good for, 0 when absent
  inFlight,    \* inFlight[k]: the leader of the flight of k
  shut,        \* providers exhausted or misconfigured
  cooling,     \* cooling[p]: ticks of cooldown left
  negative,    \* negative[p][k]: ticks the negative entry has left
  negativeHard,  \* <<p, k>> whose negative entry is a hard failure
  lock, sleeping, wake, toNext, toUnblock,
  sinceSent,   \* history: ticks since a request went to DuckDuckGo, at most Interval
  sentBlocked  \* history: requests sent in the present cooldown, at most 2

Gate == INSTANCE SearchGate WITH Callers <- Calls

chainVars == <<lock, sleeping, wake, toNext, toUnblock>>
flightVars == <<phase, key, leader, left, pos, formalCalls, hardFailed, usable>>
cacheVars == <<cached, inFlight>>
healthVars == <<shut, cooling, negative, negativeHard>>
paceVars == <<sinceSent, sentBlocked>>
searchVars == <<flightVars, webAborted, cacheVars, healthVars, chainVars, paceVars>>

Flying == {"asking", "gate", "ddg"}

\* Types; a key is in flight exactly while one call leads its flight.
SearchTypeOK ==
  /\ phase \in [Calls -> Flying \union {"idle", "following", "done"}]
  /\ key \in [Calls -> Keys \union {None}] /\ leader \in [Calls -> Calls \union {None}]
  /\ left \in [Calls -> 0..Deadline] /\ webAborted \in SUBSET Calls
  /\ pos \in [Calls -> Nat] /\ formalCalls \in [Calls -> 0..2]
  /\ hardFailed \in [Calls -> SUBSET Formal] /\ usable \in [Calls -> BOOLEAN]
  /\ cached \in [Keys -> 0..CacheTtl] /\ inFlight \in [Keys -> Calls \union {None}]
  /\ shut \in SUBSET Formal /\ cooling \in [Formal -> 0..RetryAfter]
  /\ negative \in [Formal -> [Keys -> 0..RetryAfter + NegativeTtl]]
  /\ negativeHard \in SUBSET (Formal \X Keys)
  /\ Gate!GateTypeOK
  /\ sinceSent \in 0..Interval /\ sentBlocked \in 0..2

SearchInit ==
  /\ phase = [c \in Calls |-> "idle"] /\ key = [c \in Calls |-> None]
  /\ leader = [c \in Calls |-> None] /\ left = [c \in Calls |-> 0] /\ webAborted = {}
  /\ pos = [c \in Calls |-> 0] /\ formalCalls = [c \in Calls |-> 0]
  /\ hardFailed = [c \in Calls |-> {}] /\ usable = [c \in Calls |-> FALSE]
  /\ cached = [k \in Keys |-> 0] /\ inFlight = [k \in Keys |-> None]
  /\ shut = {} /\ cooling = [p \in Formal |-> 0]
  /\ negative = [p \in Formal |-> [k \in Keys |-> 0]] /\ negativeHard = {}
  /\ Gate!GateInit
  /\ sinceSent = Interval /\ sentBlocked = 0

-----------------------------------------------------------------------------
(* The router's loop over the candidates runs without a break from one      *)
(* answer to the next request, so it is part of the action it follows.      *)
(* Primed health variables are what the answer left behind.                 *)

Unavailable(p) == p \in shut' \/ cooling'[p] > 0

\* The signal of a flight: its leader's user, or its deadline.
SignalFired(c) == c \in webAborted \/ left[c] = 0

\* The flight of leader c ends: its key is free, a success is cached,
\* and the leader and its followers return.
EndFlight(c, k, ok) ==
  LET with == {c} \union {d \in Calls : phase[d] = "following" /\ leader[d] = c} IN
  /\ phase' = [d \in Calls |-> IF d \in with THEN "done" ELSE phase[d]]
  /\ leader' = [d \in Calls |-> IF d \in with THEN None ELSE leader[d]]
  /\ key' = [key EXCEPT ![c] = None]
  /\ webAborted' = webAborted \ {c}
  /\ left' = [left EXCEPT ![c] = 0] /\ pos' = [pos EXCEPT ![c] = 0]
  /\ formalCalls' = [formalCalls EXCEPT ![c] = 0]
  /\ hardFailed' = [hardFailed EXCEPT ![c] = {}] /\ usable' = [usable EXCEPT ![c] = FALSE]
  /\ inFlight' = [inFlight EXCEPT ![k] = None]
  /\ cached' = IF ok THEN [cached EXCEPT ![k] = CacheTtl] ELSE cached

\* From position i on: ask the next candidate that is available and not in the
\* negative cache, or leave the loop with the usable results, for DuckDuckGo
\* when every formal provider is out, or with a failure.
Continue(c, k, i, n, hard, good, time) ==
  LET open == {j \in (i + 1)..Len(Order[k]) :
                 ~Unavailable(Order[k][j]) /\ negative'[Order[k][j]][k] = 0}
      next == IF open = {} THEN Len(Order[k]) + 1 ELSE Min(open)
      stop == n = 2 \/ time = 0
      skippedHard == {p \in {Order[k][j] : j \in (i + 1)..(next - 1)} :
                        ~Unavailable(p) /\ <<p, k>> \in negativeHard'}
      out == IF stop THEN hard ELSE hard \union skippedHard
  IN
  IF ~stop /\ open # {}
  THEN /\ phase' = [phase EXCEPT ![c] = "asking"] /\ pos' = [pos EXCEPT ![c] = next]
       /\ formalCalls' = [formalCalls EXCEPT ![c] = n]
       /\ hardFailed' = [hardFailed EXCEPT ![c] = out]
       /\ usable' = [usable EXCEPT ![c] = good] /\ left' = [left EXCEPT ![c] = time]
       /\ inFlight' = [inFlight EXCEPT ![k] = c] /\ key' = [key EXCEPT ![c] = k]
       /\ UNCHANGED <<leader, webAborted, cached, chainVars>>
  ELSE IF ~good /\ time > 0 /\ \A p \in Formal : p \in out \/ Unavailable(p)
  THEN /\ Gate!Queue(c)
       /\ phase' = [phase EXCEPT ![c] = "gate"] /\ left' = [left EXCEPT ![c] = time]
       /\ pos' = [pos EXCEPT ![c] = 0] /\ formalCalls' = [formalCalls EXCEPT ![c] = 0]
       /\ hardFailed' = [hardFailed EXCEPT ![c] = {}] /\ usable' = [usable EXCEPT ![c] = FALSE]
       /\ inFlight' = [inFlight EXCEPT ![k] = c] /\ key' = [key EXCEPT ![c] = k]
       /\ UNCHANGED <<leader, webAborted, cached>>
  ELSE EndFlight(c, k, good) /\ UNCHANGED chainVars

-----------------------------------------------------------------------------
(* executeWebSearch                                                          *)

SearchCached(c, k) ==
  /\ cached[k] > 0
  /\ phase' = [phase EXCEPT ![c] = "done"]
  /\ UNCHANGED <<key, leader, left, pos, formalCalls, hardFailed, usable>>
  /\ UNCHANGED <<webAborted, cacheVars, chainVars>>

\* runSingleflight: the flight of the key, whoever started it and with whatever signal.
Follow(c, k) ==
  /\ cached[k] = 0 /\ inFlight[k] # None
  /\ phase' = [phase EXCEPT ![c] = "following"] /\ leader' = [leader EXCEPT ![c] = inFlight[k]]
  /\ UNCHANGED <<key, left, pos, formalCalls, hardFailed, usable>>
  /\ UNCHANGED <<webAborted, cacheVars, chainVars>>

Lead(c, k) ==
  /\ cached[k] = 0 /\ inFlight[k] = None
  /\ Continue(c, k, 0, 0, {}, FALSE, Deadline)

SearchUnshared(c, k) ==
  /\ phase[c] = "idle" /\ UNCHANGED <<healthVars, paceVars>>
  /\ SearchCached(c, k) \/ (cached[k] = 0 /\ Continue(c, k, 0, 0, {}, FALSE, Deadline))

Search(c, k) ==
  /\ phase[c] = "idle" /\ UNCHANGED <<healthVars, paceVars>>
  /\ SearchCached(c, k) \/ Follow(c, k) \/ Lead(c, k)

-----------------------------------------------------------------------------
(* What a formal provider answers (SearchProviderRouter.search). The health  *)
(* of the provider becomes what this answer says, whatever was there before. *)

Asked(c) == Order[key[c]][pos[c]]
Healthy(p) == shut' = shut \ {p} /\ cooling' = [cooling EXCEPT ![p] = 0]
Shut(p) == shut' = shut \union {p} /\ cooling' = [cooling EXCEPT ![p] = 0]
CoolDown(p) == shut' = shut \ {p} /\ cooling' = [cooling EXCEPT ![p] = RetryAfter]

Remember(p, k, ttl, hard) ==
  /\ negative' = [negative EXCEPT ![p][k] = ttl]
  /\ negativeHard' = IF hard THEN negativeHard \union {<<p, k>>} ELSE negativeHard \ {<<p, k>>}

ContinueWith(c, n, hard, good) == Continue(c, key[c], pos[c], n, hard, good, left[c])

Accepted(c) ==
  /\ Healthy(Asked(c)) /\ UNCHANGED <<negative, negativeHard>>
  /\ EndFlight(c, key[c], TRUE) /\ UNCHANGED chainVars

Partial(c) ==
  /\ Healthy(Asked(c)) /\ UNCHANGED <<negative, negativeHard>>
  /\ ContinueWith(c, formalCalls[c] + 1, hardFailed[c], TRUE)

SoftMiss(c) ==
  /\ Healthy(Asked(c)) /\ Remember(Asked(c), key[c], NegativeTtl, FALSE)
  /\ ContinueWith(c, formalCalls[c] + 1, hardFailed[c], usable[c])

\* The key of the provider is gone: not a call.
Skipped(c) ==
  /\ Shut(Asked(c)) /\ UNCHANGED <<negative, negativeHard>>
  /\ ContinueWith(c, formalCalls[c], hardFailed[c], usable[c])

\* A 429, a used up quota, or any other error but the terminal ones.
HardFailure(c) ==
  /\ \/ CoolDown(Asked(c)) /\ Remember(Asked(c), key[c], RetryAfter, TRUE)
     \/ Shut(Asked(c)) /\ Remember(Asked(c), key[c], NegativeTtl, TRUE)
     \/ Healthy(Asked(c)) /\ Remember(Asked(c), key[c], NegativeTtl, TRUE)
  /\ ContinueWith(c, formalCalls[c] + 1, hardFailed[c] \union {Asked(c)}, usable[c])

\* CONFIG_ERROR, INVALID_ARGUMENT, or the leader's own abort.
Terminal(c) ==
  /\ \/ Shut(Asked(c)) /\ EndFlight(c, key[c], FALSE)
     \/ UNCHANGED <<shut, cooling>> /\ EndFlight(c, key[c], FALSE)
  /\ UNCHANGED <<negative, negativeHard, chainVars>>

ProviderAnswers(c) ==
  /\ phase[c] = "asking"
  /\ Accepted(c) \/ Partial(c) \/ SoftMiss(c) \/ Skipped(c) \/ HardFailure(c) \/ Terminal(c)
  /\ UNCHANGED paceVars

-----------------------------------------------------------------------------
(* DuckDuckGo (duckduckgo-html-provider.ts)                                  *)

Refused(c) ==
  /\ phase[c] = "gate"
  /\ Gate!Blocked(c) \/ (SignalFired(c) /\ Gate!SleepAborted(c))
  /\ EndFlight(c, key[c], FALSE)
  /\ UNCHANGED <<healthVars, paceVars>>

Pause(c) ==
  /\ phase[c] = "gate" /\ Gate!Sleep(c)
  /\ UNCHANGED <<flightVars, webAborted, cacheVars, healthVars, paceVars>>

\* A grant is used up even when the signal has fired and nothing is sent.
Grant(c) ==
  /\ phase[c] = "gate" /\ Gate!Ready(c)
  /\ IF SignalFired(c)
     THEN EndFlight(c, key[c], FALSE) /\ UNCHANGED paceVars
     ELSE /\ phase' = [phase EXCEPT ![c] = "ddg"]
          /\ sinceSent' = 0
          /\ sentBlocked' = IF toUnblock > 0 THEN Min({2, sentBlocked + 1}) ELSE 0
          /\ UNCHANGED <<key, leader, left, pos, formalCalls, hardFailed, usable>>
          /\ UNCHANGED <<webAborted, cacheVars>>
  /\ UNCHANGED healthVars

DdgAnswer(c) ==
  /\ phase[c] = "ddg"
  /\ \/ EndFlight(c, key[c], TRUE) /\ UNCHANGED chainVars
     \/ EndFlight(c, key[c], FALSE) /\ (Gate!MarkProviderBlocked \/ UNCHANGED chainVars)
  /\ UNCHANGED <<healthVars, paceVars>>

-----------------------------------------------------------------------------
\* The user of a flight's leader aborts; a follower's signal is not looked at.
Abort(c) ==
  /\ phase[c] \in Flying /\ c \notin webAborted
  /\ webAborted' = webAborted \union {c}
  /\ UNCHANGED <<flightVars, cacheVars, healthVars, chainVars, paceVars>>

Tick ==
  /\ Gate!GateTick
  /\ left' = [c \in Calls |-> Gate!Down(left[c])]
  /\ cached' = [k \in Keys |-> Gate!Down(cached[k])]
  /\ cooling' = [p \in Formal |-> Gate!Down(cooling[p])]
  /\ negative' = [p \in Formal |-> [k \in Keys |-> Gate!Down(negative[p][k])]]
  /\ negativeHard' = {pk \in negativeHard : negative'[pk[1]][pk[2]] > 0}
  /\ sinceSent' = Min({Interval, sinceSent + 1})
  /\ sentBlocked' = IF toUnblock' = 0 THEN 0 ELSE sentBlocked
  /\ UNCHANGED <<phase, key, leader, webAborted, pos, formalCalls, hardFailed, usable,
                 inFlight, shut>>

Step(c) == ProviderAnswers(c) \/ Refused(c) \/ Pause(c) \/ Grant(c) \/ DdgAnswer(c)

SearchNext ==
  \/ \E c \in Calls : (\E k \in Keys : Search(c, k)) \/ Step(c) \/ Abort(c)
  \/ Tick

SearchSpec == SearchInit /\ [][SearchNext]_searchVars

\* Requests are answered or time out, continuations run, time passes.
SearchFairSpec == SearchSpec /\ WF_searchVars(Tick) /\ \A c \in Calls : WF_searchVars(Step(c))

-----------------------------------------------------------------------------
\* Searches with one key share one flight: two calls never ask providers for it at once.
OneFlightPerKey ==
  \A k \in Keys : {c \in Calls : phase[c] \in Flying /\ key[c] = k} =
                    IF inFlight[k] = None THEN {} ELSE {inFlight[k]}

(* SearchRequestGate, "at least 15 seconds apart" (web-tools.md:83), whichever searches
   queue, sleep or are aborted at the gate in between; and a cooldown lets through at
   most the one search that was asleep at the gate when the challenge came: everybody
   behind it in the chain is refused.                                                *)
RequestsPaced ==
  /\ [][\A c \in Calls : phase[c] = "gate" /\ phase'[c] = "ddg" => sinceSent = Interval]_searchVars
  /\ [](sentBlocked <= 1)

\* Every search returns, leaders at the gate, in the router and their followers: a call
\* is made once.
EverySearchReturns == <>[](\A c \in Calls : phase[c] \in {"idle", "done"})
=============================================================================

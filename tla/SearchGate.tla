------------------------------ MODULE SearchGate ------------------------------
(***************************************************************************)
(* SearchRequestGate (src/web-tools/search/search-request-gate.ts): paces  *)
(* DuckDuckGo requests and stops them after a challenge. The promise chain *)
(* of `exclusive` is a queue whose head is inside the operation. Clock     *)
(* readings are kept as the ticks that are left, so Tick lets time pass.   *)
(***************************************************************************)
EXTENDS Naturals, Sequences

CONSTANTS
  Callers,     \* searches that ask the gate
  Interval,    \* minIntervalMs, in ticks, positive
  Cooldown     \* blockedCooldownMs, in ticks, positive

VARIABLES
  lock,        \* the promise chain: callers in order, the head is not waiting
  sleeping,    \* the head is inside sleep()
  wake,        \* ticks until its timer fires
  toNext,      \* nextRequestAt - now, or 0
  toUnblock    \* blockedUntil - now, or 0

gateVars == <<lock, sleeping, wake, toNext, toUnblock>>

GateTypeOK ==
  /\ lock \in Seq(Callers) /\ sleeping \in BOOLEAN
  /\ wake \in 0..Interval /\ toNext \in 0..Interval /\ toUnblock \in 0..Cooldown
  /\ sleeping => lock # <<>>
  /\ ~sleeping => wake = 0

GateInit == lock = <<>> /\ sleeping = FALSE /\ wake = 0 /\ toNext = 0 /\ toUnblock = 0

\* beforeRequest up to `await previous`
Queue(c) == lock' = Append(lock, c) /\ UNCHANGED <<sleeping, wake, toNext, toUnblock>>

AtHead(c) == lock # <<>> /\ Head(lock) = c
Unlock == lock' = Tail(lock) /\ sleeping' = FALSE /\ wake' = 0

\* The cooldown is tested before the interval, once.
Blocked(c) ==
  /\ AtHead(c) /\ ~sleeping /\ toUnblock > 0
  /\ Unlock /\ UNCHANGED <<toNext, toUnblock>>

ReadyAtOnce(c) ==
  /\ AtHead(c) /\ ~sleeping /\ toUnblock = 0 /\ toNext = 0
  /\ Unlock /\ toNext' = Interval /\ UNCHANGED toUnblock

SleepUnchecked(c) ==
  /\ AtHead(c) /\ ~sleeping /\ toNext > 0
  /\ sleeping' = TRUE /\ wake' = toNext
  /\ UNCHANGED <<lock, toNext, toUnblock>>

Sleep(c) ==
  /\ AtHead(c) /\ ~sleeping /\ toUnblock = 0 /\ toNext > 0
  /\ sleeping' = TRUE /\ wake' = toNext
  /\ UNCHANGED <<lock, toNext, toUnblock>>

Woken(c) ==
  /\ AtHead(c) /\ sleeping /\ wake = 0
  /\ Unlock /\ toNext' = Interval /\ UNCHANGED toUnblock

\* A grant; the cooldown is not read again after the sleep.
Ready(c) == ReadyAtOnce(c) \/ Woken(c)

\* The signal of the sleeper fires, or had fired before it slept.
SleepAborted(c) == AtHead(c) /\ sleeping /\ Unlock /\ UNCHANGED <<toNext, toUnblock>>

MarkProviderBlocked == toUnblock' = Cooldown /\ UNCHANGED <<lock, sleeping, wake, toNext>>

Down(n) == IF n = 0 THEN 0 ELSE n - 1
GateTick ==
  /\ wake' = Down(wake) /\ toNext' = Down(toNext) /\ toUnblock' = Down(toUnblock)
  /\ UNCHANGED <<lock, sleeping>>
=============================================================================

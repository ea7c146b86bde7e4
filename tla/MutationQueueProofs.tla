------------------------- MODULE MutationQueueProofs -------------------------
(***************************************************************************)
(* Mutual exclusion of the mutation queue, and that it implements the      *)
(* per-key lock, for any calls and keys.                                   *)
(*                                                                         *)
(* MutualExclusion is not inductive alone: a hand-over is safe because     *)
(* only the holder releases, and a free key is safe to grant because an    *)
(* entry exists exactly while its key is held (EntryIffHeld). A waiter is  *)
(* granted the right key because the arrays are exact (WaitersExact).      *)
(***************************************************************************)
EXTENDS MutationQueue, TLAPS

IInv == TypeOK /\ MutualExclusion /\ EntryIffHeld /\ WaitersExact

\* Removing the element at i from a sequence leaves the others, in order.
LEMMA WithoutSeq ==
  ASSUME NEW S, NEW s \in Seq(S), NEW i \in 1..Len(s)
  PROVE  /\ Without(s, i) \in Seq(S)
         /\ Len(Without(s, i)) = Len(s) - 1
         /\ \A j \in 1..(Len(s) - 1) :
              Without(s, i)[j] = IF j < i THEN s[j] ELSE s[j + 1]
<1>1. Len(s) \in Nat /\ Len(s) - 1 \in Nat
  OBVIOUS
<1>2. \A j \in 1..(Len(s) - 1) : (IF j < i THEN s[j] ELSE s[j + 1]) \in S
  BY <1>1
<1>. QED
  BY <1>1, <1>2 DEF Without

LEMMA InitIInv == Init => IInv
<1>. SUFFICES ASSUME Init PROVE IInv
  OBVIOUS
<1>1. TypeOK
  <2>1. <<>> \in Seq(Calls)
    OBVIOUS
  <2>. QED
    BY <2>1 DEF Init, TypeOK, Phases
<1>2. MutualExclusion
  BY DEF Init, MutualExclusion, Holds
<1>3. EntryIffHeld
  BY DEF Init, EntryIffHeld, Holds
<1>4. WaitersExact
  BY DEF Init, WaitersExact
<1>. QED
  BY <1>1, <1>2, <1>3, <1>4 DEF IInv

\* A call asks for a key: refused, granted, or queued.
LEMMA AcquireIInv ==
  ASSUME IInv, NEW c \in Calls, NEW k \in Keys, Acquire(c, k)
  PROVE  IInv'
<1>. USE DEF IInv
<1>1. CASE AcquireRefused(c, k)
  <2>1. TypeOK'
    BY <1>1 DEF Acquire, AcquireRefused, TypeOK, Phases
  <2>2. MutualExclusion'
    BY <1>1 DEF Acquire, AcquireRefused, TypeOK, MutualExclusion, Holds
  <2>3. EntryIffHeld'
    BY <1>1 DEF Acquire, AcquireRefused, TypeOK, EntryIffHeld, Holds
  <2>4. WaitersExact'
    BY <1>1 DEF Acquire, AcquireRefused, TypeOK, WaitersExact
  <2>. QED
    BY <2>1, <2>2, <2>3, <2>4
<1>2. CASE AcquireFree(c, k)
  <2>1. TypeOK'
    BY <1>2 DEF Acquire, AcquireFree, TypeOK, Phases
  <2>2. MutualExclusion'
    BY <1>2 DEF Acquire, AcquireFree, TypeOK, MutualExclusion, EntryIffHeld, Holds
  <2>3. EntryIffHeld'
    BY <1>2 DEF Acquire, AcquireFree, TypeOK, EntryIffHeld, Holds
  <2>4. WaitersExact'
    BY <1>2 DEF Acquire, AcquireFree, TypeOK, WaitersExact
  <2>. QED
    BY <2>1, <2>2, <2>3, <2>4
<1>3. CASE AcquireBusy(c, k)
  <2>1. TypeOK'
    BY <1>3 DEF Acquire, AcquireBusy, TypeOK, Phases
  <2>2. MutualExclusion'
    BY <1>3 DEF Acquire, AcquireBusy, TypeOK, MutualExclusion, Holds
  <2>3. EntryIffHeld'
    BY <1>3 DEF Acquire, AcquireBusy, TypeOK, EntryIffHeld, Holds
  <2>4. WaitersExact'
    <3>1. /\ Len(waiters[k]) \in Nat
          /\ Len(waiters'[k]) = Len(waiters[k]) + 1
          /\ waiters'[k][Len(waiters[k]) + 1] = c
          /\ \A i \in 1..Len(waiters[k]) : waiters'[k][i] = waiters[k][i]
      BY <1>3 DEF AcquireBusy, TypeOK
    <3>2. \A q \in Keys \ {k} : waiters'[q] = waiters[q]
      BY <1>3 DEF AcquireBusy, TypeOK
    <3>3. \A q \in Keys : \A i \in 1..Len(waiters[q]) : waiters[q][i] # c
      BY DEF Acquire, WaitersExact
    <3>4. /\ phase'[c] = "waiting" /\ key'[c] = k
          /\ \A d \in Calls \ {c} : phase'[d] = phase[d] /\ key'[d] = key[d]
      BY <1>3 DEF Acquire, AcquireBusy, TypeOK
    <3>5. \A d \in Calls : phase'[d] = "waiting" =>
            /\ key'[d] \in Keys
            /\ \E i \in 1..Len(waiters'[key'[d]]) : waiters'[key'[d]][i] = d
      <4>. SUFFICES ASSUME NEW d \in Calls, phase'[d] = "waiting"
                    PROVE  /\ key'[d] \in Keys
                           /\ \E i \in 1..Len(waiters'[key'[d]]) : waiters'[key'[d]][i] = d
        OBVIOUS
      <4>1. CASE d = c
        BY <4>1, <3>1, <3>4
      <4>2. CASE d # c
        <5>1. PICK i \in 1..Len(waiters[key[d]]) : waiters[key[d]][i] = d
          BY <4>2, <3>4 DEF WaitersExact
        <5>2. key[d] \in Keys /\ key'[d] = key[d]
          BY <4>2, <3>4 DEF WaitersExact
        <5>3. CASE key[d] = k
          BY <5>1, <5>2, <5>3, <3>1
        <5>4. CASE key[d] # k
          BY <5>1, <5>2, <5>4, <3>2
        <5>. QED
          BY <5>3, <5>4
      <4>. QED
        BY <4>1, <4>2
    <3>6. \A q \in Keys : \A i \in 1..Len(waiters'[q]) :
            /\ phase'[waiters'[q][i]] = "waiting"
            /\ key'[waiters'[q][i]] = q
            /\ \A j \in 1..Len(waiters'[q]) : waiters'[q][i] = waiters'[q][j] => i = j
      <4>. SUFFICES ASSUME NEW q \in Keys
                    PROVE \A i \in 1..Len(waiters'[q]) :
                            /\ phase'[waiters'[q][i]] = "waiting"
                            /\ key'[waiters'[q][i]] = q
                            /\ \A j \in 1..Len(waiters'[q]) :
                                 waiters'[q][i] = waiters'[q][j] => i = j
        OBVIOUS
      <4>1. \A i \in 1..Len(waiters[q]) : /\ waiters[q][i] \in Calls \ {c}
                                          /\ phase[waiters[q][i]] = "waiting"
                                          /\ key[waiters[q][i]] = q
                                          /\ \A j \in 1..Len(waiters[q]) :
                                               waiters[q][i] = waiters[q][j] => i = j
        BY <3>3 DEF WaitersExact, TypeOK
      <4>2. CASE q = k
        <5>. DEFINE n == Len(waiters[k])
        <5>1. n \in Nat /\ Len(waiters'[k]) = n + 1 /\ waiters'[k][n + 1] = c
              /\ \A i \in 1..n : waiters'[k][i] = waiters[k][i]
          BY <3>1
        <5>. HIDE DEF n
        <5>2. \A i \in 1..(n + 1) : i = n + 1 \/ i \in 1..n
          BY <5>1
        <5>3. \A i \in 1..n : /\ waiters'[k][i] \in Calls \ {c}
                              /\ phase'[waiters'[k][i]] = "waiting"
                              /\ key'[waiters'[k][i]] = k
                              /\ \A j \in 1..n : waiters'[k][i] = waiters'[k][j] => i = j
          BY <4>1, <4>2, <5>1, <3>4 DEF n
        <5>. QED
          BY <4>2, <5>1, <5>2, <5>3, <3>4
      <4>3. CASE q # k
        BY <4>1, <4>3, <3>2, <3>4
      <4>. QED
        BY <4>2, <4>3
    <3>. QED
      BY <3>5, <3>6 DEF WaitersExact
  <2>. QED
    BY <2>1, <2>2, <2>3, <2>4
<1>. QED
  BY <1>1, <1>2, <1>3 DEF Acquire

\* releaseFor: the key goes to the first waiter, or its entry goes.
LEMMA ReleaseIInv ==
  ASSUME IInv, NEW c \in Calls, phase[c] \in {"granted", "running"},
         NEW to \in {"left", "rejected"}, Release(c, to), UNCHANGED <<key, aborted, disposed>>
  PROVE  IInv'
<1>. USE DEF IInv
<1>. DEFINE k == key[c]
<1>1. k \in Keys /\ k \in entries /\ waiters[k] \in Seq(Calls)
  BY DEF TypeOK, EntryIffHeld, Holds
<1>2. CASE waiters[k] # <<>>
  <2>. DEFINE s == waiters[k]
              h == Head(s)
              n == Len(s)
  <2>1. /\ n \in Nat \ {0} /\ h = s[1] /\ h \in Calls
        /\ Tail(s) \in Seq(Calls) /\ Len(Tail(s)) = n - 1
        /\ \A i \in 1..(n - 1) : Tail(s)[i] = s[i + 1]
    BY <1>1, <1>2
  <2>2. /\ \A i \in 1..n : /\ s[i] \in Calls /\ phase[s[i]] = "waiting" /\ key[s[i]] = k
                            /\ \A j \in 1..n : s[i] = s[j] => i = j
        /\ phase[h] = "waiting" /\ key[h] = k /\ h # c
    BY <1>1, <2>1 DEF WaitersExact
  <2>3. /\ phase' = [phase EXCEPT ![c] = to, ![h] = "granted"]
        /\ waiters' = [waiters EXCEPT ![k] = Tail(s)]
        /\ entries' = entries /\ key' = key
    BY <1>2 DEF Release
  <2>4. /\ phase'[c] = to /\ phase'[h] = "granted"
        /\ \A d \in Calls \ {c, h} : phase'[d] = phase[d]
        /\ waiters'[k] = Tail(s) /\ \A q \in Keys \ {k} : waiters'[q] = waiters[q]
    BY <2>1, <2>2, <2>3, <1>1 DEF TypeOK
  <2>. HIDE DEF k, s, h, n
  <2>5. TypeOK'
    BY <1>1, <2>1, <2>2, <2>3 DEF TypeOK, Phases
  <2>6. \A d \in Calls, q \in Keys :
          Holds(d, q)' <=> (d = h /\ q = k) \/ (d \notin {c, h} /\ Holds(d, q))
    BY <2>1, <2>2, <2>3, <2>4 DEF Holds
  <2>7. Holds(c, k)
    BY DEF Holds, k
  <2>8. MutualExclusion'
    BY <1>1, <2>1, <2>6, <2>7 DEF MutualExclusion
  <2>9. EntryIffHeld'
    <3>1. \A q \in Keys \ {k} : ~Holds(c, q) /\ ~Holds(h, q)
      BY <2>2 DEF Holds, k
    <3>. QED
      BY <1>1, <2>1, <2>3, <2>6, <3>1 DEF EntryIffHeld
  <2>10. WaitersExact'
    <3>1. ASSUME NEW d \in Calls, phase'[d] = "waiting"
          PROVE  /\ key'[d] \in Keys
                 /\ \E i \in 1..Len(waiters'[key'[d]]) : waiters'[key'[d]][i] = d
      <4>1. d \notin {c, h} /\ phase[d] = "waiting" /\ key'[d] = key[d]
        BY <3>1, <2>3, <2>4
      <4>2. key[d] \in Keys /\ \E i \in 1..Len(waiters[key[d]]) : waiters[key[d]][i] = d
        BY <4>1 DEF WaitersExact
      <4>3. CASE key[d] = k
        <5>1. PICK i \in 1..n : s[i] = d
          BY <4>2, <4>3 DEF n, s
        <5>2. i # 1
          BY <5>1, <4>1, <2>1
        <5>3. i - 1 \in 1..(n - 1) /\ s[(i - 1) + 1] = s[i]
          BY <5>2, <2>1
        <5>4. Tail(s)[i - 1] = d
          BY <5>1, <5>3, <2>1
        <5>. DEFINE j == i - 1
        <5>5. j \in 1..Len(waiters'[k]) /\ waiters'[k][j] = d
          BY <5>3, <5>4, <2>1, <2>4
        <5>. QED
          BY <5>5, <4>1, <4>2, <4>3
      <4>4. CASE key[d] # k
        BY <4>1, <4>2, <4>4, <2>4
      <4>. QED
        BY <4>3, <4>4
    <3>2. ASSUME NEW q \in Keys
          PROVE  \A i \in 1..Len(waiters'[q]) :
                   /\ phase'[waiters'[q][i]] = "waiting"
                   /\ key'[waiters'[q][i]] = q
                   /\ \A j \in 1..Len(waiters'[q]) : waiters'[q][i] = waiters'[q][j] => i = j
      <4>1. CASE q = k
        <5>1. \A i \in 1..(n - 1) : /\ i + 1 \in 1..n /\ Tail(s)[i] = s[i + 1]
                                    /\ s[i + 1] \notin {c, h} /\ s[i + 1] \in Calls
          BY <2>1, <2>2 DEF k
        <5>2. \A i \in 1..(n - 1) : phase'[Tail(s)[i]] = "waiting" /\ key'[Tail(s)[i]] = k
          <6>. TAKE i \in 1..(n - 1)
          <6>. DEFINE d == s[i + 1]
          <6>1. d \in Calls \ {c, h} /\ Tail(s)[i] = d
            BY <5>1
          <6>2. phase[d] = "waiting" /\ key[d] = k
            BY <5>1, <2>2
          <6>. HIDE DEF d
          <6>. QED
            BY <6>1, <6>2, <2>3, <2>4
        <5>3. \A i, j \in 1..(n - 1) : Tail(s)[i] = Tail(s)[j] => i = j
          <6>. TAKE i, j \in 1..(n - 1)
          <6>1. s[i + 1] = s[j + 1] => i + 1 = j + 1
            BY <5>1, <2>2
          <6>. QED
            BY <6>1, <5>1, <2>1
        <5>. QED
          BY <4>1, <5>2, <5>3, <2>1, <2>4
      <4>2. CASE q # k
        <5>1. \A i \in 1..Len(waiters[q]) : /\ waiters[q][i] \in Calls \ {c, h}
                                             /\ phase[waiters[q][i]] = "waiting"
                                             /\ key[waiters[q][i]] = q
          BY <4>2, <2>2 DEF WaitersExact, TypeOK, k
        <5>2. waiters'[q] = waiters[q]
          BY <4>2, <2>4
        <5>3. \A i \in 1..Len(waiters[q]) :
                phase'[waiters[q][i]] = "waiting" /\ key'[waiters[q][i]] = q
          BY <5>1, <2>3, <2>4
        <5>. QED
          BY <5>2, <5>3 DEF WaitersExact
      <4>. QED
        BY <4>1, <4>2
    <3>. QED
      BY <3>1, <3>2 DEF WaitersExact
  <2>. QED
    BY <2>5, <2>8, <2>9, <2>10
<1>3. CASE waiters[k] = <<>>
  <2>1. /\ phase' = [phase EXCEPT ![c] = to] /\ entries' = entries \ {k}
        /\ UNCHANGED <<waiters, key>>
    BY <1>3 DEF Release
  <2>2. TypeOK'
    BY <2>1 DEF TypeOK, Phases
  <2>3. \A d \in Calls, q \in Keys : Holds(d, q)' <=> d # c /\ Holds(d, q)
    BY <2>1 DEF Holds, TypeOK
  <2>4. Holds(c, k)
    BY DEF Holds
  <2>5. MutualExclusion'
    BY <2>3 DEF MutualExclusion
  <2>6. EntryIffHeld'
    <3>1. \A q \in Keys \ {k} : ~Holds(c, q)
      BY DEF Holds
    <3>. HIDE DEF k
    <3>. QED
      BY <1>1, <2>1, <2>3, <2>4, <3>1 DEF EntryIffHeld, MutualExclusion
  <2>7. WaitersExact'
    BY <2>1 DEF WaitersExact, TypeOK
  <2>. QED
    BY <2>2, <2>5, <2>6, <2>7
<1>. QED
  BY <1>2, <1>3

\* The operation starts: the key stays with the same call.
LEMMA EnterIInv ==
  ASSUME IInv, NEW c \in Calls, Enter(c)
  PROVE  IInv'
<1>. USE DEF IInv
<1>1. TypeOK'
  BY DEF Enter, TypeOK, Phases
<1>2. \A d \in Calls, q \in Keys : Holds(d, q)' <=> Holds(d, q)
  BY DEF Enter, TypeOK, Holds
<1>3. MutualExclusion'
  BY <1>2 DEF MutualExclusion
<1>4. EntryIffHeld'
  BY <1>2 DEF Enter, EntryIffHeld
<1>5. WaitersExact'
  BY DEF Enter, TypeOK, WaitersExact
<1>. QED
  BY <1>1, <1>3, <1>4, <1>5

\* A waiter that aborts is taken out of exactly the array it is in.
LEMMA AbortIInv ==
  ASSUME IInv, NEW c \in Calls, Abort(c)
  PROVE  IInv'
<1>. USE DEF IInv
<1>1. CASE phase[c] # "waiting"
  BY <1>1 DEF Abort, TypeOK, MutualExclusion, EntryIffHeld, WaitersExact, Holds
<1>2. CASE phase[c] = "waiting"
  <2>. DEFINE k == key[c]
              s == waiters[k]
              n == Len(s)
  <2>1. PICK i \in 1..n : s[i] = c /\ waiters' = [waiters EXCEPT ![k] = Without(s, i)]
    BY <1>2 DEF Abort
  <2>2. phase' = [phase EXCEPT ![c] = "rejected"] /\ entries' = entries /\ key' = key
        /\ aborted' = aborted \union {c} /\ disposed' = disposed
    BY <1>2 DEF Abort
  <2>3. k \in Keys /\ s \in Seq(Calls) /\ n \in Nat
    BY <1>2 DEF WaitersExact, TypeOK
  <2>4. /\ Without(s, i) \in Seq(Calls) /\ Len(Without(s, i)) = n - 1
        /\ \A j \in 1..(n - 1) : Without(s, i)[j] = IF j < i THEN s[j] ELSE s[j + 1]
    BY <2>1, <2>3, WithoutSeq
  <2>5. \A j \in 1..n : /\ s[j] \in Calls /\ phase[s[j]] = "waiting" /\ key[s[j]] = k
                        /\ \A m \in 1..n : s[j] = s[m] => j = m
    BY <2>3 DEF WaitersExact
  <2>6. /\ phase'[c] = "rejected" /\ \A d \in Calls \ {c} : phase'[d] = phase[d]
        /\ waiters'[k] = Without(s, i) /\ \A q \in Keys \ {k} : waiters'[q] = waiters[q]
    BY <2>1, <2>2, <2>3 DEF TypeOK
  <2>7. TypeOK'
    BY <2>1, <2>2, <2>3, <2>4 DEF TypeOK, Phases
  <2>8. \A d \in Calls, q \in Keys : Holds(d, q)' <=> Holds(d, q)
    BY <1>2, <2>2 DEF TypeOK, Holds
  <2>9. MutualExclusion' /\ EntryIffHeld'
    BY <2>2, <2>8 DEF MutualExclusion, EntryIffHeld
  <2>. HIDE DEF k, s, n
  <2>10. ASSUME NEW d \in Calls, phase'[d] = "waiting"
         PROVE  /\ key'[d] \in Keys
                /\ \E j \in 1..Len(waiters'[key'[d]]) : waiters'[key'[d]][j] = d
    <3>1. d # c /\ phase[d] = "waiting" /\ key'[d] = key[d]
      BY <2>10, <2>2, <2>6
    <3>2. key[d] \in Keys /\ \E j \in 1..Len(waiters[key[d]]) : waiters[key[d]][j] = d
      BY <3>1 DEF WaitersExact
    <3>3. CASE key[d] = k
      <4>1. PICK j \in 1..n : s[j] = d
        BY <3>2, <3>3 DEF n, s
      <4>2. j # i
        BY <4>1, <3>1, <2>1
      <4>. DEFINE m == IF j < i THEN j ELSE j - 1
      <4>3. m \in 1..(n - 1) /\ (IF m < i THEN s[m] ELSE s[m + 1]) = s[j]
        BY <4>2, <2>1, <2>3
      <4>. HIDE DEF m
      <4>4. m \in 1..Len(waiters'[k]) /\ waiters'[k][m] = d
        BY <4>1, <4>3, <2>4, <2>6
      <4>. QED
        BY <4>4, <3>1, <3>2, <3>3
    <3>4. CASE key[d] # k
      BY <3>1, <3>2, <3>4, <2>6
    <3>. QED
      BY <3>3, <3>4
  <2>11. ASSUME NEW q \in Keys
         PROVE  \A j \in 1..Len(waiters'[q]) :
                  /\ phase'[waiters'[q][j]] = "waiting"
                  /\ key'[waiters'[q][j]] = q
                  /\ \A m \in 1..Len(waiters'[q]) : waiters'[q][j] = waiters'[q][m] => j = m
    <3>1. CASE q = k
      <4>. DEFINE at(j) == IF j < i THEN j ELSE j + 1
                  w == Without(s, i)
      <4>1. \A j \in 1..(n - 1) : at(j) \in 1..n /\ at(j) # i /\ w[j] = s[at(j)]
        BY <2>1, <2>3, <2>4
      <4>2. \A j, m \in 1..(n - 1) : at(j) = at(m) => j = m
        BY <2>1, <2>3
      <4>. HIDE DEF at
      <4>3. \A j \in 1..(n - 1) : s[at(j)] # c
        BY <4>1, <2>1, <2>5
      <4>4. \A j \in 1..(n - 1) : phase'[w[j]] = "waiting" /\ key'[w[j]] = k
        <5>. TAKE j \in 1..(n - 1)
        <5>. DEFINE d == s[at(j)]
        <5>1. d \in Calls \ {c} /\ phase[d] = "waiting" /\ key[d] = k /\ w[j] = d
          BY <4>1, <4>3, <2>5
        <5>. HIDE DEF d
        <5>. QED
          BY <5>1, <2>2, <2>6
      <4>5. \A j, m \in 1..(n - 1) : w[j] = w[m] => j = m
        <5>. TAKE j, m \in 1..(n - 1)
        <5>1. s[at(j)] = s[at(m)] => at(j) = at(m)
          BY <4>1, <2>5
        <5>. QED
          BY <5>1, <4>1, <4>2
      <4>. QED
        BY <3>1, <4>4, <4>5, <2>4, <2>6
    <3>2. CASE q # k
      <4>1. \A j \in 1..Len(waiters[q]) : /\ waiters[q][j] \in Calls \ {c}
                                           /\ phase[waiters[q][j]] = "waiting"
                                           /\ key[waiters[q][j]] = q
        BY <3>2 DEF WaitersExact, TypeOK, k
      <4>2. waiters'[q] = waiters[q]
        BY <3>2, <2>6
      <4>3. \A j \in 1..Len(waiters[q]) :
              phase'[waiters[q][j]] = "waiting" /\ key'[waiters[q][j]] = q
        BY <4>1, <2>2, <2>6
      <4>. QED
        BY <4>2, <4>3 DEF WaitersExact
    <3>. QED
      BY <3>1, <3>2
  <2>12. WaitersExact'
    BY <2>10, <2>11 DEF WaitersExact
  <2>. QED
    BY <2>7, <2>9, <2>12
<1>. QED
  BY <1>1, <1>2

\* dispose rejects the waiters and leaves the holders alone.
LEMMA DisposeIInv ==
  ASSUME IInv, Dispose
  PROVE  IInv'
<1>. USE DEF IInv
<1>1. \A d \in Calls : /\ phase'[d] # "waiting"
                       /\ phase'[d] = phase[d] \/ (phase[d] = "waiting" /\ phase'[d] = "rejected")
  BY DEF Dispose, TypeOK
<1>2. TypeOK'
  <2>1. <<>> \in Seq(Calls)
    OBVIOUS
  <2>. QED
    BY <2>1 DEF Dispose, TypeOK, Phases
<1>3. \A d \in Calls, q \in Keys : Holds(d, q)' <=> Holds(d, q)
  BY <1>1 DEF Dispose, Holds
<1>4. MutualExclusion' /\ EntryIffHeld'
  BY <1>3 DEF Dispose, MutualExclusion, EntryIffHeld
<1>5. \A q \in Keys : waiters'[q] = <<>>
  BY DEF Dispose
<1>6. WaitersExact'
  BY <1>1, <1>5 DEF WaitersExact
<1>. QED
  BY <1>2, <1>4, <1>6

LEMMA NextIInv == IInv /\ [Next]_vars => IInv'
<1>. SUFFICES ASSUME IInv, [Next]_vars PROVE IInv'
  OBVIOUS
<1>1. ASSUME NEW c \in Calls, NEW k \in Keys, Acquire(c, k) PROVE IInv'
  BY <1>1, AcquireIInv
<1>2. ASSUME NEW c \in Calls, Enter(c) PROVE IInv'
  BY <1>2, EnterIInv
<1>3. ASSUME NEW c \in Calls, EnterAborted(c) PROVE IInv'
  BY <1>3, ReleaseIInv DEF EnterAborted
<1>4. ASSUME NEW c \in Calls, Leave(c) PROVE IInv'
  BY <1>4, ReleaseIInv DEF Leave
<1>5. ASSUME NEW c \in Calls, Abort(c) PROVE IInv'
  BY <1>5, AbortIInv
<1>6. CASE Dispose
  BY <1>6, DisposeIInv
<1>7. CASE UNCHANGED vars
  BY <1>7 DEF vars, IInv, TypeOK, MutualExclusion, EntryIffHeld, WaitersExact, Holds
<1>. QED
  BY <1>1, <1>2, <1>3, <1>4, <1>5, <1>6, <1>7 DEF Next

LEMMA Invariance == Spec => []IInv
<1>. QED
  BY InitIInv, NextIInv, PTL DEF Spec

\* The state of the queue keeps its types, and a call that has asked for a key
\* remembers which.
THEOREM TypeCorrect == Spec => []TypeOK
<1>. QED
  BY Invariance, PTL DEF IInv

\* Two calls never hold the same key (MutationQueue.run).
THEOREM Exclusive == Spec => []MutualExclusion
<1>. QED
  BY Invariance, PTL DEF IInv

\* The map of entries and the arrays of waiters are exact (acquire, releaseFor,
\* onAbort, dispose).
THEOREM EntriesAreExact == Spec => []EntriesExact
<1>1. IInv => EntriesExact
  BY DEF IInv, EntriesExact
<1>. QED
  BY <1>1, Invariance, PTL

-----------------------------------------------------------------------------
(* The queue implements the lock. A step that moves a key from one call to    *)
(* the next is a Give; taking a free key is a Take; the rest is invisible.    *)

\* The lock moves only at the key whose holders change.
LEMMA LockStep ==
  ASSUME NEW k \in Keys,
         \A d \in Calls : \A q \in Keys \ {k} : Holds(d, q)' <=> Holds(d, q)
  PROVE  LockHolders' = [LockHolders EXCEPT ![k] = {d \in Calls : Holds(d, k)'}]
<1>1. LockHolders'[k] = {d \in Calls : Holds(d, k)'}
  BY DEF LockHolders
<1>2. ASSUME NEW q \in Keys \ {k} PROVE LockHolders'[q] = LockHolders[q]
  BY <1>2 DEF LockHolders
<1>3. LockHolders = [q \in Keys |-> LockHolders[q]] /\ LockHolders' = [q \in Keys |-> LockHolders'[q]]
  BY DEF LockHolders
<1>. QED
  BY <1>1, <1>2, <1>3

\* If nobody's holding changes, the lock does not move.
LEMMA SameHolders ==
  ASSUME \A d \in Calls, q \in Keys : Holds(d, q)' <=> Holds(d, q)
  PROVE  LockHolders' = LockHolders
<1>. QED
  BY DEF LockHolders

\* Mutual exclusion: a call that holds a key is all of the key's holders.
LEMMA SoleHolder ==
  ASSUME MutualExclusion, NEW k \in Keys, NEW c \in Calls, Holds(c, k)
  PROVE  {d \in Calls : Holds(d, k)} = {c}
<1>. QED
  BY DEF MutualExclusion

\* A release moves the key to the first waiter, or frees it.
LEMMA ReleaseIsGive ==
  ASSUME IInv, IInv', NEW c \in Calls, phase[c] \in {"granted", "running"},
         NEW to \in {"left", "rejected"}, Release(c, to), key' = key
  PROVE  Lock!Give(c, key[c])
<1>0. PICK k \in Keys : k = key[c]
  BY DEF IInv, TypeOK
<1>1. Holds(c, k) /\ \A q \in Keys \ {k} : ~Holds(c, q)
  BY <1>0 DEF Holds
<1>2. LockHolders[k] = {c}
  BY <1>1, SoleHolder DEF IInv, LockHolders
<1>3. CASE waiters[k] # <<>>
  <2>1. waiters[k] \in Seq(Calls) /\ Head(waiters[k]) = waiters[k][1] /\ 1 \in 1..Len(waiters[k])
    BY <1>0, <1>3 DEF IInv, TypeOK
  <2>2. PICK h \in Calls :
          h = Head(waiters[k]) /\ h # c /\ phase[h] = "waiting" /\ key[h] = k
    BY <2>1, <1>0 DEF IInv, WaitersExact, TypeOK
  <2>3. phase' = [phase EXCEPT ![c] = to, ![h] = "granted"]
    BY <1>0, <1>3, <2>2 DEF Release
  <2>4. Holds(h, k)'
    BY <2>2, <2>3 DEF IInv, TypeOK, Holds
  <2>5. \A d \in Calls : \A q \in Keys \ {k} : Holds(d, q)' <=> Holds(d, q)
    BY <1>0, <2>2, <2>3 DEF IInv, TypeOK, Holds
  <2>6. {d \in Calls : Holds(d, k)'} = {h}
    BY <2>2, <2>4 DEF IInv, MutualExclusion
  <2>7. LockHolders' = [LockHolders EXCEPT ![k] = {h}]
    BY <2>5, <2>6, LockStep
  <2>. QED
    BY <1>0, <1>2, <2>2, <2>7 DEF Lock!Give
<1>4. CASE waiters[k] = <<>>
  <2>1. phase' = [phase EXCEPT ![c] = to]
    BY <1>0, <1>4 DEF Release
  <2>2. \A d \in Calls : ~Holds(d, k)'
    BY <2>1, <1>0, <1>1 DEF IInv, TypeOK, MutualExclusion, Holds
  <2>3. \A d \in Calls : \A q \in Keys \ {k} : Holds(d, q)' <=> Holds(d, q)
    BY <2>1, <1>0 DEF IInv, TypeOK, Holds
  <2>4. LockHolders' = [LockHolders EXCEPT ![k] = {d \in Calls : Holds(d, k)'}]
    BY <2>3, LockStep
  <2>5. {d \in Calls : Holds(d, k)'} = {}
    BY <2>2
  <2>. QED
    BY <1>0, <1>2, <2>4, <2>5 DEF Lock!Give
<1>. QED
  BY <1>3, <1>4

LEMMA StepImplementsLock ==
  ASSUME IInv, IInv', [Next]_vars
  PROVE  [Lock!Next]_LockHolders
<1>1. ASSUME NEW c \in Calls, NEW k \in Keys, Acquire(c, k)
      PROVE  [Lock!Next]_LockHolders
  <2>1. CASE AcquireFree(c, k)
    <3>1. \A d \in Calls : ~Holds(d, k)
      BY <2>1 DEF AcquireFree, IInv, EntryIffHeld
    <3>2. LockHolders[k] = {}
      BY <3>1 DEF LockHolders
    <3>3. Holds(c, k)' /\ \A d \in Calls : \A q \in Keys \ {k} : Holds(d, q)' <=> Holds(d, q)
      BY <1>1, <2>1 DEF Acquire, AcquireFree, IInv, TypeOK, Holds
    <3>4. {d \in Calls : Holds(d, k)'} = {c}
      BY <3>3 DEF IInv, MutualExclusion
    <3>5. LockHolders' = [LockHolders EXCEPT ![k] = {c}]
      BY <3>3, <3>4, LockStep
    <3>. QED
      BY <3>2, <3>5 DEF Lock!Next, Lock!Take
  <2>2. CASE AcquireRefused(c, k) \/ AcquireBusy(c, k)
    <3>1. \A d \in Calls, q \in Keys : Holds(d, q)' <=> Holds(d, q)
      BY <1>1, <2>2 DEF Acquire, AcquireRefused, AcquireBusy, IInv, TypeOK, Holds
    <3>. QED
      BY <3>1, SameHolders
  <2>. QED
    BY <1>1, <2>1, <2>2 DEF Acquire
<1>2. ASSUME NEW c \in Calls, Enter(c) PROVE [Lock!Next]_LockHolders
  <2>1. \A d \in Calls, q \in Keys : Holds(d, q)' <=> Holds(d, q)
    BY <1>2 DEF Enter, IInv, TypeOK, Holds
  <2>. QED
    BY <2>1, SameHolders
<1>3. ASSUME NEW c \in Calls, EnterAborted(c) \/ Leave(c) PROVE [Lock!Next]_LockHolders
  <2>1. Lock!Give(c, key[c])
    BY <1>3, ReleaseIsGive DEF EnterAborted, Leave
  <2>2. key[c] \in Keys
    BY <1>3 DEF EnterAborted, Leave, IInv, TypeOK
  <2>. QED
    BY <2>1, <2>2 DEF Lock!Next
<1>4. ASSUME NEW c \in Calls, Abort(c) PROVE [Lock!Next]_LockHolders
  <2>1. \A d \in Calls, q \in Keys : Holds(d, q)' <=> Holds(d, q)
    BY <1>4 DEF Abort, IInv, TypeOK, Holds
  <2>. QED
    BY <2>1, SameHolders
<1>5. CASE Dispose
  <2>1. \A d \in Calls, q \in Keys : Holds(d, q)' <=> Holds(d, q)
    BY <1>5 DEF Dispose, IInv, TypeOK, Holds
  <2>. QED
    BY <2>1, SameHolders
<1>6. CASE UNCHANGED vars
  BY <1>6 DEF vars, LockHolders, Holds
<1>. QED
  BY <1>1, <1>2, <1>3, <1>4, <1>5, <1>6 DEF Next

\* MutationQueue is a lock per key: "one active mutation per canonical target".
THEOREM QueueImplementsLock == Spec => ImplementsLock
<1>1. Init => Lock!Init
  BY DEF Init, Lock!Init, LockHolders, Holds
<1>2. IInv /\ IInv' /\ [Next]_vars => [Lock!Next]_LockHolders
  BY StepImplementsLock
<1>. QED
  BY <1>1, <1>2, Invariance, PTL DEF Spec, ImplementsLock, Lock!Spec
=============================================================================

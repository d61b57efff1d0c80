----------------------------- MODULE LiveProofs -----------------------------
(***************************************************************************)
(* Proofs about GlobalLock, Command and Tasks, as LiveParts composes them, *)
(* and with what the other modules prove of its parts, of LiveParts as a   *)
(* whole.                                                                  *)
(*                                                                         *)
(* GlobalLock: no second sees more than two periods' worth of calls, and   *)
(* nobody is let through while the API has asked for a pause.              *)
(*                                                                         *)
(* Commands: whatever raises where, and however the invocations            *)
(* interleave, the permits of the semaphores and the invocations that      *)
(* hold one are accounted for.                                             *)
(*                                                                         *)
(* Tasks: a task that is not started twice has one loop, its date fires    *)
(* once, its interval is kept, and nothing fires while it is stopped.      *)
(***************************************************************************)
EXTENDS LiveParts, PlaybackProofs, ReadinessProofs, Integers, WellFoundedInduction, TLAPS

\* The tasks of the queue.
Queued == {queue[i] : i \in DOMAIN queue}

\* A pause is not over before _reset_time, or before the sleep that began after it, and there
\* is no call left in the period that it cuts short.
PauseHeld ==
    /\ holder = None /\ pause > 0 => pause <= resetIn /\ glCalls = 0
    /\ holder # None => pause <= sleepIn

\* Of the calls of the last second those after the last global 429 are the first n of recent,
\* and of these the first c belong to the period that calls and resetIn tell of.  Those before
\* belong to the period before, which had no more than its calls, and will be a second old when
\* this one is over.  A task sleeps until then, unless a 429 came in its sleep.
After(n) == /\ n \in 0 .. Len(recent)
            /\ \A i \in 1 .. Len(recent) : i <= n <=> recent[i] < since
Periods(c, n) ==
    /\ c \in 0 .. n /\ c <= MaxRequests - glCalls /\ n - c <= MaxRequests
    /\ \A i \in c + 1 .. n : recent[i] + resetIn >= Window
    /\ holder # None => n = 0 \/ sleepIn = resetIn

RecentInv == \E c, n \in Nat : After(n) /\ Periods(c, n)

\* The ages of the calls rise along recent: those that drop out of it are the last ones.
Rises == \A i, j \in 1 .. Len(recent) : i <= j => recent[i] <= recent[j]

GlobalLockInv == Gl!TypeOK /\ Rises

-----------------------------------------------------------------------------
\* A step of the parts is one of the global lock, or leaves it alone.
LEMMA GlobalLockStep == [Next]_vars => [Gl!Next]_glVars
BY DEF Next, vars, glVars

\* The numbers that the steps compare.
LEMMA LockNumbers ==
    ASSUME Gl!TypeOK
    PROVE  /\ MaxRequests \in Nat \ {0} /\ Window \in Nat \ {0} /\ Delays \subseteq Nat \ {0}
           /\ glCalls \in 0 .. MaxRequests /\ sleepIn \in Nat /\ resetIn \in Nat /\ pause \in Nat
           /\ recent \in Seq(0 .. Window - 1) /\ Len(recent) \in Nat /\ since \in 0 .. Window
           /\ \A i \in 1 .. Len(recent) : recent[i] \in 0 .. Window - 1
<1>1. MaxRequests \in Nat \ {0} /\ Window \in Nat \ {0} /\ Delays \subseteq Nat \ {0}
  BY GlobalLockConstants DEF Gl!NumbersAssumption
<1>2. Gl!Times \subseteq Nat
  BY <1>1 DEF Gl!Times
<1>3. sleepIn \in Nat /\ resetIn \in Nat /\ pause \in Nat
  BY <1>2 DEF Gl!TypeOK
<1>4. recent \in Seq(0 .. Window - 1) /\ glCalls \in 0 .. MaxRequests /\ since \in 0 .. Window
  BY DEF Gl!TypeOK
<1>5. ASSUME NEW S, NEW s \in Seq(S)
      PROVE  Len(s) \in Nat /\ \A i \in 1 .. Len(s) : s[i] \in S
  BY <1>5
<1>6. Len(recent) \in Nat /\ \A i \in 1 .. Len(recent) : recent[i] \in 0 .. Window - 1
  BY <1>4, <1>5
<1> QED
  BY <1>1, <1>3, <1>4, <1>6

\* A task joins the queue at its end, and leaves it at its beginning.
LEMMA QueueJoined ==
    ASSUME Gl!TypeOK, NEW t \in Callers, t \notin Queued, queue' = Append(queue, t)
    PROVE  queue' \in Seq(Callers) /\ Gl!IsInjective(queue') /\ Queued' = Queued \cup {t}
<1>1. queue \in Seq(Callers) /\ Gl!IsInjective(queue)
  BY DEF Gl!TypeOK
<1>2. queue' \in Seq(Callers) /\ Len(queue') = Len(queue) + 1 /\ Len(queue) \in Nat
  BY <1>1
<1>3. \A i \in 1 .. Len(queue') : queue'[i] = IF i = Len(queue) + 1 THEN t ELSE queue[i]
  BY <1>1, <1>2
<1> QED
  BY <1>1, <1>2, <1>3 DEF Gl!IsInjective, Queued

\* Who is first in the queue of the lock leaves it, and is in it no more.
LEMMA QueueLeft ==
    ASSUME Gl!TypeOK, queue # <<>>, queue' = Tail(queue)
    PROVE  /\ queue' \in Seq(Callers) /\ Gl!IsInjective(queue') /\ Queued' = Queued \ {Head(queue)}
           /\ Head(queue) \in Queued
<1>1. queue \in Seq(Callers) /\ Gl!IsInjective(queue)
  BY DEF Gl!TypeOK
<1>2. queue' \in Seq(Callers) /\ Len(queue') = Len(queue) - 1 /\ Len(queue) \in Nat \ {0}
  BY <1>1
<1>3. \A i \in 1 .. Len(queue') : queue'[i] = queue[i + 1]
  BY <1>1, <1>2
<1>4. Head(queue) = queue[1]
  BY <1>1
<1>5. /\ \A x : x \in Queued <=> \E i \in 1 .. Len(queue) : x = queue[i]
      /\ \A x : x \in Queued' <=> \E i \in 1 .. Len(queue') : x = queue'[i]
  <2>1. DOMAIN queue = 1 .. Len(queue) /\ DOMAIN queue' = 1 .. Len(queue')
    BY <1>1, <1>2
  <2> QED
    BY <2>1 DEF Queued
<1>6. Gl!IsInjective(queue')
  BY <1>1, <1>2, <1>3 DEF Gl!IsInjective
<1>7. \A i \in 1 .. Len(queue) : queue[i] = queue[1] => i = 1
  BY <1>1, <1>2 DEF Gl!IsInjective
<1>8. Queued' \subseteq Queued \ {queue[1]}
  BY <1>2, <1>3, <1>5, <1>7
<1>9. ASSUME NEW i \in 1 .. Len(queue), queue[i] # queue[1]
      PROVE  queue[i] \in Queued'
  <2>1. i - 1 \in 1 .. Len(queue') /\ queue'[i - 1] = queue[i]
    BY <1>2, <1>3, <1>9
  <2> QED
    BY <1>5, <2>1
<1>10. Queued \ {queue[1]} \subseteq Queued' /\ queue[1] \in Queued
  BY <1>2, <1>5, <1>9
<1> QED
  BY <1>2, <1>4, <1>6, <1>8, <1>10

\* A part of the places of a sequence with every place before one of its own is its beginning.
LEMMA Beginning ==
    ASSUME NEW m \in Nat, NEW S \in SUBSET (1 .. m), \A i \in S : \A j \in 1 .. m : j <= i => j \in S
    PROVE  \E n \in 0 .. m : S = 1 .. n
<1> DEFINE T == {n \in Nat : n + 1 \notin S}
<1>1. m \in T
  OBVIOUS
<1>2. PICK n \in T : \A k \in T : ~(<<k, n>> \in OpToRel(<, Nat))
  BY <1>1, NatLessThanWellFounded, WFMin
<1>3. \A k \in T : n <= k
  <2>1. ASSUME NEW k \in Nat, NEW l \in Nat, k < l
        PROVE  <<k, l>> \in OpToRel(<, Nat)
    BY <2>1, Zenon DEF OpToRel
  <2>2. \A k \in T : ~(k < n)
    BY <1>2, <2>1
  <2> QED
    BY <2>2
<1>4. n <= m
  BY <1>1, <1>3
<1>5. \A i \in 1 .. n : i \in S
  <2>1. ASSUME NEW i \in 1 .. n
        PROVE  i \in S
    <3>1. i - 1 \in Nat /\ i - 1 < n /\ (i - 1) + 1 = i
      OBVIOUS
    <3>2. i - 1 \notin T
      BY <1>3, <3>1
    <3> QED
      BY <3>1, <3>2
  <2> QED
    BY <2>1
<1>6. \A i \in S : i <= n
  <2>1. ASSUME NEW i \in S, n < i
        PROVE  FALSE
    <3>1. n + 1 \in 1 .. m /\ n + 1 <= i
      BY <2>1
    <3>2. n + 1 \in S
      BY <2>1, <3>1
    <3> QED
      BY <3>2
  <2> QED
    BY <2>1
<1>7. S = 1 .. n
  <2>1. n \in Nat
    OBVIOUS
  <2> HIDE DEF T
  <2>2. \A i \in S : i \in 1 .. n
    BY <1>6, <2>1
  <2> QED
    BY <1>5, <2>2
<1> QED
  BY <1>4, <1>7

\* A tick: the calls that are a second old drop out, and the others are a tick older.
LEMMA Older ==
    ASSUME GlobalLockInv, Gl!Tick
    PROVE  /\ recent' \in Seq(0 .. Window - 1) /\ Len(recent') \in 0 .. Len(recent)
           /\ \A i \in 1 .. Len(recent') : recent'[i] = recent[i] + 1
<1> USE LockNumbers DEF GlobalLockInv
<1> DEFINE S == {j \in DOMAIN recent : recent[j] < Window - 1}
<1>1. DOMAIN recent = 1 .. Len(recent)
  OBVIOUS
<1>2. S \in SUBSET (1 .. Len(recent)) /\ \A i \in S : \A j \in 1 .. Len(recent) : j <= i => j \in S
  BY <1>1 DEF Rises
<1>3. PICK n \in 0 .. Len(recent) : S = 1 .. n
  <2> HIDE DEF S
  <2> QED
    BY <1>2, Beginning
<1>4. recent' = [i \in 1 .. n |-> recent[i] + 1]
  BY <1>3 DEF Gl!Tick
<1>5. \A i \in 1 .. n : recent[i] + 1 \in 0 .. Window - 1
  <2>1. \A i \in S : i \in 1 .. Len(recent) /\ recent[i] < Window - 1
    BY <1>1
  <2> HIDE DEF S
  <2> QED
    BY <1>3, <2>1
<1>6. ASSUME NEW R, NEW f \in [1 .. n -> R]
      PROVE  f \in Seq(R) /\ Len(f) = n
  BY <1>6
<1>7. recent' \in [1 .. n -> 0 .. Window - 1] /\ \A i \in 1 .. n : recent'[i] = recent[i] + 1
  BY <1>4, <1>5
<1>8. recent' \in Seq(0 .. Window - 1) /\ Len(recent') = n
  BY <1>6, <1>7
<1> QED
  BY <1>7, <1>8

\* wait() with _lock in hand: t goes on, or to sleep.  Whoever asks for _lock was not asleep.
LEMMA BodyTypes ==
    ASSUME Gl!TypeOK, holder = None, NEW t \in Callers, Gl!Body(t)
    PROVE  /\ glPc' = [glPc EXCEPT ![t] = glPc'[t]] /\ glPc'[t] \in {"calling", "asleep"}
           /\ holder' = IF glPc'[t] = "asleep" THEN t ELSE None
           /\ glCalls' \in 0 .. MaxRequests /\ {sleepIn', resetIn', pause'} \subseteq Gl!Times
           /\ recent' \in Seq(0 .. Window - 1) /\ since' \in 0 .. Window
<1> USE LockNumbers
<1>1. glPc \in [Callers -> {"idle", "queued", "asleep", "calling"}] /\ {sleepIn, resetIn, pause} \subseteq Gl!Times
  BY DEF Gl!TypeOK
<1>2. Window \in Gl!Times /\ 0 \in 0 .. Window - 1
  BY DEF Gl!Times
<1>3. << 0 >> \o recent \in Seq(0 .. Window - 1)
  BY <1>2
<1>4. CASE resetIn = 0 /\ Gl!ResetCalls /\ Gl!LetThrough(t) /\ holder' = holder
  BY <1>1, <1>2, <1>3, <1>4 DEF Gl!ResetCalls, Gl!LetThrough
<1>5. CASE /\ resetIn > 0 /\ glPc' = [glPc EXCEPT ![t] = "asleep"]
           /\ holder' = t /\ sleepIn' = resetIn
           /\ UNCHANGED <<glCalls, resetIn, pause, recent, since>>
  BY <1>1, <1>5
<1>6. CASE /\ glCalls > 0 /\ glCalls' = glCalls - 1 /\ Gl!LetThrough(t)
           /\ UNCHANGED <<holder, resetIn>>
  BY <1>1, <1>3, <1>6 DEF Gl!LetThrough
<1> QED
  BY <1>4, <1>5, <1>6 DEF Gl!Body

\* A step of the lock, of a call or of the clock keeps the types.
LEMMA GlobalLockTypesKept == GlobalLockInv /\ [Gl!Next]_glVars => Gl!TypeOK'
<1> SUFFICES ASSUME GlobalLockInv, [Gl!Next]_glVars
             PROVE  Gl!TypeOK'
  OBVIOUS
<1>0. Gl!TypeOK
  BY DEF GlobalLockInv
<1> USE <1>0, LockNumbers
<1>1. glPc \in [Callers -> {"idle", "queued", "asleep", "calling"}] /\ {sleepIn, resetIn, pause} \subseteq Gl!Times
  BY DEF Gl!TypeOK
<1>2. queue \in Seq(Callers) /\ Gl!IsInjective(queue) /\ Queued = {t \in Callers : glPc[t] = "queued"}
  BY DEF Gl!TypeOK, Queued
<1>3. holder \in Callers \cup {None} /\ None \notin Callers /\ \A t \in Callers : glPc[t] = "asleep" <=> holder = t
  BY GlobalLockConstants DEF Gl!TypeOK, Gl!NoOneAssumption
<1>4. 0 \in Gl!Times /\ Window \in Gl!Times /\ \A d \in Delays : d \in Gl!Times
  BY DEF Gl!Times
<1>5. ASSUME NEW t \in Callers, Gl!Wait(t)
      PROVE  Gl!TypeOK'
  <2>1. glPc[t] = "idle" /\ t \notin Queued
    BY <1>2, <1>5 DEF Gl!Wait
  <2>2. CASE holder = None /\ Gl!Body(t) /\ queue' = queue
    <3>1. Queued' = Queued
      BY <2>2 DEF Queued
    <3>2. glPc' \in [Callers -> {"idle", "queued", "asleep", "calling"}]
      BY <1>1, <2>2, BodyTypes
    <3>3. Queued' = {u \in Callers : glPc'[u] = "queued"}
      BY <1>1, <1>2, <2>1, <2>2, <3>1, BodyTypes
    <3>4. \A u \in Callers : glPc'[u] = "asleep" <=> holder' = u
      BY <1>1, <1>3, <2>1, <2>2, BodyTypes
    <3>5. holder' \in Callers \cup {None}
      BY <2>2, BodyTypes
    <3>6. queue' \in Seq(Callers) /\ Gl!IsInjective(queue')
      BY <1>2, <2>2
    <3> QED
      BY <2>2, <3>2, <3>3, <3>4, <3>5, <3>6, BodyTypes DEF Gl!TypeOK, Queued
  <2>3. CASE /\ queue' = Append(queue, t) /\ glPc' = [glPc EXCEPT ![t] = "queued"]
             /\ UNCHANGED <<holder, sleepIn, glCalls, resetIn, pause, recent, since>>
    <3>1. queue' \in Seq(Callers) /\ Gl!IsInjective(queue') /\ Queued' = Queued \cup {t}
      BY <2>1, <2>3, QueueJoined
    <3>2. Queued' = {u \in Callers : glPc'[u] = "queued"}
      BY <1>1, <1>2, <2>3, <3>1
    <3>3. \A u \in Callers : glPc'[u] = "asleep" <=> holder' = u
      BY <1>1, <1>3, <2>1, <2>3
    <3> QED
      BY <1>1, <1>3, <2>3, <3>1, <3>2, <3>3 DEF Gl!TypeOK, Queued
  <2> QED
    BY <1>5, <2>2, <2>3 DEF Gl!Wait
<1>6. ASSUME NEW t \in Callers, Gl!Acquire(t)
      PROVE  Gl!TypeOK'
  <2>1. holder = None /\ Gl!Body(t) /\ queue # <<>> /\ t = Head(queue) /\ queue' = Tail(queue)
    BY <1>6 DEF Gl!Acquire
  <2>2. queue' \in Seq(Callers) /\ Gl!IsInjective(queue') /\ Queued' = Queued \ {t} /\ t \in Queued
    BY <2>1, QueueLeft
  <2>3. glPc' \in [Callers -> {"idle", "queued", "asleep", "calling"}]
    BY <1>1, <2>1, BodyTypes
  <2>4. Queued' = {u \in Callers : glPc'[u] = "queued"}
    BY <1>1, <1>2, <2>1, <2>2, BodyTypes
  <2>5. \A u \in Callers : glPc'[u] = "asleep" <=> holder' = u
    BY <1>1, <1>3, <2>1, BodyTypes
  <2>6. holder' \in Callers \cup {None}
    BY <2>1, BodyTypes
  <2> QED
    BY <2>1, <2>2, <2>3, <2>4, <2>5, <2>6, BodyTypes DEF Gl!TypeOK, Queued
<1>7. ASSUME NEW t \in Callers, Gl!Wake(t)
      PROVE  Gl!TypeOK'
  <2>1. /\ holder = t /\ holder' = None /\ glPc' = [glPc EXCEPT ![t] = "calling"] /\ queue' = queue
        /\ glCalls' = MaxRequests - 1 /\ resetIn' = Window /\ recent' = << 0 >> \o recent
        /\ UNCHANGED <<sleepIn, pause, since>>
    BY <1>7 DEF Gl!Wake, Gl!ResetCalls, Gl!LetThrough
  <2>2. glPc[t] = "asleep" /\ Queued' = Queued
    BY <1>3, <2>1 DEF Queued
  <2>3. Queued' = {u \in Callers : glPc'[u] = "queued"}
    BY <1>1, <1>2, <2>1, <2>2
  <2>4. \A u \in Callers : glPc'[u] = "asleep" <=> holder' = u
    BY <1>1, <1>3, <2>1
  <2>5. recent' \in Seq(0 .. Window - 1)
    <3>1. 0 \in 0 .. Window - 1
      OBVIOUS
    <3> QED
      BY <2>1, <3>1
  <2> QED
    BY <1>1, <1>2, <1>4, <2>1, <2>3, <2>4, <2>5 DEF Gl!TypeOK, Queued
<1>8. ASSUME NEW t \in Callers, Gl!Answer(t)
      PROVE  Gl!TypeOK'
  <2>1. /\ glPc[t] = "calling" /\ glPc' = [glPc EXCEPT ![t] = "idle"]
        /\ UNCHANGED <<queue, holder, sleepIn, recent>>
    BY <1>8 DEF Gl!Answer
  <2>2. glCalls' \in 0 .. MaxRequests /\ {resetIn', pause'} \subseteq Gl!Times /\ since' \in 0 .. Window
    BY <1>1, <1>4, <1>8 DEF Gl!Answer, Gl!SetResetTime
  <2>3. Queued' = {u \in Callers : glPc'[u] = "queued"}
    BY <1>1, <1>2, <2>1 DEF Queued
  <2>4. \A u \in Callers : glPc'[u] = "asleep" <=> holder' = u
    BY <1>1, <1>3, <2>1
  <2> QED
    BY <1>1, <1>2, <1>3, <2>1, <2>2, <2>3, <2>4 DEF Gl!TypeOK, Queued
<1>9. CASE Gl!Tick
  <2>1. /\ sleepIn' = Gl!Before(sleepIn) /\ resetIn' = Gl!Before(resetIn) /\ pause' = Gl!Before(pause)
        /\ UNCHANGED <<glPc, queue, holder, glCalls>>
    BY <1>9 DEF Gl!Tick
  <2>2. \A n \in Gl!Times : Gl!Before(n) \in Gl!Times
    BY DEF Gl!Times, Gl!Before
  <2>3. recent' \in Seq(0 .. Window - 1) /\ since' \in 0 .. Window
    <3>1. recent' \in Seq(0 .. Window - 1)
      BY <1>9, Older
    <3>2. since' = IF since = Window THEN Window ELSE since + 1
      BY <1>9 DEF Gl!Tick
    <3> QED
      BY <3>1, <3>2
  <2> QED
    BY <1>1, <1>2, <1>3, <2>1, <2>2, <2>3 DEF Gl!TypeOK, Queued
<1>10. CASE UNCHANGED glVars
  BY <1>10 DEF Gl!TypeOK, Gl!IsInjective, glVars
<1> QED
  BY <1>5, <1>6, <1>7, <1>8, <1>9, <1>10 DEF Gl!Next, Gl!Task, Gl!vars, glVars

\* What wait() does with _lock in hand and when it wakes, in three cases: a new period begins,
\* t goes to sleep, or a call of the period is used up.
LEMMA BodyCases ==
    ASSUME Gl!TypeOK, NEW t \in Callers, Gl!Wait(t) \/ Gl!Acquire(t) \/ Gl!Wake(t)
    PROVE  \/ /\ (resetIn = 0 /\ holder = None) \/ (sleepIn = 0 /\ holder # None)
              /\ glCalls' = MaxRequests - 1 /\ resetIn' = Window /\ holder' = None
              /\ recent' = << 0 >> \o recent /\ UNCHANGED <<sleepIn, pause, since>>
           \/ /\ holder = None /\ holder' = t /\ resetIn > 0 /\ glCalls = 0 /\ sleepIn' = resetIn
              /\ glPc' = [glPc EXCEPT ![t] = "asleep"]
              /\ UNCHANGED <<glCalls, resetIn, pause, recent, since>>
           \/ /\ holder = None /\ resetIn > 0 /\ glCalls > 0 /\ glCalls' = glCalls - 1
              /\ recent' = << 0 >> \o recent /\ UNCHANGED <<holder, sleepIn, resetIn, pause, since>>
           \/ /\ glPc' = [glPc EXCEPT ![t] = "queued"]
              /\ UNCHANGED <<holder, sleepIn, glCalls, resetIn, pause, recent, since>>
<1>1. None \notin Callers
  BY GlobalLockConstants DEF Gl!NoOneAssumption
<1> QED
  BY <1>1 DEF Gl!Wait, Gl!Acquire, Gl!Wake, Gl!Body, Gl!ResetCalls, Gl!LetThrough

\* A call more at the front of recent.
LEMMA Newer ==
    ASSUME Gl!TypeOK, recent' = << 0 >> \o recent
    PROVE  /\ Len(recent') = Len(recent) + 1
           /\ recent'[1] = 0 /\ \A i \in 2 .. Len(recent') : i - 1 \in 1 .. Len(recent) /\ recent'[i] = recent[i - 1]
<1>1. ASSUME NEW S, NEW x \in S, NEW s \in Seq(S)
      PROVE  /\ Len(<<x>> \o s) = Len(s) + 1 /\ Len(s) \in Nat
             /\ (<<x>> \o s)[1] = x
             /\ \A i \in 2 .. Len(s) + 1 : (<<x>> \o s)[i] = s[i - 1]
  OBVIOUS
<1>2. recent \in Seq(0 .. Window - 1) /\ 0 \in 0 .. Window - 1
  BY LockNumbers
<1>3. /\ Len(recent') = Len(recent) + 1 /\ Len(recent) \in Nat /\ recent'[1] = 0
      /\ \A i \in 2 .. Len(recent) + 1 : recent'[i] = recent[i - 1]
  BY <1>1, <1>2
<1> QED
  BY <1>3

\* A step adds a call in front, or is a tick, or leaves recent as it is.
LEMMA RisesKept == GlobalLockInv /\ [Gl!Next]_glVars => Rises'
<1> SUFFICES ASSUME GlobalLockInv, [Gl!Next]_glVars
             PROVE  Rises'
  OBVIOUS
<1>0. Gl!TypeOK /\ Rises
  BY DEF GlobalLockInv
<1>n. /\ MaxRequests \in Nat \ {0} /\ Window \in Nat \ {0} /\ Delays \subseteq Nat \ {0}
      /\ glCalls \in 0 .. MaxRequests /\ sleepIn \in Nat /\ resetIn \in Nat /\ pause \in Nat
      /\ Len(recent) \in Nat /\ since \in 0 .. Window /\ \A i \in 1 .. Len(recent) : recent[i] \in 0 .. Window - 1
  BY <1>0, LockNumbers
<1> USE <1>0, <1>n
<1>1. CASE recent' = recent
  BY <1>1 DEF Rises
<1>2. CASE recent' = << 0 >> \o recent
  <2> SUFFICES ASSUME NEW i \in 1 .. Len(recent'), NEW j \in 1 .. Len(recent'), i <= j
               PROVE  recent'[i] <= recent'[j]
    BY DEF Rises
  <2>0. /\ Len(recent') = Len(recent) + 1 /\ recent'[1] = 0
        /\ \A k \in 2 .. Len(recent') : k - 1 \in 1 .. Len(recent) /\ recent'[k] = recent[k - 1]
    BY <1>2, Newer
  <2>1. CASE i = 1
    BY <2>0, <2>1
  <2>2. CASE i # 1
    <3>1. /\ i - 1 \in 1 .. Len(recent) /\ recent'[i] = recent[i - 1]
          /\ j - 1 \in 1 .. Len(recent) /\ recent'[j] = recent[j - 1] /\ i - 1 <= j - 1
      BY <2>0, <2>2
    <3> QED
      BY <3>1 DEF Rises
  <2> QED
    BY <2>1, <2>2
<1>3. CASE Gl!Tick
  <2>1. /\ Len(recent') \in 0 .. Len(recent)
        /\ \A i \in 1 .. Len(recent') : recent'[i] = recent[i] + 1
    BY <1>3, Older
  <2> QED
    BY <2>1 DEF Rises
<1>4. recent' = recent \/ recent' = << 0 >> \o recent \/ Gl!Tick
  <2>1. ASSUME NEW t \in Callers, Gl!Answer(t)
        PROVE  recent' = recent
    BY <2>1 DEF Gl!Answer
  <2>2. CASE UNCHANGED glVars
    BY <2>2 DEF glVars
  <2> QED
    BY <2>1, <2>2, BodyCases DEF Gl!Next, Gl!Task, Gl!vars, glVars
<1> QED
  BY <1>1, <1>2, <1>3, <1>4

\* A pause that a retry_after asked for is kept by every step, the sleeper's included.
LEMMA PauseHeldKept == GlobalLockInv /\ PauseHeld /\ [Gl!Next]_glVars => PauseHeld'
<1> SUFFICES ASSUME GlobalLockInv, PauseHeld, [Gl!Next]_glVars
             PROVE  PauseHeld'
  OBVIOUS
<1>0. Gl!TypeOK
  BY DEF GlobalLockInv
<1>n. /\ MaxRequests \in Nat \ {0} /\ Window \in Nat \ {0} /\ Delays \subseteq Nat \ {0}
      /\ glCalls \in 0 .. MaxRequests /\ sleepIn \in Nat /\ resetIn \in Nat /\ pause \in Nat
      /\ Len(recent) \in Nat /\ since \in 0 .. Window /\ \A i \in 1 .. Len(recent) : recent[i] \in 0 .. Window - 1
  BY <1>0, LockNumbers
<1> USE <1>0, <1>n
<1>1. None \notin Callers
  BY GlobalLockConstants DEF Gl!NoOneAssumption
<1>2. ASSUME NEW t \in Callers, Gl!Wait(t) \/ Gl!Acquire(t) \/ Gl!Wake(t)
      PROVE  PauseHeld'
  BY <1>1, <1>2, BodyCases DEF PauseHeld
<1>3. ASSUME NEW t \in Callers, Gl!Answer(t)
      PROVE  PauseHeld'
  BY <1>3 DEF PauseHeld, Gl!Answer, Gl!SetResetTime
<1>4. CASE Gl!Tick
  BY <1>4 DEF PauseHeld, Gl!Tick, Gl!Before
<1>5. CASE UNCHANGED glVars
  BY <1>5 DEF PauseHeld, glVars
<1> QED
  BY <1>2, <1>3, <1>4, <1>5 DEF Gl!Next, Gl!Task, Gl!vars, glVars

\* A call let through while there is a 429 in the last second is one after it; a period that
\* begins makes the calls of the one that is over those of the period before.
LEMMA RecentInvKept == GlobalLockInv /\ RecentInv /\ [Gl!Next]_glVars => RecentInv'
<1> SUFFICES ASSUME GlobalLockInv, [Gl!Next]_glVars,
                    NEW c \in Nat, NEW n \in Nat, After(n), Periods(c, n)
             PROVE  RecentInv'
  BY DEF RecentInv
<1>0. Gl!TypeOK
  BY DEF GlobalLockInv
<1>n. /\ MaxRequests \in Nat \ {0} /\ Window \in Nat \ {0} /\ Delays \subseteq Nat \ {0}
      /\ glCalls \in 0 .. MaxRequests /\ sleepIn \in Nat /\ resetIn \in Nat /\ pause \in Nat
      /\ Len(recent) \in Nat /\ since \in 0 .. Window /\ \A i \in 1 .. Len(recent) : recent[i] \in 0 .. Window - 1
  BY <1>0, LockNumbers
<1> USE <1>0, <1>n
<1>1. None \notin Callers
  BY GlobalLockConstants DEF Gl!NoOneAssumption
<1>2. ASSUME NEW d \in Nat, NEW m \in Nat, After(m)', Periods(d, m)'
      PROVE  RecentInv'
  BY <1>2 DEF RecentInv, After, Periods
<1>3. ASSUME recent' = << 0 >> \o recent, since' = since
      PROVE  After(IF since = 0 THEN 0 ELSE n + 1)'
  <2>1. since = 0 => n = 0
    BY DEF After
  <2> QED
    BY <1>3, <2>1, Newer DEF After
<1>4. ASSUME (resetIn = 0 /\ holder = None) \/ (sleepIn = 0 /\ holder # None),
             glCalls' = MaxRequests - 1, resetIn' = Window, holder' = None,
             recent' = << 0 >> \o recent, since' = since
      PROVE  RecentInv'
  <2>1. n = c
    BY <1>4 DEF After, Periods
  <2>2. CASE since = 0
    <3>1. Periods(0, 0)'
      BY <1>4 DEF Periods
    <3> QED
      BY <1>2, <1>3, <1>4, <2>2, <3>1
  <2>3. CASE since # 0
    <3>1. n + 1 <= Len(recent')
      BY <1>4, Newer DEF After
    <3>2. \A i \in 1 .. Len(recent') : recent'[i] \in Nat
      BY <1>4, Newer
    <3>3. Periods(1, n + 1)'
      BY <1>4, <2>1, <3>1, <3>2 DEF Periods
    <3> QED
      BY <1>2, <1>3, <1>4, <2>3, <3>3
  <2> QED
    BY <2>2, <2>3
<1>5. ASSUME holder = None, glCalls > 0, glCalls' = glCalls - 1,
             recent' = << 0 >> \o recent, UNCHANGED <<holder, resetIn, since>>
      PROVE  RecentInv'
  <2>2. CASE since = 0
    <3>1. Periods(0, 0)'
      BY <1>5 DEF Periods
    <3> QED
      BY <1>2, <1>3, <1>5, <2>2, <3>1
  <2>3. CASE since # 0
    <3>1. n + 1 <= Len(recent')
      BY <1>5, Newer DEF After
    <3>2. \A i \in c + 2 .. n + 1 : recent'[i] = recent[i - 1] /\ i - 1 \in c + 1 .. n
      BY <1>5, <3>1, Newer
    <3>3. /\ c \in 0 .. n /\ c <= MaxRequests - glCalls /\ n - c <= MaxRequests
          /\ \A i \in c + 1 .. n : recent[i] + resetIn >= Window
      BY DEF Periods
    <3>4. c + 1 \in 0 .. n + 1 /\ c + 1 <= MaxRequests - glCalls' /\ (n + 1) - (c + 1) <= MaxRequests
      BY <1>5, <3>3
    <3>5. \A i \in (c + 1) + 1 .. n + 1 : recent'[i] + resetIn' >= Window
      <4>1. ASSUME NEW i \in (c + 1) + 1 .. n + 1
            PROVE  i \in c + 2 .. n + 1
        OBVIOUS
      <4> QED
        BY <1>5, <3>2, <3>3, <4>1
    <3>6. Periods(c + 1, n + 1)'
      BY <1>5, <3>4, <3>5 DEF Periods
    <3> QED
      BY <1>2, <1>3, <1>5, <2>3, <3>6
  <2> QED
    BY <2>2, <2>3
<1>6. ASSUME UNCHANGED <<glCalls, resetIn, recent, since>>,
             holder' = None \/ sleepIn' = resetIn \/ UNCHANGED <<holder, sleepIn>>
      PROVE  RecentInv'
  <2>1. After(n)' /\ Periods(c, n)'
    BY <1>6 DEF After, Periods
  <2> QED
    BY <1>2, <2>1
<1>7. ASSUME NEW t \in Callers, Gl!Wait(t) \/ Gl!Acquire(t) \/ Gl!Wake(t)
      PROVE  RecentInv'
  BY <1>4, <1>5, <1>6, <1>7, BodyCases
<1>8. ASSUME NEW t \in Callers, Gl!Answer(t)
      PROVE  RecentInv'
  <2>1. UNCHANGED <<holder, sleepIn, recent>>
    BY <1>8 DEF Gl!Answer
  <2>2. CASE UNCHANGED <<glCalls, resetIn, since>>
    BY <1>6, <2>1, <2>2
  <2>3. CASE glCalls' = 0 /\ since' = 0
    <3>1. After(0)' /\ Periods(0, 0)'
      BY <2>1, <2>3 DEF After, Periods
    <3> QED
      BY <1>2, <3>1
  <2> QED
    BY <1>8, <2>2, <2>3 DEF Gl!Answer, Gl!SetResetTime
<1>9. CASE Gl!Tick
  <2>1. /\ sleepIn' = Gl!Before(sleepIn) /\ resetIn' = Gl!Before(resetIn)
        /\ since' = (IF since = Window THEN Window ELSE since + 1)
        /\ UNCHANGED <<holder, glCalls>>
    BY <1>9 DEF Gl!Tick
  <2>2. /\ Len(recent') \in 0 .. Len(recent)
        /\ \A i \in 1 .. Len(recent') : /\ recent'[i] = recent[i] + 1
                                        /\ recent'[i] \in 0 .. Window - 1 /\ recent[i] \in Nat
    <3>1. recent' \in Seq(0 .. Window - 1) /\ Len(recent') \in 0 .. Len(recent)
      BY <1>9, Older
    <3>2. ASSUME NEW S, NEW s \in Seq(S)
          PROVE  \A i \in 1 .. Len(s) : s[i] \in S
      BY <3>2
    <3>3. \A i \in 1 .. Len(recent') : recent'[i] \in 0 .. Window - 1
      BY <3>1, <3>2
    <3> QED
      BY <1>9, <3>1, <3>3, Older
  <2> PICK m \in Nat : m = IF n <= Len(recent') THEN n ELSE Len(recent')
    BY <2>2
  <2> PICK d \in Nat : d = IF c <= Len(recent') THEN c ELSE Len(recent')
    BY <2>2
  <2>4. After(m)'
    <3>1. m \in 0 .. Len(recent')
      BY <2>2
    <3>2. ASSUME NEW i \in 1 .. Len(recent')
          PROVE  i <= m <=> recent'[i] < since'
      <4>1. i \in 1 .. Len(recent) /\ (i <= m <=> i <= n) /\ recent'[i] = recent[i] + 1
        BY <2>2
      <4>2. i <= n <=> recent[i] < since
        BY <4>1 DEF After
      <4>3. recent'[i] < since' <=> recent[i] < since
        BY <2>1, <2>2
      <4> QED
        BY <4>1, <4>2, <4>3
    <3> QED
      BY <3>1, <3>2 DEF After
  <2>5. d \in 0 .. m /\ d <= MaxRequests - glCalls' /\ m - d <= MaxRequests
    BY <2>1, <2>2 DEF After, Periods
  <2>6. ASSUME NEW i \in d + 1 .. m
        PROVE  recent'[i] + resetIn' >= Window
    <3>1. i \in c + 1 .. n /\ i \in 1 .. Len(recent')
      BY <2>2 DEF Periods
    <3> QED
      BY <2>1, <2>2, <3>1 DEF Periods, Gl!Before
  <2>7. holder' # None => m = 0 \/ sleepIn' = resetIn'
    BY <2>1, <2>2 DEF Periods
  <2>8. Periods(d, m)'
    <3> QED
      BY <2>5, <2>6, <2>7 DEF Periods
  <2> QED
    BY <1>2, <2>4, <2>8
<1>10. CASE UNCHANGED glVars
  BY <1>6, <1>10 DEF glVars
<1> QED
  BY <1>7, <1>8, <1>9, <1>10 DEF Gl!Next, Gl!Task, Gl!vars, glVars

-----------------------------------------------------------------------------
\* Before the first call the lock is free and nothing was let through.
LEMMA GlobalLockInit == Init => GlobalLockInv /\ PauseHeld /\ RecentInv
<1> SUFFICES ASSUME Gl!Init
             PROVE  GlobalLockInv /\ PauseHeld /\ RecentInv
  BY DEF Init
<1>1. /\ MaxRequests \in Nat \ {0} /\ Window \in Nat \ {0} /\ Delays \subseteq Nat \ {0}
      /\ None \notin Callers
  BY GlobalLockConstants DEF Gl!NumbersAssumption, Gl!NoOneAssumption
<1>2. /\ glPc = [t \in Callers |-> "idle"] /\ queue = <<>> /\ holder = None /\ sleepIn = 0
      /\ glCalls = MaxRequests /\ resetIn = 0 /\ pause = 0 /\ recent = <<>> /\ since = Window
  BY DEF Gl!Init
<1>3. Len(recent) = 0 /\ DOMAIN queue = {}
  BY <1>2
<1>4. Gl!TypeOK
  <2>1. 0 \in Gl!Times
    BY <1>1 DEF Gl!Times
  <2>2. recent \in Seq(0 .. Window - 1) /\ queue \in Seq(Callers)
    BY <1>2
  <2>3. Gl!IsInjective(queue) /\ {queue[i] : i \in DOMAIN queue} = {t \in Callers : glPc[t] = "queued"}
    BY <1>2, <1>3 DEF Gl!IsInjective
  <2> QED
    BY <1>1, <1>2, <2>1, <2>2, <2>3 DEF Gl!TypeOK
<1>5. Rises /\ PauseHeld
  BY <1>2, <1>3 DEF Rises, PauseHeld
<1>6. After(0) /\ Periods(0, 0)
  BY <1>1, <1>2, <1>3 DEF After, Periods
<1> QED
  BY <1>4, <1>5, <1>6 DEF GlobalLockInv, RecentInv

\* The lock of the global rate limit has its types: its queue holds exactly the tasks that wait
\* for it, each once, and it is held by the one task that sleeps.
THEOREM GlobalLockTypes == Spec => []GlobalLockInv
<1>1. Init => GlobalLockInv
  BY GlobalLockInit
<1>2. GlobalLockInv /\ [Next]_vars => GlobalLockInv'
  BY GlobalLockStep, GlobalLockTypesKept, RisesKept DEF GlobalLockInv
<1> QED
  BY <1>1, <1>2, PTL DEF Spec

\* However the calls of any number of tasks fall into the periods, no second without a global
\* 429 sees more than 2 * max_requests of them (GlobalLock.wait).
THEOREM CallsBounded == Spec => []BurstBounded
<1>1. Init => RecentInv
  BY GlobalLockInit
<1>2. GlobalLockInv /\ RecentInv /\ [Next]_vars => RecentInv'
  BY GlobalLockStep, RecentInvKept
<1>3. GlobalLockInv /\ RecentInv => BurstBounded
  <2> SUFFICES ASSUME GlobalLockInv, since = Window,
                      NEW c \in Nat, NEW n \in Nat, After(n), Periods(c, n)
               PROVE  Len(recent) <= 2 * MaxRequests
    BY DEF RecentInv, BurstBounded, Gl!BurstBounded
  <2>1. /\ MaxRequests \in Nat /\ glCalls \in 0 .. MaxRequests /\ Len(recent) \in Nat
        /\ \A i \in 1 .. Len(recent) : recent[i] \in 0 .. Window - 1 /\ Window \in Nat
    BY LockNumbers DEF GlobalLockInv
  <2>2. n = Len(recent)
    BY <2>1 DEF After
  <2>3. c <= MaxRequests /\ n - c <= MaxRequests
    BY <2>1 DEF Periods
  <2> QED
    BY <2>1, <2>2, <2>3
<1> QED
  BY <1>1, <1>2, <1>3, GlobalLockTypes, PTL DEF Spec

\* Whatever was queued or comes back, nobody is let through before the pause that a global 429
\* asked for is over, if nobody slept in wait() when it came.
THEOREM PauseIsKept == Spec => PauseKept
<1>1. Init => PauseHeld
  BY GlobalLockInit
<1>2. GlobalLockInv /\ PauseHeld /\ [Next]_vars => PauseHeld'
  BY GlobalLockStep, PauseHeldKept
<1>3. GlobalLockInv /\ PauseHeld /\ [Next]_vars
        => [\A t \in Callers : glPc[t] # "calling" /\ glPc'[t] = "calling" => pause = 0]_glVars
  <2> SUFFICES ASSUME GlobalLockInv, PauseHeld, [Gl!Next]_glVars,
                      NEW t \in Callers, glPc[t] # "calling", glPc'[t] = "calling"
               PROVE  pause = 0
    BY GlobalLockStep
  <2>0. Gl!TypeOK
    BY DEF GlobalLockInv
  <2>1. glPc \in [Callers -> {"idle", "queued", "asleep", "calling"}] /\ None \notin Callers
    BY <2>0, GlobalLockConstants DEF Gl!TypeOK, Gl!NoOneAssumption
  <2>2. pause \in Nat /\ sleepIn \in Nat /\ resetIn \in Nat /\ glCalls \in Nat
    BY <2>0, LockNumbers
  <2>3. ASSUME NEW u \in Callers, Gl!Wait(u) \/ Gl!Acquire(u) \/ Gl!Wake(u)
        PROVE  pause = 0
    BY <2>0, <2>1, <2>2, <2>3, BodyCases DEF PauseHeld
  <2>4. ASSUME NEW u \in Callers, Gl!Answer(u)
        PROVE  FALSE
    BY <2>1, <2>4 DEF Gl!Answer
  <2>5. glPc' # glPc
    OBVIOUS
  <2> QED
    BY <2>3, <2>4, <2>5 DEF Gl!Next, Gl!Task, Gl!Tick, Gl!vars, glVars
<1> QED
  BY <1>1, <1>2, <1>3, GlobalLockTypes, PTL DEF Spec, PauseKept, Gl!PauseKept, Gl!vars, glVars

-----------------------------------------------------------------------------
\* Where an invocation is says whose semaphore it waits for or acquired: the key that its
\* context has now, but for Buckets.ROLE.  Only a check that failed leads to the error handler
\* without a permit, and a disabled command goes nowhere.
AtItsKey ==
    \A i \in Invocations :
        /\ coPc[i] \in {"waiting", "granted", "running"} => at[i] \in Keys
        /\ coPc[i] = "handling" /\ ~cmd.checked => at[i] \in Keys
        /\ coPc[i] \in {"idle", "checks", "refused", "done"} => at[i] = None
        /\ ~cmd.byRole => at[i] \in {None, key[i]}
        /\ ~cmd.enabled => coPc[i] \in {"idle", "done"}

\* The sets that are counted are finite: one invocation at a time takes a permit.
Counted == IsFiniteSet(Co!Holding) /\ IsFiniteSet(Co!Permits)

SlotsInv == Co!TypeOK /\ AtItsKey /\ Counted /\ SlotsKept

-----------------------------------------------------------------------------
\* Command counts with the operators that its own module takes from FiniteSets.
LEMMA SameCounts ==
    \A S : (Co!IsFiniteSet(S) <=> IsFiniteSet(S)) /\ Co!Cardinality(S) = Cardinality(S)
<1>1. \A S : Co!IsFiniteSet(S) <=> IsFiniteSet(S)
  BY DEF Co!IsFiniteSet, IsFiniteSet
<1>2. \A S : Co!Cardinality(S) = Cardinality(S)
  BY Zenon DEF Co!Cardinality, Cardinality
<1> QED
  BY <1>1, <1>2

\* Of the initial permits there are concurrent for every key.
LEMMA PermitsAtFirst ==
    ASSUME Co!Init
    PROVE  /\ IsFiniteSet(Co!Permits)
           /\ Cardinality(Co!Permits) = cmd.concurrent * Cardinality(Keys)
<1>1. cmd.concurrent \in Nat \ {0}
  BY CommandConstants DEF Co!Init, Co!CommandsAssumption
<1>2. Co!Permits = Keys \X (1..cmd.concurrent)
  BY DEF Co!Init, Co!Permits
<1>3. IsFiniteSet(1..cmd.concurrent) /\ Cardinality(1..cmd.concurrent) = cmd.concurrent
  BY <1>1, FS_Interval
<1>4. IsFiniteSet(Keys) /\ Cardinality(Keys) \in Nat
  BY CommandConstants, SameCounts, FS_CardinalityType DEF Co!KeysAssumption
<1>5. Cardinality(Keys \X (1..cmd.concurrent)) = Cardinality(Keys) * cmd.concurrent
  BY <1>3, <1>4, FS_Product
<1>6. IsFiniteSet(Keys \X (1..cmd.concurrent))
  BY <1>3, <1>4, FS_Product
<1> QED
  BY <1>1, <1>2, <1>4, <1>5, <1>6

\* A permit that a semaphore gets back is one more ...
LEMMA PermitBack ==
    ASSUME Co!TypeOK, Counted, NEW k \in Keys, val' = [val EXCEPT ![k] = @ + 1]
    PROVE  IsFiniteSet(Co!Permits') /\ Cardinality(Co!Permits') = Cardinality(Co!Permits) + 1
<1> DEFINE p == <<k, val[k] + 1>>
<1>1. val \in [Keys -> Nat]
  BY DEF Co!TypeOK
<1>2. Co!Permits' = Co!Permits \cup {p}
  BY <1>1 DEF Co!Permits
<1>3. p \notin Co!Permits
  BY <1>1 DEF Co!Permits
<1> QED
  BY <1>2, <1>3, FS_AddElement DEF Counted

\* ... and one that it hands out is one less.
LEMMA PermitTaken ==
    ASSUME Co!TypeOK, Counted, NEW k \in Keys, val[k] # 0, val' = [val EXCEPT ![k] = @ - 1]
    PROVE  IsFiniteSet(Co!Permits') /\ Cardinality(Co!Permits') = Cardinality(Co!Permits) - 1
<1> DEFINE p == <<k, val[k]>>
<1>1. val \in [Keys -> Nat]
  BY DEF Co!TypeOK
<1>2. Co!Permits' = Co!Permits \ {p}
  BY <1>1 DEF Co!Permits
<1>3. p \in Co!Permits
  BY <1>1 DEF Co!Permits
<1> QED
  BY <1>2, <1>3, FS_RemoveElement DEF Counted

\* One leaves and one that was not there comes, ...
LEMMA OneForOne ==
    ASSUME NEW H, IsFiniteSet(H), NEW i, NEW j, j \notin H, j # i
    PROVE  /\ IsFiniteSet((H \ {i}) \cup {j})
           /\ Cardinality((H \ {i}) \cup {j}) = Cardinality(H) + (IF i \in H THEN 0 ELSE 1)
<1>1. IsFiniteSet(H \ {i}) /\ Cardinality(H) \in Nat
  BY FS_RemoveElement, FS_CardinalityType
<1>2. Cardinality(H \ {i}) = Cardinality(H) - (IF i \in H THEN 1 ELSE 0)
  BY <1>1, FS_RemoveElement
<1>3. j \notin H \ {i}
  OBVIOUS
<1>4. /\ IsFiniteSet((H \ {i}) \cup {j})
      /\ Cardinality((H \ {i}) \cup {j}) = Cardinality(H \ {i}) + 1
  BY <1>1, <1>3, FS_AddElement
<1> QED
  BY <1>1, <1>2, <1>4

\* ... or one leaves.
LEMMA OneLess ==
    ASSUME NEW H, IsFiniteSet(H), NEW i
    PROVE  /\ IsFiniteSet(H \ {i})
           /\ Cardinality(H \ {i}) = Cardinality(H) - (IF i \in H THEN 1 ELSE 0)
<1>1. Cardinality(H) \in Nat
  BY FS_CardinalityType
<1> QED
  BY <1>1, FS_RemoveElement

\* The holders of a semaphore are finitely many, too.
LEMMA HoldersFinite ==
    ASSUME Counted, NEW k
    PROVE  IsFiniteSet(Co!Holders(k)) /\ Cardinality(Co!Holders(k)) \in Nat
<1>1. Co!Holders(k) \in SUBSET Co!Holding
  BY DEF Co!Holders
<1> QED
  BY <1>1, FS_Subset, FS_CardinalityType DEF Counted

-----------------------------------------------------------------------------
\* The step of an invocation keeps the types and the places.
LEMMA PlacesKept ==
    ASSUME Co!TypeOK, AtItsKey, [Co!Next]_coVars
    PROVE  Co!TypeOK' /\ AtItsKey'
<1> USE CommandConstants DEF Co!CommandsAssumption, Co!NoOneAssumption
<1> SUFFICES ASSUME NEW i \in Invocations, Co!Step(i) \/ Co!Move(i)
             PROVE  Co!TypeOK' /\ AtItsKey'
  BY DEF Co!Next, coVars, Co!TypeOK, AtItsKey
<1> USE DEF Co!TypeOK, Co!Pcs
<1>1. ASSUME Co!Release(i), coPc[i] \in {"idle", "running", "handling"}, coPc[i] = "idle" => ~cmd.enabled,
             UNCHANGED <<cmd, key>>
      PROVE  Co!TypeOK' /\ AtItsKey'
  <2>1. PICK j \in Co!Heirs(key[i]) :
            /\ coPc' = [p \in Invocations |->
                         CASE p = i -> "done" [] p = j -> "granted" [] OTHER -> coPc[p]]
            /\ val' = [val EXCEPT ![key[i]] = IF j = None THEN @ + 1 ELSE @]
            /\ at' = [at EXCEPT ![i] = None]
    BY <1>1 DEF Co!Release
  <2>2. j = None \/ (j \in Invocations /\ coPc[j] = "waiting")
    BY <2>1 DEF Co!Heirs, Co!Waiting
  <2>3. coPc' \in [Invocations -> Co!Pcs]
    BY <2>1
  <2>4. val' \in [Keys -> Nat] /\ at' \in [Invocations -> Keys \cup {None}]
    BY <2>1
  <2>5. AtItsKey'
    BY <1>1, <2>1, <2>2 DEF AtItsKey
  <2> QED
    BY <1>1, <2>3, <2>4, <2>5
<1>2. CASE Co!Start(i)
  BY <1>1, <1>2 DEF Co!Start, AtItsKey
<1>3. CASE Co!CheckFails(i)
  BY <1>3 DEF Co!CheckFails, AtItsKey
<1>4. CASE Co!ChecksPass(i)
  BY <1>4 DEF Co!ChecksPass, Co!Locked, AtItsKey
<1>5. CASE Co!Resume(i)
  BY <1>5 DEF Co!Resume, AtItsKey
<1>6. CASE Co!Finish(i)
  BY <1>1, <1>6 DEF Co!Finish, AtItsKey
<1>7. CASE Co!Handled(i)
  BY <1>1, <1>7 DEF Co!Handled, AtItsKey
<1>8. CASE Co!Refused(i)
  BY <1>8 DEF Co!Refused, AtItsKey
<1>9. CASE Co!Move(i)
  BY <1>9 DEF Co!Move, AtItsKey
<1> QED
  BY <1>2, <1>3, <1>4, <1>5, <1>6, <1>7, <1>8, <1>9 DEF Co!Step

-----------------------------------------------------------------------------
(* SlotsKept with the operators of this module. *)
Kept ==
    /\ ~cmd.byRole => \A k \in Keys : val[k] + Cardinality(Co!Holders(k)) >= cmd.concurrent
    /\ cmd.enabled /\ ~cmd.checked /\ ~cmd.byRole =>
        \A k \in Keys : val[k] + Cardinality(Co!Holders(k)) = cmd.concurrent
    /\ cmd.enabled /\ ~cmd.checked =>
        Cardinality(Co!Permits) + Cardinality(Co!Holding) = cmd.concurrent * Cardinality(Keys)

\* The counts by this module's sums say what SlotsKept says by the model's.
LEMMA KeptIsSlotsKept == Kept <=> SlotsKept
BY SameCounts DEF Kept, SlotsKept, Co!NoSlotLost, Co!SlotsConserved, Co!TotalConserved

\* Before the first invocation every permit of every key is free.
LEMMA SlotsAtFirst == Co!Init => Counted /\ Kept
<1> SUFFICES ASSUME Co!Init
             PROVE  Counted /\ Kept
  OBVIOUS
<1>1. Co!Holding = {} /\ \A k \in Keys : Co!Holders(k) = {} /\ val[k] = cmd.concurrent
  BY DEF Co!Init, Co!Holding, Co!Holders
<1>2. Cardinality({}) = 0 /\ IsFiniteSet({})
  BY FS_EmptySet
<1>3. cmd.concurrent \in Nat
  BY CommandConstants DEF Co!Init, Co!CommandsAssumption
<1>4. /\ IsFiniteSet(Co!Permits) /\ Cardinality(Co!Permits) \in Nat
      /\ Cardinality(Co!Permits) = cmd.concurrent * Cardinality(Keys)
  BY PermitsAtFirst, FS_CardinalityType
<1>5. Counted
  BY <1>1, <1>2, <1>4 DEF Counted
<1>6. \A k \in Keys : val[k] + Cardinality(Co!Holders(k)) = cmd.concurrent
  BY <1>1, <1>2, <1>3
<1>7. Cardinality(Co!Permits) + Cardinality(Co!Holding) = cmd.concurrent * Cardinality(Keys)
  BY <1>1, <1>2, <1>4
<1> QED
  BY <1>3, <1>5, <1>6, <1>7 DEF Kept

\* What release() does to the counts: a permit goes to whoever waits for it, or back.
LEMMA ReleaseCounts ==
    ASSUME Co!TypeOK, AtItsKey, Counted, Kept, NEW i \in Invocations,
           Co!Release(i), coPc[i] \in {"idle", "running", "handling"},
           coPc[i] = "idle" => ~cmd.enabled, UNCHANGED <<cmd, key>>
    PROVE  Counted' /\ Kept'
<1>1. PICK j \in Co!Heirs(key[i]) :
          /\ coPc' = [p \in Invocations |->
                       CASE p = i -> "done" [] p = j -> "granted" [] OTHER -> coPc[p]]
          /\ val' = [val EXCEPT ![key[i]] = IF j = None THEN @ + 1 ELSE @]
          /\ at' = [at EXCEPT ![i] = None]
  BY DEF Co!Release
<1>2. key[i] \in Keys /\ val[key[i]] \in Nat /\ None \notin Keys /\ None \notin Invocations
      /\ \A k \in Keys : val[k] \in Nat
  BY CommandConstants DEF Co!TypeOK, Co!NoOneAssumption
<1>3. Cardinality(Co!Holding) \in Nat /\ Cardinality(Co!Permits) \in Nat
      /\ \A k \in Keys : IsFiniteSet(Co!Holders(k)) /\ Cardinality(Co!Holders(k)) \in Nat
  BY HoldersFinite, FS_CardinalityType DEF Counted
<1>4. cmd.enabled /\ ~cmd.checked => i \in Co!Holding /\ at[i] \in Keys
  BY DEF AtItsKey, Co!Holding
<1>5. cmd.enabled /\ ~cmd.checked /\ ~cmd.byRole => i \in Co!Holders(key[i])
  BY <1>2, <1>4 DEF AtItsKey, Co!Holders
<1>6. cmd' = cmd /\ cmd.concurrent \in Nat
  BY CommandConstants DEF Co!TypeOK, Co!CommandsAssumption
<1>7. CASE j # None
  <2>1. j \in Co!Waiting(key[i])
    BY <1>1, <1>7 DEF Co!Heirs
  <2>2. j \in Invocations /\ coPc[j] = "waiting" /\ at[j] = key[i] /\ j # i
    BY <2>1 DEF Co!Waiting
  <2>3. val' = val /\ Co!Permits' = Co!Permits
    BY <1>1, <1>2, <1>7 DEF Co!Permits, Co!TypeOK
  <2>4. /\ coPc'[i] = "done" /\ coPc'[j] = "granted"
        /\ \A p \in Invocations \ {i, j} : coPc'[p] = coPc[p]
        /\ at'[i] = None /\ \A p \in Invocations \ {i} : at'[p] = at[p]
    BY <1>1, <2>2 DEF Co!TypeOK
  <2>5. Co!Holding' = (Co!Holding \ {i}) \cup {j} /\ j \notin Co!Holding
    BY <2>2, <2>4 DEF Co!Holding
  <2>6. Co!Holders(key[i])' = (Co!Holders(key[i]) \ {i}) \cup {j} /\ j \notin Co!Holders(key[i])
    BY <1>2, <2>2, <2>4 DEF Co!Holding, Co!Holders
  <2>7. ~cmd.byRole => \A k \in Keys \ {key[i]} : Co!Holders(k)' = Co!Holders(k)
    BY <1>2, <2>2, <2>4 DEF Co!Holding, Co!Holders, AtItsKey
  <2>8. /\ IsFiniteSet(Co!Holding')
        /\ Cardinality(Co!Holding') = Cardinality(Co!Holding) + (IF i \in Co!Holding THEN 0 ELSE 1)
    BY <2>2, <2>5, OneForOne DEF Counted
  <2>9. Cardinality(Co!Holders(key[i])') =
          Cardinality(Co!Holders(key[i])) + (IF i \in Co!Holders(key[i]) THEN 0 ELSE 1)
    BY <1>2, <1>3, <2>2, <2>6, OneForOne
  <2>10. Counted'
    BY <2>3, <2>8 DEF Counted
  <2>11. \A k \in Keys : /\ val'[k] = val[k]
                         /\ ~cmd.byRole /\ k # key[i] => Co!Holders(k)' = Co!Holders(k)
    BY <2>3, <2>7
  <2>12. ASSUME NEW k \in Keys, ~cmd.byRole
         PROVE  /\ val'[k] + Cardinality(Co!Holders(k)') >= val[k] + Cardinality(Co!Holders(k))
                /\ cmd.enabled /\ ~cmd.checked =>
                     val'[k] + Cardinality(Co!Holders(k)') = val[k] + Cardinality(Co!Holders(k))
    BY <1>2, <1>3, <1>5, <2>9, <2>11, <2>12
  <2>13. cmd.enabled /\ ~cmd.checked =>
           Cardinality(Co!Permits') + Cardinality(Co!Holding') =
             Cardinality(Co!Permits) + Cardinality(Co!Holding)
    BY <1>3, <1>4, <2>3, <2>8
  <2>14. \A k \in Keys : ~cmd.byRole => Cardinality(Co!Holders(k)') \in Nat
    BY <1>3, <2>9, <2>11
  <2> QED
    BY <1>2, <1>3, <1>6, <2>3, <2>10, <2>12, <2>13, <2>14 DEF Kept
<1>8. CASE j = None
  <2>1. val' = [val EXCEPT ![key[i]] = @ + 1]
    BY <1>1, <1>8
  <2>2. IsFiniteSet(Co!Permits') /\ Cardinality(Co!Permits') = Cardinality(Co!Permits) + 1
    BY <1>2, <2>1, PermitBack
  <2>3. /\ coPc'[i] = "done" /\ \A p \in Invocations \ {i} : coPc'[p] = coPc[p]
        /\ at'[i] = None /\ \A p \in Invocations \ {i} : at'[p] = at[p]
    BY <1>1, <1>2, <1>8 DEF Co!TypeOK
  <2>4. Co!Holding' = Co!Holding \ {i}
    BY <2>3 DEF Co!Holding
  <2>5. Co!Holders(key[i])' = Co!Holders(key[i]) \ {i}
    BY <1>2, <2>3 DEF Co!Holding, Co!Holders
  <2>6. ~cmd.byRole => \A k \in Keys \ {key[i]} : Co!Holders(k)' = Co!Holders(k)
    BY <1>2, <2>3 DEF Co!Holding, Co!Holders, AtItsKey
  <2>7. /\ IsFiniteSet(Co!Holding')
        /\ Cardinality(Co!Holding') = Cardinality(Co!Holding) - (IF i \in Co!Holding THEN 1 ELSE 0)
    BY <2>4, OneLess DEF Counted
  <2>8. Cardinality(Co!Holders(key[i])') =
          Cardinality(Co!Holders(key[i])) - (IF i \in Co!Holders(key[i]) THEN 1 ELSE 0)
    BY <1>2, <1>3, <2>5, OneLess
  <2>9. Counted'
    BY <2>2, <2>7 DEF Counted
  <2>10. val'[key[i]] = val[key[i]] + 1 /\ \A k \in Keys \ {key[i]} : val'[k] = val[k]
    BY <1>2, <2>1 DEF Co!TypeOK
  <2>12. ASSUME NEW k \in Keys, ~cmd.byRole
         PROVE  /\ val'[k] + Cardinality(Co!Holders(k)') >= val[k] + Cardinality(Co!Holders(k))
                /\ cmd.enabled /\ ~cmd.checked =>
                     val'[k] + Cardinality(Co!Holders(k)') = val[k] + Cardinality(Co!Holders(k))
    BY <1>2, <1>3, <1>5, <2>6, <2>8, <2>10, <2>12
  <2>13. cmd.enabled /\ ~cmd.checked =>
           Cardinality(Co!Permits') + Cardinality(Co!Holding') =
             Cardinality(Co!Permits) + Cardinality(Co!Holding)
    BY <1>3, <1>4, <2>2, <2>7
  <2>14. \A k \in Keys : ~cmd.byRole =>
           Cardinality(Co!Holders(k)') \in Int /\ val'[k] \in Nat
    BY <1>2, <1>3, <2>6, <2>8, <2>10
  <2> QED
    BY <1>2, <1>3, <1>6, <2>9, <2>12, <2>13, <2>14 DEF Kept
<1> QED
  BY <1>7, <1>8

\* Every step of an invocation keeps the permits and the holders in balance.
LEMMA CountsKept ==
    ASSUME Co!TypeOK, AtItsKey, Counted, Kept, [Co!Next]_coVars
    PROVE  Counted' /\ Kept'
<1>1. CASE UNCHANGED coVars
  BY <1>1 DEF coVars, Counted, Kept, Co!Holding, Co!Holders, Co!Permits
<1>2. ASSUME NEW i \in Invocations, Co!Step(i) \/ Co!Move(i)
      PROVE  Counted' /\ Kept'
  <2>1. cmd' = cmd
    BY <1>2 DEF Co!Step, Co!Move, Co!Start, Co!CheckFails, Co!ChecksPass, Co!Resume, Co!Finish,
                Co!Handled, Co!Refused
  \* A step that takes no permit and gives none back changes nothing that counts.
  <2>2. ASSUME UNCHANGED val, Co!Holding' = Co!Holding,
               ~cmd.byRole => \A k \in Keys : Co!Holders(k)' = Co!Holders(k)
        PROVE  Counted' /\ Kept'
    <3>1. Co!Permits' = Co!Permits
      BY <2>2 DEF Co!Permits
    <3> QED
      BY <2>1, <2>2, <3>1 DEF Counted, Kept
  <2>3. CASE Co!Start(i)
    <3>1. CASE cmd.enabled /\ coPc' = [coPc EXCEPT ![i] = "checks"] /\ UNCHANGED <<val, at>>
      BY <2>2, <2>3, <3>1 DEF Co!Start, Co!TypeOK, Co!Holding, Co!Holders
    <3>2. CASE ~cmd.enabled /\ Co!Release(i)
      BY <2>3, <3>2, ReleaseCounts DEF Co!Start
    <3> QED
      BY <2>3, <3>1, <3>2 DEF Co!Start
  \* A check that failed leads to the error handler, and to a permit that nobody took: with
  \* checks that pass it is not so.
  <2>4. CASE Co!CheckFails(i)
    <3>1. cmd.checked /\ at[i] = None /\ UNCHANGED <<val, at>>
      BY <2>4 DEF Co!CheckFails, AtItsKey
    <3>2. Co!Holding' = Co!Holding \cup {i}
      BY <2>4 DEF Co!CheckFails, Co!TypeOK, Co!Holding
    <3>3. \A k \in Keys : Co!Holders(k)' = Co!Holders(k)
      BY <2>4, <3>1, CommandConstants
      DEF Co!NoOneAssumption, Co!CheckFails, Co!TypeOK, Co!Holding, Co!Holders
    <3>4. IsFiniteSet(Co!Holding')
      BY <3>2, FS_AddElement DEF Counted
    <3>5. Co!Permits' = Co!Permits
      BY <3>1 DEF Co!Permits
    <3> QED
      BY <2>1, <3>1, <3>3, <3>4, <3>5 DEF Counted, Kept
  <2>5. CASE Co!ChecksPass(i)
    <3>1. coPc[i] = "checks" /\ at[i] = None /\ key[i] \in Keys /\ None \notin Keys
      BY <2>5, CommandConstants DEF Co!NoOneAssumption, Co!ChecksPass, AtItsKey, Co!TypeOK
    <3>2. CASE ~Co!Locked(key[i])
      <4>1. val' = [val EXCEPT ![key[i]] = @ - 1] /\ val[key[i]] # 0
        BY <2>5, <3>2 DEF Co!ChecksPass, Co!Locked
      <4>2. IsFiniteSet(Co!Permits') /\ Cardinality(Co!Permits') = Cardinality(Co!Permits) - 1
        BY <3>1, <4>1, PermitTaken
      <4>3. /\ coPc'[i] \in {"running", "handling"} /\ at'[i] = key[i] /\ key' = key
            /\ \A p \in Invocations \ {i} : coPc'[p] = coPc[p] /\ at'[p] = at[p]
        BY <2>5, <3>2 DEF Co!ChecksPass, Co!TypeOK
      <4>4. Co!Holding' = Co!Holding \cup {i} /\ i \notin Co!Holding
        BY <3>1, <4>3 DEF Co!Holding
      <4>5. Co!Holders(key[i])' = Co!Holders(key[i]) \cup {i} /\ i \notin Co!Holders(key[i])
        BY <3>1, <4>3 DEF Co!Holding, Co!Holders
      <4>6. \A k \in Keys \ {key[i]} : Co!Holders(k)' = Co!Holders(k) /\ val'[k] = val[k]
        BY <3>1, <4>1, <4>3 DEF Co!Holding, Co!Holders, Co!TypeOK
      <4>7. IsFiniteSet(Co!Holding') /\ Cardinality(Co!Holding') = Cardinality(Co!Holding) + 1
        BY <4>4, FS_AddElement DEF Counted
      <4>8. Cardinality(Co!Holders(key[i])') = Cardinality(Co!Holders(key[i])) + 1
        BY <4>5, FS_AddElement, HoldersFinite
      <4>9. \A k \in Keys : val[k] \in Nat /\ Cardinality(Co!Holders(k)) \in Nat
        BY HoldersFinite DEF Co!TypeOK
      <4>10. val'[key[i]] = val[key[i]] - 1
        BY <3>1, <4>1 DEF Co!TypeOK
      <4>11. \A k \in Keys :
               val'[k] + Cardinality(Co!Holders(k)') = val[k] + Cardinality(Co!Holders(k))
        BY <3>1, <4>3, <4>6, <4>8, <4>9, <4>10
      <4>12. Cardinality(Co!Permits') + Cardinality(Co!Holding') =
               Cardinality(Co!Permits) + Cardinality(Co!Holding)
        BY <4>2, <4>7, FS_CardinalityType DEF Counted
      <4> QED
        BY <2>1, <4>2, <4>7, <4>11, <4>12 DEF Counted, Kept
    <3>3. CASE Co!Locked(key[i])
      <4>1. UNCHANGED val /\ Co!Holding' = Co!Holding
        BY <2>5, <3>1, <3>3 DEF Co!ChecksPass, Co!TypeOK, Co!Holding
      <4>2. \A k \in Keys : Co!Holders(k)' = Co!Holders(k)
        BY <2>5, <3>1, <3>3 DEF Co!ChecksPass, Co!TypeOK, Co!Holding, Co!Holders
      <4> QED
        BY <2>2, <4>1, <4>2
    <3> QED
      BY <3>2, <3>3
  <2>6. CASE Co!Resume(i)
    BY <2>2, <2>6 DEF Co!Resume, Co!TypeOK, Co!Holding, Co!Holders
  <2>7. CASE Co!Finish(i)
    <3>1. CASE Co!Release(i)
      BY <2>7, <3>1, ReleaseCounts DEF Co!Finish
    <3>2. CASE coPc' = [coPc EXCEPT ![i] = "handling"] /\ UNCHANGED <<val, at>>
      BY <2>2, <2>7, <3>2 DEF Co!Finish, Co!TypeOK, Co!Holding, Co!Holders
    <3> QED
      BY <2>7, <3>1, <3>2 DEF Co!Finish
  <2>8. CASE Co!Handled(i)
    BY <2>8, ReleaseCounts DEF Co!Handled
  <2>9. CASE Co!Refused(i)
    BY <2>2, <2>9 DEF Co!Refused, Co!TypeOK, Co!Holding, Co!Holders
  <2>10. CASE Co!Move(i)
    BY <2>2, <2>10 DEF Co!Move, Co!Holding, Co!Holders
  <2> QED
    BY <1>2, <2>3, <2>4, <2>5, <2>6, <2>7, <2>8, <2>9, <2>10 DEF Co!Step
<1> QED
  BY <1>1, <1>2 DEF Co!Next

-----------------------------------------------------------------------------
\* A step of the parts is a step of Command, or leaves its variables alone.
LEMMA CommandStep == [Next]_vars => [Co!Next]_coVars
BY DEF Next, vars, coVars

\* Every invocation is where the code can be, and at a key of its own.
THEOREM CommandTypes == Spec => [](Co!TypeOK /\ AtItsKey)
<1>1. Init => Co!TypeOK /\ AtItsKey
  BY CommandConstants
  DEF Init, Co!Init, Co!TypeOK, Co!Pcs, Co!CommandsAssumption, AtItsKey
<1>2. Co!TypeOK /\ AtItsKey /\ [Next]_vars => (Co!TypeOK /\ AtItsKey)'
  BY PlacesKept, CommandStep
<1> QED
  BY <1>1, <1>2, PTL DEF Spec

\* MaxConcurrency and BaseCommand.__call__ lose no slot of a command and make none up: for any
\* number of invocations and keys, whatever the limit, and however checks, cooldown, callbacks
\* and error handlers end.
THEOREM CommandSlotsKept == Spec => []SlotsKept
<1>1. Init => SlotsInv
  <2> SUFFICES ASSUME Init
               PROVE  SlotsInv
    OBVIOUS
  <2>1. Co!TypeOK /\ AtItsKey
    BY CommandConstants
    DEF Init, Co!Init, Co!TypeOK, Co!Pcs, Co!CommandsAssumption, AtItsKey
  <2> QED
    BY <2>1, SlotsAtFirst, KeptIsSlotsKept DEF Init, SlotsInv
<1>2. SlotsInv /\ [Next]_vars => SlotsInv'
  <2> SUFFICES ASSUME SlotsInv, [Co!Next]_coVars
               PROVE  SlotsInv'
    BY CommandStep
  <2>1. Kept
    BY KeptIsSlotsKept DEF SlotsInv
  <2>2. Co!TypeOK' /\ AtItsKey' /\ Counted' /\ Kept'
    BY <2>1, PlacesKept, CountsKept DEF SlotsInv
  <2>3. Kept' <=> SlotsKept'
    BY KeptIsSlotsKept, PTL
  <2> QED
    BY <2>2, <2>3 DEF SlotsInv
<1>3. SlotsInv => SlotsKept
  BY DEF SlotsInv
<1> QED
  BY <1>1, <1>2, <1>3, PTL DEF Spec

-----------------------------------------------------------------------------
\* Who waits for a semaphore finds it empty, and with no slot lost, somebody holds it.
WaitsAtZero == \A k \in Keys : Co!Waiting(k) # {} => val[k] = 0

\* A permit that comes back goes to whoever waits, if anybody does.
LEMMA WaitsAtZeroKept ==
    ASSUME Co!TypeOK, AtItsKey, WaitsAtZero, [Co!Next]_coVars
    PROVE  WaitsAtZero'
<1> USE CommandConstants DEF Co!CommandsAssumption, Co!NoOneAssumption
<1>1. CASE UNCHANGED coVars
  BY <1>1 DEF coVars, WaitsAtZero, Co!Waiting
\* A step after which nobody waits who did not, and no semaphore has a permit more.
<1>2. ASSUME \A k \in Keys : Co!Waiting(k)' \subseteq Co!Waiting(k) /\ (val[k] = 0 => val'[k] = 0)
      PROVE  WaitsAtZero'
  BY <1>2 DEF WaitsAtZero
<1>3. ASSUME NEW i \in Invocations, Co!Release(i), coPc[i] # "waiting"
      PROVE  WaitsAtZero'
  <2>1. PICK j \in Co!Heirs(key[i]) :
            /\ coPc' = [p \in Invocations |->
                         CASE p = i -> "done" [] p = j -> "granted" [] OTHER -> coPc[p]]
            /\ val' = [val EXCEPT ![key[i]] = IF j = None THEN @ + 1 ELSE @]
            /\ at' = [at EXCEPT ![i] = None]
    BY <1>3 DEF Co!Release
  <2>2. \A k \in Keys : Co!Waiting(k)' \subseteq Co!Waiting(k)
    BY <1>3, <2>1 DEF Co!Waiting, Co!TypeOK
  <2>3. CASE j # None
    BY <1>2, <2>1, <2>2, <2>3 DEF Co!TypeOK
  <2>4. CASE j = None
    <3>1. Co!Waiting(key[i]) = {}
      BY <2>1, <2>4 DEF Co!Heirs, Co!Waiting
    <3>2. \A k \in Keys : k # key[i] => val'[k] = val[k]
      BY <2>1 DEF Co!TypeOK
    <3> QED
      BY <2>2, <3>1, <3>2 DEF WaitsAtZero
  <2> QED
    BY <2>3, <2>4
<1>4. ASSUME NEW i \in Invocations, Co!Start(i)
      PROVE  WaitsAtZero'
  <2>1. CASE Co!Release(i)
    BY <1>3, <1>4, <2>1 DEF Co!Start
  <2>2. CASE coPc' = [coPc EXCEPT ![i] = "checks"] /\ UNCHANGED <<val, at>>
    BY <1>2, <2>2 DEF Co!Waiting, Co!TypeOK
  <2> QED
    BY <1>4, <2>1, <2>2 DEF Co!Start
<1>5. ASSUME NEW i \in Invocations, Co!CheckFails(i) \/ Co!Resume(i) \/ Co!Refused(i)
      PROVE  WaitsAtZero'
  BY <1>2, <1>5 DEF Co!CheckFails, Co!Resume, Co!Refused, Co!Waiting, Co!TypeOK
<1>6. ASSUME NEW i \in Invocations, Co!ChecksPass(i)
      PROVE  WaitsAtZero'
  <2>1. key[i] \in Keys /\ val \in [Keys -> Nat]
    BY DEF Co!TypeOK
  <2>2. CASE ~Co!Locked(key[i])
    <3>1. \A k \in Keys : Co!Waiting(k)' \subseteq Co!Waiting(k)
      BY <1>6, <2>2 DEF Co!ChecksPass, Co!Waiting, Co!TypeOK
    <3>2. val' = [val EXCEPT ![key[i]] = @ - 1] /\ val[key[i]] # 0
      BY <1>6, <2>2 DEF Co!ChecksPass, Co!Locked
    <3>3. \A k \in Keys : val[k] = 0 => val'[k] = 0
      BY <2>1, <3>2
    <3> QED
      BY <1>2, <3>1, <3>3
  <2>3. CASE Co!Locked(key[i])
    <3>1. val' = val
      BY <1>6, <2>3 DEF Co!ChecksPass
    <3>2. val[key[i]] = 0
      BY <2>1, <2>3 DEF Co!Locked, WaitsAtZero
    <3>3. \A k \in Keys : k # key[i] => Co!Waiting(k)' \subseteq Co!Waiting(k)
      BY <1>6, <2>3 DEF Co!ChecksPass, Co!Waiting, Co!TypeOK
    <3> QED
      BY <3>1, <3>2, <3>3 DEF WaitsAtZero
  <2> QED
    BY <2>2, <2>3
<1>7. ASSUME NEW i \in Invocations, Co!Finish(i)
      PROVE  WaitsAtZero'
  <2>1. CASE Co!Release(i)
    BY <1>3, <1>7, <2>1 DEF Co!Finish
  <2>2. CASE coPc' = [coPc EXCEPT ![i] = "handling"] /\ UNCHANGED <<val, at>>
    BY <1>2, <2>2 DEF Co!Waiting, Co!TypeOK
  <2> QED
    BY <1>7, <2>1, <2>2 DEF Co!Finish
<1>8. ASSUME NEW i \in Invocations, Co!Handled(i)
      PROVE  WaitsAtZero'
  BY <1>3, <1>8 DEF Co!Handled
<1>9. ASSUME NEW i \in Invocations, Co!Move(i)
      PROVE  WaitsAtZero'
  BY <1>2, <1>9 DEF Co!Move, Co!Waiting
<1> QED
  BY <1>1, <1>4, <1>5, <1>6, <1>7, <1>8, <1>9 DEF Co!Next, Co!Step

\* An invocation that waits is owed a slot: MaxConcurrency.release and BaseCommand.__call__ lose no
\* wake-up, whatever raises where.
LEMMA WaiterIsServed == Spec => []Co!WaiterHasHolder
<1>1. Init => WaitsAtZero
  BY DEF Init, Co!Init, WaitsAtZero, Co!Waiting
<1>2. Co!TypeOK /\ AtItsKey /\ WaitsAtZero /\ [Next]_vars => WaitsAtZero'
  BY WaitsAtZeroKept, CommandStep
<1>3. Co!TypeOK /\ WaitsAtZero /\ SlotsKept => Co!WaiterHasHolder
  <2> SUFFICES ASSUME Co!TypeOK, WaitsAtZero, SlotsKept, ~cmd.byRole,
                      NEW k \in Keys, Co!Waiting(k) # {}
               PROVE  val[k] = 0 /\ Co!Holders(k) # {}
    BY DEF Co!WaiterHasHolder
  <2>1. val[k] = 0
    BY DEF WaitsAtZero
  <2>2. val[k] + Cardinality(Co!Holders(k)) >= cmd.concurrent
    BY SameCounts DEF SlotsKept, Co!NoSlotLost
  <2>3. cmd.concurrent \in Nat \ {0}
    BY CommandConstants DEF Co!TypeOK, Co!CommandsAssumption
  <2>4. Co!Holders(k) # {}
    BY <2>1, <2>2, <2>3, FS_EmptySet
  <2> QED
    BY <2>1, <2>4
<1> QED
  BY <1>1, <1>2, <1>3, CommandTypes, CommandSlotsKept, PTL DEF Spec

-----------------------------------------------------------------------------
(***************************************************************************)
(* Tasks.                                                                  *)
(***************************************************************************)

\* Only a loop that has not ended is to be cancelled.
KilledAreThere == \A l \in killed : st[l] # "none"

\* One loop goes on, that of self.task, and none once the task was stopped.
OneGoesOn == ~twice => \A l \in Loops : Ta!Live(l) => l = task /\ ~stopped

\* The time until an interval's next fire time is what is left of the interval after the
\* delays of the firings so far.
IntervalInv == Ta!Counting => \A l \in Loops : Ta!Live(l) =>
    IF st[l] = "new" THEN credit = age /\ age <= MaxLag
    ELSE /\ credit = trigger.per[1] - due[l]
         /\ -MaxLag <= due[l] /\ due[l] <= trigger.per[1]

\* A date that has fired is past, and a loop that waits for it has not fired.
DateInv == ~twice /\ trigger.kind = "date" =>
    /\ fired <= 1 /\ (fired # 0 => parts[1] >= trigger.per[1])
    /\ \A l \in Loops : Ta!Live(l) /\ st[l] = "wait" =>
         fired = 0 /\ due[l] = trigger.per[1] - parts[1] /\ -MaxLag <= due[l]

TaskInv == Ta!TypeOK /\ KilledAreThere /\ OneGoesOn /\ IntervalInv /\ DateInv

-----------------------------------------------------------------------------
\* A step of the parts is one of the task, or leaves it alone.
LEMMA TasksStep == [Next]_vars => [Ta!Next]_taVars
BY DEF Next, vars, taVars

\* The smaller of two numbers.
LEMMA MinOfTwo ==
    ASSUME NEW a \in Int, NEW b \in Int
    PROVE  Ta!Min({a, b}) = IF a <= b THEN a ELSE b
BY DEF Ta!Min

\* A trigger has one interval, or the two of an "or", and as many parts.
LEMMA TriggerShape ==
    ASSUME Ta!TypeOK
    PROVE  /\ trigger.kind \in {"interval", "date", "or"}
           /\ trigger.per \in Seq(Nat \ {0})
           /\ DOMAIN trigger.per = 1 .. (IF trigger.kind = "or" THEN 2 ELSE 1)
           /\ \A i \in DOMAIN trigger.per : trigger.per[i] \in Nat \ {0}
                                            /\ 2 * trigger.per[i] + MaxLag <= Far
           /\ Len(parts) = IF trigger.kind = "or" THEN 2 ELSE 1
<1>1. trigger \in Triggers
  BY DEF Ta!TypeOK
<1>2. trigger.per \in Seq(Nat \ {0}) /\ Len(trigger.per) = IF trigger.kind = "or" THEN 2 ELSE 1
  BY <1>1, TasksConstants DEF Ta!TriggersAssumption
<1>3. DOMAIN trigger.per = 1 .. (IF trigger.kind = "or" THEN 2 ELSE 1)
  BY <1>2
<1>4. parts \in [1 .. (IF trigger.kind = "or" THEN 2 ELSE 1) -> 0 .. Far]
  BY <1>3 DEF Ta!TypeOK
<1>5. Len(parts) = IF trigger.kind = "or" THEN 2 ELSE 1
  BY <1>4
<1> QED
  BY <1>1, <1>2, <1>3, <1>5, TasksConstants DEF Ta!TriggersAssumption, Ta!NumbersAssumption

\* The time until the next fire time, when the trigger has the age a and the parts p.
LEMMA NextFireTime ==
    ASSUME Ta!TypeOK, NEW a \in 0 .. Far, NEW p \in [DOMAIN trigger.per -> 0 .. Far]
    PROVE  /\ Ta!NextFire(a, p) \in (-Far) .. Far
           /\ Ta!Current(a, p) \in DOMAIN trigger.per
           /\ trigger.kind = "interval" => Ta!NextFire(a, p) = trigger.per[1] - a
           /\ trigger.kind = "date" => Ta!NextFire(a, p) = trigger.per[1] - p[1]
<1> DEFINE n == IF trigger.kind = "or" THEN 2 ELSE 1
<1>1. /\ DOMAIN trigger.per = 1 .. n /\ MaxLag \in Nat /\ Far \in Nat
      /\ \A i \in 1 .. n : trigger.per[i] \in Nat \ {0} /\ 2 * trigger.per[i] + MaxLag <= Far
  BY TriggerShape, TasksConstants DEF Ta!NumbersAssumption
<1>2. p \in [1 .. n -> 0 .. Far] /\ Len(p) = n
  BY <1>1
<1>3. Ta!Current(a, p) \in 1 .. n
  BY <1>2 DEF Ta!Current
<1>4. trigger.kind # "or" => Ta!Current(a, p) = 1
  BY <1>3
<1>5. /\ trigger.per[1] \in Nat \ {0} /\ trigger.per[1] <= Far
      /\ p[Ta!Current(a, p)] \in 0 .. Far
      /\ trigger.per[Ta!Current(a, p)] \in Nat \ {0} /\ trigger.per[Ta!Current(a, p)] <= Far
  BY <1>1, <1>2, <1>3
<1>6. Ta!NextFire(a, p) \in (-Far) .. Far
  <2>1. CASE trigger.kind = "interval"
    BY <1>1, <1>5, <2>1 DEF Ta!NextFire
  <2>2. CASE trigger.kind # "interval"
    <3>1. Ta!NextFire(a, p) = trigger.per[Ta!Current(a, p)] - p[Ta!Current(a, p)]
      BY <2>2 DEF Ta!NextFire
    <3> QED
      BY <1>1, <1>5, <3>1
  <2> QED
    BY <2>1, <2>2
<1> QED
  BY <1>1, <1>3, <1>4, <1>6 DEF Ta!NextFire

\* The top of a loop that is there: it waits for the next fire time, or ends.
LEMMA TopOfLoop ==
    ASSUME Ta!TypeOK, KilledAreThere, NEW l \in Loops, st[l] # "none", l \notin killed,
           NEW a \in 0 .. Far, NEW p \in [DOMAIN trigger.per -> 0 .. Far], Ta!Top(l, a, p)
    PROVE  /\ stopped' \in BOOLEAN /\ (stopped' <=> stopped \/ Ta!Never(p))
           /\ st' = [st EXCEPT ![l] = IF stopped' THEN "none" ELSE "wait"]
           /\ due' = [due EXCEPT ![l] = IF stopped' THEN 0 ELSE Ta!NextFire(a, p)]
           /\ due' \in [Loops -> (-Far) .. Far]
           /\ told' \subseteq Loops /\ killed \subseteq killed' /\ l \notin killed'
           /\ \A m \in killed' : m \in Loops /\ m # l /\ st[m] # "none"
<1>1. stopped \in BOOLEAN /\ Ta!Never(p) \in BOOLEAN /\ Far \in Nat
  BY TasksConstants DEF Ta!TypeOK, Ta!Never, Ta!NumbersAssumption
<1>2. Ta!NextFire(a, p) \in (-Far) .. Far
  BY NextFireTime
<1> HIDE DEF Ta!Never, Ta!NextFire
<1>3. CASE stopped
  BY <1>1, <1>3 DEF Ta!Top, Ta!TypeOK, KilledAreThere
<1>4. CASE ~stopped /\ Ta!Never(p)
  <2>1. /\ st' = [st EXCEPT ![l] = "none"] /\ due' = [due EXCEPT ![l] = 0] /\ stopped' = TRUE
        /\ Ta!TellAndCancel(Loops \ {l})
    BY <1>4 DEF Ta!Top
  <2>2. /\ told' \subseteq Loops /\ killed \subseteq killed' /\ l \notin killed'
        /\ \A m \in killed' : m \in Loops /\ m # l /\ st[m] # "none"
    BY <2>1 DEF Ta!TellAndCancel, KilledAreThere, Ta!TypeOK
  <2>3. due' \in [Loops -> (-Far) .. Far]
    BY <1>1, <2>1 DEF Ta!TypeOK
  <2> QED
    BY <1>4, <2>1, <2>2, <2>3
<1>5. CASE ~stopped /\ ~Ta!Never(p)
  <2>1. /\ st' = [st EXCEPT ![l] = "wait"] /\ due' = [due EXCEPT ![l] = Ta!NextFire(a, p)]
        /\ told' = told \ {l} /\ stopped' = stopped /\ killed' = killed
    BY <1>5 DEF Ta!Top
  <2>2. due' \in [Loops -> (-Far) .. Far]
    BY <1>2, <2>1 DEF Ta!TypeOK
  <2> QED
    BY <1>1, <1>5, <2>1, <2>2 DEF KilledAreThere, Ta!TypeOK
<1> QED
  BY <1>1, <1>3, <1>4, <1>5

-----------------------------------------------------------------------------
\* The numbers that the steps compare.
LEMMA TaskNumbers ==
    ASSUME Ta!TypeOK
    PROVE  /\ MaxLag \in Nat /\ Far \in Nat
           /\ 1 \in DOMAIN trigger.per /\ parts[1] \in 0 .. Far
           /\ trigger.per[1] \in Nat \ {0} /\ 2 * trigger.per[1] + MaxLag <= Far
BY TriggerShape, TasksConstants DEF Ta!TypeOK, Ta!NumbersAssumption

\* A loop begins: it waits for the first fire time, or there is none.
LEMMA BeginKeeps ==
    ASSUME TaskInv, NEW l \in Loops, Ta!Begin(l)
    PROVE  TaskInv'
<1> DEFINE iv == trigger.per[1]
<1>1. /\ Ta!TypeOK /\ KilledAreThere /\ st[l] = "new" /\ l \notin killed /\ Ta!Top(l, age, parts)
      /\ UNCHANGED <<trigger, age, parts, task, running, twice, credit, fired>>
  BY DEF TaskInv, Ta!Begin
<1>2. MaxLag \in Nat /\ Far \in Nat /\ iv \in Nat \ {0} /\ 2 * iv + MaxLag <= Far /\ parts[1] \in 0 .. Far
  BY <1>1, TaskNumbers
<1>3. age \in 0 .. Far /\ parts \in [DOMAIN trigger.per -> 0 .. Far]
  BY <1>1 DEF Ta!TypeOK
<1>4. /\ stopped' \in BOOLEAN /\ (stopped' <=> stopped \/ Ta!Never(parts))
      /\ st' = [st EXCEPT ![l] = IF stopped' THEN "none" ELSE "wait"]
      /\ due' = [due EXCEPT ![l] = IF stopped' THEN 0 ELSE Ta!NextFire(age, parts)]
      /\ due' \in [Loops -> (-Far) .. Far]
      /\ told' \subseteq Loops /\ killed \subseteq killed' /\ l \notin killed'
      /\ \A m \in killed' : m \in Loops /\ m # l /\ st[m] # "none"
  BY <1>1, <1>3, TopOfLoop
<1>5. /\ trigger.kind = "interval" => Ta!NextFire(age, parts) = iv - age
      /\ trigger.kind = "date" => Ta!NextFire(age, parts) = iv - parts[1]
  BY <1>1, <1>3, NextFireTime
<1> HIDE DEF iv
<1>6. Ta!TypeOK'
  BY <1>1, <1>4 DEF Ta!TypeOK
<1>7. KilledAreThere'
  BY <1>1, <1>4 DEF KilledAreThere, Ta!TypeOK
<1>8. Ta!Live(l) /\ \A m \in Loops : Ta!Live(m)' => Ta!Live(m)
  BY <1>1, <1>4 DEF Ta!Live, Ta!TypeOK
<1>9. OneGoesOn'
  <2>1. stopped' /\ ~twice => \A m \in Loops : ~Ta!Live(m)'
    BY <1>1, <1>4, <1>8 DEF TaskInv, OneGoesOn, Ta!Live, Ta!TypeOK
  <2> QED
    BY <1>1, <1>8, <2>1 DEF TaskInv, OneGoesOn
<1>10. ~twice => \A m \in Loops : Ta!Live(m)' => m = l /\ ~stopped' /\ st'[m] = "wait"
  BY <1>1, <1>4, <1>8, <1>9 DEF TaskInv, OneGoesOn, Ta!TypeOK
<1>11. IntervalInv'
  BY <1>1, <1>2, <1>3, <1>4, <1>5, <1>8, <1>10 DEF TaskInv, IntervalInv, Ta!Counting, Ta!TypeOK, iv
<1>12. DateInv'
  BY <1>1, <1>2, <1>3, <1>4, <1>5, <1>8, <1>10 DEF TaskInv, DateInv, Ta!Never, Ta!TypeOK, iv
<1> QED
  BY <1>6, <1>7, <1>9, <1>11, <1>12 DEF TaskInv

\* A loop fires, however late it is, and is at its top again.
LEMMA FireKeeps ==
    ASSUME TaskInv, NEW l \in Loops, Ta!Fire(l)
    PROVE  TaskInv' /\ (~twice => ~stopped)
<1> DEFINE iv == trigger.per[1]
<1>1. /\ Ta!TypeOK /\ KilledAreThere /\ st[l] = "wait" /\ due[l] <= 0 /\ l \notin killed
      /\ Ta!Top(l, age', parts') /\ running < MaxRunning /\ running' = running + 1
      /\ UNCHANGED <<trigger, task, twice>>
  BY DEF TaskInv, Ta!Fire
<1>2. MaxLag \in Nat /\ Far \in Nat /\ iv \in Nat \ {0} /\ 2 * iv + MaxLag <= Far /\ parts[1] \in 0 .. Far
  BY <1>1, TaskNumbers
<1>3. due[l] \in (-Far) .. Far /\ Ta!Fired(l) = -due[l] /\ Ta!Fired(l) \in 0 .. Far
  BY <1>1, <1>2 DEF Ta!TypeOK, Ta!Fired
<1>4. age' \in 0 .. Far /\ (trigger.kind # "or" => age' = -due[l])
  BY <1>3 DEF TaskInv, Ta!Fire, Ta!TypeOK
<1>5. parts' \in [DOMAIN trigger.per -> 0 .. Far] /\ (trigger.kind # "or" => parts' = parts)
  BY <1>3 DEF TaskInv, Ta!Fire, Ta!TypeOK
<1>6. /\ stopped' \in BOOLEAN /\ (stopped' <=> stopped \/ Ta!Never(parts'))
      /\ st' = [st EXCEPT ![l] = IF stopped' THEN "none" ELSE "wait"]
      /\ due' = [due EXCEPT ![l] = IF stopped' THEN 0 ELSE Ta!NextFire(age', parts')]
      /\ due' \in [Loops -> (-Far) .. Far]
      /\ told' \subseteq Loops /\ killed \subseteq killed' /\ l \notin killed'
      /\ \A m \in killed' : m \in Loops /\ m # l /\ st[m] # "none"
  BY <1>1, <1>4, <1>5, TopOfLoop
<1>7. /\ trigger.kind = "interval" => Ta!NextFire(age', parts') = iv - age'
      /\ trigger.kind = "date" => Ta!NextFire(age', parts') = iv - parts'[1]
  BY <1>1, <1>4, <1>5, NextFireTime
<1>8. /\ credit' = (IF Ta!Counting THEN credit - iv ELSE credit)
      /\ fired' = (IF trigger.kind = "date" THEN Ta!Min({2, fired + 1}) ELSE fired)
  BY DEF Ta!Fire
<1> HIDE DEF iv
<1>9. fired' = (IF trigger.kind = "date" /\ fired < 2 THEN fired + 1 ELSE fired)
  BY <1>1, <1>8, MinOfTwo DEF Ta!TypeOK
<1>10. Ta!Live(l) /\ \A m \in Loops : Ta!Live(m)' => Ta!Live(m)
  BY <1>1, <1>6 DEF Ta!Live, Ta!TypeOK
<1>11. ~twice => l = task /\ ~stopped
  BY <1>10 DEF TaskInv, OneGoesOn
<1>12. Ta!Counting => credit = iv - due[l] /\ -MaxLag <= due[l] /\ due[l] <= iv
  BY <1>1, <1>10 DEF TaskInv, IntervalInv, Ta!TypeOK, iv
<1>13. Ta!TypeOK'
  BY <1>1, <1>2, <1>3, <1>4, <1>5, <1>6, <1>8, <1>9, <1>12, TasksConstants
  DEF Ta!TypeOK, Ta!NumbersAssumption
<1>14. KilledAreThere'
  BY <1>1, <1>6 DEF KilledAreThere, Ta!TypeOK
<1>15. OneGoesOn'
  <2>1. stopped' /\ ~twice => \A m \in Loops : ~Ta!Live(m)'
    BY <1>1, <1>6, <1>10 DEF TaskInv, OneGoesOn, Ta!Live, Ta!TypeOK
  <2> QED
    BY <1>1, <1>10, <2>1 DEF TaskInv, OneGoesOn
<1>16. ~twice => \A m \in Loops : Ta!Live(m)' => m = l /\ ~stopped' /\ st'[m] = "wait"
  BY <1>1, <1>6, <1>10, <1>11, <1>15 DEF TaskInv, OneGoesOn, Ta!TypeOK
<1>17. IntervalInv'
  <2> SUFFICES ASSUME Ta!Counting', NEW m \in Loops, Ta!Live(m)'
               PROVE  /\ st'[m] = "wait" /\ credit' = iv - due'[m]
                      /\ -MaxLag <= due'[m] /\ due'[m] <= iv
    BY <1>1 DEF IntervalInv, iv
  <2>1. m = l /\ ~stopped' /\ Ta!Counting /\ trigger.kind = "interval"
    BY <1>1, <1>16 DEF Ta!Counting
  <2>2. due'[l] = iv + due[l]
    BY <1>1, <1>2, <1>3, <1>4, <1>6, <1>7, <2>1 DEF Ta!TypeOK
  <2>3. credit' = credit - iv /\ credit = iv - due[l] /\ -MaxLag <= due[l] /\ due[l] <= 0
    BY <1>1, <1>8, <1>12, <2>1
  <2>4. st'[m] = "wait"
    BY <1>16, <2>1 DEF Ta!Counting
  <2> QED
    BY <1>2, <1>3, <2>1, <2>2, <2>3, <2>4
\* The date that a loop fires for is past, so that the loop ends.
<1>18. DateInv'
  <2> SUFFICES ASSUME ~twice, trigger.kind = "date"
               PROVE  DateInv'
    BY <1>1 DEF DateInv
  <2>1. fired = 0 /\ due[l] = iv - parts[1]
    BY <1>1, <1>10 DEF TaskInv, DateInv, iv
  <2>2. parts' = parts /\ parts[1] >= iv /\ fired' = 1
    BY <1>1, <1>2, <1>3, <1>5, <1>9, <2>1
  <2>3. stopped'
    BY <1>6, <2>2 DEF Ta!Never, iv
  <2> QED
    BY <1>1, <1>16, <2>2, <2>3 DEF DateInv, iv
<1> QED
  BY <1>11, <1>13, <1>14, <1>15, <1>17, <1>18 DEF TaskInv

\* A loop returns or is cancelled.
LEMMA EndsKeep ==
    ASSUME TaskInv, NEW l \in Loops, Ta!Told(l) \/ Ta!Cancelled(l)
    PROVE  TaskInv'
<1> USE DEF TaskInv
<1>1. /\ Ta!TypeOK /\ st' = [st EXCEPT ![l] = "none"] /\ due' = [due EXCEPT ![l] = 0]
      /\ told' = told \ {l} /\ killed' \in {killed, killed \ {l}} /\ l \notin killed'
      /\ UNCHANGED <<trigger, age, parts, stopped, task, running, twice, credit, fired>>
  BY DEF Ta!Told, Ta!Cancelled
<1>2. \A m \in Loops : Ta!Live(m)' => Ta!Live(m) /\ m # l
  BY <1>1 DEF Ta!Live, Ta!TypeOK
<1>3. Ta!TypeOK'
  BY <1>1, TaskNumbers DEF Ta!TypeOK
<1>4. KilledAreThere'
  BY <1>1 DEF KilledAreThere, Ta!TypeOK
<1>5. OneGoesOn'
  BY <1>1, <1>2 DEF OneGoesOn
<1>6. \A m \in Loops \ {l} : st'[m] = st[m] /\ due'[m] = due[m]
  BY <1>1 DEF Ta!TypeOK
<1>7. IntervalInv' /\ DateInv'
  BY <1>1, <1>2, <1>6 DEF IntervalInv, DateInv, Ta!Counting
<1> QED
  BY <1>3, <1>4, <1>5, <1>7

\* A loop is made, for a task that has none or whose last one is cancelled.
LEMMA NewLoopKeeps ==
    ASSUME TaskInv, NEW l \in Loops, Ta!Start(l) \/ Ta!Restart(l) \/ Ta!CallbackReturns(l)
    PROVE  TaskInv'
<1> USE DEF TaskInv
<1>1. /\ Ta!TypeOK /\ st[l] = "none" /\ st' = [st EXCEPT ![l] = "new"] /\ task' = l
      /\ stopped' = FALSE /\ age' = 0 /\ credit' = 0 /\ due' = due
  BY DEF Ta!Start, Ta!Restart, Ta!CallbackReturns, Ta!NewLoop, Ta!AgeAtStart
<1>2. /\ told' \subseteq Loops /\ killed \subseteq killed' /\ killed' \subseteq Loops
      /\ \A m \in killed' : m \in killed \/ st[m] # "none"
  BY <1>1 DEF Ta!Start, Ta!Restart, Ta!CallbackReturns, Ta!TellAndCancel, Ta!TypeOK
<1>3. \/ UNCHANGED <<trigger, parts, fired>>
      \/ /\ trigger' \in Triggers /\ parts' = [i \in DOMAIN trigger'.per |-> 0] /\ fired' = 0
  BY DEF Ta!Start, Ta!Restart, Ta!CallbackReturns
<1>4. running' \in 0 .. MaxRunning /\ twice' \in BOOLEAN /\ MaxLag \in Nat /\ Far \in Nat
  <2>1. MaxLag \in Nat /\ Far \in Nat /\ MaxRunning \in Nat /\ running \in 0 .. MaxRunning
        /\ twice \in BOOLEAN
    BY <1>1, TasksConstants DEF Ta!TypeOK, Ta!NumbersAssumption
  <2>2. running' = running \/ (running > 0 /\ running' = running - 1)
    BY DEF Ta!Start, Ta!Restart, Ta!CallbackReturns
  <2>3. twice' = twice \/ twice' = (twice \/ \E m \in Loops : Ta!Live(m))
    BY DEF Ta!Start, Ta!Restart, Ta!CallbackReturns
  <2>4. twice' \in BOOLEAN
    BY <2>1, <2>3
  <2> QED
    BY <2>1, <2>2, <2>4
<1>5. l \notin killed'
  BY <1>1, <1>2 DEF KilledAreThere
\* A loop that goes on is started twice, or was cancelled.
<1>6. ~twice' => ~twice /\ \A m \in Loops : Ta!Live(m) => m \in killed'
  BY <1>1 DEF Ta!Start, Ta!Restart, Ta!CallbackReturns, Ta!TellAndCancel, OneGoesOn, Ta!Live
<1>7. ~twice' => \A m \in Loops : Ta!Live(m)' => m = l
  BY <1>1, <1>2, <1>6 DEF Ta!Live, Ta!TypeOK
<1>8. Ta!TypeOK'
  <2>1. trigger' \in Triggers /\ parts' \in [DOMAIN trigger'.per -> 0 .. Far] /\ fired' \in 0 .. 2
    BY <1>1, <1>3, <1>4 DEF Ta!TypeOK
  <2>2. st' \in [Loops -> {"none", "new", "wait"}] /\ due' \in [Loops -> (-Far) .. Far]
    BY <1>1 DEF Ta!TypeOK
  <2>3. {stopped', twice'} \subseteq BOOLEAN
    BY <1>1, <1>4
  <2>4. age' \in 0 .. Far /\ credit' \in (-Far) .. Far
    BY <1>1, <1>4
  <2>5. task' \in Loops \cup {None} /\ told' \subseteq Loops /\ killed' \subseteq Loops
    BY <1>1, <1>2
  <2> QED
    BY <1>4, <2>1, <2>2, <2>3, <2>4, <2>5 DEF Ta!TypeOK
<1>9. KilledAreThere'
  BY <1>1, <1>2, <1>5 DEF KilledAreThere, Ta!TypeOK
<1>10. OneGoesOn'
  BY <1>1, <1>7 DEF OneGoesOn
<1>11. st'[l] = "new"
  BY <1>1 DEF Ta!TypeOK
<1>12. IntervalInv'
  BY <1>1, <1>4, <1>7, <1>11 DEF IntervalInv, Ta!Counting
<1>13. DateInv'
  <2> SUFFICES ASSUME ~twice', trigger'.kind = "date"
               PROVE  DateInv'
    BY DEF DateInv
  <2>1. \A m \in Loops : Ta!Live(m)' => st'[m] # "wait"
    BY <1>7, <1>11
  <2>2. fired' <= 1 /\ (fired' # 0 => parts'[1] >= trigger'.per[1])
    BY <1>3, <1>6 DEF DateInv
  <2> QED
    BY <2>1, <2>2 DEF DateInv
<1> QED
  BY <1>8, <1>9, <1>10, <1>12, <1>13

\* stop(), and a callback that ends.
LEMMA StopKeeps ==
    ASSUME TaskInv, Ta!Stop \/ Ta!CallbackEnds
    PROVE  TaskInv'
<1> USE DEF TaskInv
<1>1. CASE Ta!Stop
  <2>1. /\ stopped' = TRUE /\ killed' = killed \cup {l \in Loops : l = task /\ st[l] # "none"}
        /\ told' \subseteq Loops
        /\ UNCHANGED <<trigger, age, parts, task, st, due, running, twice, credit, fired>>
    BY <1>1 DEF Ta!Stop, Ta!TellAndCancel, Ta!TypeOK
  <2>2. \A l \in Loops : Ta!Live(l)' => Ta!Live(l) /\ l # task
    BY <2>1 DEF Ta!Live
  <2>3. ~twice => \A l \in Loops : ~Ta!Live(l)'
    BY <2>2 DEF OneGoesOn
  <2>4. Ta!TypeOK'
    BY <2>1 DEF Ta!TypeOK
  <2>5. KilledAreThere' /\ OneGoesOn'
    BY <2>1, <2>3 DEF KilledAreThere, OneGoesOn
  <2>6. IntervalInv' /\ DateInv'
    BY <2>1, <2>3 DEF IntervalInv, DateInv, Ta!Counting
  <2> QED
    BY <2>4, <2>5, <2>6
<1>2. CASE Ta!CallbackEnds
  <2>1. /\ running' = running - 1 /\ running > 0
        /\ UNCHANGED <<trigger, age, parts, stopped, task, st, due, told, killed, twice, credit, fired>>
    BY <1>2 DEF Ta!CallbackEnds, Ta!loopVars
  <2>2. Ta!TypeOK'
    BY <2>1, TasksConstants DEF Ta!TypeOK, Ta!NumbersAssumption
  <2> QED
    BY <2>1, <2>2 DEF KilledAreThere, OneGoesOn, IntervalInv, DateInv, Ta!Counting, Ta!Live
<1> QED
  BY <1>1, <1>2

\* Time passes.
LEMMA TickKeeps ==
    ASSUME TaskInv, Ta!Tick
    PROVE  TaskInv'
<1> DEFINE iv == trigger.per[1]
<1> USE DEF TaskInv
<1>1. UNCHANGED <<trigger, stopped, task, st, told, killed, running, twice, fired>>
  BY DEF Ta!Tick
<1>2. MaxLag \in Nat /\ Far \in Nat /\ iv \in Nat \ {0} /\ 2 * iv + MaxLag <= Far /\ parts[1] \in 0 .. Far
      /\ 1 \in DOMAIN trigger.per
  BY TaskNumbers
<1> HIDE DEF iv
<1>3. /\ age \in 0 .. Far /\ credit \in (-Far) .. Far /\ parts \in [DOMAIN trigger.per -> 0 .. Far]
      /\ due \in [Loops -> (-Far) .. Far]
  BY DEF Ta!TypeOK
<1>4. age' = (IF age < Far THEN age + 1 ELSE Far)
  BY <1>2, <1>3, MinOfTwo DEF Ta!Tick
<1>5. credit' = (IF Ta!Counting THEN (IF credit < Far THEN credit + 1 ELSE Far) ELSE credit)
  BY <1>2, <1>3, MinOfTwo DEF Ta!Tick
<1>6. parts' \in [DOMAIN trigger.per -> 0 .. Far]
      /\ (trigger.kind # "interval" => parts'[1] = IF parts[1] < Far THEN parts[1] + 1 ELSE Far)
  <2>1. \A i \in DOMAIN trigger.per :
          Ta!Min({Far, parts[i] + 1}) = IF parts[i] < Far THEN parts[i] + 1 ELSE Far
    BY <1>2, <1>3, MinOfTwo
  <2>2. parts' = (IF trigger.kind = "interval" THEN parts
                  ELSE [i \in DOMAIN trigger.per |-> IF parts[i] < Far THEN parts[i] + 1 ELSE Far])
    BY <1>3, <2>1 DEF Ta!Tick
  <2> QED
    BY <1>2, <1>3, <2>2
<1>7. \A l \in Loops : Ta!Live(l)' <=> Ta!Live(l)
  BY <1>1 DEF Ta!Live
<1>8. \A l \in Loops : due'[l] = IF Ta!Live(l) /\ st[l] = "wait" THEN due[l] - 1 ELSE due[l]
  BY DEF Ta!Tick
<1>9. \A l \in Loops : /\ Ta!Live(l) /\ st[l] = "wait" => due[l] > -MaxLag
                       /\ Ta!Live(l) /\ st[l] = "new" => age < MaxLag
  BY DEF Ta!Tick
<1>10. due' \in [Loops -> (-Far) .. Far]
  <2>1. \A l \in Loops : due'[l] \in (-Far) .. Far
    BY <1>2, <1>3, <1>8, <1>9
  <2>2. due' = [l \in Loops |-> due'[l]]
    BY DEF Ta!Tick
  <2> QED
    BY <2>1, <2>2
<1>11. Ta!TypeOK'
  BY <1>1, <1>2, <1>3, <1>4, <1>5, <1>6, <1>10 DEF Ta!TypeOK
<1>12. KilledAreThere' /\ OneGoesOn'
  BY <1>1, <1>7 DEF KilledAreThere, OneGoesOn
<1>13. IntervalInv'
  <2> SUFFICES ASSUME Ta!Counting, NEW l \in Loops, Ta!Live(l)
               PROVE  IF st[l] = "new" THEN credit' = age' /\ age' <= MaxLag
                      ELSE /\ credit' = iv - due'[l] /\ -MaxLag <= due'[l] /\ due'[l] <= iv
    BY <1>1, <1>7 DEF IntervalInv, Ta!Counting, iv
  <2>1. CASE st[l] = "new"
    BY <1>2, <1>3, <1>4, <1>5, <1>9, <2>1 DEF IntervalInv
  <2>2. CASE st[l] # "new"
    <3>1. st[l] = "wait"
      BY <2>2 DEF Ta!Live, Ta!TypeOK
    <3>2. credit = iv - due[l] /\ due[l] <= iv /\ due[l] > -MaxLag /\ due'[l] = due[l] - 1
      BY <1>8, <1>9, <2>2, <3>1 DEF IntervalInv, iv
    <3>3. due[l] \in Int /\ credit < Far /\ credit' = credit + 1
      BY <1>2, <1>3, <1>5, <3>2
    <3> QED
      BY <1>2, <2>2, <3>2, <3>3
  <2> QED
    BY <2>1, <2>2
<1>14. DateInv'
  <2> SUFFICES ASSUME ~twice, trigger.kind = "date"
               PROVE  /\ fired <= 1 /\ (fired # 0 => parts'[1] >= iv)
                      /\ \A l \in Loops : Ta!Live(l) /\ st[l] = "wait" =>
                           fired = 0 /\ due'[l] = iv - parts'[1] /\ -MaxLag <= due'[l]
    BY <1>1, <1>7 DEF DateInv, iv
  <2>1. fired <= 1 /\ (fired # 0 => parts[1] >= iv)
        /\ parts'[1] = IF parts[1] < Far THEN parts[1] + 1 ELSE Far
    BY <1>6 DEF DateInv, iv
  <2>2. ASSUME NEW l \in Loops, Ta!Live(l), st[l] = "wait"
        PROVE  fired = 0 /\ due'[l] = iv - parts'[1] /\ -MaxLag <= due'[l]
    <3>1. fired = 0 /\ due[l] = iv - parts[1] /\ due[l] > -MaxLag /\ due'[l] = due[l] - 1
      BY <1>8, <1>9, <2>2 DEF DateInv, iv
    <3>2. parts[1] < Far
      BY <1>2, <3>1
    <3> QED
      BY <1>2, <2>1, <3>1, <3>2
  <2> QED
    BY <1>2, <2>1, <2>2
<1> QED
  BY <1>11, <1>12, <1>13, <1>14

-----------------------------------------------------------------------------
\* Before the first start there are no loops.
LEMMA TasksAtFirst == Ta!Init => TaskInv
<1> SUFFICES ASSUME Ta!Init
             PROVE  TaskInv
  OBVIOUS
<1>1. Far \in Nat /\ MaxRunning \in Nat /\ MaxLag \in Nat
  BY TasksConstants DEF Ta!NumbersAssumption
<1>2. Ta!TypeOK
  <2>1. {stopped, twice} \subseteq BOOLEAN
    BY DEF Ta!Init
  <2>2. parts \in [DOMAIN trigger.per -> 0 .. Far] /\ age \in 0 .. Far /\ credit \in (-Far) .. Far
        /\ running \in 0 .. MaxRunning /\ fired \in 0 .. 2 /\ due \in [Loops -> (-Far) .. Far]
    BY <1>1 DEF Ta!Init
  <2>3. trigger \in Triggers /\ task \in Loops \cup {None} /\ st \in [Loops -> {"none", "new", "wait"}]
        /\ told \subseteq Loops /\ killed \subseteq Loops
    BY DEF Ta!Init
  <2> QED
    BY <2>1, <2>2, <2>3 DEF Ta!TypeOK
<1>3. \A l \in Loops : ~Ta!Live(l)
  BY DEF Ta!Init, Ta!Live
<1> QED
  BY <1>2, <1>3 DEF Ta!Init, TaskInv, KilledAreThere, OneGoesOn, IntervalInv, DateInv

\* A step of a loop, of a callback, of the user or of the clock keeps TaskInv.
LEMMA TasksKeep == TaskInv /\ [Next]_vars => TaskInv'
<1> SUFFICES ASSUME TaskInv, [Ta!Next]_taVars
             PROVE  TaskInv'
  BY TasksStep
<1>1. CASE UNCHANGED taVars
  BY <1>1
  DEF taVars, TaskInv, Ta!TypeOK, KilledAreThere, OneGoesOn, IntervalInv, DateInv, Ta!Live, Ta!Counting
<1>2. ASSUME NEW l \in Loops, Ta!Loop(l)
      PROVE  TaskInv'
  BY <1>2, BeginKeeps, FireKeeps, EndsKeep DEF Ta!Loop
<1>3. ASSUME NEW l \in Loops, Ta!User(l)
      PROVE  TaskInv'
  BY <1>3, NewLoopKeeps DEF Ta!User
<1> QED
  BY <1>1, <1>2, <1>3, StopKeeps, TickKeeps DEF Ta!Next

\* The times of a task stay within their types, and only loops that are there get cancelled.
THEOREM TasksTypes == Spec => [](Ta!TypeOK /\ KilledAreThere)
<1>1. Init => TaskInv
  BY TasksAtFirst DEF Init
<1>2. TaskInv => Ta!TypeOK /\ KilledAreThere
  BY DEF TaskInv
<1> QED
  BY <1>1, <1>2, TasksKeep, PTL DEF Spec

\* However start, stop, restart, reschedule and triggers from callbacks follow each other: a
\* task that is not started twice goes on with one loop, its date fires once, and its interval
\* is kept over any number of firings that come late - for any triggers and any number of loops
\* of earlier starts that are on their way out.
THEOREM TasksFireAsDue == Spec => []FiresAsDue
<1>1. Init => TaskInv
  BY TasksAtFirst DEF Init
<1>2. TaskInv => FiresAsDue
  <2> SUFFICES ASSUME TaskInv
               PROVE  FiresAsDue
    OBVIOUS
  <2>1. Ta!OneLoop
    BY DEF TaskInv, OneGoesOn, Ta!OneLoop
  <2>2. Ta!DateOnce
    BY DEF TaskInv, DateInv, Ta!DateOnce
  <2>3. Ta!RateKept
    <3> SUFFICES ASSUME ~twice, trigger.kind = "interval", task # None, Ta!Live(task)
                 PROVE  credit \in 0 .. trigger.per[1] + MaxLag
      BY DEF Ta!RateKept
    <3>1. task \in Loops /\ st[task] \in {"new", "wait"} /\ due[task] \in Int
          /\ age \in Nat /\ MaxLag \in Nat /\ trigger.per[1] \in Nat
      BY TaskNumbers, TasksConstants DEF TaskInv, Ta!TypeOK, Ta!Live, Ta!NumbersAssumption
    <3> QED
      BY <3>1 DEF TaskInv, IntervalInv, Ta!Counting
  <2> QED
    BY <2>1, <2>2, <2>3 DEF FiresAsDue
<1> QED
  BY <1>1, <1>2, TasksKeep, PTL DEF Spec

\* Nothing fires between a stop() and the next start(), though a loop may be at its fire time
\* when it is told, and an earlier one on its way out.
THEOREM StoppedIsSilent == Spec => StopHolds
<1>1. Init => TaskInv
  BY TasksAtFirst DEF Init
<1>2. TaskInv /\ [Next]_vars => [\A l \in Loops : ~twice /\ Ta!Fire(l) => ~stopped]_(Ta!vars)
  BY FireKeeps
<1> QED
  BY <1>1, <1>2, TasksKeep, PTL DEF Spec, StopHolds, Ta!StopHolds
-----------------------------------------------------------------------------
\* The variables of every part of LiveParts have their types, for any values of the constants.
THEOREM EveryPartTyped == Spec => []TypeOK
<1>1. GlobalLockInv => Gl!TypeOK
  BY DEF GlobalLockInv
<1> QED
  BY <1>1, GlobalLockTypes, TasksTypes, CommandTypes, PlaybackTypes, ReadinessTypes, RecordingTypesKept, PTL
     DEF TypeOK

\* Nobody's wake-up is lost, for any values of the constants: whoever waits for a slot of a command,
\* for events in Player.run, for done_recording, for members, for a shard or for _race_lock waits for
\* something that is under way.  It is what the liveness that TLC checks rests on.
THEOREM EveryWaiterIsOwed == Spec => []NoWakeUpLost
BY WaiterIsServed, PlayerWakes, WriterTells, NobodyWaitsInVain, PTL DEF NoWakeUpLost
=============================================================================

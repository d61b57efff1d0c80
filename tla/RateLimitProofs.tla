--------------------------- MODULE RateLimitProofs ---------------------------
(***************************************************************************)
(* Theorems about RateLimit, for every set of requests, every limit and    *)
(* number of attempts, and every set of answers.                           *)
(*                                                                         *)
(* IInv is inductive.  A permit is counted in val; what keeps a semaphore  *)
(* without permits alive is PermitOrHolder, which needs no counting: every *)
(* action that takes the last permit leaves its request inside, and every  *)
(* action that lets one out puts a permit back or wakes another.           *)
(***************************************************************************)
EXTENDS RateLimit, TLAPS

USE NoOneAssumption, NumbersAssumption, StatusesAssumption DEF Pcs, Inside, Ended

\* The initial states satisfy the invariant.
LEMMA InitIInv == Init => IInv
BY DEF Init, IInv, TypeOK, PermitOrHolder, WaiterHasSemaphore, WaiterHasHolder, CloserKnown,
       SharedHasSemaphore, AttemptsLeft

\* What acquire() answers, and what it takes.
LEMMA AcquireProperties ==
    ASSUME NEW o \in Requests, NEW v \in Nat, NEW locked \in BOOLEAN, has[o] \in BOOLEAN
    PROVE  /\ Acquire(o, v, locked) \in {"global", "lock", "sem"}
           /\ Left(o, v, locked) \in Nat
           /\ Acquire(o, v, locked) = "sem" => has[o] /\ v = 0 /\ Left(o, v, locked) = 0
           /\ has[o] /\ Acquire(o, v, locked) # "global" => Left(o, v, locked) = v
           /\ v = 0 => Left(o, v, locked) = 0
BY DEF Acquire, Left

\* Who gets the permit that release() gives back.
LEMMA HeirProperties ==
    ASSUME IInv, NEW o \in Requests, NEW q \in Heirs(o)
    PROVE  /\ Kept(o, q) \in Nat
           /\ q = NoOne => (\A p \in Requests : obj[p] = o => pc[p] # "sem")
                            /\ (has[o] => Kept(o, q) > 0)
           /\ q # NoOne => /\ q \in Requests /\ obj[q] = o /\ pc[q] = "sem"
                           /\ has[o] /\ val[o] = 0 /\ Kept(o, q) = 0
           /\ Woken(q) \in [Requests -> Pcs]
BY DEF IInv, TypeOK, Heirs, Kept, Woken, Waiting, WaiterHasHolder, WaiterHasSemaphore

\* A request leaves an attempt with release() and goes on at l, leaving w permits: it has ended,
\* or acquires again.
LEMMA ReleaseKeepsIInv ==
    ASSUME IInv, NEW r \in Requests, pc[r] \in Inside,
           NEW q \in Heirs(obj[r]), NEW l \in Ended \cup {"global", "lock", "sem"}, NEW w \in Nat,
           pc' = [Woken(q) EXCEPT ![r] = l],
           val' = [val EXCEPT ![obj[r]] = w],
           IF l = "global" THEN w <= Kept(obj[r], q) ELSE w = Kept(obj[r], q),
           l = "sem" => has[obj[r]] /\ w = 0,
           NEW n \in 0 .. MaxAttempts, attempt' = [attempt EXCEPT ![r] = n],
           n = MaxAttempts => l = "none",
           IF pc[r] = "block" THEN closer' = [closer EXCEPT ![obj[r]] = NoOne]
                              ELSE closer' = closer,
           UNCHANGED <<obj, has, cached>>
    PROVE  IInv'
<1> DEFINE o == obj[r]
<1> USE DEF IInv
<1>1. o \in Requests
  BY DEF TypeOK
<1>2. /\ q = NoOne => (\A p \in Requests : obj[p] = o => pc[p] # "sem")
                       /\ (has[o] => Kept(o, q) > 0)
      /\ q # NoOne => /\ q \in Requests /\ obj[q] = o /\ pc[q] = "sem"
                      /\ has[o] /\ val[o] = 0 /\ Kept(o, q) = 0
      /\ Woken(q) \in [Requests -> Pcs]
  BY <1>1, HeirProperties
<1>3. /\ pc'[r] = l
      /\ \A p \in Requests : p # r => pc'[p] = IF p = q THEN "global" ELSE pc[p]
      /\ val'[o] = w
      /\ \A p \in Requests : p # o => val'[p] = val[p]
      /\ q # r
  BY <1>1, <1>2 DEF TypeOK, Woken
<1>4. TypeOK'
  BY <1>1, <1>2 DEF TypeOK
<1>5. PermitOrHolder'
  <2> SUFFICES ASSUME NEW p \in Requests, has[p] PROVE val'[p] > 0 \/ HolderIn(p)'
    BY DEF PermitOrHolder
  <2>1. CASE p # o
    <3>1. val[p] > 0 \/ HolderIn(p)
      BY DEF PermitOrHolder
    <3>2. ASSUME NEW a \in Requests, obj[a] = p, pc[a] \in Inside PROVE pc'[a] \in Inside
      BY <1>2, <1>3, <2>1, <3>2
    <3> QED
      BY <1>3, <2>1, <3>1, <3>2 DEF HolderIn
  <2>2. CASE p = o /\ q # NoOne
    BY <1>2, <1>3, <2>2 DEF HolderIn
  <2>3. CASE p = o /\ q = NoOne
    BY <1>1, <1>2, <1>3, <2>3 DEF HolderIn
  <2> QED
    BY <2>1, <2>2, <2>3
<1>6. WaiterHasSemaphore'
  BY <1>2, <1>3 DEF WaiterHasSemaphore
<1>7. WaiterHasHolder'
  <2> SUFFICES ASSUME NEW p \in Requests, pc'[p] = "sem"
               PROVE val'[obj[p]] = 0 /\ HolderIn(obj[p])'
    BY DEF WaiterHasHolder
  <2>1. val'[obj[p]] = 0
    BY <1>2, <1>3 DEF WaiterHasHolder
  <2>2. has[obj[p]] /\ obj[p] \in Requests
    BY <1>6 DEF WaiterHasSemaphore, TypeOK
  <2> QED
    BY <1>5, <2>1, <2>2 DEF PermitOrHolder
<1>8. CloserKnown'
  BY <1>1, <1>2, <1>3 DEF CloserKnown, TypeOK
<1>9. SharedHasSemaphore'
  BY <1>1 DEF SharedHasSemaphore, TypeOK
<1>10. AttemptsLeft'
  BY <1>2, <1>3 DEF AttemptsLeft, TypeOK
<1> QED
  BY <1>4, <1>5, <1>6, <1>7, <1>8, <1>9, <1>10

\* The next attempt, or none, after release().
LEMMA RetryKeepsIInv ==
    ASSUME IInv, NEW r \in Requests, pc[r] \in Inside,
           NEW locked \in BOOLEAN, Retry(r, locked),
           IF pc[r] = "block" THEN closer' = [closer EXCEPT ![obj[r]] = NoOne]
                              ELSE closer' = closer,
           UNCHANGED <<obj, has, cached>>
    PROVE  IInv'
<1> DEFINE o == obj[r]
<1>1. o \in Requests /\ has[o] \in BOOLEAN
  BY DEF IInv, TypeOK
<1> DEFINE n == attempt[r] + 1
<1>2. n \in 0 .. MaxAttempts /\ attempt' = [attempt EXCEPT ![r] = n]
  BY DEF Retry, IInv, TypeOK, AttemptsLeft
<1>3. CASE attempt[r] + 1 = MaxAttempts
  <2>1. PICK q \in Heirs(o) : /\ pc' = [Woken(q) EXCEPT ![r] = "none"]
                              /\ val' = [val EXCEPT ![o] = Kept(o, q)]
    BY <1>3 DEF Retry, Release
  <2>2. Kept(o, q) \in Nat
    BY <1>1, HeirProperties
  <2> QED
    BY <1>2, <2>1, <2>2, ReleaseKeepsIInv
<1>4. CASE attempt[r] + 1 # MaxAttempts
  <2>1. PICK q \in Heirs(o) : /\ pc' = [Woken(q) EXCEPT ![r] = Acquire(o, Kept(o, q), locked)]
                              /\ val' = [val EXCEPT ![o] = Left(o, Kept(o, q), locked)]
    BY <1>4 DEF Retry
  <2> DEFINE l == Acquire(o, Kept(o, q), locked)
             w == Left(o, Kept(o, q), locked)
  <2>2. Kept(o, q) \in Nat
    BY <1>1, HeirProperties
  <2>3. /\ l \in {"global", "lock", "sem"} /\ w \in Nat
        /\ l = "sem" => has[o] /\ w = 0
        /\ IF l = "global" THEN w <= Kept(o, q) ELSE w = Kept(o, q)
    BY <1>1, <2>2 DEF Acquire, Left
  <2> HIDE DEF l, w
  <2>4. pc' = [Woken(q) EXCEPT ![r] = l] /\ val' = [val EXCEPT ![o] = w]
    BY <2>1 DEF l, w
  <2>5. n = MaxAttempts => l = "none"
    BY <1>4
  <2> HIDE DEF n
  <2> QED
    BY <1>2, <2>3, <2>4, <2>5, ReleaseKeepsIInv
<1> QED
  BY <1>3, <1>4

\* A response is handled: nobody waits for the semaphore there is now, and it has permits.
LEMMA RespondKeepsIInv ==
    ASSUME IInv, NEW r \in Requests, NEW h \in Headers,
           NEW l \in Ended \cup {"global", "lock", "block", "delay"},
           NEW v \in Nat \ {0}, Respond(r, h, l, v),
           NEW n \in 0 .. MaxAttempts, attempt' = [attempt EXCEPT ![r] = n],
           n = MaxAttempts => l = "none",
           \/ closer' = closer /\ l # "block"
           \/ Close(r) /\ l \in {"returned", "raised", "block"}
    PROVE  IInv'
<1> DEFINE o == obj[r]
<1> USE DEF IInv
<1>1. o \in Requests /\ pc[r] = "call"
  BY DEF TypeOK, Respond
<1>2. /\ has' = [has EXCEPT ![o] = TRUE]
      /\ cached' = cached \/ cached' = o
      /\ obj' = obj
      /\ val' = [val EXCEPT ![o] = v]
  BY DEF Respond
<1>3. /\ pc' \in [Requests -> Pcs]
      /\ pc'[r] = l
      /\ \A p \in Requests : p # r =>
           /\ pc'[p] = pc[p] \/ (pc[p] = "sem" /\ pc'[p] = "orphan")
           /\ obj[p] = o => pc'[p] # "sem"
  <2>1. pc' = [Orphaned(o, h) EXCEPT ![r] = l]
    BY DEF Respond
  <2>2. Orphaned(o, h) \in [Requests -> Pcs]
    BY DEF Orphaned, TypeOK
  <2>3. ASSUME NEW p \in Requests, obj[p] = o, pc[p] = "sem" PROVE Replaces(o, h)
    BY <2>3 DEF WaiterHasHolder, Replaces, Ingested, Headers
  <2>4. \A p \in Requests : p # r => pc'[p] = Orphaned(o, h)[p]
    BY <2>1, <2>2
  <2> QED
    BY <2>1, <2>2, <2>3, <2>4 DEF Orphaned, Waiting
<1>4. TypeOK'
  <2>1. closer' \in [Requests -> Requests \cup {NoOne}]
    BY <1>1 DEF TypeOK, Close
  <2>2. attempt' \in [Requests -> 0 .. MaxAttempts]
    BY DEF TypeOK
  <2>3. val' \in [Requests -> Nat] /\ has' \in [Requests -> BOOLEAN]
    BY <1>1, <1>2 DEF TypeOK
  <2> QED
    BY <1>1, <1>2, <1>3, <2>1, <2>2, <2>3 DEF TypeOK
<1>5. PermitOrHolder'
  <2> SUFFICES ASSUME NEW p \in Requests, has'[p] PROVE val'[p] > 0 \/ HolderIn(p)'
    BY DEF PermitOrHolder
  <2>1. CASE p = o
    BY <1>1, <1>2, <2>1 DEF TypeOK
  <2>2. CASE p # o
    <3>1. has[p] /\ val'[p] = val[p]
      BY <1>1, <1>2, <2>2 DEF TypeOK
    <3>2. ASSUME NEW a \in Requests, obj[a] = p, pc[a] \in Inside PROVE pc'[a] \in Inside
      BY <1>3, <2>2, <3>2
    <3> QED
      BY <1>2, <3>1, <3>2 DEF PermitOrHolder, HolderIn
  <2> QED
    BY <2>1, <2>2
<1>6. WaiterHasSemaphore'
  BY <1>1, <1>2, <1>3 DEF WaiterHasSemaphore, TypeOK
<1>7. WaiterHasHolder'
  <2> SUFFICES ASSUME NEW p \in Requests, pc'[p] = "sem"
               PROVE val'[obj[p]] = 0 /\ HolderIn(obj[p])'
    BY <1>2 DEF WaiterHasHolder
  <2>1. pc[p] = "sem" /\ obj[p] # o
    BY <1>3
  <2>2. val'[obj[p]] = 0
    BY <1>1, <1>2, <2>1 DEF WaiterHasHolder, TypeOK
  <2>3. has'[obj[p]] /\ obj[p] \in Requests
    BY <1>2, <1>6 DEF WaiterHasSemaphore, TypeOK
  <2> QED
    BY <1>2, <1>5, <2>2, <2>3 DEF PermitOrHolder, HolderIn
<1>8. CloserKnown'
  BY <1>1, <1>2, <1>3 DEF CloserKnown, TypeOK, Close
<1>9. SharedHasSemaphore'
  BY <1>1, <1>2 DEF SharedHasSemaphore, TypeOK, Close
<1>10. AttemptsLeft'
  BY <1>3 DEF AttemptsLeft, TypeOK
<1> QED
  BY <1>4, <1>5, <1>6, <1>7, <1>8, <1>9, <1>10

\* A request acquires: it is new, or waited for _lock.
LEMMA AcquireKeepsIInv ==
    ASSUME IInv, NEW r \in Requests, pc[r] \in {"idle", "lock"}, NEW o \in Requests,
           NEW locked \in BOOLEAN, obj' = [obj EXCEPT ![r] = o],
           pc[r] # "idle" => o = obj[r],
           ~has[o] => o = r \/ o = obj[r],
           pc' = [pc EXCEPT ![r] = Acquire(o, val[o], locked)],
           val' = [val EXCEPT ![o] = Left(o, val[o], locked)],
           UNCHANGED <<attempt, has, closer, cached>>
    PROVE  IInv'
<1> DEFINE l == Acquire(o, val[o], locked)
           w == Left(o, val[o], locked)
<1> USE DEF IInv
<1>1. /\ l \in {"global", "lock", "sem"} /\ w \in Nat
      /\ l = "sem" => has[o] /\ w = 0
      /\ IF l = "global" THEN w <= val[o] ELSE w = val[o]
  BY DEF Acquire, Left, TypeOK
<1>2. pc' = [pc EXCEPT ![r] = l] /\ val' = [val EXCEPT ![o] = w]
  OBVIOUS
<1> HIDE DEF l, w
<1>3. /\ pc'[r] = l /\ obj'[r] = o /\ val'[o] = w
      /\ \A p \in Requests : p # r => pc'[p] = pc[p] /\ obj'[p] = obj[p]
      /\ \A p \in Requests : p # o => val'[p] = val[p]
  BY <1>2 DEF TypeOK
<1>4. TypeOK'
  BY <1>1, <1>2 DEF TypeOK
<1>5. PermitOrHolder'
  <2> SUFFICES ASSUME NEW p \in Requests, has[p] PROVE val'[p] > 0 \/ HolderIn(p)'
    BY DEF PermitOrHolder
  <2>1. CASE l = "global" /\ p = o
    BY <1>3, <2>1 DEF HolderIn
  <2>2. CASE ~(l = "global" /\ p = o)
    <3>1. val'[p] = val[p]
      BY <1>1, <1>3, <2>2
    <3>2. ASSUME NEW a \in Requests, obj[a] = p, pc[a] \in Inside
          PROVE  obj'[a] = p /\ pc'[a] \in Inside
      BY <1>3, <3>2
    <3> QED
      BY <3>1, <3>2 DEF PermitOrHolder, HolderIn
  <2> QED
    BY <2>1, <2>2
<1>6. WaiterHasSemaphore'
  BY <1>1, <1>3 DEF WaiterHasSemaphore
<1>7. WaiterHasHolder'
  <2> SUFFICES ASSUME NEW p \in Requests, pc'[p] = "sem"
               PROVE (val[obj[p]] = 0 /\ HolderIn(obj[p]))'
    BY DEF WaiterHasHolder
  <2>1. val'[obj'[p]] = 0
    BY <1>1, <1>3 DEF WaiterHasHolder, TypeOK
  <2>2. has'[obj'[p]] /\ obj'[p] \in Requests
    BY <1>4, <1>6 DEF WaiterHasSemaphore, TypeOK
  <2> QED
    BY <1>5, <2>1, <2>2 DEF PermitOrHolder, HolderIn
<1>8. CloserKnown'
  BY <1>1, <1>3 DEF CloserKnown, TypeOK
<1>9. SharedHasSemaphore'
  BY <1>3 DEF SharedHasSemaphore, TypeOK
<1>10. AttemptsLeft'
  BY <1>1, <1>3 DEF AttemptsLeft, TypeOK
<1> QED
  BY <1>4, <1>5, <1>6, <1>7, <1>8, <1>9, <1>10

\* Every step keeps the invariant.
LEMMA StepIInv == IInv /\ [Next]_vars => IInv'
<1> SUFFICES ASSUME IInv, [Next]_vars PROVE IInv'
  OBVIOUS
<1>1. ASSUME NEW r \in Requests, Call(r) PROVE IInv'
  <2>1. PICK o \in {IF Cached = NoOne THEN r ELSE Cached} :
           /\ obj' = [obj EXCEPT ![r] = o]
           /\ pc' = [pc EXCEPT ![r] = Acquire(o, val[o], closer[o] # NoOne)]
           /\ val' = [val EXCEPT ![o] = Left(o, val[o], closer[o] # NoOne)]
    BY <1>1 DEF Call
  <2>2. o \in Requests /\ (~has[o] => o = r)
    BY DEF Cached, IInv, TypeOK, SharedHasSemaphore
  <2>3. pc[r] = "idle" /\ UNCHANGED <<attempt, has, closer, cached>>
    BY <1>1 DEF Call
  <2>4. (closer[o] # NoOne) \in BOOLEAN
    OBVIOUS
  <2> QED
    BY <2>1, <2>2, <2>3, <2>4, AcquireKeepsIInv
<1>2. ASSUME NEW r \in Requests, PassLock(r) PROVE IInv'
  <2> DEFINE o == obj[r]
  <2>1. /\ pc[r] = "lock" /\ o \in Requests
        /\ obj' = [obj EXCEPT ![r] = o]
        /\ pc' = [pc EXCEPT ![r] = Acquire(o, val[o], FALSE)]
        /\ val' = [val EXCEPT ![o] = Left(o, val[o], FALSE)]
        /\ UNCHANGED <<attempt, has, closer, cached>>
    BY <1>2 DEF PassLock, IInv, TypeOK
  <2> QED
    BY <2>1, AcquireKeepsIInv
<1>3. ASSUME NEW r \in Requests, Send(r) PROVE IInv'
  <2>1. /\ pc[r] = "global" /\ pc' = [pc EXCEPT ![r] = "call"]
        /\ UNCHANGED <<obj, attempt, has, val, closer, cached>>
    BY <1>3 DEF Send
  <2>2. ASSUME NEW o \in Requests, HolderIn(o) PROVE HolderIn(o)'
    BY <2>1, <2>2 DEF HolderIn, IInv, TypeOK
  <2> QED
    BY <2>1, <2>2 DEF IInv, TypeOK, PermitOrHolder, WaiterHasSemaphore, WaiterHasHolder,
        CloserKnown, SharedHasSemaphore, AttemptsLeft
<1>4. ASSUME NEW r \in Requests, Unblock(r) PROVE IInv'
  BY <1>4, RetryKeepsIInv DEF Unblock
<1>5. ASSUME NEW r \in Requests, DelayOver(r) PROVE IInv'
  <2>1. (closer[obj[r]] # NoOne) \in BOOLEAN
    OBVIOUS
  <2> QED
    BY <1>5, <2>1, RetryKeepsIInv DEF DelayOver
<1>6. ASSUME NEW r \in Requests, NetworkError(r) PROVE IInv'
  <2>1. CASE pc' = [pc EXCEPT ![r] = "delay"] /\ UNCHANGED val
    <3>1. pc[r] = "call" /\ UNCHANGED <<obj, attempt, has, closer, cached>>
      BY <1>6 DEF NetworkError
    <3>2. ASSUME NEW o \in Requests, HolderIn(o) PROVE HolderIn(o)'
      BY <2>1, <3>1, <3>2 DEF HolderIn, IInv, TypeOK
    <3> QED
      BY <2>1, <3>1, <3>2 DEF IInv, TypeOK, PermitOrHolder, WaiterHasSemaphore,
          WaiterHasHolder, CloserKnown, SharedHasSemaphore, AttemptsLeft
  <2>2. CASE Release(r, "raised")
    <3> DEFINE o == obj[r]
               n == attempt[r]
    <3>1. PICK q \in Heirs(o) : /\ pc' = [Woken(q) EXCEPT ![r] = "raised"]
                                /\ val' = [val EXCEPT ![o] = Kept(o, q)]
      BY <2>2 DEF Release
    <3>2. o \in Requests /\ Kept(o, q) \in Nat
      BY HeirProperties DEF IInv, TypeOK
    <3>3. /\ pc[r] = "call" /\ n \in 0 .. MaxAttempts /\ n # MaxAttempts
          /\ attempt' = [attempt EXCEPT ![r] = n]
          /\ UNCHANGED <<obj, has, closer, cached>>
      BY <1>6 DEF NetworkError, IInv, TypeOK, AttemptsLeft
    <3> QED
      BY <3>1, <3>2, <3>3, ReleaseKeepsIInv
  <2> QED
    BY <1>6, <2>1, <2>2 DEF NetworkError
<1>7. ASSUME NEW r \in Requests, NEW h \in Headers,
             NEW l \in {"returned", "raised", "broken", "block", "delay"},
             NEW v \in Nat \ {0}, Respond(r, h, l, v), UNCHANGED attempt,
             \/ closer' = closer /\ l # "block"
             \/ Close(r) /\ l \in {"returned", "raised", "block"}
      PROVE  IInv'
  <2>1. /\ attempt[r] \in 0 .. MaxAttempts /\ attempt[r] # MaxAttempts
        /\ attempt' = [attempt EXCEPT ![r] = attempt[r]]
    BY <1>7 DEF Respond, IInv, TypeOK, AttemptsLeft
  <2> QED
    BY <1>7, <2>1, RespondKeepsIInv
<1>8. ASSUME NEW h \in Headers
      PROVE  Ingested(h) \in Nat \ {0} /\ Ingested(h) + 1 \in Nat \ {0}
  BY DEF Ingested
<1>9. ASSUME NEW r \in Requests, NEW h \in Headers, Broken(r, h), UNCHANGED attempt PROVE IInv'
  BY <1>7, <1>8, <1>9 DEF Broken
<1>10. ASSUME NEW r \in Requests, Finish(r) PROVE IInv'
  <2>1. PICK s \in Statuses, h \in Headers :
          \/ /\ IF h = "last" THEN Close(r) ELSE UNCHANGED closer
             /\ Respond(r, h, IF s = "ok" THEN "returned" ELSE "raised", Ingested(h) + 1)
             /\ UNCHANGED attempt
          \/ h = "last" /\ Broken(r, h)
    BY <1>10 DEF Finish
  <2> QED
    BY <1>7, <1>8, <1>9, <2>1 DEF Broken
<1>11. ASSUME NEW r \in Requests, ServerError(r) PROVE IInv'
  BY <1>7, <1>8, <1>11 DEF ServerError
<1>12. ASSUME NEW r \in Requests, TooMany(r) PROVE IInv'
  BY <1>7, <1>8, <1>9, <1>12 DEF TooMany, Broken
<1>13. ASSUME NEW r \in Requests, TooManyGlobal(r) PROVE IInv'
  <2> DEFINE n == attempt[r] + 1
  <2>1. PICK h \in Headers, l \in {"none", "lock", "global"}, v \in Nat \ {0} :
          Respond(r, h, l, v) /\ (n = MaxAttempts => l = "none")
    BY <1>8, <1>13 DEF TooManyGlobal, IInv, TypeOK
  <2>2. /\ n \in 0 .. MaxAttempts /\ attempt' = [attempt EXCEPT ![r] = n]
        /\ UNCHANGED closer
    BY <1>13, <2>1 DEF TooManyGlobal, Respond, IInv, TypeOK, AttemptsLeft
  <2> QED
    BY <2>1, <2>2, RespondKeepsIInv
<1>14. ASSUME NEW o \in Requests, Reopen(o) PROVE IInv'
  BY <1>14 DEF Reopen, IInv, TypeOK, PermitOrHolder, HolderIn, WaiterHasSemaphore,
      WaiterHasHolder, CloserKnown, SharedHasSemaphore, AttemptsLeft
<1>15. CASE UNCHANGED vars
  BY <1>15 DEF vars, IInv, TypeOK, PermitOrHolder, HolderIn, WaiterHasSemaphore,
      WaiterHasHolder, CloserKnown, SharedHasSemaphore, AttemptsLeft
<1> QED
  BY <1>1, <1>2, <1>3, <1>4, <1>5, <1>6, <1>10, <1>11, <1>12, <1>13, <1>14, <1>15
  DEF Next, Run, Answer

\* The invariant holds of every reachable state, whatever the server answers and in whatever
\* order the requests run.
THEOREM BucketInductive == Spec => []IInv
<1>1. Init => IInv
  BY InitIInv
<1>2. IInv /\ [Next]_vars => IInv'
  BY StepIInv
<1> QED
  BY <1>1, <1>2, PTL DEF Spec

\* The types.
THEOREM BucketTypes == Spec => []TypeOK
<1>1. IInv => TypeOK
  BY DEF IInv
<1> QED
  BY <1>1, BucketInductive, PTL

\* No wake-up of a BucketLock is lost: a request that waits for the semaphore of its bucket (and was
\* not left behind by a replaced one) waits for a request that will release it, and every
\* lock_for_duration ends in its own release, of a lock that is still held.
THEOREM WaitersServed == Spec => []NoWakeUpLost
<1>1. IInv => NoWakeUpLost
  BY DEF IInv, NoWakeUpLost
<1> QED
  BY <1>1, BucketInductive, PTL

\* Only the request that created a BucketLock gets through it without a semaphore.
THEOREM NoWayAround == Spec => []SharedHasSemaphore
<1>1. IInv => SharedHasSemaphore
  BY DEF IInv
<1> QED
  BY <1>1, BucketInductive, PTL
=============================================================================

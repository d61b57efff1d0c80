----------------------------- MODULE RateLimit -----------------------------
(***************************************************************************)
(* Requests to one endpoint, from concurrent tasks, under the rate limit   *)
(* of its bucket: HTTPClient.request and BucketLock,                       *)
(* Interfluxer/api/http/http_client.py.                                    *)
(*                                                                         *)
(* A BucketLock has an asyncio.Lock (the bucket is closed for a while) and *)
(* a semaphore (the calls its limit allows at once), which every response  *)
(* may replace.  Request r that finds no BucketLock creates one, and that  *)
(* object is named r.  An action is the code a request runs between two    *)
(* awaits that can suspend it; the API server answers anything.            *)
(***************************************************************************)
EXTENDS Naturals, FiniteSets

CONSTANTS
    Requests,      \* tasks that call request(), once each
    NoOne,         \* nobody: a free lock, an empty cache
    Limit,         \* x-ratelimit-limit, where the server sends the header
    MaxAttempts,   \* HTTPClient._max_attempts
    Statuses       \* the answers of the server in this instance

AllStatuses == {"ok", "client", "server", "429", "429global", "reset", "error"}

ASSUME NoOneAssumption == NoOne \notin Requests
ASSUME NumbersAssumption == Limit \in Nat \ {0} /\ MaxAttempts \in Nat \ {0}
ASSUME StatusesAssumption == Statuses \subseteq AllStatuses

VARIABLES
    pc,        \* request -> where it is
    obj,       \* request -> the BucketLock it uses
    attempt,   \* request -> the attempt it is at, from 0
    has,       \* BucketLock -> does it have a semaphore yet?
    val,       \* BucketLock -> the value of its current semaphore
    closer,    \* BucketLock -> the request whose lock_for_duration holds _lock, or NoOne
    cached     \* ratelimit_locks: the BucketLock of this bucket, or NoOne

vars == <<pc, obj, attempt, has, val, closer, cached>>

\* "lock": waits for _lock; "sem": waits for the current semaphore; "orphan": waits for one
\* that was replaced; "global": in global_lock.wait(); "call": the HTTP call is under way;
\* "block": lock_for_duration(block=True); "delay": sleeps before a retry;
\* "none": gave up and returned None; "raised": an error of the API or the network;
\* "broken": RuntimeError from lock_for_duration.
Ended == {"returned", "none", "raised", "broken"}
Inside == {"global", "call", "block", "delay"}
Pcs == {"idle", "lock", "sem", "orphan"} \cup Inside \cup Ended

TypeOK ==
    /\ pc \in [Requests -> Pcs]
    /\ obj \in [Requests -> Requests]
    /\ attempt \in [Requests -> 0 .. MaxAttempts]
    /\ has \in [Requests -> BOOLEAN]
    /\ val \in [Requests -> Nat]
    /\ closer \in [Requests -> Requests \cup {NoOne}]
    /\ cached \in Requests \cup {NoOne}

Init ==
    /\ pc = [r \in Requests |-> "idle"]
    /\ obj = [r \in Requests |-> r]
    /\ attempt = [r \in Requests |-> 0]
    /\ has = [o \in Requests |-> FALSE]
    /\ val = [o \in Requests |-> 0]
    /\ closer = [o \in Requests |-> NoOne]
    /\ cached = NoOne

-----------------------------------------------------------------------------
Users(o) == {r \in Requests : obj[r] = o /\ pc[r] \notin {"idle"} \cup Ended}
Waiting(o, l) == {r \in Requests : obj[r] = o /\ pc[r] = l}

\* ratelimit_locks holds its values weakly: an object lives while a request uses it or the
\* task that will reopen it is pending.
Cached == IF cached # NoOne /\ (Users(cached) # {} \/ closer[cached] # NoOne)
            THEN cached ELSE NoOne

\* A task woken by the release of _lock runs before the next answer of the server comes in.
LockSettled(o) == closer[o] = NoOne => Waiting(o, "lock") = {}

\* BucketLock.acquire() on object o whose semaphore has v permits, _lock being held or not:
\* where the request gets to.  Without a semaphore nothing is acquired at all.
Acquire(o, v, locked) ==
    IF ~has[o] THEN "global"
    ELSE IF locked THEN "lock"
    ELSE IF v > 0 THEN "global" ELSE "sem"

\* Mutant: a permit is taken that is not there.
LeftDebt(o, v, locked) == IF has[o] /\ ~locked THEN v - 1 ELSE v

\* The permits left after it.
Left(o, v, locked) == IF has[o] /\ ~locked /\ v > 0 THEN v - 1 ELSE v

\* request(): get_ratelimit, and the first acquire().
Call(r) ==
    /\ pc[r] = "idle"
    /\ \E o \in {IF Cached = NoOne THEN r ELSE Cached} :
         /\ obj' = [obj EXCEPT ![r] = o]
         /\ pc' = [pc EXCEPT ![r] = Acquire(o, val[o], closer[o] # NoOne)]
         /\ val' = [val EXCEPT ![o] = Left(o, @, closer[o] # NoOne)]
    /\ UNCHANGED <<attempt, has, closer, cached>>

\* acquire(): _lock is free again; on to the semaphore, whoever else waited for the lock.
PassLock(r) ==
    /\ pc[r] = "lock" /\ closer[obj[r]] = NoOne
    /\ pc' = [pc EXCEPT ![r] = Acquire(obj[r], val[obj[r]], FALSE)]
    /\ val' = [val EXCEPT ![obj[r]] = Left(obj[r], @, FALSE)]
    /\ UNCHANGED <<obj, attempt, has, closer, cached>>

\* global_lock.wait() returns and the call is made.
Send(r) ==
    /\ pc[r] = "global"
    /\ pc' = [pc EXCEPT ![r] = "call"]
    /\ UNCHANGED <<obj, attempt, has, val, closer, cached>>

-----------------------------------------------------------------------------
\* Mutant: release() wakes nobody.
NoHeirs(o) == {NoOne}

\* BucketLock.release() into the semaphore the bucket has now: it hands the permit to a request
\* that waits for it (asyncio.Semaphore from Python 3.11 on), or keeps it.
Heirs(o) == IF Waiting(o, "sem") = {} THEN {NoOne} ELSE Waiting(o, "sem")
Kept(o, q) == IF q = NoOne /\ has[o] THEN val[o] + 1 ELSE val[o]
Woken(q) == [p \in Requests |-> IF p = q THEN "global" ELSE pc[p]]

\* "async with lock" ends for r, which leaves at l.
Release(r, l) ==
    \E q \in Heirs(obj[r]) :
        /\ pc' = [Woken(q) EXCEPT ![r] = l]
        /\ val' = [val EXCEPT ![obj[r]] = Kept(obj[r], q)]

\* "async with lock" ends for r, and the next attempt, if there is one, acquires at once.
Retry(r, locked) ==
    LET o == obj[r]
    IN  /\ attempt' = [attempt EXCEPT ![r] = @ + 1]
        /\ IF attempt[r] + 1 = MaxAttempts THEN Release(r, "none")
           ELSE \E q \in Heirs(o) :
                  /\ pc' = [Woken(q) EXCEPT ![r] = Acquire(o, Kept(o, q), locked)]
                  /\ val' = [val EXCEPT ![o] = Left(o, Kept(o, q), locked)]

\* lock_for_duration(block=True) is over: _lock is released, and the attempt ends.
Unblock(r) ==
    /\ pc[r] = "block"
    /\ closer' = [closer EXCEPT ![obj[r]] = NoOne]
    /\ Retry(r, FALSE)
    /\ UNCHANGED <<obj, has, cached>>

\* Mutant: the bucket is reopened by the request itself, which may have ended.
ReopenByRequest(o) ==
    /\ closer[o] # NoOne /\ pc[closer[o]] \notin Ended \cup {"block"}
    /\ closer' = [closer EXCEPT ![o] = NoOne]
    /\ UNCHANGED <<pc, obj, attempt, has, val, cached>>

\* lock_for_duration without block: its _release() task ends.
Reopen(o) ==
    /\ closer[o] # NoOne /\ pc[closer[o]] # "block"
    /\ closer' = [closer EXCEPT ![o] = NoOne]
    /\ UNCHANGED <<pc, obj, attempt, has, val, cached>>

\* The sleep before a retry is over.
DelayOver(r) ==
    /\ pc[r] = "delay"
    /\ Retry(r, closer[obj[r]] # NoOne)
    /\ UNCHANGED <<obj, has, closer, cached>>

\* The call of r fails before there is a response; a reset connection is tried again.
NetworkError(r) ==
    /\ pc[r] = "call"
    /\ \/ /\ "reset" \in Statuses /\ attempt[r] + 1 < MaxAttempts
          /\ pc' = [pc EXCEPT ![r] = "delay"]
          /\ UNCHANGED val
       \/ /\ "error" \in Statuses \/ ("reset" \in Statuses /\ attempt[r] + 1 = MaxAttempts)
          /\ Release(r, "raised")
    /\ UNCHANGED <<obj, attempt, has, closer, cached>>

-----------------------------------------------------------------------------
\* The headers of a response: they name no bucket, or one with calls left, or one without.
Headers == {"none", "some", "last"}

\* ingest_ratelimit_header: a semaphore whose value is not the limit is replaced, and what
\* waited for it waits for ever.
Ingested(h) == IF h = "none" THEN 1 ELSE Limit
Replaces(o, h) == ~has[o] \/ val[o] # Ingested(h)
Orphaned(o, h) == [q \in Requests |->
    IF Replaces(o, h) /\ q \in Waiting(o, "sem") THEN "orphan" ELSE pc[q]]

\* Mutant: a bucket with no calls left gets no semaphore.
RespondUnlimited(r, h, l, v) ==
    /\ pc[r] = "call" /\ LockSettled(obj[r])
    /\ has' = [has EXCEPT ![obj[r]] = @ \/ h # "last"]
    /\ cached' = IF h = "none" THEN cached ELSE obj[r]
    /\ pc' = [Orphaned(obj[r], h) EXCEPT ![r] = l]
    /\ val' = [val EXCEPT ![obj[r]] = v]
    /\ UNCHANGED obj

\* The response of r is handled: ingest_ratelimit caches the bucket, if it has a name, and r
\* goes on at l with v permits in its semaphore.  Nobody waits for that semaphore then.
Respond(r, h, l, v) ==
    /\ pc[r] = "call" /\ LockSettled(obj[r])
    /\ has' = [has EXCEPT ![obj[r]] = TRUE]
    /\ cached' = IF h = "none" THEN cached ELSE obj[r]
    /\ pc' = [Orphaned(obj[r], h) EXCEPT ![r] = l]
    /\ val' = [val EXCEPT ![obj[r]] = v]
    /\ UNCHANGED obj

\* lock_for_duration raises RuntimeError on a bucket that is closed already.
Broken(r, h) ==
    /\ closer[obj[r]] # NoOne
    /\ Respond(r, h, "broken", Ingested(h) + 1)
    /\ UNCHANGED <<attempt, closer>>

\* Mutant: lock_for_duration without its check.
CloseAgain(r) == closer' = [closer EXCEPT ![obj[r]] = r]

\* lock_for_duration: the bucket is closed by r.
Close(r) == closer[obj[r]] = NoOne /\ closer' = [closer EXCEPT ![obj[r]] = r]

\* A result, or an error that is not retried; the last call of the bucket closes it.
Finish(r) ==
    \E s \in Statuses \cap {"ok", "client", "server"}, h \in Headers :
        /\ s = "server" => h = "last"
        /\ \/ /\ IF h = "last" THEN Close(r) ELSE UNCHANGED closer
              /\ Respond(r, h, IF s = "ok" THEN "returned" ELSE "raised", Ingested(h) + 1)
              /\ UNCHANGED attempt
           \/ h = "last" /\ Broken(r, h)

\* 500, 502 or 504: sleep, then try again.
ServerError(r) ==
    /\ "server" \in Statuses
    /\ \E h \in Headers \ {"last"} : Respond(r, h, "delay", Ingested(h))
    /\ UNCHANGED <<attempt, closer>>

\* 429 of the resource or the endpoint: close the bucket, wait, try again.
TooMany(r) ==
    /\ "429" \in Statuses
    /\ \E h \in Headers \ {"last"} :
         \/ /\ Close(r)
            /\ Respond(r, h, "block", Ingested(h))
            /\ UNCHANGED attempt
         \/ Broken(r, h)

\* A global 429: global_lock.set_reset_time, then the next attempt acquires at once.
TooManyGlobal(r) ==
    LET o == obj[r]  again == attempt[r] + 1 < MaxAttempts  locked == closer[o] # NoOne
    IN  /\ "429global" \in Statuses
        /\ \E h \in Headers \ {"last"} :
             Respond(r, h, IF ~again THEN "none" ELSE IF locked THEN "lock" ELSE "global",
                     IF again /\ ~locked THEN Ingested(h) ELSE Ingested(h) + 1)
        /\ attempt' = [attempt EXCEPT ![r] = @ + 1]
        /\ UNCHANGED closer

-----------------------------------------------------------------------------
Answer(r) == NetworkError(r) \/ Finish(r) \/ ServerError(r) \/ TooMany(r) \/ TooManyGlobal(r)
Run(r) == Call(r) \/ PassLock(r) \/ Send(r) \/ Unblock(r) \/ DelayOver(r) \/ Answer(r)
Next == (\E r \in Requests : Run(r)) \/ (\E o \in Requests : Reopen(o))

Spec == Init /\ [][Next]_vars

\* The event loop runs what is ready, timers fire, and every call ends (aiohttp gives up after
\* five minutes).  Nobody need call request().
FairSpec == Spec /\ (\A r \in Requests : WF_vars(Run(r) /\ pc[r] # "idle") /\ WF_vars(Reopen(r)))

-----------------------------------------------------------------------------
(***************************************************************************)
(* Properties                                                              *)
(***************************************************************************)
\* A request that has to wait for a permit waits for somebody: an empty semaphore has a holder
\* that is still between acquire() and release(), however often responses replaced it while
\* requests that took their permits from the old one were under way.
HolderIn(o) == \E q \in Requests : obj[q] = o /\ pc[q] \in Inside
WaiterHasHolder == \A r \in Requests :
    pc[r] = "sem" => val[obj[r]] = 0 /\ HolderIn(obj[r])

\* A request that waits for _lock is let out: while the bucket is closed, the one who closed it
\* is asleep in lock_for_duration(block=True), or is through and its _release() task is pending.
\* Nobody else's release() opens it, and nobody sleeps on a bucket that is open.
CloserKnown ==
    /\ \A o \in Requests : closer[o] # NoOne =>
         /\ obj[closer[o]] = o
         /\ pc[closer[o]] \in {"block", "returned", "raised"}
    /\ \A r \in Requests : pc[r] = "block" => closer[obj[r]] = r

\* No wake-up of a bucket is lost, neither that of its semaphore nor that of its lock: whoever waits
\* for one of them is owed it by a request, or a task, that is on its way to release it.
NoWakeUpLost == WaiterHasHolder /\ CloserKnown

\* acquire() lets through everybody on a BucketLock that has no semaphore yet.  Only the request
\* that created it can get there: once get_ratelimit hands the object to others, or a response
\* closed it, it has a semaphore, so nobody else gets around a closed bucket.
SharedHasSemaphore == \A o \in Requests :
    ~has[o] => closer[o] = NoOne /\ cached # o /\ \A q \in Requests : obj[q] = o => q = o

\* The inductive invariant: besides these, a semaphore without permits has a holder, only a
\* bucket with a semaphore has waiters, and a request that goes on has an attempt left.
PermitOrHolder == \A o \in Requests : has[o] => val[o] > 0 \/ HolderIn(o)
WaiterHasSemaphore == \A r \in Requests : pc[r] = "sem" => has[obj[r]]
AttemptsLeft == \A r \in Requests : pc[r] # "none" => attempt[r] < MaxAttempts
IInv ==
    /\ TypeOK
    /\ AttemptsLeft
    /\ PermitOrHolder
    /\ WaiterHasSemaphore
    /\ WaiterHasHolder
    /\ CloserKnown
    /\ SharedHasSemaphore

\* http_client.py:100 "Manages the rate limit for each bucket" and README.md:27 "Proper
\* rate-limit handling": a request ends, whatever the server answers.
RequestsEnd == \A r \in Requests : pc[r] # "idle" ~> pc[r] \in Ended

\* Whatever the server answers, and however often buckets are closed, a request ends or has
\* been orphaned: nothing but the replacement of a semaphore keeps one waiting.
EndsOrOrphaned == \A r \in Requests : pc[r] # "idle" ~> pc[r] \in Ended \cup {"orphan"}

\* A closed bucket is reopened, also when the request that closed it has ended: its detached
\* task does it.
BucketReopens == \A o \in Requests : closer[o] # NoOne ~> closer[o] = NoOne

\* Both: neither a request nor a bucket is stuck.
NobodyStuck == EndsOrOrphaned /\ BucketReopens
=============================================================================

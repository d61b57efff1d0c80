----------------------------- MODULE GlobalLock -----------------------------
(***************************************************************************)
(* The global rate limit of the REST client: class GlobalLock of           *)
(* Interfluxer/api/http/http_client.py, and how HTTPClient.request uses it.*)
(*                                                                         *)
(* Time is counted in ticks, Window of them to the second of reset_calls,  *)
(* and every time is kept relative to now: resetIn is what is left until   *)
(* _reset_time, 0 once it has passed.  wait() is one action up to the      *)
(* sleep and one after it.  Tasks call wait() over and over; Spec has no   *)
(* last tick.                                                              *)
(***************************************************************************)
EXTENDS Naturals, Sequences, SequencesExt

CONSTANTS
    Tasks,         \* tasks that make requests
    NoOne,         \* the lock is free
    MaxRequests,   \* max_requests
    Window,        \* ticks in the second of reset_calls
    Delays         \* retry_after of a global 429, in ticks

NoOneAssumption == NoOne \notin Tasks
NumbersAssumption == 
    MaxRequests \in Nat \ {0} /\ Window \in Nat \ {0} /\ Delays \subseteq Nat \ {0}

VARIABLES
    pc,        \* task -> where it is
    queue,     \* the tasks that wait for _lock, in order
    holder,    \* the task that sleeps inside _lock, or NoOne
    sleepIn,   \* ticks until it wakes
    calls,     \* _calls
    resetIn,   \* ticks until _reset_time
    pause,     \* ticks left of the last retry_after that came while nobody slept in wait()
    recent,    \* how many ticks ago each call of the last second was let through, the last one first
    since      \* ticks since the last global 429, Window for that many or more

vars == <<pc, queue, holder, sleepIn, calls, resetIn, pause, recent, since>>

Times == (0 .. Window) \cup UNION {0 .. d : d \in Delays}    \* no time is further ahead

TypeOK ==
    /\ pc \in [Tasks -> {"idle", "queued", "asleep", "calling"}]
    /\ queue \in Seq(Tasks) /\ IsInjective(queue)
    /\ {queue[i] : i \in DOMAIN queue} = {t \in Tasks : pc[t] = "queued"}
    /\ holder \in Tasks \cup {NoOne}
    /\ \A t \in Tasks : pc[t] = "asleep" <=> holder = t
    /\ calls \in 0 .. MaxRequests
    /\ {sleepIn, resetIn, pause} \subseteq Times
    /\ recent \in Seq(0 .. Window - 1)
    /\ since \in 0 .. Window

Init ==
    /\ pc = [t \in Tasks |-> "idle"]
    /\ queue = <<>> /\ holder = NoOne /\ sleepIn = 0
    /\ calls = MaxRequests /\ resetIn = 0
    /\ pause = 0 /\ recent = <<>> /\ since = Window

-----------------------------------------------------------------------------
\* Mutant: the next reset is not put off.
ResetCallsOnly == calls' = MaxRequests - 1 /\ resetIn' = resetIn

\* reset_calls, and the call that was waited for.
ResetCalls == calls' = MaxRequests - 1 /\ resetIn' = Window

\* t leaves wait() and makes its call.
LetThrough(t) ==
    /\ pc' = [pc EXCEPT ![t] = "calling"]
    /\ recent' = <<0>> \o recent
    /\ UNCHANGED <<sleepIn, pause, since>>

\* wait() by t, which has _lock: the period is over, or its calls are used up, or neither.
Body(t) ==
    \/ /\ resetIn = 0
       /\ ResetCalls /\ LetThrough(t)
       /\ UNCHANGED holder
    \/ /\ resetIn > 0 /\ calls = 0
       /\ pc' = [pc EXCEPT ![t] = "asleep"]
       /\ holder' = t /\ sleepIn' = resetIn
       /\ UNCHANGED <<calls, resetIn, pause, recent, since>>
    \/ /\ resetIn > 0 /\ calls > 0
       /\ calls' = calls - 1 /\ LetThrough(t)
       /\ UNCHANGED <<holder, resetIn>>

\* Mutant: _lock is only looked at.
WaitUnlocked(t) ==
    /\ pc[t] = "idle"
    /\ Body(t)
    /\ UNCHANGED queue

\* wait() is called, and _lock is free and nobody waits for it, or t joins the queue.
Wait(t) ==
    /\ pc[t] = "idle"
    /\ IF holder = NoOne /\ queue = <<>>
         THEN Body(t) /\ UNCHANGED queue
         ELSE /\ queue' = Append(queue, t)
              /\ pc' = [pc EXCEPT ![t] = "queued"]
              /\ UNCHANGED <<holder, sleepIn, calls, resetIn, pause, recent, since>>

\* Mutant: the last of the queue gets _lock.
AcquireLast(t) ==
    /\ queue # <<>> /\ Last(queue) = t /\ holder = NoOne
    /\ queue' = Front(queue)
    /\ Body(t)

\* The first of the queue gets _lock.
Acquire(t) ==
    /\ queue # <<>> /\ Head(queue) = t /\ holder = NoOne
    /\ queue' = Tail(queue)
    /\ Body(t)

\* The sleep is over: the calls are reset whatever happened meanwhile, and _lock is released.
Wake(t) ==
    /\ holder = t /\ sleepIn = 0
    /\ holder' = NoOne
    /\ ResetCalls /\ LetThrough(t)
    /\ UNCHANGED queue

\* Mutant: the calls left in the period are not taken away.
ResetTimeOnly(d) == calls' = calls /\ resetIn' = d

\* set_reset_time
SetResetTime(d) == calls' = 0 /\ resetIn' = d

\* request(): the call is answered, perhaps by a global 429, which calls set_reset_time.
Answer(t) ==
    /\ pc[t] = "calling"
    /\ pc' = [pc EXCEPT ![t] = "idle"]
    /\ \/ UNCHANGED <<calls, resetIn, pause, since>>
       \/ \E d \in Delays :
            /\ SetResetTime(d)
            /\ pause' = IF holder = NoOne THEN d ELSE pause
            /\ since' = 0
    /\ UNCHANGED <<queue, holder, sleepIn, recent>>

\* A tick of the clock.
Before(n) == IF n = 0 THEN 0 ELSE n - 1
Tick ==
    /\ sleepIn' = Before(sleepIn) /\ resetIn' = Before(resetIn) /\ pause' = Before(pause)
    /\ recent' = [i \in {j \in DOMAIN recent : recent[j] < Window - 1} |-> recent[i] + 1]
    /\ since' = IF since = Window THEN Window ELSE since + 1
    /\ UNCHANGED <<pc, queue, holder, calls>>

Task(t) == Wait(t) \/ Acquire(t) \/ Wake(t) \/ Answer(t)
Next == Tick \/ \E t \in Tasks : Task(t)

Spec == Init /\ [][Next]_vars

\* Time passes and the event loop runs what is ready; nobody need make another request.
FairSpec == Spec /\ WF_vars(Tick) /\ \A t \in Tasks : WF_vars(Acquire(t)) /\ WF_vars(Wake(t))

-----------------------------------------------------------------------------
(***************************************************************************)
(* Properties                                                              *)
(***************************************************************************)
\* However the calls fall into the periods, no second sees more than two periods' worth of
\* them: the end of one and the start of the next.  (A global 429 may cut a period short with
\* its retry_after: a second in which one was answered is left out, whatever it was.)
BurstBounded ==
    since = Window => Len(recent) <= 2 * MaxRequests

\* Every task that waits is let through, whatever 429 arrives meanwhile and however often the
\* others come back for more.
Waits(t) == pc[t] \in {"queued", "asleep"}
Through(t) == pc[t] = "calling"
Served(t) == Waits(t) ~> Through(t)
WaitEnds == \A t \in Tasks : Served(t)

\* After a global 429 wait() lets nobody through until its retry_after is over, whoever asks and
\* however many queue.  (Unless a task slept in wait() when it came: that one's reset_calls
\* wipes the new reset time out, http_client.py:94.)
PauseKept == [][\A t \in Tasks : pc[t] # "calling" /\ pc'[t] = "calling" => pause = 0]_vars
=============================================================================

------------------------------- MODULE Tasks -------------------------------
(***************************************************************************)
(* A background task and its triggers: class Task of                       *)
(* Interfluxer/models/internal/tasks/task.py, and IntervalTrigger,         *)
(* DateTrigger and OrTrigger of triggers.py.                               *)
(*                                                                         *)
(* start() makes an asyncio task of _task_loop; the Loops are those.  Time *)
(* is counted in ticks and kept relative to now: a loop knows in how many  *)
(* ticks it fires, a trigger how long ago its last_call_time was.  A loop  *)
(* runs in one action from one asyncio.wait to the next.                   *)
(***************************************************************************)
EXTENDS Integers, FiniteSets, Sequences, FiniteSetsExt

CONSTANTS
    Loops,        \* asyncio tasks of _task_loop
    NoOne,        \* no loop
    Triggers,     \* the triggers a callback may return, and the one the task begins with
    MaxLag,       \* bound: ticks a loop may run behind its fire time
    MaxRunning,   \* bound: callbacks under way at once
    Far           \* bound: ticks after which a time is only long ago

\* A trigger: its kind, and the intervals of an "interval" or of both parts of an "or", or
\* the time until the target of a "date".
TriggersAssumption ==
    /\ \A t \in Triggers : t.kind \in {"interval", "date", "or"} /\ t.per \in Seq(Nat \ {0})
    /\ \A t \in Triggers : Len(t.per) = IF t.kind = "or" THEN 2 ELSE 1
NumbersAssumption ==
    /\ MaxLag \in Nat /\ MaxRunning \in Nat \ {0} /\ Far \in Nat
    /\ \A t \in Triggers : \A i \in DOMAIN t.per : Far >= 2 * t.per[i] + MaxLag
NoOneAssumption == NoOne \notin Loops

VARIABLES
    trigger,   \* self.trigger
    age,       \* ticks since its last_call_time
    parts,     \* ticks since the last_call_time of each part of an "or"; since a "date" was made
    stopped,   \* is _stop set?
    task,      \* self.task, or NoOne
    st,        \* loop -> "none" (or ended), "new" (not begun), "wait" (in asyncio.wait)
    due,       \* loop -> ticks until the fire time it waits for
    told,      \* loops whose _stop.wait() has ended
    killed,    \* loops that cancel() was called on
    running,   \* callbacks under way
    twice,     \* was start() called on a running task?
    credit,    \* of an interval started once: ticks since start(), less the intervals fired for
    fired      \* of a date: how often it has fired, up to 2

loopVars == <<st, due, told, killed>>
vars == <<trigger, age, parts, stopped, task, loopVars, running, twice, credit, fired>>

TypeOK ==
    /\ trigger \in Triggers
    /\ age \in 0 .. Far /\ parts \in [DOMAIN trigger.per -> 0 .. Far]
    /\ {stopped, twice} \subseteq BOOLEAN
    /\ task \in Loops \cup {NoOne}
    /\ st \in [Loops -> {"none", "new", "wait"}]
    /\ due \in [Loops -> (-Far) .. Far]
    /\ told \subseteq Loops /\ killed \subseteq Loops
    /\ running \in 0 .. MaxRunning
    /\ credit \in (-Far) .. Far /\ fired \in 0 .. 2

Init ==
    /\ trigger \in Triggers
    /\ age = 0 /\ parts = [i \in DOMAIN trigger.per |-> 0]
    /\ stopped = FALSE /\ task = NoOne
    /\ st = [l \in Loops |-> "none"] /\ due = [l \in Loops |-> 0]
    /\ told = {} /\ killed = {}
    /\ running = 0 /\ twice = FALSE /\ credit = 0 /\ fired = 0

-----------------------------------------------------------------------------
Counting == trigger.kind = "interval" /\ ~twice
Live(l) == st[l] # "none" /\ l \notin killed

Abs(n) == IF n < 0 THEN -n ELSE n

\* Mutant: the first part is always the current one.
FirstPart(a, p) == 1

\* OrTrigger._set_current_trigger, for a trigger of age a and parts p: the part whose next fire
\* is nearest to its own last_call_time, the first of two.
Current(a, p) ==
    LET Delta(i) == Abs(trigger.per[i] - p[i] + a)
    IN  IF Delta(1) <= Delta(Len(p)) THEN 1 ELSE Len(p)

\* Mutant: a target that has just been reached is still ahead.
NeverLate(p) == trigger.kind = "date" /\ p[1] > trigger.per[1]

\* next_fire: in how many ticks, or never.
Never(p) == trigger.kind = "date" /\ p[1] >= trigger.per[1]
NextFire(a, p) ==
    IF trigger.kind = "interval" THEN trigger.per[1] - a
    ELSE trigger.per[Current(a, p)] - p[Current(a, p)]

\* Mutant: nothing is cancelled.
TellOnly(ls) ==
    /\ told' = (told \cap ls) \cup {l \in ls : st[l] = "wait"}
    /\ UNCHANGED killed

\* stop(), with the loops ls there: _stop is set, which ends every _stop.wait(), and self.task
\* is cancelled.
TellAndCancel(ls) ==
    /\ told' = (told \cap ls) \cup {l \in ls : st[l] = "wait"}
    /\ killed' = killed \cup {l \in ls : l = task /\ st[l] # "none"}

\* Mutant: while True.
TopForever(l, a, p) ==
    /\ ~Never(p)
    /\ st' = [st EXCEPT ![l] = "wait"]
    /\ due' = [due EXCEPT ![l] = NextFire(a, p)]
    /\ told' = told \ {l}
    /\ UNCHANGED <<stopped, killed>>

\* The top of the loop of l, when the trigger has age a and parts p: it ends, by stop() if
\* there is no next fire time, or waits for the next one.
Top(l, a, p) ==
    \/ /\ stopped
       /\ st' = [st EXCEPT ![l] = "none"]
       /\ due' = [due EXCEPT ![l] = 0]
       /\ told' = told \ {l}
       /\ UNCHANGED <<stopped, killed>>
    \/ /\ ~stopped /\ Never(p)
       /\ st' = [st EXCEPT ![l] = "none"]
       /\ due' = [due EXCEPT ![l] = 0]
       /\ stopped' = TRUE /\ TellAndCancel(Loops \ {l})
    \/ /\ ~stopped /\ ~Never(p)
       /\ st' = [st EXCEPT ![l] = "wait"]
       /\ due' = [due EXCEPT ![l] = NextFire(a, p)]
       /\ told' = told \ {l}
       /\ UNCHANGED <<stopped, killed>>

\* The first step of _task_loop.
Begin(l) ==
    /\ st[l] = "new" /\ l \notin killed
    /\ Top(l, age, parts)
    /\ UNCHANGED <<trigger, age, parts, task, running, twice, credit, fired>>

\* Mutant: last_call_time is when the loop got to run.
FiredNow(l) == 0

\* Mutant: the difference is taken the other way round.
FiredAhead(l) == due[l]

\* set_last_call_time(fire_time): however late the loop is.
Fired(l) == -due[l]

\* The time is up: _fire, and back to the top.  (Also when _stop.wait() ends in the same turn of
\* the event loop, and is the later of the two.)
Fire(l) ==
    /\ st[l] = "wait" /\ due[l] <= 0 /\ l \notin killed
    /\ running < MaxRunning
    /\ running' = running + 1
    /\ age' = IF trigger.kind = "or" THEN age ELSE Fired(l)
    /\ parts' = IF trigger.kind = "or" THEN [parts EXCEPT ![Current(age, parts)] = Fired(l)]
                                       ELSE parts
    /\ credit' = IF Counting THEN credit - trigger.per[1] ELSE credit
    /\ fired' = IF trigger.kind = "date" THEN Min({2, fired + 1}) ELSE fired
    /\ Top(l, age', parts')
    /\ UNCHANGED <<trigger, task, twice>>

\* _stop.wait() has ended: the loop returns.
Told(l) ==
    /\ st[l] = "wait" /\ l \in told /\ l \notin killed
    /\ st' = [st EXCEPT ![l] = "none"]
    /\ due' = [due EXCEPT ![l] = 0]
    /\ told' = told \ {l}
    /\ UNCHANGED <<trigger, age, parts, stopped, task, killed, running, twice, credit, fired>>

\* CancelledError.
Cancelled(l) ==
    /\ st[l] # "none" /\ l \in killed
    /\ st' = [st EXCEPT ![l] = "none"]
    /\ due' = [due EXCEPT ![l] = 0]
    /\ told' = told \ {l} /\ killed' = killed \ {l}
    /\ UNCHANGED <<trigger, age, parts, stopped, task, running, twice, credit, fired>>

-----------------------------------------------------------------------------
\* BaseTrigger.reschedule
AgeAtStart == 0

\* What start() leaves: a new loop l, which has not begun.
NewLoop(l) ==
    /\ st[l] = "none"
    /\ st' = [st EXCEPT ![l] = "new"]
    /\ task' = l /\ stopped' = FALSE
    /\ age' = AgeAtStart /\ credit' = 0
    /\ UNCHANGED due

Start(l) ==
    /\ NewLoop(l)
    /\ twice' = (twice \/ \E m \in Loops : Live(m))
    /\ UNCHANGED <<trigger, parts, told, killed, running, fired>>

Stop ==
    /\ stopped' = TRUE /\ TellAndCancel(Loops)
    /\ UNCHANGED <<trigger, age, parts, task, st, due, running, twice, credit, fired>>

\* restart(): stop() and start().
Restart(l) ==
    /\ NewLoop(l) /\ TellAndCancel(Loops)
    /\ UNCHANGED <<trigger, parts, running, twice, fired>>

\* A callback ends or raises.
CallbackEnds ==
    /\ running > 0
    /\ running' = running - 1
    /\ UNCHANGED <<trigger, age, parts, stopped, task, loopVars, twice, credit, fired>>

\* A callback returns a trigger: reschedule(), whether the task was stopped meanwhile or not.
CallbackReturns(l) ==
    /\ running > 0
    /\ running' = running - 1
    /\ \E t \in Triggers : trigger' = t /\ parts' = [i \in DOMAIN t.per |-> 0]
    /\ NewLoop(l) /\ TellAndCancel(Loops)
    /\ fired' = 0
    /\ UNCHANGED twice

\* Time passes; a loop does not run later than MaxLag.
Tick ==
    /\ \A l \in Loops : /\ Live(l) /\ st[l] = "wait" => due[l] > -MaxLag
                        /\ Live(l) /\ st[l] = "new" => age < MaxLag
    /\ age' = Min({Far, age + 1})
    /\ parts' = IF trigger.kind = "interval" THEN parts
                ELSE [i \in DOMAIN parts |-> Min({Far, parts[i] + 1})]
    /\ due' = [l \in Loops |-> IF Live(l) /\ st[l] = "wait" THEN due[l] - 1 ELSE due[l]]
    /\ credit' = IF Counting THEN Min({Far, credit + 1}) ELSE credit
    /\ UNCHANGED <<trigger, stopped, task, st, told, killed, running, twice, fired>>

Loop(l) == Begin(l) \/ Fire(l) \/ Told(l) \/ Cancelled(l)
User(l) == Start(l) \/ Restart(l) \/ CallbackReturns(l)
Next == Tick \/ Stop \/ CallbackEnds \/ \E l \in Loops : Loop(l) \/ User(l)

Spec == Init /\ [][Next]_vars

\* Time passes, the event loop runs what is ready, and callbacks end.
FairSpec == Spec /\ WF_vars(Tick) /\ WF_vars(CallbackEnds) /\ \A l \in Loops : WF_vars(Loop(l))

-----------------------------------------------------------------------------
(***************************************************************************)
(* Properties, for a task that is never started twice (restart() and       *)
(* reschedule() are for that).                                             *)
(***************************************************************************)
\* However start, stop, restart and triggers from callbacks follow each other while loops of
\* earlier starts are on their way out, only the loop of self.task goes on.
OneLoop == ~twice => \A l \in Loops : Live(l) => l = task

\* Nothing fires between a stop() and the next start().
StopHolds == [][\A l \in Loops : ~twice /\ Fire(l) => ~stopped]_vars

\* An interval is kept over any number of firings that come late: a task fires no more often
\* than every interval since its start, and makes up for the delays.
RateKept ==
    ~twice /\ trigger.kind = "interval" /\ task # NoOne /\ Live(task) =>
        credit \in 0 .. trigger.per[1] + MaxLag

\* A date fires once, restarts included.
DateOnce == ~twice /\ trigger.kind = "date" => fired <= 1

\* "Trigger a task when any sub-trigger is fulfilled": neither part of an "or" stays behind by
\* more than the loop does, even when the task was started long after the trigger was made.
Runs == task # NoOne /\ Live(task) /\ st[task] = "wait" /\ trigger.kind = "or" /\ ~twice
Behind == Runs /\ \E i \in 1 .. 2 : parts[i] > trigger.per[i] + MaxLag
BothPartsFire == Behind ~> ~Behind

\* After stop() every loop ends, those of earlier starts too, unless the task is started again.
AllEnded == \A l \in Loops : st[l] = "none"
StopEnds == stopped ~> ~stopped \/ AllEnded
=============================================================================

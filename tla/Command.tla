------------------------------ MODULE Command ------------------------------
(***************************************************************************)
(* One command invoked by concurrent tasks: BaseCommand.__call__ and       *)
(* _can_run (Interfluxer/models/internal/command.py) with MaxConcurrency   *)
(* (Interfluxer/models/internal/cooldowns.py).                             *)
(*                                                                         *)
(* MaxConcurrency keeps a semaphore per bucket key; which key a context    *)
(* has is asked again by acquire and by release.  Checks, callbacks and    *)
(* error handlers are the user's coroutines: they suspend, and end as they *)
(* like.  An action is what an invocation runs between two of them.        *)
(***************************************************************************)
EXTENDS Naturals, FiniteSets

CONSTANTS
    Invocations,  \* tasks that call the command
    Keys,         \* bucket keys: users, channels, roles, ...
    NoOne,        \* no invocation, no key
    Commands      \* the commands of this instance

\* A command, as it was declared: MaxConcurrency.concurrent and .wait, whether it is enabled,
\* whether a check may fail (it returns False or raises), and whether its bucket is
\* Buckets.ROLE, which makes the key of a context change with its author's roles.
CommandsAssumption ==
    Commands \subseteq [concurrent : Nat \ {0}, wait : BOOLEAN, enabled : BOOLEAN,
                       checked : BOOLEAN, byRole : BOOLEAN]
NoOneAssumption == NoOne \notin Invocations \cup Keys
KeysAssumption == IsFiniteSet(Keys)

VARIABLES
    cmd,    \* the command
    pc,     \* invocation -> where it is
    key,    \* invocation -> what Buckets.get_key answers now
    val,    \* key -> the value of its semaphore (one that does not exist yet is a new one)
    at      \* invocation -> the key whose semaphore it waits for or acquired, or NoOne

vars == <<cmd, pc, key, val, at>>

\* "checks": in a check; "waiting": in semaphore.acquire(); "granted": woken there;
\* "running": pre-run callbacks, callback, post-run callbacks; "handling": the error handler,
\* after any exception but MaxConcurrencyReached; "refused": the error handler after that.
Pcs == {"idle", "checks", "waiting", "granted", "running", "handling", "refused", "done"}

TypeOK ==
    /\ cmd \in Commands
    /\ pc \in [Invocations -> Pcs]
    /\ key \in [Invocations -> Keys]
    /\ val \in [Keys -> Nat]
    /\ at \in [Invocations -> Keys \cup {NoOne}]

Init ==
    /\ cmd \in Commands
    /\ pc = [i \in Invocations |-> "idle"]
    /\ key \in [Invocations -> Keys]
    /\ val = [k \in Keys |-> cmd.concurrent]
    /\ at = [i \in Invocations |-> NoOne]

-----------------------------------------------------------------------------
Waiting(k) == {i \in Invocations : pc[i] = "waiting" /\ at[i] = k}

\* Mutant: the waiting invocations are all there is to look at.
LockedByWaiting(k) == Waiting(k) # {}

\* asyncio.Semaphore.locked()
Locked(k) == val[k] = 0 \/ Waiting(k) # {}

\* Mutant: release() wakes nobody.
NoHeirs(k) == {NoOne}

\* MaxConcurrency.release, for the key the context has now: a waiting invocation gets the
\* permit, or the semaphore keeps it.
Heirs(k) == IF Waiting(k) = {} THEN {NoOne} ELSE Waiting(k)

Release(i) ==
    \E j \in Heirs(key[i]) :
        /\ pc' = [p \in Invocations |->
                     CASE p = i -> "done" [] p = j -> "granted" [] OTHER -> pc[p]]
        /\ val' = [val EXCEPT ![key[i]] = IF j = NoOne THEN @ + 1 ELSE @]
        /\ at' = [at EXCEPT ![i] = NoOne]

\* __call__: a disabled command is over at once, by way of "finally".
Start(i) ==
    /\ pc[i] = "idle"
    /\ \/ /\ cmd.enabled
          /\ pc' = [pc EXCEPT ![i] = "checks"]
          /\ UNCHANGED <<val, at>>
       \/ ~cmd.enabled /\ Release(i)
    /\ UNCHANGED <<cmd, key>>

\* _can_run: a check raises CommandCheckFailure, or an exception of its own.
CheckFails(i) ==
    /\ pc[i] = "checks" /\ cmd.checked
    /\ pc' = [pc EXCEPT ![i] = "handling"]
    /\ UNCHANGED <<cmd, key, val, at>>

\* _can_run, the checks passed: MaxConcurrency.acquire, and then the cooldown has a token or
\* CommandOnCooldown is raised.
ChecksPass(i) ==
    LET k == key[i]
    IN  /\ pc[i] = "checks"
        /\ \/ /\ ~Locked(k)
              /\ \E next \in {"running", "handling"} : pc' = [pc EXCEPT ![i] = next]
              /\ val' = [val EXCEPT ![k] = @ - 1]
              /\ at' = [at EXCEPT ![i] = k]
           \/ /\ Locked(k) /\ cmd.wait
              /\ pc' = [pc EXCEPT ![i] = "waiting"]
              /\ at' = [at EXCEPT ![i] = k]
              /\ UNCHANGED val
           \/ /\ Locked(k) /\ ~cmd.wait
              /\ pc' = [pc EXCEPT ![i] = "refused"]
              /\ UNCHANGED <<val, at>>
        /\ UNCHANGED <<cmd, key>>

\* The semaphore was handed over: on to the cooldown.
Resume(i) ==
    /\ pc[i] = "granted"
    /\ \E next \in {"running", "handling"} : pc' = [pc EXCEPT ![i] = next]
    /\ UNCHANGED <<cmd, key, val, at>>

\* The callbacks end, or raise.
Finish(i) ==
    /\ pc[i] = "running"
    /\ \/ Release(i)
       \/ pc' = [pc EXCEPT ![i] = "handling"] /\ UNCHANGED <<val, at>>
    /\ UNCHANGED <<cmd, key>>

\* Mutant: "finally" is for the callbacks only.
HandledQuietly(i) ==
    /\ pc[i] = "handling"
    /\ pc' = [pc EXCEPT ![i] = "done"] /\ at' = [at EXCEPT ![i] = NoOne]
    /\ UNCHANGED <<cmd, key, val>>

\* The error handler ends, or raises.
Handled(i) ==
    /\ pc[i] = "handling"
    /\ Release(i)
    /\ UNCHANGED <<cmd, key>>

\* Mutant: "finally" releases whatever the exception was.
RefusedReleases(i) ==
    /\ pc[i] = "refused"
    /\ Release(i)
    /\ UNCHANGED <<cmd, key>>

\* After MaxConcurrencyReached nothing is released.
Refused(i) ==
    /\ pc[i] = "refused"
    /\ pc' = [pc EXCEPT ![i] = "done"]
    /\ UNCHANGED <<cmd, key, val, at>>

\* get_key of Buckets.ROLE reads the author's top role, which changes under a running command.
Move(i) ==
    /\ cmd.byRole /\ pc[i] \notin {"idle", "done"}
    /\ \E k \in Keys \ {key[i]} : key' = [key EXCEPT ![i] = k]
    /\ UNCHANGED <<cmd, pc, val, at>>

Step(i) == \/ Start(i) \/ CheckFails(i) \/ ChecksPass(i) \/ Resume(i)
           \/ Finish(i) \/ Handled(i) \/ Refused(i)
Next == \E i \in Invocations : Step(i) \/ Move(i)

Spec == Init /\ [][Next]_vars

\* The user's checks, callbacks and handlers end.
FairSpec == Spec /\ \A i \in Invocations : WF_vars(Step(i) /\ pc[i] # "idle")

-----------------------------------------------------------------------------
(***************************************************************************)
(* Properties                                                              *)
(***************************************************************************)
Holding == {i \in Invocations : pc[i] \in {"granted", "running", "handling"}}
Holders(k) == {i \in Holding : at[i] = k}
Permits == UNION {{k} \X (1..val[k]) : k \in Keys}

\* No slot is lost: whatever raises where (a check, the cooldown, a callback, the handler), the
\* permits of a semaphore and those who hold one add up to the limit at least, so a command
\* never ends up refusing everybody.
NoSlotLost == ~cmd.byRole => \A k \in Keys : val[k] + Cardinality(Holders(k)) >= cmd.concurrent

\* An invocation that waits for its turn gets it.
Waits(i) == ~cmd.byRole /\ pc[i] = "waiting"
Served(i) == Waits(i) ~> ~Waits(i)
WaitingRuns == \A i \in Invocations : Served(i)

\* Whoever waits for a slot is owed one: the semaphore is empty, and held by an invocation that will
\* release it.
WaiterHasHolder == ~cmd.byRole => \A k \in Keys : Waiting(k) # {} => val[k] = 0 /\ Holders(k) # {}

\* With checks that pass, an enabled command and keys that stay, no slot is made up either:
\* neither CommandOnCooldown nor MaxConcurrencyReached nor an error of the callback gives back
\* a permit that was not taken.
SlotsConserved ==
    cmd.enabled /\ ~cmd.checked /\ ~cmd.byRole =>
        \A k \in Keys : val[k] + Cardinality(Holders(k)) = cmd.concurrent

\* Even when keys change under running commands (Buckets.ROLE), permits only go astray: one
\* bucket gets what another loses, and there are never more of them altogether.
TotalConserved ==
    cmd.enabled /\ ~cmd.checked =>
        Cardinality(Permits) + Cardinality(Holding) = cmd.concurrent * Cardinality(Keys)

\* cooldowns.py:475 "Limits how many instances of a command may be running concurrently",
\* :479 "concurrent int: The maximum number of concurrent instances permitted to".
AtMostConcurrent == \A k \in Keys :
    Cardinality({i \in Invocations : at[i] = k /\ pc[i] = "running"}) <= cmd.concurrent
=============================================================================

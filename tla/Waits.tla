------------------------------- MODULE Waits -------------------------------
(***************************************************************************)
(* wait_for and _process_waits of Client (Interfluxer/client/client.py)    *)
(* with Wait (models/internal/wait.py), for one event name: a list of      *)
(* waits, each with a check and a future, and a task for every event that  *)
(* goes through the list and pops what is settled at the end.              *)
(*                                                                         *)
(* The event loop runs one task at a time, until it ends or suspends.      *)
(* Only an async check suspends _process_waits, so without one an event    *)
(* is handled at one go; with one, tasks of two events share the list.     *)
(***************************************************************************)
EXTENDS Naturals, Sequences, SequencesExt

CONSTANTS
    Waits,        \* calls of wait_for
    NoEvent,      \* no task is running
    NoWait,       \* no check is awaited
    MaxEvents     \* bound: events that are dispatched

NoneAssumption == NoEvent \notin Nat /\ NoWait \notin Waits

VARIABLES
    slow,       \* the waits whose check is a coroutine function
    waits,      \* Client.waits[event]
    future,     \* wait -> "none", "pending", "result", "error", "cancelled"
    tasks,      \* the tasks of _process_waits, in the order of their events; owed is history:
                \* the waits that were pending when the task began and were not asked yet
    current,    \* the task that is running, between two suspensions
    overlap,    \* history: a task or a timeout came in between at an async check
    missed      \* history: pending waits that an event has passed by without asking them

vars == <<slow, waits, future, tasks, current, overlap, missed>>

Events == DOMAIN tasks
Under(pc) == {e \in Events : tasks[e].pc = pc}

-----------------------------------------------------------------------------
\* Between two tasks: calls of wait_for and dispatch, and timeouts of asyncio.wait_for.

wait_for(w) ==
    /\ current = NoEvent /\ future[w] = "none"
    /\ future' = [future EXCEPT ![w] = "pending"]
    /\ waits' = Append(waits, w)
    /\ UNCHANGED <<slow, tasks, current, overlap, missed>>

dispatch ==
    /\ current = NoEvent /\ Len(tasks) < MaxEvents
    /\ tasks' = Append(tasks, [pc |-> "new", at |-> 1, wait |-> NoWait, found |-> {}, owed |-> {}])
    /\ UNCHANGED <<slow, waits, future, current, overlap, missed>>

TimesOut(w) ==
    /\ current = NoEvent /\ future[w] = "pending"
    /\ future' = [future EXCEPT ![w] = "cancelled"]
    /\ overlap' = (overlap \/ \E e \in Under("checks") : tasks[e].wait = w)
    /\ UNCHANGED <<slow, waits, tasks, current, missed>>

-----------------------------------------------------------------------------
\* _process_waits of event e

Begins(e) ==
    /\ current = NoEvent /\ tasks[e].pc = "new" /\ \A f \in 1..(e - 1) : tasks[f].pc # "new"
    /\ tasks' = [tasks EXCEPT ![e].pc = "runs",
                              ![e].owed = {w \in ToSet(waits) : future[w] = "pending"}]
    /\ current' = e
    /\ overlap' = (overlap \/ Under("checks") # {})
    /\ UNCHANGED <<slow, waits, future, missed>>

GoesOn(e, to, found, w) ==
    /\ tasks' = [tasks EXCEPT ![e].pc = "runs", ![e].wait = NoWait, ![e].at = to, ![e].found = found,
                              ![e].owed = @ \ {w}]
    /\ current' = e
    /\ UNCHANGED missed

Ends(e, w) ==
    /\ tasks' = [tasks EXCEPT ![e] = [pc |-> "over", at |-> 0, wait |-> NoWait, found |-> {}, owed |-> {}]]
    /\ current' = NoEvent
    /\ missed' = missed \cup {v \in tasks[e].owed \ {w} : future[v] = "pending"}

\* Mutant: the first wait takes the event away from the others.
SettlesOne(e, w) ==
    \/ /\ future[w] = "pending"
       /\ \E outcome \in {"result", "error"} : future' = [future EXCEPT ![w] = outcome]
       /\ GoesOn(e, Len(waits) + 1, tasks[e].found \cup {tasks[e].at}, w)
    \/ future[w] # "pending" /\ Ends(e, w) /\ UNCHANGED future

\* Wait.__call__ once its check returned True or raised: set_result and set_exception raise
\* InvalidStateError on a future that is done, which ends the task and pops nothing.
Settles(e, w) ==
    \/ /\ future[w] = "pending"
       /\ \E outcome \in {"result", "error"} : future' = [future EXCEPT ![w] = outcome]
       /\ GoesOn(e, tasks[e].at + 1, tasks[e].found \cup {tasks[e].at}, w)
    \/ future[w] # "pending" /\ Ends(e, w) /\ UNCHANGED future

\* The check returned True or raised, or it returned False.
Checked(e, w) ==
    \/ Settles(e, w)
    \/ GoesOn(e, tasks[e].at + 1, tasks[e].found, w) /\ UNCHANGED future

\* The next wait of the list, whichever stands there by now.
Looks(e) ==
    /\ current = e /\ tasks[e].at <= Len(waits)
    /\ LET w == waits[tasks[e].at] IN
       \/ /\ future[w] = "cancelled"
          /\ GoesOn(e, tasks[e].at + 1, tasks[e].found \cup {tasks[e].at}, w) /\ UNCHANGED future
       \/ /\ future[w] # "cancelled" /\ w \in slow
          /\ tasks' = [tasks EXCEPT ![e].pc = "checks", ![e].wait = w]
          /\ current' = NoEvent /\ UNCHANGED <<future, missed>>
       \/ future[w] # "cancelled" /\ w \notin slow /\ Checked(e, w)
    /\ UNCHANGED <<slow, waits, overlap>>

\* An async check has ended; its wait may have been popped and settled meanwhile.
CheckEnds(e) ==
    /\ current = NoEvent /\ tasks[e].pc = "checks"
    /\ Checked(e, tasks[e].wait)
    /\ UNCHANGED <<slow, waits, overlap>>

\* Mutant: the indexes are popped in the order they were found.
PoppedInOrder(list, found) ==
    FoldLeft(LAMBDA acc, i : IF i <= Len(acc) THEN RemoveAt(acc, i) ELSE acc,
             list, SetToSortSeq(found, <))

\* The numbers of S from the lowest to the highest.
Rising(S) == CHOOSE f \in [1 .. Cardinality(S) -> S] : \A i, j \in DOMAIN f : i < j => f[i] < f[j]

\* waits.pop, the highest index first: the others keep their place.
Popped(list, found) ==
    LET kept == Rising(DOMAIN list \ found)
    IN  [i \in DOMAIN kept |-> list[kept[i]]]

\* The end of the list: IndexError when it has become shorter than the highest index found.
Pops(e) ==
    /\ current = e /\ tasks[e].at > Len(waits)
    /\ waits' = IF tasks[e].found \subseteq DOMAIN waits THEN Popped(waits, tasks[e].found) ELSE waits
    /\ Ends(e, NoWait)
    /\ UNCHANGED <<slow, future, overlap>>

-----------------------------------------------------------------------------

Init ==
    /\ slow \in SUBSET Waits
    /\ waits = <<>> /\ future = [w \in Waits |-> "none"]
    /\ tasks = <<>> /\ current = NoEvent /\ overlap = FALSE /\ missed = {}

Task(e) == Begins(e) \/ Looks(e) \/ CheckEnds(e) \/ Pops(e)

Next ==
    \/ \E w \in Waits : wait_for(w) \/ TimesOut(w)
    \/ dispatch
    \/ \E e \in Events : Task(e)

Spec == Init /\ [][Next]_vars

-----------------------------------------------------------------------------

TypeOK ==
    /\ waits \in Seq(Waits) /\ current \in Events \cup {NoEvent} /\ slow \subseteq Waits
    /\ future \in [Waits -> {"none", "pending", "result", "error", "cancelled"}]
    /\ tasks \in Seq([pc : {"new", "runs", "checks", "over"}, at : Nat, wait : Waits \cup {NoWait},
                      found : SUBSET Nat, owed : SUBSET Waits])
    /\ overlap \in BOOLEAN /\ missed \subseteq Waits
    /\ \A e \in Events : tasks[e].pc = "checks" => tasks[e].wait \in slow

\* Unless something came in between at an async check: an event asks every wait that was
\* pending when its task began, in whatever order waits come, time out and are popped ...
EventReaches == ~overlap => missed = {}

\* ... and the list holds every wait that is pending, once, and none that got an event; such a
\* one would raise InvalidStateError at every later event and hide it from those behind it.
ListExact ==
    ~overlap /\ current = NoEvent /\ Under("checks") = {} =>
        /\ IsInjective(waits)
        /\ \A w \in Waits : future[w] = "pending" => w \in ToSet(waits)
        /\ \A w \in ToSet(waits) : future[w] \in {"pending", "cancelled"}

\* client.py:838 "Waits for a WebSocket event to be dispatched.": a wait that is pending is in
\* the list that events are compared with.
StillListed == \A w \in Waits : future[w] = "pending" => w \in ToSet(waits)
=============================================================================

----------------------------- MODULE Cooldowns -----------------------------
(***************************************************************************)
(* The cooldown strategies of Interfluxer/models/internal/cooldowns.py:    *)
(* CooldownSystem ("fixed"), SlidingWindowSystem ("sliding"),              *)
(* ExponentialBackoffSystem ("backoff"), LeakyBucketSystem ("leaky") and   *)
(* TokenBucketSystem ("burst"), one object of one of them at a time.       *)
(*                                                                         *)
(* Time is counted in ticks; opened is kept as its age, and an age of Far  *)
(* stands for everything long past, opened = 0.0 among it.                 *)
(***************************************************************************)
EXTENDS Integers, Sequences, FiniteSetsExt

CONSTANTS
    Rate,          \* rate
    Interval,      \* interval, as __init__ is given it
    MaxInterval,   \* max_interval (backoff)
    Multiplier,    \* multiplier (backoff)
    BurstRate      \* burst_rate (burst)

Strategies == {"fixed", "sliding", "backoff", "leaky", "burst"}

\* __init__ raises ValueError on a zero rate or interval.
NumbersAssumption ==
    /\ {Rate, Interval, Multiplier} \subseteq Nat \ {0}
    /\ {MaxInterval, BurstRate} \subseteq Nat

VARIABLES
    system,     \* which strategy it is
    tokens,     \* _tokens
    age,        \* ticks since opened
    interval,   \* interval
    recent      \* how many ticks ago each token of the last Interval was acquired, the last one
                \* first: timestamps, and history for the others

vars == <<system, tokens, age, interval, recent>>

\* Longer ago than any interval, and long enough for a bucket to have filled up.
Far == (Rate + BurstRate) * Interval + Multiplier * Max({Interval, MaxInterval}) + 1

TypeOK ==
    /\ system \in Strategies
    /\ tokens \in 0 .. Max({Rate, BurstRate})
    /\ age \in 0 .. Far
    /\ interval \in Nat \ {0}
    /\ recent \in Seq(0 .. Interval)

Init ==
    /\ system \in Strategies
    /\ tokens = Rate /\ age = Far /\ interval = Interval
    /\ recent = << >>

-----------------------------------------------------------------------------
\* What determine_cooldown leaves: t tokens, opened a ticks ago, interval i.
State(t, a, i) == [tokens |-> t, age |-> a, interval |-> i]

\* Mutant: a bucket without a brim.
FilledOver(top, a) ==
    IF a \div interval >= 1 THEN State(tokens + a \div interval, 0, interval)
                            ELSE State(tokens, a, interval)

\* A bucket that holds up to top tokens gets one for every interval that has passed.
Filled(top, a) ==
    IF a \div interval >= 1 THEN State(Min({top, tokens + a \div interval}), 0, interval)
                            ELSE State(tokens, a, interval)

\* determine_cooldown, opened a ticks ago: over its interval a cooldown is reset.  _trim, for a
\* sliding window, forgets what is older than the interval; recent has only the rest.
Determined(a) ==
    CASE system = "fixed" -> IF a > interval THEN State(Rate, Far, interval)
                                             ELSE State(tokens, a, interval)
      [] system = "backoff" ->
           IF a > interval
             THEN State(Rate, Far, IF interval < MaxInterval THEN interval * Multiplier ELSE interval)
             ELSE State(tokens, a, interval)
      [] system = "leaky" -> Filled(Rate, a)
      [] system = "burst" -> Filled(BurstRate, a)
      [] system = "sliding" -> State(tokens, a, interval)

\* The tokens acquire_token would find d ticks from now: a sliding window has none as long as
\* Rate timestamps are not trimmed.
Available(d) ==
    IF system = "sliding"
      THEN IF Rate \in DOMAIN recent /\ recent[Rate] + d <= Interval THEN 0 ELSE 1
      ELSE Determined(Min({Far, age + d})).tokens

\* Mutant: the interval of __init__ is looked at.
TimeLeftAtFirst == IF system = "sliding" THEN Interval - recent[Len(recent)]
                   ELSE Interval - Determined(age).age

\* get_cooldown_time on a cooldown: until the interval, or the oldest timestamp, is over.
TimeLeft == IF system = "sliding" THEN Interval - recent[Len(recent)]
            ELSE Determined(age).interval - Determined(age).age

\* Mutant: opened is not set by the first token.
OpenedNot(d) == d.age

\* The age of opened after a token was taken from d: the first token opens the interval.
Opened(d) == IF d.tokens = Rate THEN 0 ELSE d.age

\* acquire_token
Acquire ==
    LET d == Determined(age)
    IN  \/ /\ Available(0) > 0
           /\ IF system = "sliding" THEN UNCHANGED <<tokens, age, interval>>
              ELSE /\ tokens' = d.tokens - 1
                   /\ age' = Opened(d)
                   /\ interval' = d.interval
           /\ recent' = << 0 >> \o recent
           /\ UNCHANGED system
        \/ /\ Available(0) = 0
           /\ tokens' = d.tokens /\ age' = d.age /\ interval' = d.interval
           /\ UNCHANGED <<system, recent>>

\* on_cooldown, get_cooldown_time
Query ==
    LET d == Determined(age)
    IN  /\ tokens' = d.tokens /\ age' = d.age /\ interval' = d.interval
        /\ UNCHANGED <<system, recent>>

\* reset: all is forgiven.
Reset ==
    /\ tokens' = Rate /\ age' = Far
    /\ recent' = << >>
    /\ UNCHANGED <<system, interval>>

\* Time passes.
Tick ==
    /\ age' = Min({Far, age + 1})
    /\ recent' = [i \in {j \in DOMAIN recent : recent[j] < Interval} |-> recent[i] + 1]
    /\ UNCHANGED <<system, tokens, interval>>

Next == Acquire \/ Query \/ Reset \/ Tick

Spec == Init /\ [][Next]_vars

-----------------------------------------------------------------------------
(***************************************************************************)
(* Properties                                                              *)
(***************************************************************************)
\* How many tokens a strategy really gives within its interval, wherever that starts: the rate
\* for a sliding window; the end of one interval and the start of the next for a fixed one; a
\* full bucket, and the token that falls into it meanwhile, for the two buckets.
RateBound ==
    CASE system = "sliding" -> Rate
      [] system \in {"fixed", "backoff"} -> 2 * Rate - 1
      [] system = "leaky" -> Rate + 1
      [] system = "burst" -> Max({Rate, BurstRate}) + 1
RateKept == Len(recent) <= RateBound

\* get_cooldown_time tells the truth: on a cooldown, a token is there once the time it answers
\* has passed, and not before, though asking may refill the bucket or lengthen the interval.
\* (Nothing refuses a burst_rate of zero, and that bucket is never filled again.)
WaitIsEnough == Available(0) = 0 /\ (system = "burst" => BurstRate > 0) =>
    /\ TimeLeft >= 0
    /\ Available(TimeLeft + 1) > 0
    /\ TimeLeft > 0 => Available(TimeLeft - 1) = 0
=============================================================================

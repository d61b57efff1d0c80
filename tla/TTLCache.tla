------------------------------ MODULE TTLCache ------------------------------
(***************************************************************************)
(* TTLCache (Interfluxer/client/utils/cache.py), the dictionary behind the *)
(* client's caches: entries have a time to live, and a soft and a hard     *)
(* limit say when the old ones are dropped.                                *)
(*                                                                         *)
(* The values play no part.  An OrderedDict is its keys in order; an       *)
(* expiry time is what is left until then, 0 once it has passed.  Reads    *)
(* that reset nothing (__getitem__, values, items) are no actions.         *)
(***************************************************************************)
EXTENDS Naturals, Sequences, SequencesExt, FiniteSetsExt

CONSTANTS
    Keys,   \* keys of the cache
    Ttl,    \* ttl, in ticks
    Soft,   \* soft_limit
    Hard    \* hard_limit

NumbersAssumption == Ttl \in Nat \ {0} /\ Soft \in Nat /\ Hard \in Nat \ {0}

VARIABLES
    order,   \* the keys, the least recently used first
    left,    \* key -> ticks until its entry expires
    raised   \* did the last operation end in StopIteration?

vars == <<order, left, raised>>

Held == ToSet(order)

TypeOK ==
    /\ order \in Seq(Keys) /\ IsInjective(order)
    /\ left \in [Keys -> 0 .. Ttl]
    /\ raised \in BOOLEAN

Init == order = <<>> /\ left = [k \in Keys |-> 0] /\ raised = FALSE

-----------------------------------------------------------------------------
\* __init__: the soft limit is not above the hard one.
SoftLimit == Min({Soft, Hard})

\* Mutant: the hard limit is not looked at.
OverflowNothing(s) == s

\* Mutant: one entry less than the hard limit.
OverflowAtLimit(s) == IF Len(s) < Hard THEN s ELSE SubSeq(s, Len(s) - Hard + 2, Len(s))

\* expire(): the last Hard entries stay.
Overflow(s) == IF Len(s) <= Hard THEN s ELSE SubSeq(s, Len(s) - Hard + 1, Len(s))

\* Mutant: the first entry that expired ends the loop.
FirstFreshOne(s) == {1} \cap DOMAIN s

\* The entries that are not expired: the loop goes on to the first of them.
Fresh(s) == {i \in DOMAIN s : left'[s[i]] > 0}

\* expire(), on the entries s: nothing happens up to the soft limit.  A cache that is emptied
\* has no first item, and next() raises StopIteration.
Expire(s) ==
    \/ /\ SoftLimit # 0 /\ Len(s) <= SoftLimit
       /\ order' = s /\ raised' = FALSE
    \/ /\ SoftLimit = 0 \/ Len(s) > SoftLimit
       /\ LET o == Overflow(s)
          IN  IF Fresh(o) = {}
                THEN order' = <<>> /\ raised' = TRUE
                ELSE order' = SubSeq(o, Min(Fresh(o)), Len(o)) /\ raised' = FALSE

\* Mutant: an entry that is there keeps its place.
LatestInPlace(k) == IF k \in Held THEN order ELSE Append(order, k)

\* Mutant: the key is listed again.
LatestTwice(k) == Append(order, k)

\* The keys without k.
Others(k) == IF k \in Held THEN RemoveAt(order, CHOOSE i \in DOMAIN order : order[i] = k) ELSE order

\* super().__setitem__, move_to_end
Latest(k) == Append(Others(k), k)

\* __setitem__
Set(k) ==
    /\ left' = [left EXCEPT ![k] = Ttl]
    /\ Expire(Latest(k))

\* get() of a key that is there, which renews it, expired or not.
Get(k) ==
    /\ k \in Held
    /\ left' = [left EXCEPT ![k] = Ttl]
    /\ order' = Latest(k) /\ raised' = FALSE

\* pop(), del
Pop(k) ==
    /\ k \in Held
    /\ order' = Others(k) /\ raised' = FALSE
    /\ UNCHANGED left

\* expire(), called from outside.
ExpireNow == UNCHANGED left /\ Expire(order)

\* Time passes.
Tick ==
    /\ left' = [k \in Keys |-> IF left[k] = 0 THEN 0 ELSE left[k] - 1]
    /\ raised' = FALSE
    /\ UNCHANGED order

Next == (\E k \in Keys : Set(k) \/ Get(k) \/ Pop(k)) \/ ExpireNow \/ Tick

Spec == Init /\ [][Next]_vars

-----------------------------------------------------------------------------
(***************************************************************************)
(* Properties                                                              *)
(***************************************************************************)
\* expire() looks at the entries from the front and stops at the first that is not expired:
\* that is enough, because they stand in the order in which they expire, whatever was read,
\* replaced and popped in between.
SortedByExpiry == \A i, j \in DOMAIN order : i < j => left[order[i]] <= left[order[j]]

\* No sequence of operations exceeds the hard limit.
WithinHardLimit == Len(order) <= Hard

\* Of every step: a cache that still exceeds its soft limit after an insertion holds nothing expired, and the
\* entry just inserted is always there.
InsertionCleans == \A k \in Keys : Set(k) =>
    /\ k \in Held' /\ ~raised'
    /\ Len(order') > SoftLimit => \A q \in Held' : left'[q] > 0

\* Of every step: an entry is not lost before its time: one that disappears was popped, or expired, or had
\* to make room, being the least recently used of a cache that was full.
LostOnlyWhenDue == \A k \in Held \ Held' :
    \/ Pop(k)
    \/ left[k] = 0
    \/ Len(order) = Hard /\ k = Head(order) /\ Len(order') = Hard
=============================================================================

----------------------------- MODULE ShardStart -----------------------------
(***************************************************************************)
(* How an AutoShardedClient starts its shards and becomes ready: astart,   *)
(* login and _on_websocket_ready (Interfluxer/client/auto_shard_client.py) *)
(* with ConnectionState.start (api/gateway/state.py), the RESUMED of a     *)
(* shard and its reconnects.                                               *)
(*                                                                         *)
(* astart goes through the buckets of shards one after the other, and      *)
(* every READY has a handler of its own, from one await to the next.       *)
(* Members are not fetched here (see StartUp), and the pause of 5.1        *)
(* seconds between two shards is left out.                                 *)
(***************************************************************************)
EXTENDS Naturals, Sequences

CONSTANTS
    Shards,           \* shard ids
    Guilds, Home,     \* Home[g]: the shard of a guild, get_shard_id
    Concurrencies,    \* what max_concurrency may be
    MaxReady,         \* bound: READYs
    MaxFaults         \* bound: shards that fail to start, lose their connection or resume it

VARIABLES
    concurrency,  \* max_start_concurrency
    left,         \* shards of the bucket that astart is at, which it has not started
    buckets,      \* the shards of the buckets after that one
    launcher,     \* astart: "next", "shard" and "bucket" wait for _shard_ready, "over"
    seen,         \* the shards it saw ready in that wait
    shard,        \* shard -> "off", "connecting", "up", "down", "failed"
    shardReady,   \* the shards whose _shard_ready is set
    coming,       \* guilds whose GUILD_CREATE is on its way
    cached,       \* guild_cache
    guildEvent,   \* _guild_event
    ready, startup,
    handlers,     \* the calls of _on_websocket_ready
    faults,       \* bound: faults so far
    once          \* history: the shards whose _shard_ready has ever been set

launch == <<concurrency, left, buckets, launcher>>
flags == <<ready, startup>>
shards == <<shardReady, once>>
vars == <<launch, seen, shard, shards, coming, cached, guildEvent, flags, handlers, faults>>

Expected(s) == {g \in Guilds : Home[g] = s}

-----------------------------------------------------------------------------
\* astart

Lowest(set) == CHOOSE s \in set : \A t \in set : s <= t
Highest(set) == CHOOSE s \in set : \A t \in set : t <= s
\* The first bucket of those shards that are not started: shard_buckets keeps its keys in the order
\* in which the shards named them.
Bucket(set) == {s \in set : s % concurrency = Lowest(set) % concurrency}
Started == {s \in Shards : shard[s] # "off"}
Connecting(s) == shard' = [shard EXCEPT ![s] = "connecting"]

\* The next shard of the bucket, and whether it is waited for before another one starts.
StartsShard ==
    /\ launcher = "next" /\ left # {}
    /\ LET s == Lowest(left) IN
        /\ Connecting(s)
        /\ left' = left \ {s}
        /\ launcher' = IF concurrency = 1 THEN "shard" ELSE IF left' = {} THEN "bucket" ELSE "next"
    /\ seen' = shardReady
    /\ UNCHANGED <<concurrency, buckets, shards, coming, cached, guildEvent, flags, handlers, faults>>

\* shard._shard_ready.wait()
ShardSeen ==
    /\ launcher = "shard" /\ Highest(Started) \in seen
    /\ launcher' = IF left = {} THEN "bucket" ELSE "next"
    /\ seen' = shardReady
    /\ UNCHANGED <<concurrency, left, buckets, shard, shards, coming, cached, guildEvent, flags, handlers, faults>>

\* Every shard of the client is waited for, those of later buckets too.
BucketSeen ==
    /\ launcher = "bucket" /\ seen = Shards
    /\ IF buckets = {}
       THEN launcher' = "over" /\ UNCHANGED <<left, buckets>>
       ELSE launcher' = "next" /\ left' = Bucket(buckets) /\ buckets' = buckets \ left'
    /\ UNCHANGED <<concurrency, seen, shard, shards, coming, cached, guildEvent, flags, handlers, faults>>

-----------------------------------------------------------------------------
\* The shards

Fault == faults < MaxFaults /\ faults' = faults + 1

\* _shard_ready is set for the shards set: whoever waits for it is told, however soon it is
\* cleared again.  A handler that starts to wait for all has seen those that are set by then.
Sets(set, hs) ==
    /\ shardReady' = shardReady \cup set /\ once' = once \cup set
    /\ seen' = seen \cup set
    /\ handlers' = [i \in DOMAIN hs |-> IF hs[i].pc = "all" THEN [hs[i] EXCEPT !.seen = @ \cup set] ELSE hs[i]]

Called(s, pc) == [shard |-> s, pc |-> pc, seen |-> IF pc = "all" THEN shardReady ELSE {}]

\* READY: the handler runs to its first await, the wait for _guild_event if there are guilds.
WebsocketReady(s) ==
    /\ shard[s] \in {"connecting", "down"} /\ Len(handlers) < MaxReady
    /\ shard' = [shard EXCEPT ![s] = "up"]
    /\ coming' = coming \cup Expected(s)
    /\ IF Expected(s) = {}
       THEN Sets({s}, Append(handlers, Called(s, "all")))
       ELSE /\ handlers' = Append(handlers, Called(s, IF guildEvent THEN "woken" ELSE "asleep"))
            /\ UNCHANGED <<shards, seen>>
    /\ UNCHANGED <<launch, cached, guildEvent, flags, faults>>

\* reconnect, by way of clear_ready: one shard's loss takes the ready of all.
ConnectionLost(s) ==
    /\ shard[s] = "up" /\ Fault
    /\ shard' = [shard EXCEPT ![s] = "down"]
    /\ shardReady' = shardReady \ {s} /\ ready' = FALSE
    /\ UNCHANGED <<launch, seen, once, coming, cached, guildEvent, startup, handlers>>

\* RESUMED and on_resume, which sets ready whatever the other shards do.
Resumed(s) ==
    /\ shard[s] = "down" /\ Fault
    /\ shard' = [shard EXCEPT ![s] = "up"]
    /\ Sets({s}, handlers) /\ ready' = TRUE
    /\ UNCHANGED <<launch, coming, cached, guildEvent, startup>>

\* The connection cannot be made: the task of the shard ends, and nobody looks at it yet.
StartFails(s) ==
    /\ shard[s] = "connecting" /\ Fault
    /\ shard' = [shard EXCEPT ![s] = "failed"]
    /\ UNCHANGED <<launch, seen, shards, coming, cached, guildEvent, flags, handlers>>

GuildCreate(g) ==
    /\ shard[Home[g]] = "up" /\ g \in coming
    /\ coming' = coming \ {g}
    /\ cached' = cached \cup {g}
    /\ guildEvent' = TRUE
    /\ handlers' = [i \in DOMAIN handlers |->
                        IF handlers[i].pc = "asleep" THEN [handlers[i] EXCEPT !.pc = "woken"] ELSE handlers[i]]
    /\ UNCHANGED <<launch, seen, shard, shards, flags, faults>>

-----------------------------------------------------------------------------
\* _on_websocket_ready, from one await to the next

At(i, pc) == i \in DOMAIN handlers /\ handlers[i].pc = pc
Becomes(i, pc) == [handlers EXCEPT ![i].pc = pc, ![i].seen = IF pc = "all" THEN shardReady ELSE {}]

\* The event is cleared for all shards; on to the next guild, or past the loop.
Wakes(i) ==
    /\ At(i, "woken")
    /\ guildEvent' = FALSE
    /\ IF Expected(handlers[i].shard) \subseteq cached
       THEN Sets({handlers[i].shard}, Becomes(i, "all"))
       ELSE handlers' = Becomes(i, "asleep") /\ UNCHANGED <<shards, seen>>
    /\ UNCHANGED <<launch, shard, coming, cached, flags, faults>>

\* Mutant: a timeout only goes round the loop again.
TimesOutAgain(i) ==
    /\ At(i, "asleep") /\ guildEvent
    /\ handlers' = Becomes(i, "woken")
    /\ UNCHANGED <<launch, seen, shard, shards, coming, cached, guildEvent, flags, faults>>

TimesOut(i) ==
    /\ At(i, "asleep")
    /\ Sets({handlers[i].shard}, Becomes(i, "all"))
    /\ UNCHANGED <<launch, shard, coming, cached, guildEvent, flags, faults>>

\* Mutant: the other shards are not waited for.
ReadyAlone(i) ==
    /\ At(i, "all")
    /\ handlers' = Becomes(i, "over")
    /\ ready' = TRUE /\ startup' = (startup \/ ~ready)
    /\ UNCHANGED <<launch, seen, shard, shards, coming, cached, guildEvent, faults>>

\* Every shard was seen ready: Ready is dispatched if the client is not ready by now, and Startup
\* with the first one.
AllReady(i) ==
    /\ At(i, "all") /\ handlers[i].seen = Shards
    /\ handlers' = Becomes(i, "over")
    /\ ready' = TRUE /\ startup' = (startup \/ ~ready)
    /\ UNCHANGED <<launch, seen, shard, shards, coming, cached, guildEvent, faults>>

-----------------------------------------------------------------------------

Init ==
    /\ concurrency \in Concurrencies
    /\ left = Bucket(Shards) /\ buckets = Shards \ left
    /\ launcher = "next" /\ seen = {}
    /\ shard = [s \in Shards |-> "off"] /\ shardReady = {} /\ once = {}
    /\ coming = {} /\ cached = {} /\ guildEvent = FALSE
    /\ ready = FALSE /\ startup = FALSE
    /\ handlers = <<>> /\ faults = 0

Launcher == StartsShard \/ ShardSeen \/ BucketSeen
Handler(i) == Wakes(i) \/ TimesOut(i) \/ AllReady(i)

Next ==
    \/ Launcher
    \/ \E s \in Shards : WebsocketReady(s) \/ ConnectionLost(s) \/ Resumed(s) \/ StartFails(s)
    \/ \E g \in Guilds : GuildCreate(g)
    \/ \E i \in 1..MaxReady : Handler(i)

Spec == Init /\ [][Next]_vars

\* astart and the handlers go on, and a shard that is started gets a READY, or fails.
FairSpec ==
    /\ Spec
    /\ WF_vars(Launcher)
    /\ \A i \in 1..MaxReady : WF_vars(Handler(i))
    /\ \A s \in Shards : WF_vars(WebsocketReady(s) \/ StartFails(s))

-----------------------------------------------------------------------------

TypeOK ==
    /\ shardReady \subseteq Shards /\ left \subseteq Shards /\ cached \subseteq Guilds
    /\ launcher \in {"next", "shard", "bucket", "over"}

OneBucket == \A s, t \in Shards : s % concurrency = t % concurrency
NoFault == faults = 0

\* The shards of one bucket all start, and the client gets ready and says so, unless a shard
\* fails, loses its connection or resumes it meanwhile: the shards take each other's
\* _guild_event, and every one of them waits for all.
AllUp == (ready /\ startup /\ launcher = "over") \/ ~NoFault
AllStart == OneBucket ~> AllUp

\* A shard that is up has been seen by whoever waits for it, astart and the handlers, or a handler of
\* its own READY is still to say so.
Announced(s) == \E i \in DOMAIN handlers : handlers[i].shard = s /\ handlers[i].pc \in {"asleep", "woken"}
UpIsSeen == \A s \in Shards : shard[s] = "up" /\ ~Announced(s) =>
    s \in seen /\ \A i \in DOMAIN handlers : handlers[i].pc = "all" => s \in handlers[i].seen

\* Startup is not dispatched before every shard has been ready once, whichever of them are lost,
\* resumed and connected anew meanwhile.
StartupAfterAll == startup => once = Shards

\* auto_shard_client.py:223 "wait for shards to finish starting": they all do, if none fails.
ShardsStart == NoFault ~> Started = Shards \/ ~NoFault
=============================================================================

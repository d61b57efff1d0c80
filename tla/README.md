# Interfluxer: a verification project

Interfluxer (`src/Interfluxer`) is an asynchronous Python library for bots: a client that
keeps one gateway connection per shard, a REST client that obeys the server's rate limits,
commands with cooldowns and concurrency limits, background tasks, an object cache, and voice.
This project models the parts of it whose correctness depends on the order in which things
happen, checks the models with TLC, and proves the most important invariants with TLAPS.

1. [Inventory](#1-inventory)
2. [Plan](#2-plan)
3. [Modules and code](#3-modules-and-code)
4. [Runs](#4-runs)
5. [Fairness](#5-fairness)
6. [Proofs](#6-proofs)
7. [What the checks found](#7-what-the-checks-found)
8. [What is not modelled, and why](#8-what-is-not-modelled-and-why)
9. [Running it](#9-running-it)

## 1. Inventory

Everything but the voice player and recorder runs in one asyncio event loop: a *step* is the
code between two awaits that can suspend, and it is atomic. Whatever was read before an await
may be stale after it; that is where nearly all the hazards are.

| Component | State | Operations | Hard behaviour | What makes it correct |
|---|---|---|---|---|
| **Gateway connection** `api/gateway/{websocket,gateway,state}.py` | `ws`, `_closed`, `_acknowledged`, `_kill_bee_gees`, `_close_gateway`, `_race_lock`, `session_id`, `sequence`, `_shard_ready` | `__aenter__`, `run`, `receive`, `run_bee_gees`, `reconnect`, `send`, `close`, `__aexit__`, `ConnectionState.start/stop` | three loops and any number of senders share one socket; each of them may reconnect; the receive task is cancelled by stop; connections fail half-way | no loop uses a socket another one took away, no socket leaks, events come in order across resumes, a silent connection is noticed, stop ends |
| **REST rate limits** `api/http/http_client.py` | per bucket `_lock`, `_semaphore`, `limit`, `remaining`, `delta`; the weak map from end points to buckets | `request`, `acquire`, `release`, `ingest_ratelimit_header`, `lock_for_duration` | a response replaces the semaphore others hold permits of, or wait for; a bucket is reopened by a task that outlives the request | a waiter waits for somebody, a closed bucket reopens, nobody gets around it, requests end |
| **Global REST limit** `api/http/http_client.py` | `_lock`, `_calls`, `_reset_time` | `wait`, `set_reset_time`, `reset_calls` | one sleeper with the lock, the rest in its queue; a global 429 in between | calls per second bounded, pauses kept, everybody let through |
| **Commands** `models/internal/{command,cooldowns,callback}.py` | a semaphore per key | `__call__`, `_can_run`, `acquire`, `release` | any step may raise; which exceptions give a permit back | permits are neither lost nor made up |
| **Cooldown strategies** `models/internal/cooldowns.py` | tokens, `opened`, interval, timestamps | `acquire_token`, `get_cooldown_time`, `on_cooldown`, `reset` | refills computed on reading, at the boundary of an interval | the rate holds over every window, the time left is true |
| **TTL cache** `client/utils/cache.py` | an ordered dictionary with expiry times | get, set, pop, `expire` | reads renew and reorder; a soft and a hard limit | order is expiry order, limits hold, nothing is lost early |
| **Background tasks** `models/internal/tasks` | `_stop`, `task`, the trigger and its `last_call_time` | `start`, `stop`, `restart`, `reschedule`, the loop | a loop on its way out while the next one begins; callbacks that reschedule; late firings | one loop, no firing after stop, the interval is kept |
| **Object cache** `client/smart_cache.py` | one cache per kind of object, TTL or plain | `place_*_data`, `get_*`, `fetch_*`, `delete_*` | objects refer to each other through ids in other caches; awaits in the middle of an update | what is gone at the server is gone, nothing of it is missing, a user is in one voice channel |
| **Dispatch and waits** `client/client.py`, `models/internal/{wait,listener}.py` | listeners and waits per event | `dispatch`, `wait_for`, `_process_waits` | several events walk the same list, awaiting users' checks | every pending wait sees every event, only finished waits are removed |
| **Client life cycle** `client/client.py` | `_ready`, `_startup`, `_guild_event` | `login`, `astart`, `_on_websocket_ready`, `stop` | READY waits for guilds that may never come; reconnects while it waits | start-up happens once and ends |
| **Automatic sharding** `client/auto_shard_client.py` | the connection states, `_shard_ready` each | `astart`, `_on_websocket_ready` | one shard's failure while others wait for it | the start ends |
| **Event processors** `api/events` | none of their own | one handler per event | read cache, await, write cache | as the object cache |
| **Voice gateway** `api/voice/voice_gateway.py`, `models/internal/active_voice_state.py` | socket, `ready`, `_race_lock`, `_voice_server_update`, packet counters | `run`, `receive`, `reconnect`, `send_packet`, the events of the bot's own voice state | the receiver and the heartbeater both reconnect; the bot is moved or leaves meanwhile | `ready` goes with the current key; a lost connection is made anew or given up |
| **Voice playback** `api/voice/{player,audio}.py` | `_resume`, `_stop_event`, `_stopped`, a condition, a buffer | `play`, `pause`, `resume`, `stop`, the threads | two threads and the event loop share a buffer, events and a condition | frames in their order, none lost; a pause holds, a stopped player ends |
| **Voice recording** `api/voice/{recorder,audio_writer}.py` | `recording`, `_recording_complete`, `done_recording`, a buffer and a file per user | `start_recording`, `stop_recording`, `run`, `write`, `_buffer_writer`, `cleanup`, `encode_audio` | three threads share the dictionaries of buffers and files; two of them clean up | what was written is encoded, in order and whole; stopping ends |
| **Extensions** `models/internal/extension.py`, `client/client.py` | modules, extensions, their listeners and commands | load, unload, reload | failure in the middle, and the way back | all or nothing |
| **Prefixed commands** `models/internal/prefixed`, `client/mixins/prefixed.py` | names and aliases; an iterator over the words | add, remove, look up, parse | aliases against names; optional, greedy and variable parameters share the iterator | a removed command is gone under every name; words reach the parameters in their order |
| **Iterators, member chunks** `models/misc/iterator.py`, `models/external/guild.py` | queue and limit; chunk buffer | `fetch`, `process_member_chunk` | a chunk processed while the next arrives | a guild that says it is chunked has its members |
| **REST end points** `api/http/http_requests`, `api/http/route.py` | none | some 160 wrappers: a path, its parameters, a bucket key | a parameter that is forgotten or misnamed shows only in a call of that wrapper | paths resolve, bucket keys separate what the server separates |
| API objects, converters, utilities, developer extensions | none | accessors, conversions | none | sequential code |

How they interact:

* The **receive loop** hands every message to `dispatch_opcode`, which dispatches a raw event.
  Listeners and waits run as tasks of their own; the event processors among them write the
  object cache and dispatch the library's own events.
* READY and RESUMED set the client's readiness through such listeners, *later* than the
  connection they belong to: the client's `_ready` and the shard's `_shard_ready` are two
  pieces of state in different hands.
* `Client.stop()` closes the HTTP session, on which every websocket lives, and then asks the
  connection state to stop, which waits for `_ws_connect`.
* `HTTPClient.request()` takes the bucket's lock, then the global one, and holds the first
  while it waits for the second. Everything that fetches goes through it.
* Commands are run from a listener, on the user's coroutines; tasks run callbacks as tasks.
* `ActiveVoiceState` waits for gateway events with `wait_for` and sends through the shard's
  gateway client.

The hazards are listed one by one, each at its line, in `PROJECT.json`, with the properties that
cover them.

## 2. Plan

The most important behaviour first: the connection everything else depends on, then what every
request passes through, then what a user's code runs under, then what the client keeps and serves.

| | Modules | Proofs in | State |
|---|---|---|---|
| 1 | `Gateway` | `GatewayProofs` | modelled; every safety property proved |
| 2 | `RateLimit`; `GlobalLock`; `EndPoints` | `RateLimitProofs`, `LiveProofs`, `CallProofs` | modelled and proved |
| 3 | `Command`, `Cooldowns`, `Tasks` | `LiveProofs`, `CallProofs` | modelled and proved |
| 4 | `GuildCache`, `Messages`, `VoiceStates`, `TTLCache` | `GuildCacheProofs`, `SafeProofs` | modelled and proved |
| 5 | `Waits`, `StartUp`, `ShardStart`, `GuildChunks` | `ReadinessProofs`, `SafeProofs` | modelled and proved |
| 6 | `AudioStream`, refined by `Playback`; `VoiceLink`; `Recording` | `PlaybackProofs`, `ReadinessProofs` | modelled and proved |
| 7 | `Extensions`, `PrefixedCalls` | `CallProofs` | modelled and proved |
| 8 | The paged iterators, the user's own voice moves | | open |

Abstract specifications: `AudioStream`, what a player promises of an audio, is refined by `Playback`.
Worth stating next: a counting semaphore that loses and makes up nothing, which `Command` (with
checks that pass) implements, and the life of a shard (connecting, ready, reconnecting, ended), which
`Gateway` does.

Nothing is left to prove of the runs' safety properties (section 6).

## 3. Modules and code

`PROJECT.json` ("map") gives the lines each definition stands for. Definitions marked
*Mutant:* in the modules are plausible mistakes in the operator that follows them. No action
uses them; replacing the operator by its mutant makes TLC find the property violated, which
shows that the property depends on that piece of code.

### Gateway

One shard. The tasks are `"shard"` (`ConnectionState._ws_connect` with `__aenter__`, `run`,
`__aexit__`), `"recv"` (the `receive()` task `run()` creates for every message), `"beat"`
(`run_bee_gees`) and the `Senders`. `pc[t]` names the await a task is suspended at, and an action
is the code up to the next one: `ReconnectLocked`, `ReconnectClose`, `ReconnectConnect` and
`ReconnectHello` are `reconnect()` cut at its awaits, in whichever task calls it.

| Code | Model |
|---|---|
| `self.ws`, `_closed`, `_acknowledged`, `_kill_bee_gees`, `_close_gateway` | `ws` (number of the connection, 0 for None), `closedEv`, `acked`, `kill`, `closeGw` |
| `_race_lock` | `lock`, its owner |
| `session_id`, `sequence` | `sess`, `seq` |
| `ConnectionState.gateway`, `_shard_ready`, `Client._ready` | `gwSet`, `shardReady`, `clientReady`; `settling` counts listeners still to run |
| the socket, the server | `rx` (frames not read), `peer`, `live` (connections nobody closed), `wire` (what was sent on it), `ask`, `on`, `valid`, `spos` (the session as the server sees it) |
| `Client.stop()` | `stop` |

Payloads are their kind and, for events, session and number; texts, presences and compression
are left out, except that a half-received message stays in the buffer (`buf`). The environment
does what `ServerMay` allows: ask for a heartbeat or a reconnect, invalidate, close in each
of the three ways, go silent, drop the connection, or fail the next attempt.

Assumptions of the model, none of which the code states:

* A task woken by the release of a lock or by an event runs before a *new* message of the network
  is handled. So `reconnect()` by the heartbeater does not complete its connect while `run()` has a
  message in hand, and the heartbeater does not start a turn while the receiver has been woken.
* Cancelling the receive task is atomic, and so is `dispatch_event` with `run()`'s receipt.
* HELLO arrives or the connection fails: `receive(force=True)` has no time limit of its own.
* Past `MaxConns` connections every attempt fails.
* `CloseWakesReceive` says which aiohttp runs: TRUE from 3.12.4 on (the comment at
  `websocket.py:212`).

### RateLimit

`request()` and `BucketLock`. An end point without a known bucket makes a BucketLock of its own; as
soon as a response names the bucket it is shared. Objects carry the name of the request that made
them. `pc[r]` is one of: waiting for `_lock`, for the semaphore, for the global lock, the call in
progress, asleep in `lock_for_duration(block=True)`, in the delay before a retry, ended, or
`"orphan"`: waiting for a semaphore that was replaced. `closer[o]` is the request that holds
`_lock` of o, or whose `_release()` task does. A response replaces the semaphore whenever its value
is not the limit, as `ingest_ratelimit_header` does, and `Finish` releases into whatever
semaphore is there then. One bucket, a limit that does not change; the hand-over in
`asyncio.Semaphore` is Python 3.11's (a permit goes to the first waiter). A new login on an invalid
session and the other exceptions are the status `"error"`.

### GlobalLock

`_lock` with its queue, `_calls`, `_reset_time` as the time left, the sleeper. `recent`, `pause` and
`since` are bookkeeping for the properties: how many ticks ago each call of the last second was let
through, what the last retry_after still asks for, and the ticks since it came.

### Command, Cooldowns

`Command` models one command and several invocations of it; which command it is (limit, whether it
waits, enabled, with checks, keyed by role) is the variable `cmd`, chosen once. An invocation holds
the semaphore of the key it had *when it acquired* (`at`), and releases the one of the key it has
*when it releases*, as the code does. `Cooldowns` runs the five strategies on the same clock:
`tokens`, `age` (time since `opened`) and `interval` are theirs, `recent` lists how long ago each token of the
last interval was given, the last one first, which the sliding window reads as its timestamps.

### TTLCache

The order of the dictionary and each entry's time left. `expire()` is `Expire`: the hard limit
first, then the expired entries from the front, and `StopIteration` (`raised`) when the cache was
emptied on the way. `Others` is what the dictionary keeps in its order when one key is taken out of it.

### Tasks

The loops of successive starts (`Loops` bounds those alive at once), `task` (the one in
`self.task`), the trigger as kind and periods with the age of its `last_call_time`, and for an
OrTrigger the ages of its parts. `Far` bounds the ages: a time longer ago than any period is as long ago
as that. `told` and `killed` are the two ways in which `stop()` reaches a
loop: `_stop`, and cancellation. Callbacks run beside the loop, and may return a trigger.

### EndPoints

The wrappers as data: for each one the method, the segments of its path with their fields, the
parameters it gives its `Route`, and what `request()` is given beside it. `RlBucket` is
`Route.rl_bucket`. A behaviour compares two calls of one end point with any identifiers. The values
of payloads are left out: a wrapper passes them on.

### GuildCache, Messages, VoiceStates

Each puts a server that goes on changing beside a part of `GlobalCache`. Events arrive in order,
answers of requests whenever they like: an answer says what was true when the server made it. In
`GuildCache` the cache is one record and every `place_*`, `delete_*` and processor a function of it
(`place_member_data`, `delete_guild`, ...), so that handlers compose as in the code. A channel of
`Threads` is one whose id is in its guild's `_thread_ids` and not in `_channel_ids`: it is placed and deleted like any other, but
`delete_guild` asks `Guild.channels`, which does not name it, so that it stays in `channel_cache`, in no list. A channel whose
type changes is dropped, but for a change to type 0, which the code takes for none at all. `excused` remembers
what is known to be wrong, and why: an answer that raced with a deletion, a guild that was
unavailable, a channel that changed its type, all channels and roles of a guild that was left while
an answer about the guild was on its way, and what `delete_guild` passes over when a guild is left (`Forgotten`).
`Messages` is one message with its counts of reactions;
its handlers wait for an author or for the message itself and overtake each other there. A handler whose
author cannot be fetched raises, and the reaction is not counted (`AuthorUnknown`); data that names no reactions leaves the cached
ones as they are (`KeepsReactions`).
`VoiceStates` cuts `place_voice_state_data` at its one await.

### Waits

`Client.waits` of one event name, the futures, and a task of `_process_waits` per event: `current` is
the one that runs. Only an asynchronous check (`slow`) suspends it. `Popped` is the loop of
`pop(idx - counter)` at the end, on whatever the list is then; `Rising` is a set of places in their order,
which is how the loop meets them.

### StartUp, ShardStart, GuildChunks

`StartUp` is one client and its connection: every READY has a handler of its own (`handlers`), which
waits for `_guild_event`, shared by all, or 3 seconds, and then for member lists. Whether a guild is chunked is a flag
of its `Guild` object, which goes when the guild is left: `object` numbers the objects of a guild, so that a request for members
or a handler that has an old one in its hands goes on with that. `ShardStart` is
`AutoShardedClient`: `launcher` is `astart`, `left` and `buckets` what it has still to start, and the
handlers wait for the guilds of their shard and then for all shards. `GuildChunks` is the buffer of
`process_member_chunk` under several requests, with the handlers that have yielded, and `http_chunk`
beside it.

### AudioStream, Playback

`AudioStream` says what a player promises: the frames of the source in their order, none twice, none
left out, none after the end. `Playback` is how it is done: ffmpeg and its pipe, the read-ahead
thread (`reader`, at its check or with a frame in its hands), the buffer, the player thread
(`player`, at each of its waits), and the calls of the event loop, whose `notify` comes after the
event is set. `StreamKept` is the refinement: `played` is the same, `over` is `player = "over"`.

### VoiceLink

The voice gateway of one `ActiveVoiceState`. `pc` says where `_ws_connect` (`"rx"`) and the heartbeater
(`"hb"`) are; either may be inside `reconnect()`, whose steps are `TakesLock`, `Updated` or
`UpdateTimesOut`, `Connects`, and `Greeted` or `NotGreeted`, cut at its awaits. `owner` holds
`_race_lock`; `open` is `_closed`, which is set while there *is* a connection. The server keeps a
session (`session`): a new one goes through READY, the protocol that was selected, and the description
with its key. The events of the bot's voice state (`pending`) are handled on a *copy* of the cached
state, as the processor makes it, and the copy's `__del__` closes the gateway when it dies
(`CopyDies`). `hurt` says that a HELLO failed to come or the one packet of the IP discovery was lost.

### Recording

One recording. The threads are the recorder's (`pc["rec"]`: `run` with `AudioWriter.write`, and `cleanup`
on its way out), the one of `stop_recording` (`pc["stop"]`: `cleanup`, then `encode_audio`) and, with an
output directory, `_buffer_writer` (`writer`). A step is what runs between two looks at state that
another thread writes. A turn of the writer over `buffers` remembers how many there were (`size`) and
dies when there are more, as iteration over a dictionary does; a file has a position (`pos`), at which
both writing and reading go on. `raced` records that the threads came in each other's way.

### Extensions, PrefixedCalls

`Extensions` keeps what loading and unloading work on in one record (`reg`), and each call is a
function of it that may raise on the way (`ok`). A file holds commands with aliases and listeners, and
ends well, in its `__init__`, or cannot be imported. The commands of an unloaded extension are
removed by a task that runs later. The loop of `__new__` over the members is a recursive function on their
number (`RegisterAll`), because a failure in the middle leaves what came before; the loop that removes the commands takes the
listed ones at once (`RemoveListed`), since no two of them share a name. `PrefixedCalls` follows one message: the wait until it is cached,
the command it names, and `call_callback` with its iterator (`args`, `index`), its loop variables (`arg`,
`param`) and what it has collected (`newArgs`, `kwargs`). A word is its position; an `int` converter
takes it or not. After greedy parameters with defaults the iterator's index may be negative, and counts from the
end as Python's does (`Word`, `Ahead`). `consume_rest()` moves the index to the end before
`get_rest_of_args()` looks, so a `ConsumeRest[tuple[...]]` is given only the last word (`Remainder`). `Parsed` and `Accepted` are `_parse_parameters`, so that only parameter lists the
library accepts are called.

### SafeParts, LiveParts and their instances

Parts that share no state are put together and checked in one run: a variable `part` says which of
them a behaviour is about, and the variables of the others keep a first value. A behaviour is one of
the part's own, so a property of the composition is the property of the part. `SafeParts` holds those of
which only safety is asked, `LiveParts` those that have to come to an end. Both are generic: each
part is an INSTANCE whose parameters are CONSTANTS of the composition, and the assumptions that a part
makes about them are assumed there by name (`TtlNumbers`, `VoiceConstants`, `WaitsNames`,
`GlobalLockConstants`, ...). The theorems of section 6 are about these compositions. `MCSafeParts`, `MCLiveParts` and
`Samples` only add the values that a cfg file cannot write down, `MCGateway` and `MCRateLimit` likewise.

## 4. Runs

A violation run (`expect: violation`) shows a disagreement between the code and what its
documentation says (section 7).

| Run | Question | Properties | Bounds, and why they do |
|---|---|---|---|
| `gw_safe` | Do the loops keep out of each other's way, whatever goes wrong? | `TypeOK`, `SendHasSocket`, `ReceiveHasSocket`, `OneSocket`, `WaiterIsOwed`, `IdentifyFirst` | 2 connections, 1 event, 1 unread frame, 1 sender, every trouble but sessions; a reconnect that fails, one that is cancelled and one that races another need no third connection. The proofs remove all of these bounds. |
| `gw_session` | Are events lost or repeated over resumes? | `InOrder` | 3 connections (a session, its resumption, and a new session or a second resumption), 2 events each. Proved for any number of both. |
| `gw_live` | Is a silent connection noticed, and does stop end? | `StopEnds`, `ZombieReplaced` | aiohttp before 3.12.4; 2 connections, so that the replacement may be silent as well |
| `rl_bucket` | Do buckets keep their promises? | `NoWakeUpLost`, `SharedHasSemaphore`, `NobodyStuck` | 3 requests (one in, one waiting, one who comes between), limit 1, 2 attempts, every status. The state invariants are proved for any number of requests, limits and attempts. |
| `parts_safe` | Are the parts that no schedule can stop right, in every order? | see below | see below; 3.1 million states. All of its properties are proved for all constants. |
| `parts_live` | Is whoever waits served, and nothing lost on the way? | see below | see below; 0.3 million states. All of its safety properties are proved for all constants. |
| `gw_stop_hang` | Does stop end with aiohttp from 3.12.4 on? | `StopEnds` violated | one connection is enough |
| `rl_orphan` | Does every request end? | `RequestsEnd` violated | the statuses ok and 5xx are enough |
| `cmd_check` | Does the limit hold with checks that fail? | `AtMostConcurrent` violated | limit 1 |
| `shards_hang` | Do all shards start? | `ShardsStart` violated | 2 shards, 2 buckets |
| `reload_lost` | Is an extension there after its reload? | `ReloadKeeps` violated | one command |
| `voice_hang` | Is a voice connection that failed made anew or given up? | `FailureHandled` violated | one fault |

What `parts_safe` asks of which part:

| Property | Part | Bounds, and why they do |
|---|---|---|
| `NothingMissing`, `OnlyRacesRemain` | `GuildCache` | 2 guilds, a user, a channel, a thread and a role of one of them, 2 changes, 2 events and 1 answer on their way: an answer needs one event to race with, a leave and a rejoin two |
| `NothingMissing` | `GuildChunks` | 2 requests of 2 chunks, one with two members, so that a handler yields in the middle |
| `InStep` | `Messages` | 1 emoji, 4 changes, 2 events and 2 handlers at a time |
| `InOnePlace` | `VoiceStates` | 2 users and the bot, 2 channels, 4 moves |
| `ExpiryKept` | `TTLCache` | 4 keys against a hard limit of 3 and a soft one of 1: below, between and above; times are relative, so all runs are covered |
| `RateKept`, `WaitIsEnough` | `Cooldowns` | rate 2 (a first and a last token), interval 3, a burst above the rate, a backoff that grows past its maximum |
| `WaitsKept` | `Waits` | 3 waits, 2 events: two tasks in the list and a wait behind the one that is asked |
| `PathsResolve`, `KeysTellApart` | `EndPoints` | every end point, with two values of every identifier |
| `UnloadedIsGone`, `LoadedIsWhole` | `Extensions` | 2 files, 4 instances, every source of `Samples` (names, aliases that clash, listeners, each of the endings) |
| `WordsInOrder` | `PrefixedCalls` | every parameter list of `Samples` that `_parse_parameters` accepts, up to 4 words, a group with a subcommand |

And `parts_live`:

| Property | Part | Bounds, and why they do |
|---|---|---|
| `BurstBounded`, `PauseKept`, `WaitsEnd` | `GlobalLock` | 3 tasks (asleep, queued, coming back), 2 calls in a period of 2 ticks, a retry_after below and above a period |
| `FiresAsDue`, `StopHolds`, `BothPartsFire`, `WaitsEnd` | `Tasks` | 2 loops alive at once, one trigger of each kind, a lag of at most 1 tick, 2 callbacks in flight |
| `SlotsKept`, `NoWakeUpLost`, `WaitsEnd` | `Command` | 3 invocations, 2 keys, every kind of command with a limit of 1 or 2 |
| `StreamKept`, `PauseHolds`, `NoWakeUpLost`, `WaitsEnd` | `Playback` | 3 frames, a pipe of 1, a buffer of 2: full, empty and between; 2 calls |
| `ReadyIsEarned`, `NoWakeUpLost`, `GetsReady` | `StartUp` | 2 guilds, 2 READYs (their handlers share `_guild_event`), one resume or guild in between. That a guild is left and joined again, which takes two changes, is left to the proofs. |
| `ReadyIsEarned`, `NoWakeUpLost`, `GetsReady` | `ShardStart` | 2 shards with a guild each, in one bucket or two; 3 READYs and 2 faults |
| `ReadyIsEarned`, `NoWakeUpLost`, `GetsReady` | `VoiceLink` | 2 faults: a reconnect, and something that comes in its middle. (With 3 the part has 160 thousand states and passes as well.) |
| `RecordingKept`, `NoWakeUpLost`, `WaitsEnd` | `Recording` | with and without an output directory; 3 packets of 2 users: a file that is written twice, and a second user during a turn |

In these two runs a property is the conjunction of what the parts say: `ReadyIsEarned`, say, is
`GuildsAreThere`, `StartupAfterAll` and `KeyIsCurrent`. `WaitsEnd` and `GetsReady` join the leads-to
properties of the parts in one formula, since every one of them costs TLC a pass over the graph.

No run checks deadlock: in each there is a part that rightly stops (the shard ended, nobody asks for
anything, a bound is reached). That somebody who should go on does not is what the liveness
properties are for.

Qualifications that the properties carry, because without them the code does not keep them:

* `SlotsKept`: `SlotsConserved` leaves out commands that are disabled, have checks or are keyed by role
  (`NoSlotLost` covers the first two; of the third, whose key may be another at the release, `TotalConserved` says only that the sum is kept).
* `PauseKept` leaves out a retry_after that arrives while somebody sleeps; `BurstBounded` leaves out every
  second in which a global 429 was answered, whatever its retry_after.
* The properties of `Tasks` are about a task that is not started while it runs (`restart()` is for that).
* `NobodyStuck` allows the requests that `rl_orphan` shows.
* `NothingMissing`, `OnlyRacesRemain`, `InStep` and `InOnePlace` leave out what `excused`, `wrong` and `muddled` record, each
  for a reason that its module names. Among these reasons are a thread of a guild that was left, a channel
  whose type changes, a handler that another overtook at its await, a reaction whose author could not be fetched, and a fetch of the
  channel that ends after a later move.
* `NoWakeUpLost` leaves out commands keyed by role, whose slot goes back to
  another bucket, a `READY` handler after a request for members failed, a writer of a recording that died, and a voice
  connection that calls `reconnect()` in the lock it holds (`voice_hang`).
* `WaitIsEnough` leaves out a burst of zero, which nothing refuses and which is never filled again.
* `WaitsKept` (`EventReaches` and `ListExact`) holds while no timeout and no other
  event comes in between at an asynchronous check.
* `LoadedIsWhole` leaves out a file that is loaded before the task of its last unload has run; `UnloadedIsGone` the
  instances whose load failed.
* `WordsInOrder` leaves out greedy parameters with a default, and `ConsumeRest[tuple[...]]` (`Orderly`).
* `AllStart` is about the shards of one bucket; `LinkSettles` leaves out what `hurt` records.
* `RecordingKept` leaves out, where it says that the whole is kept, what `raced` records, a
  writer that died and, with an output directory, recordings of several users; a recording whose
  writer died need not stop.

Some of these are the very interleaving that a hazard is about: the change of a channel's type (`NothingMissing`), a fetch that
overlaps a move (`InOnePlace`), an event during an asynchronous check (`WaitsKept`), a retry_after during
somebody's sleep (`PauseKept`), reactions that overtake each other (`InStep`), the remnants of a failed load
(`UnloadedIsGone`). The code goes wrong there, so no property can say that it does not. What the property then says is that
*only* there it goes wrong: the model runs through those interleavings, and what they spoil is excused by name in
`NothingMissing` (the channel), `InOnePlace` (the user) and `UnloadedIsGone` (the instance), so that the damage may not spread. In
`InStep` the excuse is of the message, until it is fetched anew; in `PauseKept` it is of that retry_after; in `WaitsKept` it is of
all that follows.
The notes of `PROJECT.json` name these cases at the hazards.

Two hazards are not visible in the models at all. `Tasks` has one clock, so that a timer that is early by `datetime.now()` is
not covered. `Playback` makes each call of the buffer one step, as `AudioBuffer._lock` does, so that it does not show what would
go wrong without that lock.

## 5. Fairness

Of the network and the users nothing is assumed, of the servers hardly anything. What is assumed is
the scheduling:

* asyncio runs every task that is ready, and timers expire: weak fairness of each loop's steps. In
  `LiveParts` every part has the fairness its own module states.
* `asyncio.Lock` and `asyncio.Semaphore` wake their waiters first come, first served. In `Gateway`
  the lock is an owner without a queue, and strong fairness of `ReconnectLocked` and of `Heartbeat`
  stands for the queue; in `GlobalLock` the queue is modelled.
* A REST call ends: aiohttp's default limit is five minutes. Weak fairness of a request's steps
  once it was called.
* Users' checks, callbacks and handlers end (`Command`, `Tasks`): without it a slot is rightly
  held for ever.
* Threads run (`Playback`, `Recording`): weak fairness of the steps of each, and of the `notify`
  that follows an event in the same function. Nothing is asked of ffmpeg.
* Time-outs expire and requests for members end (`StartUp`, `ShardStart`), a shard that is started
  becomes ready or fails. Guilds need not come.
* In `VoiceLink` the lock and the event of the two loops are without a queue: strong fairness of `Rx`
  and `Hb` stands for the order in which `asyncio.Lock` and `asyncio.Event` serve. The voice server
  says HELLO, closes the connection of a session that is lost, and events arrive; that it does not
  say HELLO is a fault of its own.
* Nobody need call anything: `Call`, `Wait`, `Start` and `Client.stop()` are not fair.

## 6. Proofs

Eight modules of proofs, all checked by TLAPS for every value of the constants. The proofs of parts that a
composition puts together are about the composition: `Spec` is that of `LiveParts` or `SafeParts`, and the
first lemma of each says that a step of it is a step of the part.

| Theorem | Says |
|---|---|
| `GatewayProofs!TypeCorrect`, `Inductive` | `[]TypeOK`; `[]IInv`, the inductive invariant |
| `GatewayProofs!SocketsClosed`, `ReceiveSafe`, `SendSafe`, `WaitersOwed` | the four safety invariants of `gw_safe` |
| `GatewayProofs!EventsInOrder` | `[]InOrder` |
| `GatewayProofs!FirstPayload` | `IdentifyFirst`, an action property |
| `RateLimitProofs!BucketInductive`, `BucketTypes` | `[]IInv`, `[]TypeOK` |
| `RateLimitProofs!WaitersServed`, `NoWayAround` | `[]NoWakeUpLost`, `[]SharedHasSemaphore` |
| `LiveProofs!GlobalLockTypes`, `CallsBounded`, `PauseIsKept` | the types, `[]BurstBounded`, `PauseKept` |
| `LiveProofs!CommandTypes`, `CommandSlotsKept` | the types, `[]SlotsKept` |
| `LiveProofs!TasksTypes`, `TasksFireAsDue`, `StoppedIsSilent` | the types, `[]FiresAsDue`, `StopHolds` |
| `PlaybackProofs!PlaybackTypes`, `PlayerStreams`, `PlayerPauses` | the types, `StreamKept` (`Playback` implements `AudioStream`), `[]PauseHolds` |
| `PlaybackProofs!RecordingTypesKept`, `RecordingIsKept` | the types, `[]RecordingKept` |
| `ReadinessProofs!ReadinessTypes`, `NoneReadyTooEarly` | the types, `ReadyIsEarned`, for the client, the shards and voice |
| `CallProofs!CooldownTypes`, `CooldownRateKept`, `CooldownWaitIsEnough` | the types, `[]RateKept`, `[]WaitIsEnough`, for the five strategies |
| `CallProofs!PathsAreResolved`, `KeysAreToldApart` | `[]PathsResolve`, `[]KeysTellApart` |
| `CallProofs!WordsAreInOrder` | `[]WordsInOrder`, for any signatures: every parameter list that `_parse_parameters` accepts, but for greedy parameters with a default and `ConsumeRest[tuple[...]]` |
| `CallProofs!RegistryIsInOrder` | `[]ExInv`, the inductive invariant of `Extensions` |
| `CallProofs!UnloadedLeaveNothing`, `LoadedStayWhole` | `[]UnloadedIsGone`, `[]LoadedIsWhole`, for any sources |
| `CallProofs!EveryPartsTypes` | `[]TypeOK` of `SafeParts`: all parts but `EndPoints`, which has no types to keep |
| `LiveProofs!EveryPartTyped` | `[]TypeOK` of `LiveParts`, all parts |
| `LiveProofs!EveryWaiterIsOwed` | `[]NoWakeUpLost` of `LiveParts`: the six parts in which somebody waits to be woken |
| `SafeProofs!VoiceStateTypes`, `OneVoiceChannel` | the types, `[]InOnePlace` |
| `SafeProofs!CacheLimited`, `ExpiryIsKept` | the types and `WithinHardLimit`, `ExpiryKept` |
| `SafeProofs!WaitsAreKept` | `[]WaitsKept` |
| `SafeProofs!ChunkedIsWhole` | `ChunkedMeansAll`, the half of `NothingMissing` that is about `GuildChunks` |
| `SafeProofs!CacheListsWhatItKeeps` | the types of `GuildCache` and `ListedAreKept` |
| `SafeProofs!NothingIsMissing`, `OnlyRacesAreLeft` | `[]NothingMissing`, `[]OnlyRacesRemain`, with what `excused` leaves out |
| `SafeProofs!MessagesInStep` | `[]InStep`, with what `wrong` leaves out |

They assume what the modules name, and nothing else: a `NoOne` or `None` is not one of the things it
stands beside; senders are not the three loops; limits, bounds and times are natural
numbers, and positive where the code refuses or never gives a zero; `ServerMay` and `Statuses` are parts of the
environment; triggers have the shape their kind has; a guild's members come in at least one chunk; an id is that
of a guild, a user, a channel or a role, and a channel or a role stays in its guild; the members of a source and the
aliases of a command are sequences; the bound on the changes of a message is a number, and the `None` of an uncached message is no message. TLC evaluates each
of these assumptions in the runs.

**Gateway, safety.** `SendHasSocket` is not inductive: a sender that sleeps in the rate limiter loses its socket
in any `reconnect()` that runs beside it. What rules that out is the lock, so `LockHeld` says that
whoever is inside `reconnect()` or in the rate limiter owns it, and that `_closed` is cleared all
along a reconnect. `ReceiveHasSocket` needs that too: a receiver that was woken by `_closed` must
still find it set (`WakeKept`), which holds because the heartbeater cannot get from waiting for the
lock to clearing the event in the same turn. `SocketKnown` ties `ws` to the position of the
tasks, and `Alone` says which loops exist while the shard is outside `run()`; both are needed for
`OneSocket`, where `EnterConnect` and `ReconnectConnect` overwrite `ws` and must know it is None.
`WaiterIsOwed` follows from the last part of `WakeKept`.

**Gateway, order.** `InOrder` is about one event, the one `receive()` just returned; what makes it true is
about all that are still on their way. `OrderInv` says that the frames not yet read are a chain
(`Leads`): starting from the last event dispatched, each event among them follows the one before,
or begins a later session, and the chain ends where the server is (`Streaming`). `Steady` ties the
client's `session_id` and `sequence` to the last event while nobody is in the middle of a reconnect, which is
what a RESUME is sent with. `IdentifyFirst` needs `Opening` - a connection over which nothing was sent is
one that somebody is still opening - and `Unnamed`: a new `GatewayClient` is given to senders only
after its first payload.

**RateLimit.** `WaiterHasHolder`, the half of `NoWakeUpLost` that is about the semaphore, is not inductive: a response may give the semaphore the value it is to
have without looking at who holds a permit of the old one. `IInv` adds `PermitOrHolder`: the
semaphore of a bucket has a permit or somebody is between `acquire()` and `release()`, waiting or
not. `WaiterHasSemaphore` and `AttemptsLeft` say that only a bucket with a semaphore has
waiters, and that whoever goes on may try once more.

**GlobalLock.** A second may overlap two periods, and a 429 may cut one short. `RecentInv` splits the calls of
the last second by the last 429 and by the beginning of the current period (`After`, `Periods`): those
of the period are counted by `calls`, those before it were at most a period's worth, and those before
the 429 are a second old when its pause is over. `Rises` says that they are recorded in their order.

**Command.** `SlotsInv` says whose semaphore an invocation waits for or has acquired by where it is (`AtItsKey`), and
that holders and permits are finite sets (`Counted`), so that a permit taken and a holder more cancel out.
The cases in which the code does not keep the sum are those the property excludes, and the proof shows
that there are no others.

**Tasks.** `OneGoesOn`: of the loops that are there, those that are not on their way out are the one in
`self.task`, and none after `stop()`. `IntervalInv` says how the time until the next firing and the delays so
far add up to the interval, `DateInv` the same of a date that may fire once.

**Cooldowns.** Fixed intervals: `Periods` says that the tokens taken since the interval was opened are the last ones
given, the first of them when it was opened, and that fewer than `Rate` came before it. Buckets: `Drops` says that what a
bucket holds and what it gave since the last token fell into it are at most a full bucket (`Brim`), and that what it gave in the
last interval is at most one more, since no more than one token falls in an interval. A sliding window holds its own history. That the time left is the true one
follows from how far each strategy is from its next token.

**EndPoints.** `WellMade` says of a wrapper what keeps its key right: every field of its path is given, no channel or
guild is given that the path does not name, a webhook comes with its token, and no identifier that the key is made of is
written into the path beforehand. `AllWellMade` goes through the wrappers; `KeysAgree` concludes that the keys of two calls
are the same exactly when the server counts them together, whatever the identifiers are.

**PrefixedCalls.** `Stock`: the values collected so far hold the first words of the message and nothing else, in order,
up to where the iterator stands. `Plain` parameters are those `WordsInOrder` is about: behind a greedy one with a default the iterator may stand before
a word it gave, and behind a `ConsumeRest[tuple[...]]` words are missing. Python hands the positional ones to the first parameters, so what matters is where they stand. `Aligned`: each is at the
place of the parameter it was converted for, and the parameters between have theirs by name. Or `Twice`: a parameter given
by position came after one given by name, so that one of the named has its place filled as well, and Python refuses the
call (`Fits`). Only the last parameter may be variable, take the rest, or be given by name alone,
which is what `_parse_parameters` sees to (`Declared`).

**Extensions.** What makes an unload leave nothing is that nothing is ever registered without an owner. `Registry` says so
of every state between two calls: a listed command owns all its names (`ListedWhole`), a command is
listed or of an instance whose load failed (`Listed`), every command and listener belongs to an extension
that is there, to one that failed, or to a file with a task still to run (`Accounted`), and no instance is of two
files (`OneFile`). `ExInv` adds that a file that is loaded, and was not loaded hastily, has no such
task, which is what keeps the task from taking the commands of the next instance (`SoundFile`). A load can fail after any member, so
`Through` says what is so after the first `m` of them; that the recursive function takes these turns for
every `m` is shown with a least counterexample, since induction over numbers is out of reach.

**Playback and AudioStream.** `Consecutive` says that the frames played, the one in the player's hands, the buffer and the
one in the reader's hands follow each other without a gap, up to the number taken from the pipe. From it
every step of `Playback` is a step of `AudioStream` or a stutter.

**Recording.** The file and the buffer of a user are, together, what was written, with the file at its end
(`Steady`); or the writer is over and the file was rewound (`Closed`); or the recording has one packet in all, and
was rewound before it was written (`Alone`). `Threads` and `Orderly` say which of the threads has cleaned up, and when `done_recording` is
set; `DoneLate`, `Quiet`, `Flushed` and `InMemory` say what is left in the buffers then. `Begins` and `Whole` are
the conclusion for what `encode_audio` reads. `AtBeginning` needs `~raced`: the two clean-ups rewind files that
the writer may be appending to, which is what `raced` records.

**Readiness.** `Counts`: a call of `_on_websocket_ready` that waits expects exactly the user's guilds, and is in its
chunking stage only when they are in the cache. `ShardInv`: a shard that a call has seen has been ready.
`VoiceInv`: a voice session is begun only with `ready` cleared and by the owner of `_race_lock`, so that who sets it
sets it with the key of its own session.

**Nobody waits in vain.** Liveness is out of the prover's reach, but the safety in it is not: `NoWakeUpLost` says that whoever
sleeps is owed a wake-up by something under way, so that all that is left to fairness is that what is under way goes on. For a slot of
a command, `WaitsAtZero` says that nobody waits for a semaphore that has permits, and `NoSlotLost` that the permits it
lacks have holders. For the player, `WakeInv` says that a sleeping player misses an event or has its `notify`
on the way, and that the read-ahead thread runs from the first read until the buffer is initialised. `WaitsForWriter` rests on
`Threads`: who waits for `done_recording` has told the writer to stop, and the writer, unless it died, has still to set it. In `StartUp`, `Asked` says
that a handler waits for members of `Guild` objects that somebody asked about, be they those the cache has now or not, and an object leaves the set of those asked only when they
are there. `SeenInv` of `ShardStart`: of a shard that is up, each waiter has been told, or the handler that
owes it to them is there. `LinkInv` of `VoiceLink` adds that a receiver reads an open connection,
and that one in the IP discovery loses it only to the heartbeater's reconnect or to the end of the gateway.

**VoiceStates.** For every user that is not `muddled`: at most one fetch is under way, and the user is listed once in
the channel of its cached state and in no other, but for the moves still to be made (`Settled`); the last event on
the way tells the server's channel, or the cache has it (`Heading`, `LastTells`).

**TTLCache.** `CacheInv`: the order has no key twice and its expiry times rise. `expire()` is a loop over a
dictionary it takes from; `ExpireLeaves` says what is left of it, a suffix of the order, and everything is concluded from that.

**Waits.** `_process_waits` goes through a list that shrinks. `Progress` says for each place of it: what the task
found is behind it, what it still has to ask is in front of it, and its counter is the number of entries
popped, which is true while one task is at the list (`overlap` records when another was).

**GuildChunks.** `InHands`: the buffer holds the members of all chunks so far of each request, and a member not
yet placed is still in the hands of every handler that yielded before it.

**Messages.** An update of a message is absolute, reactions are not. `Amounts` says that the reaction events on the way turn
the count the client knows, with the handlers that still await an author, into the server's count;
`NewestLast` that the last UPDATE on the way tells the server's version; `AnswersTell` what the
answer of a fetch has seen. `InTouch` joins them, for a message that is cached and that no race the module names has come over.
The types say that a cached count never exceeds twice the number of changes, races or not: `MessageBounds` charges each
reaction event, on its way or with a handler that awaits its author, once to the count it may still raise, and
handlers are no more than events because their numbers differ (`AuthorsFew`, an injection).

**GuildCache.** The properties are about a state in which nothing is on its way; the invariant says of every other state
what will come of it. Of a thing - a guild, a member, a channel, a role - that the server has no more, `DeadGoes`
says that an event on its way takes it and none after that brings it, or that it is not in the cache, nor
awaited, nor brought, or that it is excused, as a thread is that `delete_guild` forgot. Of a thing that the server has, `LiveComes` says that it is in the cache, listed in its guild, and nothing on its way
takes it, or that an event on its way is sure to bring it and none after that takes it. A role in the data of a
GUILD_CREATE is the exception: only a guild that is not in the cache yet takes the list of its roles from
there, which is what `FreshAt` says. `InKnown` says that the guild an event is about will be in the cache when it
arrives, `LeftLast` that the last an event says of a guild the client is not in is that it left, `LoneExcused` that
a channel in no list is excused. `EventHandled` and `AnswerPlaced` say once for all what the processors and the placing
functions do to a thing (`HandledWell`, `PlacedWell`), `SentKeeps` what an event that tells the truth does to the
invariant. `GuildCacheProofs` is about `GuildCache` on its own; `SafeProofs` shows that the part of
`SafeParts` is that module.

TLC agrees with the inductive invariants on the instances of the runs; the runs list the parts a
reader asks about.

**Only model-checked:**

* Every liveness property (`StopEnds` and `ZombieReplaced` of `gw_live`, `NobodyStuck` of `rl_bucket`, `WaitsEnd`, `GetsReady`
  and `BothPartsFire` of `parts_live`) and the fairness it rests on. TLAPS does not reason about them.

## 7. What the checks found

Six disagreements between the code and its documentation, each shown by a run:

1. **`Client.stop()` may never return** (`gw_stop_hang`). It closes the HTTP session first. With
   aiohttp from 3.12.4 on a receive on a closed session returns at once, again and again;
   `receive()` turns that into a message that `run()` skips with `continue`. `run()` looks at the
   message before it looks at the request to stop, so it never gets to it.
2. **A request may wait for ever** (`rl_orphan`). A response replaces the bucket's semaphore
   whenever its value is not the limit, which is so whenever a permit is out. Whoever waits for the
   old one is not woken by anybody.
3. **Failing checks raise the limit of concurrent runs** (`cmd_check`). Every exception but
   `MaxConcurrencyReached` releases the semaphore, also those that come before it was acquired.
4. **Shards of a second bucket never start** (`shards_hang`). After one bucket `astart` waits until
   *every* shard is ready, those it has not started included.
5. **An extension with a prefixed command cannot be reloaded** (`reload_lost`). Unloading leaves the
   removal of its commands to a task; loading finds the names taken and raises, and so does the
   way back.
6. **A voice connection whose HELLO does not come hangs** (`voice_hang`). `reconnect()` calls itself
   while it holds `_race_lock`, which is not reentrant.

Statements that a module makes and no run checks, each quoted from a comment or a docstring and not
true of the code:

* `GuildCache!MembersGo` - the members of a guild that was left stay: `delete_guild` hands
  `delete_member` its arguments in the wrong order (`smart_cache.py:665`). `UserGuildsKnown` - a
  guild that a user joins while the user's guilds are being asked for is forgotten.
* `delete_guild` says "delete associated objects" (`smart_cache.py:663`), but threads stay: `Guild.channels` reads
  `_channel_ids` only (`guild.py:363`). `GuildCache!OnlyRacesRemain` excuses them by name.
* `VoiceStates!BotListed` - the bot's own user stays listed in the voice channel it left
  (`channel.py:2299`).
* `Waits!StillListed` - a wait that is pending may be popped in place of another (`client.py:838`).
* `StartUp!StartupOnce` - Startup may be dispatched twice (`api/events/internal.py:103`): two READYs
  whose handlers look at `_startup` before either has set it.
* `EndPoints!ArgumentsReach` - two wrappers hand parameters to `Route` that its path does not name, and
  they are not sent (`http_requests/guild.py:31` and `:44`, `webhooks.py:66`).
* `Playback!AllPlayed` - a player may end with frames still in the pipe: `audio_complete` asks whether
  ffmpeg has exited, not whether what it wrote was read (`audio.py:227`).
* `PrefixedCalls!ExtraRefused` - with `ignore_extra = False` surplus words are dropped without an error
  (`command.py:792`: the test is the `elif` of one that is always true).
* `VoiceLink!StaysConnected` - muting the bot ends its voice connection: the handler's copy of the
  voice state closes the gateway in `__del__` (`active_voice_state.py:44`). `ConnectedIsUp` - `connected`
  stays true after the gateway has ended (`:91`).
* `Recording!DoneMeansEmpty` - with two users the end of a recording is lost: `_buffer_writer` goes on
  while *all* buffers hold something, so it ends when the first is empty (`audio_writer.py:47`).

Met while modelling, and visible in the modules, but not against anything the code promises: bytes
of a half-received message stay in the receive call's buffer over a reconnect and spoil the next
connection's first message; a reaction whose author cannot be fetched is never counted, since nothing catches
what `fetch_member` raises (`reaction_events.py:42`, `:44`); `ConsumeRest[tuple[...]]` hands over only the last word (`command.py:729`, `:732`); a
greedy parameter whose converter needs no argument takes no word; `Client.is_ready` may become true during a reconnect, through a
listener of the old connection; `BucketLock` lets requests that already passed `_lock`
make their calls after the bucket was closed; `lock_for_duration` raises when the bucket is closed
already; a global `retry_after` is wiped out by a task that slept when it came; a role-keyed
concurrency limit moves permits between keys; an exponential backoff may exceed its maximum by one
multiplication and a leaky bucket gives one token more than its rate in an interval;
`TTLCache.expire()` raises `StopIteration` on a cache it emptied; a callback that returns a trigger
revives a task that was stopped; starting a running task leaves two loops; an OrTrigger that starts
late fires its missed times in a burst; a greedy parameter with a default gives a word twice; a
voice gateway that resumes (close code 4015) clears `ready` and nothing sets it again; `ws_connect`
waits for a gateway whose `__aenter__` failed; `gateway_chunk(wait=True)` returns at once for a guild that
was chunked before, and chunks of a second request that come while a handler has yielded are
dropped; a recording's writer thread ends when a user's first
packet comes while it goes through the buffers, after which no packet is written and a
`stop_recording` that has begun to wait for it waits for ever; thread end points have no major parameter, so all threads share a bucket, and the
f-string paths of some application end points have a bucket per emoji.

## 8. What is not modelled, and why

* Of the modelled components: latency figures, the gateway rate limiter's clock (a sender waits
  for any time), presences in member chunks, the choice of the resume URL, the conversions of
  arguments, payloads and headers other than those of the rate limits, `TimeTrigger` and
  `CronTrigger` (calendar arithmetic of `datetime` and `croniter`), objects of the cache with a single
  key and nothing that refers to them (emoji, stickers, scheduled events, entitlements), setup and
  teardown functions of extensions, quoting of words, the help command.
* Listeners: `dispatch` starts a task for each and they share nothing.
* The processors of integrations, scheduled events, stages, entitlements and moderation
  rules: they build an object and dispatch it, or keep one under a single key. Those of threads are modelled by what they
  do to the cache (thread create, update and delete place and delete a channel), but for the threads and members that a
  THREAD_LIST_SYNC brings, and the members of a thread.
* Of a recording: decryption, decoding, silence and the formats. The pacing and the counters of voice packets, which are
  arithmetic on one thread; the keep-alive thread.
* Iterators: one reader, one page at a time.
* API objects, enumerations, event classes, converters, checks, serializers, utilities: sequential
  code and data, which unit tests reach.
* Developer extensions (`ext`), the encryption and opus codecs, tests, packaging.

## 9. Running it

    tlc -config gw_safe.cfg MCGateway.tla      # each run: PROJECT.json names module and cfg
    tlapm GatewayProofs.tla            # and each of the other seven *Proofs modules

`gw_safe`, `gw_session` and `parts_safe` have 2.5, 4.3 and 3.1 million states and take from half a minute to
two minutes, `rl_bucket` and `parts_live` one and a half; the others take seconds. From nothing
`SafeProofs` and `CallProofs` take ten to twelve minutes each, `GatewayProofs` and `PlaybackProofs` three to five, the others less.

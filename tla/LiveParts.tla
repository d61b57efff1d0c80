----------------------------- MODULE LiveParts -----------------------------
(***************************************************************************)
(* Parts of the client that have to come to an end, checked in one run     *)
(* with the fairness that each of them is specified with: part says which  *)
(* of them a behaviour is about, and the variables of the others keep a    *)
(* first value of theirs.  The parts share no state, so nothing is lost by *)
(* taking one at a time.                                                   *)
(***************************************************************************)
EXTENDS Naturals, Sequences, FiniteSets

CONSTANTS
    Parts,                                          \* the parts that are checked
    None,
    Callers, MaxRequests, Window, Delays,           \* of GlobalLock
    Loops, Triggers, MaxLag, MaxRunning, Far,       \* of Tasks
    Invocations, Keys, Commands,                    \* of Command
    Frames, PipeSize, BufferMax, MaxCalls,          \* of Playback
    LockedStream,                                   \* Audio.locked_stream, of Playback
    Guilds, MaxReadies, MaxChanges,                 \* of StartUp
    Shards, Home, Concurrencies, MaxShardReadies,   \* of ShardStart, with Guilds
    MaxFaults,                                      \* of ShardStart and VoiceLink
    Users, MaxPackets                               \* of Recording

VARIABLES
    part,
    glPc, queue, holder, sleepIn, glCalls, resetIn, pause, recent, since,
    trigger, age, parts, stopped, task, st, due, told, killed, running, twice, credit, fired,
    cmd, coPc, key, val, at,
    ffmpeg, written, reader, taken, buffer, initialised, player, waitFor, got, played, pbReady, resumed,
    stopping, notify, sincePause, pbCalls,
    fetchMembers, member, suComing, up, mine, suCached, suEvent, suReady, suStartup, suHandlers, object,
    chunking, chunked, startups, failed, blurred, changes,
    concurrency, left, buckets, launcher, seen, shard, shardReady, ssComing, ssCached, ssEvent, ssReady,
    ssStartup, ssHandlers, faults, once,
    vlPc, resume, owner, open, acked, vlReady, vlTold, vlKilled, closing, link, inbox, beat, session,
    inChannel, pending, vlCached, copied, hurt, vlFaults,
    dir, recording, complete, done, rcPc, who, received, writer, rcLeft, size, buffers, files, pos, output,
    rcWritten, raced

glVars == <<glPc, queue, holder, sleepIn, glCalls, resetIn, pause, recent, since>>
taVars == <<trigger, age, parts, stopped, task, st, due, told, killed, running, twice, credit, fired>>
coVars == <<cmd, coPc, key, val, at>>
pbVars == <<ffmpeg, written, reader, taken, buffer, initialised, player, waitFor, got, played, pbReady,
            resumed, stopping, notify, sincePause, pbCalls>>
suVars == <<fetchMembers, member, suComing, up, mine, suCached, suEvent, suReady, suStartup, suHandlers,
            object, chunking, chunked, startups, failed, blurred, changes>>
ssVars == <<concurrency, left, buckets, launcher, seen, shard, shardReady, ssComing, ssCached, ssEvent,
            ssReady, ssStartup, ssHandlers, faults, once>>
vlVars == <<vlPc, resume, owner, open, acked, vlReady, vlTold, vlKilled, closing, link, inbox, beat,
            session, inChannel, pending, vlCached, copied, hurt, vlFaults>>
rcVars == <<dir, recording, complete, done, rcPc, who, received, writer, rcLeft, size, buffers, files, pos,
            output, rcWritten, raced>>
vars == <<part, glVars, taVars, coVars, pbVars, suVars, ssVars, vlVars, rcVars>>

Gl == INSTANCE GlobalLock WITH Tasks <- Callers, NoOne <- None, pc <- glPc, calls <- glCalls
Ta == INSTANCE Tasks WITH NoOne <- None
Co == INSTANCE Command WITH NoOne <- None, pc <- coPc
Pb == INSTANCE Playback WITH Locked <- LockedStream, ready <- pbReady, calls <- pbCalls
Su == INSTANCE StartUp WITH
    MaxReady <- MaxReadies, coming <- suComing, cached <- suCached, guildEvent <- suEvent,
    ready <- suReady, startup <- suStartup, handlers <- suHandlers
Ss == INSTANCE ShardStart WITH
    MaxReady <- MaxShardReadies, coming <- ssComing, cached <- ssCached, guildEvent <- ssEvent,
    ready <- ssReady, startup <- ssStartup, handlers <- ssHandlers
Vl == INSTANCE VoiceLink WITH
    pc <- vlPc, ready <- vlReady, told <- vlTold, killed <- vlKilled, cached <- vlCached,
    faults <- vlFaults
Rc == INSTANCE Recording WITH pc <- rcPc, left <- rcLeft, written <- rcWritten

ASSUME GlobalLockConstants == Gl!NoOneAssumption /\ Gl!NumbersAssumption
ASSUME TasksConstants == Ta!TriggersAssumption /\ Ta!NumbersAssumption /\ Ta!NoOneAssumption
ASSUME CommandConstants == Co!CommandsAssumption /\ Co!NoOneAssumption /\ Co!KeysAssumption
ASSUME ReadinessConstants == Su!GuildsAssumption /\ Vl!NoneAssumption
ASSUME PlaybackConstants == Pb!NumbersAssumption /\ Pb!NoneAssumption

-----------------------------------------------------------------------------
Any(S) == CHOOSE x \in S : TRUE

\* A first value for the variables of the parts that a behaviour is not about, where Init
\* leaves a choice.
Init ==
    /\ part \in Parts
    /\ part # "Tasks" => trigger = Any(Triggers)
    /\ part # "Command" => cmd = Any(Commands) /\ key = [i \in Invocations |-> Any(Keys)]
    /\ part # "StartUp" => fetchMembers = FALSE /\ member = {}
    /\ part # "ShardStart" => concurrency = Any(Concurrencies)
    /\ part # "Recording" => dir = TRUE
    /\ Gl!Init /\ Ta!Init /\ Co!Init /\ Pb!Init /\ Su!Init /\ Ss!Init /\ Vl!Init /\ Rc!Init

Next ==
    \/ part = "GlobalLock" /\ Gl!Next
       /\ UNCHANGED <<part, taVars, coVars, pbVars, suVars, ssVars, vlVars, rcVars>>
    \/ part = "Tasks" /\ Ta!Next
       /\ UNCHANGED <<part, glVars, coVars, pbVars, suVars, ssVars, vlVars, rcVars>>
    \/ part = "Command" /\ Co!Next
       /\ UNCHANGED <<part, glVars, taVars, pbVars, suVars, ssVars, vlVars, rcVars>>
    \/ part = "Playback" /\ Pb!Next
       /\ UNCHANGED <<part, glVars, taVars, coVars, suVars, ssVars, vlVars, rcVars>>
    \/ part = "StartUp" /\ Su!Next
       /\ UNCHANGED <<part, glVars, taVars, coVars, pbVars, ssVars, vlVars, rcVars>>
    \/ part = "ShardStart" /\ Ss!Next
       /\ UNCHANGED <<part, glVars, taVars, coVars, pbVars, suVars, vlVars, rcVars>>
    \/ part = "VoiceLink" /\ Vl!Next
       /\ UNCHANGED <<part, glVars, taVars, coVars, pbVars, suVars, ssVars, rcVars>>
    \/ part = "Recording" /\ Rc!Next
       /\ UNCHANGED <<part, glVars, taVars, coVars, pbVars, suVars, ssVars, vlVars>>

Spec == Init /\ [][Next]_vars

\* The fairness of every part, for the behaviours that are about it.
FairSpec ==
    /\ Spec
    /\ WF_glVars(part = "GlobalLock" /\ Gl!Tick)
    /\ \A t \in Callers : /\ WF_glVars(part = "GlobalLock" /\ Gl!Acquire(t))
                          /\ WF_glVars(part = "GlobalLock" /\ Gl!Wake(t))
    /\ WF_taVars(part = "Tasks" /\ Ta!Tick)
    /\ WF_taVars(part = "Tasks" /\ Ta!CallbackEnds)
    /\ \A l \in Loops : WF_taVars(part = "Tasks" /\ Ta!Loop(l))
    /\ \A i \in Invocations : WF_coVars(part = "Command" /\ Co!Step(i) /\ coPc[i] # "idle")
    /\ WF_pbVars(part = "Playback" /\ Pb!Reader)
    /\ WF_pbVars(part = "Playback" /\ Pb!Player)
    /\ WF_pbVars(part = "Playback" /\ Pb!Notified)
    /\ \A i \in 1..MaxReadies : WF_suVars(part = "StartUp" /\ Su!Handler(i))
    /\ \A g \in Guilds : WF_suVars(part = "StartUp" /\ Su!ChunkEnds(g))
    /\ WF_ssVars(part = "ShardStart" /\ Ss!Launcher)
    /\ \A i \in 1..MaxShardReadies : WF_ssVars(part = "ShardStart" /\ Ss!Handler(i))
    /\ \A s \in Shards : WF_ssVars(part = "ShardStart" /\ (Ss!WebsocketReady(s) \/ Ss!StartFails(s)))
    /\ SF_vlVars(part = "VoiceLink" /\ Vl!Rx) /\ SF_vlVars(part = "VoiceLink" /\ Vl!Hb)
    /\ WF_vlVars(part = "VoiceLink" /\ Vl!Greets) /\ SF_vlVars(part = "VoiceLink" /\ Vl!Refuses)
    /\ WF_vlVars(part = "VoiceLink" /\ Vl!Events)
    /\ WF_rcVars(part = "Recording" /\ Rc!Rec) /\ WF_rcVars(part = "Recording" /\ Rc!_buffer_writer)
    /\ WF_rcVars(part = "Recording" /\ Rc!Stop)

-----------------------------------------------------------------------------
(***************************************************************************)
(* Properties.  Each is said where its part is specified; here is what it  *)
(* is about.                                                               *)
(***************************************************************************)
\* Every part's variables have their types.
TypeOK == Gl!TypeOK /\ Ta!TypeOK /\ Co!TypeOK /\ Pb!TypeOK /\ Su!TypeOK /\ Ss!TypeOK /\ Vl!TypeOK /\ Rc!TypeOK

\* GlobalLock.wait lets no more calls through in a second than two periods' worth ...
BurstBounded == Gl!BurstBounded
\* ... and nobody while the API has asked for a pause.
PauseKept == Gl!PauseKept

\* However a task is started, stopped, restarted and rescheduled: one loop goes on, a date
\* fires once, an interval is kept ...
FiresAsDue == Ta!OneLoop /\ Ta!DateOnce /\ Ta!RateKept
\* ... nothing fires while it is stopped ...
StopHolds == Ta!StopHolds
\* ... and neither part of an OrTrigger is passed over.
BothPartsFire == Ta!BothPartsFire

\* max_concurrency: whatever raises where, no slot of a command is lost or made up.
SlotsKept == Co!NoSlotLost /\ Co!SlotsConserved /\ Co!TotalConserved

\* Audio frames pass through pipe, read-ahead thread, buffer and player in their order: the
\* player implements AudioStream.
StreamKept == Pb!StreamKept
\* A paused player sends at most the packet it had in its hands.
PauseHolds == Pb!PauseHolds

\* What a user said is encoded as it was written, whatever the threads of a recording do to
\* each other, and whole when they kept out of each other's way.
RecordingKept == Rc!RecordingKept

\* Ready is not said too early: Startup finds every guild of the READY in the cache, and is
\* dispatched after every shard was ready; a voice gateway is ready with the key of its session.
ReadyIsEarned == [][Su!GuildsAreThere /\ Ss!StartupAfterAll' /\ Vl!KeyIsCurrent']_vars

\* Whoever waits is served: for the global rate limit, for a slot of a command, and for a
\* stopped task, a stopped player and a stopped recording to end.  (Callers, and invocations,
\* are interchangeable: what holds of one of them holds of all.)  The parts' own properties -
\* Served, StopEnds - are taken in one formula, which costs as much as any one of them.
WaitsEnd ==
    \/ part = "GlobalLock" /\ Gl!Waits(Any(Callers))
    \/ part = "Command" /\ Co!Waits(Any(Invocations))
    \/ part = "Tasks" /\ stopped
    \/ part = "Playback" /\ Pb!Stopped
    \/ part = "Recording" /\ Rc!Stopping
    ~>
    \/ part = "GlobalLock" /\ Gl!Through(Any(Callers))
    \/ part = "Command" /\ ~Co!Waits(Any(Invocations))
    \/ part = "Tasks" /\ (~stopped \/ Ta!AllEnded)
    \/ part = "Playback" /\ player = "over"
    \/ part = "Recording" /\ Rc!Back

\* And nobody's wake-up is ever lost, which is the safety in that: whoever waits is owed it by
\* something that is under way.
NoWakeUpLost ==
    /\ Co!WaiterHasHolder /\ Pb!WakesUp /\ Rc!WaitsForWriter
    /\ Su!MembersAreAsked /\ Ss!UpIsSeen /\ Vl!LinkIsAwaited

\* A client gets ready, and so do the shards of one bucket; a voice connection that was lost, or
\* whose bot has left, is made anew or given up (BecomesReady, AllStart, LinkSettles).
GetsReady ==
    \/ part = "StartUp" /\ Su!Starts
    \/ part = "ShardStart" /\ Ss!OneBucket
    \/ part = "VoiceLink" /\ ~Vl!Linked
    ~>
    \/ part = "StartUp" /\ (suReady \/ ~Su!Starts)
    \/ part = "ShardStart" /\ Ss!AllUp
    \/ part = "VoiceLink" /\ Vl!Settled

-----------------------------------------------------------------------------
\* What a comment says of astart: all shards start, if none fails.
ShardsStart == Ss!ShardsStart

\* What a comment says of VoiceGateway.reconnect: a connection that failed is handled.
FailureHandled == Vl!FailureHandled

\* What the documentation says of max_concurrency: no more invocations run at once.
AtMostConcurrent == Co!AtMostConcurrent
=============================================================================

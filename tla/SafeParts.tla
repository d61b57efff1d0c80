----------------------------- MODULE SafeParts -----------------------------
(***************************************************************************)
(* Parts of the client whose correctness does not depend on what the       *)
(* scheduler does, checked in one run: part says which of them a behaviour *)
(* is about, and the variables of the others keep a first value of theirs. *)
(* The parts share no state, so nothing is lost by taking one at a time.   *)
(***************************************************************************)
EXTENDS Naturals, Sequences, FiniteSets

CONSTANTS
    Parts,                                              \* the parts that are checked
    None,
    OwnUser, MaxEvents, MaxChanges,                     \* of several parts
    CachedGuilds, CachedUsers, CachedChannels, CachedThreads, CachedRoles, ChannelTypes,
    GuildOf, MaxGuildChanges, MaxAnswers,               \* of GuildCache
    Emojis, MaxHandlers,                                \* of Messages
    VoiceUsers, VoiceChannels, MaxMoves,                \* of VoiceStates
    Entries, Ttl, Soft, Hard,                           \* of TTLCache
    Rate, Interval, MaxInterval, Multiplier, BurstRate, \* of Cooldowns
    Waiters,                                            \* of Waits
    Ids,                                                \* of EndPoints
    Files, Sources, MaxMade, MaxUnloads, MaxEdits,      \* of Extensions
    Tree, Words, Numbers, Signatures, MaxWords,         \* of PrefixedCalls
    Chunks, MaxRequests                                 \* of GuildChunks

VARIABLES
    part,
    gcServer, gcEvents, answers, cache, look, excused, gcChanges,
    msServer, msEvents, msHandlers, msCached, wrong, msChanges,
    voice, vsEvents, fetching, channels, inside, states, muddled, moves,
    order, left, raised,
    system, tokens, age, interval, recent,
    slow, waits, future, tasks, current, overlap, missed,
    first, second,
    file, reg, edits, hasty, promised,
    phase, pcCached, words, enabled, params, ignoreExtra, command, args, index, arg, param, inner,
    newArgs, kwargs, pcEvents,
    chNext, chBuffer, chHandlers, listing, placed, chunked

gcVars == <<gcServer, gcEvents, answers, cache, look, excused, gcChanges>>
msVars == <<msServer, msEvents, msHandlers, msCached, wrong, msChanges>>
vsVars == <<voice, vsEvents, fetching, channels, inside, states, muddled, moves>>
tcVars == <<order, left, raised>>
cdVars == <<system, tokens, age, interval, recent>>
waVars == <<slow, waits, future, tasks, current, overlap, missed>>
epVars == <<first, second>>
exVars == <<file, reg, edits, hasty, promised>>
pcVars == <<phase, pcCached, words, enabled, params, ignoreExtra, command, args, index, arg, param,
            inner, newArgs, kwargs, pcEvents>>
chVars == <<chNext, chBuffer, chHandlers, listing, placed, chunked>>
vars == <<part, gcVars, msVars, vsVars, tcVars, cdVars, waVars, epVars, exVars, pcVars, chVars>>

Gc == INSTANCE GuildCache WITH
    Guilds <- CachedGuilds, Users <- CachedUsers, Channels <- CachedChannels, Roles <- CachedRoles,
    Threads <- CachedThreads,
    Types <- ChannelTypes, Home <- GuildOf, Bot <- OwnUser, MaxChanges <- MaxGuildChanges,
    server <- gcServer, events <- gcEvents, changes <- gcChanges
Ms == INSTANCE Messages WITH
    server <- msServer, events <- msEvents, handlers <- msHandlers, cached <- msCached, changes <- msChanges
Vs == INSTANCE VoiceStates WITH
    Users <- VoiceUsers, Channels <- VoiceChannels, Bot <- OwnUser, events <- vsEvents
Tc == INSTANCE TTLCache WITH Keys <- Entries
Cd == INSTANCE Cooldowns
Wa == INSTANCE Waits WITH Waits <- Waiters, NoEvent <- None, NoWait <- None
Ep == INSTANCE EndPoints
Ex == INSTANCE Extensions
Pc == INSTANCE PrefixedCalls WITH cached <- pcCached, events <- pcEvents
Ch == INSTANCE GuildChunks WITH next <- chNext, buffer <- chBuffer, handlers <- chHandlers

ASSUME GuildCacheNames == Gc!NamesAssumption
ASSUME MessageBound == Ms!BoundsAssumption
ASSUME TtlNumbers == Tc!NumbersAssumption
ASSUME VoiceConstants == Vs!NamesAssumption /\ Vs!BoundsAssumption
ASSUME CooldownNumbers == Cd!NumbersAssumption
ASSUME ExtensionData == Ex!SourcesAssumption
ASSUME CallSignatures == Pc!SignaturesAssumption
ASSUME WaitsNames == Wa!NoneAssumption
ASSUME ChunksData == Ch!ChunksAssumption

-----------------------------------------------------------------------------
Any(S) == CHOOSE x \in S : TRUE

\* A first value for the variables of the parts that a behaviour is not about, where Init
\* leaves a choice.
Init ==
    /\ part \in Parts
    /\ IF part = "GuildCache" THEN TRUE ELSE
        gcServer = [joined |-> {}, away |-> {}, missed |-> {}, alive |-> Gc!Objects, there |-> {},
                    types |-> [c \in CachedChannels |-> Any(ChannelTypes)]]
    /\ IF part = "Messages" THEN TRUE ELSE msCached = None
    /\ IF part = "VoiceStates" THEN TRUE ELSE channels = {}
    /\ IF part = "Cooldowns" THEN TRUE ELSE system = "fixed"
    /\ IF part = "Waits" THEN TRUE ELSE slow = {}
    /\ IF part = "EndPoints" THEN TRUE ELSE
        LET ep == CHOOSE e \in Ep!EndPointSet : e.params = {} IN
        first \in Ep!CallsOf(ep) /\ second \in Ep!CallsOf(ep)
    /\ IF part = "Extensions" THEN TRUE ELSE
        file = [f \in Files |-> [members |-> << >>, ends |-> "import"]]
    /\ IF part = "PrefixedCalls" THEN TRUE ELSE
        pcCached = "no" /\ words = <<Any(Words)>> /\ enabled = Tree /\ params = << >> /\ ignoreExtra = TRUE
    /\ Gc!Init /\ Ms!Init /\ Vs!Init /\ Tc!Init /\ Cd!Init /\ Wa!Init /\ Ex!Init /\ Pc!Init /\ Ch!Init
    /\ IF part = "EndPoints" THEN Ep!Init ELSE TRUE

Next ==
    \/ part = "GuildCache" /\ Gc!Next
       /\ UNCHANGED <<part, msVars, vsVars, tcVars, cdVars, waVars, epVars, exVars, pcVars, chVars>>
    \/ part = "Messages" /\ Ms!Next
       /\ UNCHANGED <<part, gcVars, vsVars, tcVars, cdVars, waVars, epVars, exVars, pcVars, chVars>>
    \/ part = "VoiceStates" /\ Vs!Next
       /\ UNCHANGED <<part, gcVars, msVars, tcVars, cdVars, waVars, epVars, exVars, pcVars, chVars>>
    \/ part = "TTLCache" /\ Tc!Next
       /\ UNCHANGED <<part, gcVars, msVars, vsVars, cdVars, waVars, epVars, exVars, pcVars, chVars>>
    \/ part = "Cooldowns" /\ Cd!Next
       /\ UNCHANGED <<part, gcVars, msVars, vsVars, tcVars, waVars, epVars, exVars, pcVars, chVars>>
    \/ part = "Waits" /\ Wa!Next
       /\ UNCHANGED <<part, gcVars, msVars, vsVars, tcVars, cdVars, epVars, exVars, pcVars, chVars>>
    \/ part = "EndPoints" /\ Ep!Next
       /\ UNCHANGED <<part, gcVars, msVars, vsVars, tcVars, cdVars, waVars, exVars, pcVars, chVars>>
    \/ part = "Extensions" /\ Ex!Next
       /\ UNCHANGED <<part, gcVars, msVars, vsVars, tcVars, cdVars, waVars, epVars, pcVars, chVars>>
    \/ part = "PrefixedCalls" /\ Pc!Next
       /\ UNCHANGED <<part, gcVars, msVars, vsVars, tcVars, cdVars, waVars, epVars, exVars, chVars>>
    \/ part = "GuildChunks" /\ Ch!Next
       /\ UNCHANGED <<part, gcVars, msVars, vsVars, tcVars, cdVars, waVars, epVars, exVars, pcVars>>

Spec == Init /\ [][Next]_vars

-----------------------------------------------------------------------------
(***************************************************************************)
(* Properties.  Each is said where its part is specified; here is what it  *)
(* is about.                                                               *)
(***************************************************************************)

\* Every part's variables have their types, GlobalCache lists only what it keeps, and a
\* TTLCache has at most hard_limit entries.
TypeOK ==
    /\ Gc!TypeOK /\ Gc!ListedAreKept
    /\ Ms!TypeOK /\ Vs!TypeOK
    /\ Tc!TypeOK /\ Tc!WithinHardLimit
    /\ Cd!TypeOK /\ Wa!TypeOK /\ Ex!TypeOK /\ Pc!TypeOK /\ Ch!TypeOK

\* GlobalCache: once everything has arrived, nothing of the client's guilds is missing, and
\* a guild that says it is chunked has all its members ...
NothingMissing == Gc!NothingMissing /\ Ch!ChunkedMeansAll
\* ... and what is gone at the server is gone, but for answers that raced with its deletion.
OnlyRacesRemain == Gc!OnlyRacesRemain

\* The handlers of message and reaction events keep a cached message in step with the server.
InStep == Ms!InStep

\* place_voice_state_data keeps a user in one voice channel, its own.
InOnePlace == Vs!InOnePlace

\* TTLCache.expire may stop at the first entry that is not expired; no entry goes too early,
\* none stays too long.
ExpiryKept == [][Tc!SortedByExpiry' /\ Tc!InsertionCleans /\ Tc!LostOnlyWhenDue]_tcVars

\* The cooldown strategies give no more tokens in an interval than they may ...
RateKept == Cd!RateKept
\* ... and get_cooldown_time tells how long there is none.
WaitIsEnough == Cd!WaitIsEnough

\* _process_waits: an event asks every wait that is pending, and Client.waits holds exactly
\* those.
WaitsKept == Wa!EventReaches /\ Wa!ListExact

\* The wrappers of the REST end points give a path the parameters it names ...
PathsResolve == Ep!PathsResolve
\* ... and Route.rl_bucket tells the calls apart that the server counts apart.
KeysTellApart == Ep!KeysTellApart

\* Unloading an extension leaves nothing of it behind ...
UnloadedIsGone == Ex!UnloadedIsGone
\* ... and takes nothing from another.
LoadedIsWhole == Ex!LoadedIsWhole

\* call_callback hands the words of a message to the parameters in their order.
WordsInOrder == Pc!WordsInOrder

-----------------------------------------------------------------------------
\* What the documentation says of reload_extension: a reload that changes nothing keeps the
\* extension.
ReloadKeeps == Ex!ReloadKeeps

\* What the documentation says of ignore_extra = False: no word is left over.
ExtraRefused == Pc!ExtraRefused
=============================================================================

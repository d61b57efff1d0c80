---------------------------- MODULE VoiceStates ----------------------------
(***************************************************************************)
(* Who is in which voice channel: voice_state_cache of GlobalCache         *)
(* (Interfluxer/client/smart_cache.py) and the member lists of the voice   *)
(* channels, written by _on_raw_voice_state_update                         *)
(* (api/events/processors/voice_events.py) and by the voice states of a    *)
(* GUILD_CREATE, one task per state.                                       *)
(*                                                                         *)
(* The user is taken out of the old channel before the new channel is      *)
(* fetched and put into the new one after it: between the two stands an    *)
(* await when the channel is not cached.  Mute and deafen flags are left   *)
(* out.                                                                    *)
(***************************************************************************)
EXTENDS Naturals, Sequences, FiniteSets

CONSTANTS
    Users, Channels,
    Bot,           \* the user the client is logged in as
    None,
    MaxMoves,      \* bound: moves of all users
    MaxEvents      \* bound: events on their way

NamesAssumption == Bot \notin Users /\ None \notin Channels
BoundsAssumption == MaxMoves \in Nat

VARIABLES
    voice,       \* the channel a user is in, at the server
    events,      \* events on their way
    fetching,    \* updates that wait for their channel
    channels,    \* voice channels in the cache
    inside,      \* Channel._voice_member_ids, of cached channels
    states,      \* voice_state_cache: the channel of the state
    muddled,     \* history: users whose updates overlapped, or lost their channel
    moves        \* bound: moves so far

vars == <<voice, events, fetching, channels, inside, states, muddled, moves>>

Everyone == Users \cup {Bot}

-----------------------------------------------------------------------------
\* The server: a user joins, moves, leaves, or changes a flag in the same channel.

Move(u, c) ==
    /\ moves < MaxMoves /\ Len(events) < MaxEvents
    /\ voice[u] # None \/ c # None
    /\ moves' = moves + 1
    /\ voice' = [voice EXCEPT ![u] = c]
    /\ events' = Append(events, [user |-> u, channel |-> c, number |-> moves'])
    /\ UNCHANGED <<fetching, channels, inside, states, muddled>>

-----------------------------------------------------------------------------

Without(seq, u) ==    \* list.remove: the first entry goes
    LET first == {i \in DOMAIN seq : seq[i] = u /\ \A j \in 1..(i - 1) : seq[j] # u} IN
    IF first = {} THEN seq
    ELSE LET f == CHOOSE i \in first : TRUE IN SubSeq(seq, 1, f - 1) \o SubSeq(seq, f + 1, Len(seq))

\* Mutant: nobody is taken out.
LeftInside(u) == inside

\* The lists after the user left the channel of the cached state, when that channel is cached.
TakenOut(u) ==
    IF states[u] \in channels THEN [inside EXCEPT ![states[u]] = Without(@, u)] ELSE inside

\* The state of the client's own user is not stored.
Stored(u, c) == IF u = Bot THEN UNCHANGED states ELSE states' = [states EXCEPT ![u] = c]

\* place_voice_state_data to its await, or to its end.
UpdateArrives ==
    /\ events # <<>>
    /\ LET e == Head(events) IN
        /\ \/ /\ e.channel = None
              /\ inside' = TakenOut(e.user) /\ Stored(e.user, None) /\ UNCHANGED fetching
           \/ /\ e.channel \in channels
              /\ inside' = [TakenOut(e.user) EXCEPT ![e.channel] = Append(@, e.user)]
              /\ Stored(e.user, e.channel) /\ UNCHANGED fetching
           \/ /\ e.channel # None /\ e.channel \notin channels
              /\ inside' = TakenOut(e.user) /\ fetching' = fetching \cup {e} /\ UNCHANGED states
        /\ muddled' = muddled \cup {u \in {e.user} : \E f \in fetching : f.user = u}   \* updates overlap
    /\ events' = Tail(events)
    /\ UNCHANGED <<voice, channels, moves>>

\* fetch_channel has answered: the channel is cached now, empty if it was not before.
ChannelFetched(e) ==
    /\ e \in fetching
    /\ fetching' = fetching \ {e}
    /\ channels' = channels \cup {e.channel}
    /\ inside' = [inside EXCEPT ![e.channel] = Append(IF e.channel \in channels THEN @ ELSE <<>>, e.user)]
    /\ Stored(e.user, e.channel)
    /\ UNCHANGED <<voice, events, muddled, moves>>

\* Forbidden: the channel made in its place has no list of members, and the task ends there.
\* NotFound ends it too.
ChannelRefused(e) ==
    /\ e \in fetching /\ e.channel \notin channels
    /\ fetching' = fetching \ {e}
    /\ muddled' = muddled \cup {e.user}
    /\ UNCHANGED <<voice, events, channels, inside, states, moves>>

\* The channel goes from the cache: deleted, or its type changed.  Its list goes with it.
ChannelDropped(c) ==
    /\ c \in channels
    /\ channels' = channels \ {c}
    /\ inside' = [inside EXCEPT ![c] = <<>>]
    /\ muddled' = muddled \cup {u \in Everyone : states[u] = c}
    /\ UNCHANGED <<voice, events, fetching, states, moves>>

-----------------------------------------------------------------------------

Init ==
    /\ voice = [u \in Everyone |-> None] /\ states = [u \in Everyone |-> None]
    /\ channels \in SUBSET Channels
    /\ inside = [c \in Channels |-> <<>>]
    /\ events = <<>> /\ fetching = {} /\ muddled = {} /\ moves = 0

Next ==
    \/ \E u \in Everyone, c \in Channels \cup {None} : Move(u, c)
    \/ UpdateArrives
    \/ \E e \in fetching : ChannelFetched(e) \/ ChannelRefused(e)
    \/ \E c \in Channels : ChannelDropped(c)

Spec == Init /\ [][Next]_vars

-----------------------------------------------------------------------------

Times(u, c) == Cardinality({i \in DOMAIN inside[c] : inside[c][i] = u})

Updates(Cs) == [user : Everyone, channel : Cs, number : 1 .. MaxMoves]

TypeOK ==
    /\ moves \in 0 .. MaxMoves
    /\ voice \in [Everyone -> Channels \cup {None}] /\ states \in [Everyone -> Channels \cup {None}]
    /\ events \in Seq(Updates(Channels \cup {None})) /\ fetching \subseteq Updates(Channels)
    /\ channels \subseteq Channels /\ muddled \subseteq Everyone
    /\ inside \in [Channels -> Seq(Everyone)]
    /\ \A c \in Channels \ channels : inside[c] = <<>>

Quiet == events = <<>> /\ fetching = {}

\* Once everything has arrived, a user's state is where the server has the user, and the user is
\* listed once in that channel and in no other: unless two of the user's updates overlapped at
\* the await of fetch_channel, or a channel was refused or dropped.
InOnePlace ==
    Quiet => \A u \in Users \ muddled :
        /\ states[u] = voice[u]
        /\ \A c \in channels : Times(u, c) = (IF c = voice[u] THEN 1 ELSE 0)

\* channel.py says voice_members is "a list of members that are currently in the channel": the
\* client's own user is listed where it is and nowhere else.
BotListed ==
    Quiet /\ Bot \notin muddled => \A c \in channels : Times(Bot, c) > 0 => c = voice[Bot]
=============================================================================

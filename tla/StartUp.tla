------------------------------ MODULE StartUp ------------------------------
(***************************************************************************)
(* How a Client becomes ready: _on_websocket_ready and on_resume           *)
(* (Interfluxer/client/client.py) with _on_raw_guild_create and            *)
(* _on_raw_guild_delete (api/events/processors/guild_events.py),           *)
(* GatewayClient.reconnect and stop.                                       *)
(*                                                                         *)
(* Every READY starts a handler of its own, which waits for the guilds it  *)
(* was told of, 3 seconds at the most without one; they all share          *)
(* _guild_event, and the connection may be lost, resumed or made anew      *)
(* while they wait.  Events of a connection arrive in order, so a handler  *)
(* starts before the guilds of its READY come.                             *)
(***************************************************************************)
EXTENDS Naturals, Sequences, FiniteSets

CONSTANTS
    Guilds,
    MaxReady,      \* bound: READYs
    MaxChanges     \* bound: resumes and guilds that the user joins or leaves

GuildsAssumption == IsFiniteSet(Guilds)

VARIABLES
    fetchMembers,  \* Client.fetch_members
    member,        \* the guilds of the client's user, at the server
    coming,        \* guilds whose GUILD_CREATE is on its way
    up,            \* is there a connection, past READY or RESUMED?
    mine,          \* ClientUser._guild_ids
    cached,        \* guild_cache
    object,        \* history: how many Guild objects of the guild the cache has dropped
    guildEvent,    \* _guild_event
    ready, startup,
    handlers,      \* the calls of _on_websocket_ready
    chunking, chunked,   \* Guild objects whose members are being fetched, and those where that is done
    startups,      \* history: how often Startup was dispatched
    failed,        \* history: did a member list fail to come?
    blurred,       \* history: did a wait time out, or a resume or another guild come in between?
    changes        \* bound: changes so far

server == <<member, coming, up, changes>>
members == <<object, chunking, chunked, failed>>
flags == <<ready, startup, startups>>
vars == <<fetchMembers, server, mine, cached, guildEvent, flags, handlers, members, blurred>>

Known == mine \cap cached      \* Client.guilds
Objects(known) == {<<g, object[g]>> : g \in known}    \* of guilds that are in the cache
Waiting == {i \in DOMAIN handlers : handlers[i].pc # "over"}

-----------------------------------------------------------------------------
\* The connection

\* The handler's stages are its awaits: "asleep" in _guild_event.wait, "woken" there, "chunk" in
\* chunked.wait, and "over".

\* Mutant: one guild less than expected.
HasAllButOne(h, known) == Cardinality(known) + 1 >= Cardinality(h.expected)

\* The first READY counts the guilds in the cache, a later one those that came since.
HasAll(h, known) ==
    Cardinality(IF h.first THEN known ELSE h.seen) = Cardinality(h.expected)

\* The loop is over: the members of every guild are waited for, without a limit, before Startup.
AfterLoop(h, known) ==
    IF h.first /\ fetchMembers /\ ~(Objects(known) \subseteq chunked) THEN "chunk" ELSE "over"

\* The top of the loop, when _guild_event is set or not.
Stage(h, known, event) ==
    IF HasAll(h, known) THEN AfterLoop(h, known) ELSE IF event THEN "woken" ELSE "asleep"

\* Handler h stops at stage pc, or is over: Ready is dispatched, and Startup by a first one.
Reaches(i, h, pc, known) ==
    /\ LET Moved == [h EXCEPT !.pc = pc, !.todo = Objects(known)] IN
       handlers' = IF i \in DOMAIN handlers THEN [handlers EXCEPT ![i] = Moved]
                                            ELSE Append(handlers, Moved)
    /\ ready' = (ready \/ pc = "over")
    /\ startup' = (startup \/ (pc = "over" /\ h.first))
    /\ startups' = IF pc = "over" /\ h.first THEN startups + 1 ELSE startups

\* READY: the handler runs to its first await.
WebsocketReady ==
    /\ ~up /\ Len(handlers) < MaxReady
    /\ up' = TRUE /\ coming' = member
    /\ mine' = mine \cup member
    /\ LET h == [pc |-> "asleep", first |-> ~startup, expected |-> member, seen |-> {}, todo |-> {}]
           known == mine' \cap cached
       IN  Reaches(Len(handlers) + 1, h, Stage(h, known, guildEvent), known)
    /\ UNCHANGED <<fetchMembers, member, changes, cached, guildEvent, members, blurred>>

\* on_resume
Resumed ==
    /\ ~up /\ handlers # <<>> /\ changes < MaxChanges
    /\ changes' = changes + 1
    /\ up' = TRUE /\ ready' = TRUE
    /\ blurred' = (blurred \/ Waiting # {})
    /\ UNCHANGED <<fetchMembers, member, coming, mine, cached, guildEvent, startup, startups, handlers, members>>

\* GatewayClient.reconnect, by way of clear_ready.
ConnectionLost ==
    /\ up
    /\ up' = FALSE /\ ready' = FALSE
    /\ UNCHANGED <<fetchMembers, member, coming, changes, mine, cached, guildEvent, startup, startups,
                   handlers, members, blurred>>

Joins(g) ==
    /\ up /\ g \notin member /\ changes < MaxChanges
    /\ changes' = changes + 1
    /\ member' = member \cup {g} /\ coming' = coming \cup {g}
    /\ blurred' = (blurred \/ Waiting # {})
    /\ UNCHANGED <<fetchMembers, up, mine, cached, guildEvent, flags, handlers, members>>

-----------------------------------------------------------------------------
\* The processors

\* asyncio.Event.set wakes whoever waits, however soon the event is cleared.
Woken(hs) == [i \in DOMAIN hs |-> IF hs[i].pc = "asleep" THEN [hs[i] EXCEPT !.pc = "woken"] ELSE hs[i]]

\* GUILD_CREATE; the listener of a second READY writes down that it came.
GuildCreate(g) ==
    /\ up /\ g \in coming
    /\ coming' = coming \ {g}
    /\ cached' = cached \cup {g} /\ mine' = mine \cup {g}
    /\ guildEvent' = TRUE
    /\ handlers' = Woken([i \in DOMAIN handlers |->
                            IF handlers[i].first \/ handlers[i].pc = "over" THEN handlers[i]
                                                     ELSE [handlers[i] EXCEPT !.seen = @ \cup {g}]])
    /\ chunking' = IF fetchMembers THEN chunking \cup (Objects({g}) \ chunked) ELSE chunking
    /\ UNCHANGED <<fetchMembers, member, up, changes, flags, object, chunked, failed, blurred>>

\* GUILD_DELETE of a guild that was left: its object is dropped from the cache, with its chunked
\* event.  Who waits for that waits on, and the request for its members goes on.
GuildDelete(g) ==
    /\ up /\ g \in member /\ g \notin coming /\ changes < MaxChanges
    /\ changes' = changes + 1
    /\ member' = member \ {g}
    /\ mine' = mine \ {g} /\ cached' = cached \ {g}
    /\ blurred' = (blurred \/ Waiting # {})
    /\ object' = [object EXCEPT ![g] = @ + 1]
    /\ UNCHANGED <<fetchMembers, coming, up, guildEvent, flags, handlers, chunking, chunked, failed>>

\* Guild.http_chunk ends, or raises.
ChunkEnds(g) ==
    /\ \E o \in chunking :
        /\ o[1] = g
        /\ chunking' = chunking \ {o}
        /\ \/ chunked' = chunked \cup {o} /\ UNCHANGED failed
           \/ failed' = TRUE /\ UNCHANGED chunked
    /\ UNCHANGED <<object, fetchMembers, server, mine, cached, guildEvent, flags, handlers, blurred>>

-----------------------------------------------------------------------------
\* _on_websocket_ready, from one await to the next

At(i, pc) == i \in DOMAIN handlers /\ handlers[i].pc = pc

Wakes(i) ==
    /\ At(i, "woken")
    /\ guildEvent' = FALSE
    /\ Reaches(i, handlers[i], Stage(handlers[i], Known, FALSE), Known)
    /\ UNCHANGED <<fetchMembers, server, mine, cached, members, blurred>>

\* Mutant: a timeout only goes round the loop again.
TimesOutAgain(i) ==
    /\ At(i, "asleep")
    /\ Reaches(i, handlers[i], Stage(handlers[i], Known, guildEvent), Known)
    /\ blurred' = TRUE
    /\ UNCHANGED <<fetchMembers, server, mine, cached, guildEvent, members>>

TimesOut(i) ==
    /\ At(i, "asleep")
    /\ Reaches(i, handlers[i], AfterLoop(handlers[i], Known), Known)
    /\ blurred' = TRUE
    /\ UNCHANGED <<fetchMembers, server, mine, cached, guildEvent, members>>

\* The members of the guilds it saw have come.
Chunked(i) ==
    /\ At(i, "chunk") /\ handlers[i].todo \subseteq chunked
    /\ Reaches(i, handlers[i], "over", {})
    /\ UNCHANGED <<fetchMembers, server, mine, cached, guildEvent, members, blurred>>

-----------------------------------------------------------------------------

Init ==
    /\ fetchMembers \in BOOLEAN /\ member \in SUBSET Guilds
    /\ coming = {} /\ up = FALSE /\ changes = 0
    /\ mine = {} /\ cached = {} /\ object = [g \in Guilds |-> 0] /\ guildEvent = FALSE
    /\ ready = FALSE /\ startup = FALSE /\ startups = 0
    /\ handlers = <<>>
    /\ chunking = {} /\ chunked = {} /\ failed = FALSE /\ blurred = FALSE

Handler(i) == Wakes(i) \/ TimesOut(i) \/ Chunked(i)

Next ==
    \/ WebsocketReady \/ Resumed \/ ConnectionLost
    \/ \E g \in Guilds : Joins(g) \/ GuildCreate(g) \/ GuildDelete(g) \/ ChunkEnds(g)
    \/ \E i \in 1..MaxReady : Handler(i)

Spec == Init /\ [][Next]_vars

\* Handlers go on, their waits time out, and requests for members end.
FairSpec ==
    /\ Spec
    /\ \A i \in 1..MaxReady : WF_vars(Handler(i))
    /\ \A g \in Guilds : WF_vars(ChunkEnds(g))

-----------------------------------------------------------------------------

TypeOK ==
    /\ cached \subseteq Guilds /\ object \in [Guilds -> Nat] /\ chunking \cap chunked = {}
    /\ \A i \in DOMAIN handlers : handlers[i].expected \subseteq Guilds

\* Every READY makes the client ready, unless the connection is lost again or a member list does
\* not come: whatever the other handlers take from _guild_event, and whichever guilds never
\* come.
Starts == up /\ ~failed
BecomesReady == Starts ~> ready \/ ~Starts

\* A handler that waits for members waits for nothing that nobody asked for.
MembersAreAsked == ~failed =>
    \A i \in DOMAIN handlers : handlers[i].pc = "chunk" => handlers[i].todo \subseteq chunking \cup chunked

\* Of every step: when Startup is dispatched every guild of the READY is in the cache, unless the wait timed
\* out, or the connection was resumed or the user joined or left a guild meanwhile: the handler
\* counts guilds and does not look which they are.
GuildsAreThere == \A i \in DOMAIN handlers' :
    /\ handlers'[i].first /\ handlers'[i].pc = "over" /\ ~blurred'
    /\ i \in DOMAIN handlers => handlers[i].pc # "over"
    => handlers'[i].expected \subseteq cached'

\* api/events/internal.py:103 says of Startup "this will only be called once".
StartupOnce == startups <= 1
=============================================================================

----------------------------- MODULE GuildCache -----------------------------
(***************************************************************************)
(* The guilds, channels, members and roles of GlobalCache                  *)
(* (Interfluxer/client/smart_cache.py) with the processors of              *)
(* api/events/processors that write them, under a server that goes on      *)
(* changing while events, which arrive in order, and the answers of        *)
(* requests, which do not, are on their way.                               *)
(*                                                                         *)
(* Every processor here runs in a task of its own but reaches its end      *)
(* without an await (the exception is GUILD_UPDATE of an unknown guild,    *)
(* which fetches it), and tasks start in the order they are made: an event *)
(* is one step.  A thread is a channel that is listed in another set,      *)
(* which delete_guild does not look at.  What an object contains is left   *)
(* out, but for the type of a channel.                                     *)
(***************************************************************************)
EXTENDS Naturals, Sequences, FiniteSets

CONSTANTS
    Guilds, Users, Channels, Roles,
    Threads,      \* the channels that are threads
    Types,        \* channel types; 0 is that of a text channel
    Home,         \* the guild of a channel or a role
    Bot,          \* the user the client is logged in as
    None,
    MaxChanges,   \* bound: changes the server still makes
    MaxEvents,    \* bound: events on their way
    MaxAnswers    \* bound: answers on their way

VARIABLES
    server,    \* what is true at the server
    events,    \* events on their way
    answers,   \* answers of requests on their way
    cache,     \* GlobalCache
    look,      \* fetch_user_guild_ids, when it is running
    excused,   \* history: what the cache is known to be wrong about, and why
    changes    \* bound: changes made so far

vars == <<server, events, answers, cache, look, excused, changes>>

Objects == Channels \cup Roles
Pairs == Guilds \X Users

\* An id is of one kind, and a channel or a role stays in its guild.
NamesAssumption ==
    /\ Home \in [Objects -> Guilds] /\ Types # {} /\ Threads \subseteq Channels
    /\ Guilds \cap (Users \cup Pairs \cup Objects) = {} /\ Pairs \cap Objects = {} /\ Channels \cap Roles = {}
    /\ None \notin Types \cup Guilds \cup Users

NoLook == [user |-> None, left |-> {}, size |-> 0, found |-> {}, asked |-> None]

-----------------------------------------------------------------------------
\* GlobalCache, as functions from one cache to the next.  listed holds the ids in the guilds'
\* _channel_ids, _thread_ids and _role_ids, memberIds those in _member_ids, mine is ClientUser._guild_ids.

\* What it holds when the guilds that the client starts in have come, if nothing was changed
\* meanwhile.
Filled(s) ==
    LET own == {x \in s.alive : Home[x] \in s.joined}
        known == {p \in s.there : p[1] \in s.joined}
    IN [guilds |-> s.joined, channels |-> [c \in Channels |-> IF c \in own THEN s.types[c] ELSE None],
        roles |-> own \cap Roles, members |-> known, listed |-> own, memberIds |-> known,
        userGuilds |-> [u \in Users |-> IF u = Bot THEN {} ELSE {p[1] : p \in {q \in known : q[2] = u}}],
        mine |-> s.joined]

\* place_channel_data, of the channels cs of what was received.  A type that is 0 counts as none:
\* the object is updated, like one whose type has not changed.
place_channel_data(k, cs, types) ==
    [k EXCEPT !.channels = [c \in Channels |->
                  IF c \notin cs THEN k.channels[c]
                  ELSE IF k.channels[c] \in {None, types[c]} \/ types[c] = 0 THEN types[c]
                  ELSE None],   \* popped; the new object is returned, not stored
              !.listed = @ \cup {c \in cs : k.channels[c] = None /\ Home[c] \in k.guilds}]

delete_channel(k, c) ==
    [k EXCEPT !.channels[c] = None,
              !.listed = IF k.channels[c] # None /\ Home[c] \in k.guilds THEN @ \ {c} ELSE @]

place_user_guild(k, us, g) ==
    [k EXCEPT !.mine = IF Bot \in us THEN @ \cup {g} ELSE @,
              !.userGuilds = [u \in Users |-> IF u \in us \ {Bot} THEN k.userGuilds[u] \cup {g}
                                                                  ELSE k.userGuilds[u]]]

delete_user_guild(k, u, g) ==
    IF u = Bot THEN [k EXCEPT !.mine = @ \ {g}] ELSE [k EXCEPT !.userGuilds[u] = @ \ {g}]

\* Mutant: the members are not listed in their guild.
PlaceMemberUnlisted(k, g, us) ==
    place_user_guild([k EXCEPT !.members = @ \cup ({g} \X us)], us, g)

\* place_member_data, of the users us.
place_member_data(k, g, us) ==
    place_user_guild(
        [k EXCEPT !.members = @ \cup ({g} \X us),
                  !.memberIds = IF g \in k.guilds THEN @ \cup ({g} \X us) ELSE @], us, g)

\* Mutant: the member stays listed in its guild.
DeleteMemberOnly(k, g, u) ==
    delete_user_guild([k EXCEPT !.members = @ \ {<<g, u>>}], u, g)

delete_member(k, g, u) ==
    delete_user_guild(
        [k EXCEPT !.members = @ \ {<<g, u>>},
                  !.memberIds = IF <<g, u>> \in k.members /\ g \in k.guilds THEN @ \ {<<g, u>>} ELSE @], u, g)

place_role_data(k, rs) == [k EXCEPT !.roles = @ \cup rs]

delete_role(k, r) ==
    [k EXCEPT !.roles = @ \ {r},
              !.listed = IF r \in k.roles /\ Home[r] \in k.guilds THEN @ \ {r} ELSE @]

\* Guild.from_dict and update_from_dict place what the data holds; only from_dict sets the
\* lists, which an update leaves as they are.
place_guild_data(k, g, data) ==
    LET withChannels == place_channel_data(k, data.channels, data.types)
        withMembers == place_member_data(withChannels, g, data.users)
        placed == place_role_data(withMembers, data.roles)
    IN IF g \in k.guilds
       THEN placed
       ELSE [placed EXCEPT !.guilds = @ \cup {g},
                           !.listed = @ \cup data.channels \cup data.roles,
                           !.memberIds = @ \cup ({g} \X data.users)]

\* Mutant: the associated objects stay.
DeleteGuildOnly(k, g) ==
    [k EXCEPT !.guilds = @ \ {g}, !.listed = {x \in @ : Home[x] # g},
              !.memberIds = {p \in @ : p[1] # g}]

\* The channels are those of _channel_ids: the threads stay in the cache, in no list.  The members
\* are deleted with the arguments the wrong way round: no key (user, guild) exists.
delete_guild(k, g) ==
    LET own == {x \in k.listed : Home[x] = g} IN
    IF g \notin k.guilds
    THEN k
    ELSE [k EXCEPT !.guilds = @ \ {g},
                   !.channels = [c \in Channels |-> IF c \in own \ Threads THEN None ELSE k.channels[c]],
                   !.roles = @ \ own,
                   !.members = @ \ {<<p[2], p[1]>> : p \in {q \in k.memberIds : q[1] = g}},
                   !.listed = @ \ own,
                   !.memberIds = {p \in @ : p[1] # g}]

-----------------------------------------------------------------------------
\* The server.

DataOf(g) == [channels |-> {c \in Channels : Home[c] = g /\ c \in server.alive},
              types |-> server.types,
              roles |-> {r \in Roles : Home[r] = g /\ r \in server.alive},
              users |-> {u \in Users : <<g, u>> \in server.there}]
BareData(g) == [DataOf(g) EXCEPT !.channels = {}, !.users = {}]   \* what GET /guilds answers

Event(type, of, data) == [type |-> type, of |-> of, data |-> data]

\* A change at the server; its event is sent unless the guild is away.
Change(g, new, event) ==
    /\ changes < MaxChanges
    /\ changes' = changes + 1
    /\ \/ g \in server.away /\ server' = [new EXCEPT !.missed = @ \cup {event.of}] /\ UNCHANGED events
       \/ g \notin server.away /\ Len(events) < MaxEvents /\ server' = new /\ events' = Append(events, event)
    /\ UNCHANGED <<answers, cache, look, excused>>

BotJoins(g) ==
    /\ g \notin server.joined
    /\ Change(g, [server EXCEPT !.joined = @ \cup {g}], Event("GUILD_CREATE", g, DataOf(g)))
BotLeaves(g) ==
    /\ g \in server.joined \ server.away
    /\ Change(g, [server EXCEPT !.joined = @ \ {g}], Event("GUILD_DELETE", g, None))
GoesAway(g) ==
    /\ g \in server.joined \ server.away /\ Len(events) < MaxEvents
    /\ server' = [server EXCEPT !.away = @ \cup {g}]
    /\ events' = Append(events, Event("GUILD_UNAVAILABLE", g, None))
    /\ UNCHANGED <<answers, cache, look, excused, changes>>
ComesBack(g) ==
    /\ g \in server.away /\ Len(events) < MaxEvents
    /\ server' = [server EXCEPT !.away = @ \ {g}]
    /\ events' = Append(events, Event("GUILD_CREATE", g, DataOf(g)))
    /\ UNCHANGED <<answers, cache, look, excused, changes>>
GuildChanges(g) ==
    g \in server.joined \ server.away /\ Change(g, server, Event("GUILD_UPDATE", g, BareData(g)))
Creates(x) ==
    /\ Home[x] \in server.joined /\ x \notin server.alive
    /\ Change(Home[x], [server EXCEPT !.alive = @ \cup {x}], Event("CREATE", x, server.types))
Retypes(c, type) ==
    /\ Home[c] \in server.joined /\ c \in server.alive \ Threads
    /\ LET new == [server EXCEPT !.types[c] = type] IN Change(Home[c], new, Event("UPDATE", c, new.types))
Deletes(x) ==
    /\ Home[x] \in server.joined /\ x \in server.alive
    /\ Change(Home[x], [server EXCEPT !.alive = @ \ {x}], Event("DELETE", x, None))
Joins(g, u) ==
    /\ g \in server.joined /\ <<g, u>> \notin server.there
    /\ Change(g, [server EXCEPT !.there = @ \cup {<<g, u>>}], Event("MEMBER_ADD", <<g, u>>, None))
Leaves(g, u) ==
    /\ g \in server.joined /\ <<g, u>> \in server.there
    /\ Change(g, [server EXCEPT !.there = @ \ {<<g, u>>}], Event("MEMBER_REMOVE", <<g, u>>, None))

-----------------------------------------------------------------------------
\* Requests: the answer leaves the server in one step and is placed in another.

Asked(kind, of, data) ==
    /\ Cardinality(answers) < MaxAnswers
    /\ answers' = answers \cup {[kind |-> kind, of |-> of, data |-> data]}
    /\ UNCHANGED <<server, events, cache, look, excused, changes>>

fetch_channel(c) == c \in server.alive /\ Home[c] \in server.joined /\ Asked("channel", c, server.types)
fetch_member(g, u) == g \in server.joined /\ <<g, u>> \in server.there /\ Asked("member", <<g, u>>, None)
fetch_guild(g) == g \in server.joined /\ Asked("guild", g, BareData(g))
fetch_role(g) == g \in server.joined /\ Asked("roles", g, BareData(g))

\* What an answer is about.
About(a) ==
    CASE a.kind = "guild" -> a.data.roles \cup {a.of}
      [] a.kind = "roles" -> a.data.roles
      [] OTHER -> {a.of}

Placed(k, a) ==
    CASE a.kind = "channel" -> place_channel_data(k, {a.of}, a.data)
      [] a.kind = "member" -> place_member_data(k, a.of[1], {a.of[2]})
      [] a.kind = "guild" -> place_guild_data(k, a.of, a.data)
      [] a.kind = "roles" -> place_role_data(k, a.data.roles)

Kept(k) == {c \in Channels : k.channels[c] # None} \cup k.roles
Unlisted(k) == Kept(k) \ k.listed

\* Channels that an answer or an event drops from the cache, or leaves out of their guild's list.
Astray(before, after, gone) ==
    ((Kept(before) \ Kept(after)) \cup Unlisted(after)) \cap (Channels \ gone)

AnswerArrives(a) ==
    /\ a \in answers
    /\ answers' = answers \ {a}
    /\ cache' = Placed(cache, a)
    /\ excused' = excused \cup Astray(cache, cache', {})
    /\ UNCHANGED <<server, events, look, changes>>

-----------------------------------------------------------------------------
\* Processors: _on_raw_guild_create, _on_raw_channel_delete, ...

GuildHandled(k, e) ==
    CASE e.type = "GUILD_CREATE" -> [place_guild_data(k, e.of, e.data) EXCEPT !.mine = @ \cup {e.of}]
      [] e.type = "GUILD_UPDATE" -> IF e.of \in k.guilds THEN place_guild_data(k, e.of, e.data) ELSE k
      [] e.type = "GUILD_DELETE" -> delete_guild([k EXCEPT !.mine = @ \ {e.of}], e.of)
      [] e.type = "GUILD_UNAVAILABLE" -> k

ChannelHandled(k, e) ==
    IF e.type = "DELETE" THEN delete_channel(k, e.of) ELSE place_channel_data(k, {e.of}, e.data)

RoleHandled(k, e) ==
    IF e.type = "DELETE" THEN delete_role(k, e.of)
    ELSE place_role_data([k EXCEPT !.listed = IF Home[e.of] \in k.guilds THEN @ \cup {e.of} ELSE @], {e.of})

MemberHandled(k, e) ==
    IF e.type = "MEMBER_ADD" THEN place_member_data(k, e.of[1], {e.of[2]}) ELSE delete_member(k, e.of[1], e.of[2])

Handled(k, e) ==
    CASE e.of \in Guilds -> GuildHandled(k, e)
      [] e.of \in Channels -> ChannelHandled(k, e)
      [] e.of \in Roles -> RoleHandled(k, e)
      [] e.of \in Pairs -> MemberHandled(k, e)

\* What an event takes away, with what lives in a guild that is left.
Gone(e) ==
    CASE e.type \in {"DELETE", "MEMBER_REMOVE"} -> {e.of}
      [] e.type = "GUILD_DELETE" ->
            {e.of} \cup {x \in Objects : Home[x] = e.of} \cup {p \in Pairs : p[1] = e.of}
      [] OTHER -> {}

Awaited == (UNION {About(a) : a \in answers}) \cup (IF look.asked \in Guilds THEN {<<look.asked, look.user>>} ELSE {})

\* What delete_guild passes over: threads, and what the guild does not list.
Forgotten(k) == Unlisted(k) \cup (Threads \cap Kept(k))

\* What is taken away while an answer about it, or about its guild when that is left, is on its way,
\* or with a guild whose deletion passes it over.
Raced(e) ==
    Gone(e) \cap (Awaited \cup IF e.type = "GUILD_DELETE"
                                THEN Forgotten(cache) \cup (IF e.of \in Awaited THEN Objects ELSE {}) ELSE {})

EventArrives ==
    /\ events # <<>>
    /\ LET e == Head(events) IN
        /\ events' = Tail(events)
        /\ cache' = Handled(cache, e)
        /\ excused' = (excused \ Gone(e)) \cup Raced(e) \cup Astray(cache, cache', Gone(e))
        /\ IF e.type = "GUILD_UPDATE" /\ e.of \notin cache.guilds /\ e.of \in server.joined
           THEN answers' = answers \cup {[kind |-> "guild", of |-> e.of, data |-> BareData(e.of)]}
           ELSE UNCHANGED answers
    /\ UNCHANGED <<server, look, changes>>

-----------------------------------------------------------------------------
\* fetch_user_guild_ids: one guild after the other, of a set that must not change size, with an
\* await for every guild where the user is not known; the answer then replaces what is there.

LookStarts(u) ==
    /\ look = NoLook /\ cache.userGuilds[u] = {} /\ u # Bot
    /\ look' = [user |-> u, left |-> cache.mine, size |-> Cardinality(cache.mine), found |-> {}, asked |-> None]
    /\ UNCHANGED <<server, events, answers, cache, excused, changes>>

Known(g, u) == <<g, u>> \in cache.memberIds \/ <<g, u>> \in cache.members   \* is_user_in_guild, without a request

LookAsks(g) ==
    /\ look.user # None /\ look.asked = None /\ g \in look.left
    /\ look.size = Cardinality(cache.mine)
    /\ LET rest == [look EXCEPT !.left = @ \ {g}] IN
       look' = CASE Known(g, look.user) -> [rest EXCEPT !.found = @ \cup {g}]
                 [] ~Known(g, look.user) /\ <<g, look.user>> \in server.there /\ g \in server.joined ->
                        [rest EXCEPT !.asked = g]
                 [] OTHER -> rest   \* NotFound, Forbidden
    /\ UNCHANGED <<server, events, answers, cache, excused, changes>>

LookAnswered ==
    /\ look.asked # None
    /\ cache' = place_member_data(cache, look.asked, {look.user})
    /\ look' = [look EXCEPT !.asked = None, !.found = @ \cup {look.asked}]
    /\ UNCHANGED <<server, events, answers, excused, changes>>

LookEnds ==
    /\ look.user # None /\ look.asked = None
    /\ \/ look.left = {} /\ look.size = Cardinality(cache.mine)
          /\ cache' = [cache EXCEPT !.userGuilds[look.user] = look.found]
       \/ look.size # Cardinality(cache.mine) /\ UNCHANGED cache   \* RuntimeError
    /\ look' = NoLook
    /\ UNCHANGED <<server, events, answers, excused, changes>>

-----------------------------------------------------------------------------

Init ==
    /\ server \in {[joined |-> js, away |-> {}, missed |-> {}, alive |-> Objects, there |-> there,
                    types |-> [c \in Channels |-> CHOOSE t \in Types : TRUE]] :
                    js \in SUBSET Guilds, there \in {{}, Pairs}}
    /\ events = <<>> /\ answers = {} /\ look = NoLook /\ excused = {} /\ changes = 0
    /\ cache = Filled(server)

ServerMoves ==
    \/ \E g \in Guilds : BotJoins(g) \/ BotLeaves(g) \/ GoesAway(g) \/ ComesBack(g) \/ GuildChanges(g)
    \/ \E x \in Objects : Creates(x) \/ Deletes(x)
    \/ \E c \in Channels, t \in Types : Retypes(c, t)
    \/ \E g \in Guilds, u \in Users : Joins(g, u) \/ Leaves(g, u)

Requests ==
    \/ \E c \in Channels : fetch_channel(c)
    \/ \E g \in Guilds, u \in Users : fetch_member(g, u)
    \/ \E g \in Guilds : fetch_guild(g) \/ fetch_role(g)
    \/ \E u \in Users : LookStarts(u)
    \/ \E g \in Guilds : LookAsks(g)

Arrivals == EventArrives \/ (\E a \in answers : AnswerArrives(a)) \/ LookAnswered \/ LookEnds

Next == ServerMoves \/ Requests \/ Arrivals

Spec == Init /\ [][Next]_vars

-----------------------------------------------------------------------------

TypeOK ==
    /\ server.joined \subseteq Guilds /\ server.away \subseteq server.joined
    /\ server.alive \subseteq Objects /\ server.there \subseteq Pairs
    /\ cache.guilds \subseteq Guilds /\ cache.listed \subseteq Objects
    /\ cache.members \subseteq Pairs /\ cache.memberIds \subseteq Pairs
    /\ \A u \in Users : cache.userGuilds[u] \subseteq Guilds

\* Whoever Guild.members lists has a member in the cache, and whatever is listed belongs to a
\* guild that is in the cache (the lists and the caches are written apart, and by different
\* functions).
ListedAreKept ==
    /\ cache.memberIds \subseteq cache.members
    /\ \A p \in cache.memberIds : p[1] \in cache.guilds
    /\ \A x \in cache.listed : Home[x] \in cache.guilds

\* Excused: an answer raced with the deletion, or the guild was unavailable.
Excused == excused \cup server.missed

Quiet == events = <<>> /\ answers = {} /\ look = NoLook /\ server.away = {}

\* Once everything has arrived, the cache lists every member and has every role and guild the
\* server has; a channel it is without, or that its guild does not list, changed its type or
\* was cached before its guild was, as a thread is whose guild the client has left and joined
\* again.  (What was excused when the client left a guild stays so while it joins again: the
\* answer may have put the guild back, whose lists are then kept.)
NothingMissing ==
    Quiet => /\ server.joined \subseteq cache.guilds
             /\ {p \in server.there : p[1] \in server.joined} \subseteq cache.memberIds
             /\ \A x \in server.alive :
                    Home[x] \in server.joined =>
                        x \in Excused \/ (x \in cache.listed /\ (x \in Roles => x \in cache.roles)
                                            /\ (x \in Channels => cache.channels[x] # None))

\* What the server has no more is still in the cache only if an answer about it, or about its guild
\* when the client left that, was on its way when its deletion was handled, if the guild was
\* unavailable at the time, if its guild did not list it, or if it is a thread of a guild that the
\* client has left: "delete associated objects" (smart_cache.py:663) is not said of threads.
OnlyRacesRemain ==
    Quiet => /\ cache.guilds \ server.joined \subseteq Excused
             /\ cache.memberIds \ server.there \subseteq Excused
             /\ \A x \in Objects :
                    (x \notin server.alive \/ Home[x] \notin server.joined)
                        /\ (x \in cache.roles \/ (x \in Channels /\ cache.channels[x] # None))
                    => x \in Excused

\* "delete associated objects": the members of a guild that is gone are gone.
MembersGo == Quiet => \A p \in cache.members : p[1] \in cache.guilds \/ p \in Excused

\* "the guilds the user has joined": the guilds where the user is a member, unless that is unknown.
UserGuildsKnown == \A p \in cache.memberIds : p[1] \in cache.userGuilds[p[2]]
=============================================================================

-------------------------- MODULE GuildCacheProofs --------------------------
(***************************************************************************)
(* Proofs about GuildCache: once everything has arrived the cache has what *)
(* the server has, and what it has beside that is excused.                 *)
(***************************************************************************)
EXTENDS GuildCache, Integers, SequenceTheorems, TLAPS

-----------------------------------------------------------------------------
(***************************************************************************)
(* Types.                                                                  *)
(***************************************************************************)
Caches == [guilds : SUBSET Guilds, channels : [Channels -> Types \cup {None}], roles : SUBSET Roles,
           members : SUBSET Pairs, listed : SUBSET Objects, memberIds : SUBSET Pairs,
           userGuilds : [Users -> SUBSET Guilds], mine : SUBSET Guilds]
Things == Guilds \cup Pairs \cup Objects
GuildOf(t) == IF t \in Guilds THEN t ELSE IF t \in Pairs THEN t[1] ELSE Home[t]

\* What is said of a guild is about its own channels and roles.
DataTyped(g, data) ==
    /\ data.channels \subseteq {c \in Channels : Home[c] = g}
    /\ data.roles \subseteq {r \in Roles : Home[r] = g}
    /\ data.users \subseteq Users
    /\ data.types \in [Channels -> Types]

GuildEvents == {"GUILD_CREATE", "GUILD_UPDATE", "GUILD_DELETE", "GUILD_UNAVAILABLE"}
ObjectEvents == {"CREATE", "UPDATE", "DELETE"}
MemberEvents == {"MEMBER_ADD", "MEMBER_REMOVE"}

EventTyped(e) ==
    /\ e.type \in GuildEvents \cup ObjectEvents \cup MemberEvents
    /\ e.type \in GuildEvents => e.of \in Guilds
    /\ e.type \in ObjectEvents => e.of \in Objects
    /\ e.type \in MemberEvents => e.of \in Pairs
    /\ e.type \in {"GUILD_CREATE", "GUILD_UPDATE"} => DataTyped(e.of, e.data)
    /\ e.type = "GUILD_UPDATE" => e.data.channels = {} /\ e.data.users = {}
    /\ e.type \in {"CREATE", "UPDATE"} => e.data \in [Channels -> Types]
    /\ e.type = "UPDATE" => e.of \in Channels

AnswerTyped(a) ==
    /\ a.kind \in {"channel", "member", "guild", "roles"}
    /\ a.kind = "channel" => a.of \in Channels /\ a.data \in [Channels -> Types]
    /\ a.kind = "member" => a.of \in Pairs
    /\ a.kind \in {"guild", "roles"} => a.of \in Guilds /\ DataTyped(a.of, a.data)
    /\ a.kind = "guild" => a.data.channels = {} /\ a.data.users = {}

\* What the lists of a guild say is in the cache.
ListsKept(k) ==
    /\ k.memberIds \subseteq k.members
    /\ \A p \in k.memberIds : p[1] \in k.guilds
    /\ \A x \in k.listed : Home[x] \in k.guilds

-----------------------------------------------------------------------------
(***************************************************************************)
(* What the functions that write the cache make of it.                     *)
(***************************************************************************)
\* What place_channel_data makes of a channel.
ChannelPut(k, cs, types, c) ==
    IF c \notin cs THEN k.channels[c]
    ELSE IF k.channels[c] = None \/ k.channels[c] = types[c] \/ types[c] = 0 THEN types[c]
    ELSE None

\* What place_channel_data makes of the channels and of the lists.
ChannelsPut(k2, k, cs, types) ==
    /\ k2 = [k EXCEPT !.channels = k2.channels, !.listed = k2.listed]
    /\ \A c : c \in k2.listed <=> (c \in k.listed \/ (c \in cs /\ k.channels[c] = None /\ Home[c] \in k.guilds))
    /\ \A c \in Channels : k2.channels[c] = ChannelPut(k, cs, types, c)

\* place_channel_data.
LEMMA ChannelsPlaced ==
    ASSUME NEW k \in Caches, NEW cs \in SUBSET Channels, NEW types \in [Channels -> Types]
    PROVE  /\ place_channel_data(k, cs, types) \in Caches
           /\ ChannelsPut(place_channel_data(k, cs, types), k, cs, types)
  BY DEF place_channel_data, ChannelsPut, ChannelPut, Caches, Objects

\* place_user_guild.
LEMMA UserPlaced ==
    ASSUME NEW k \in Caches, NEW us \in SUBSET Users, NEW g \in Guilds
    PROVE  LET k2 == place_user_guild(k, us, g) IN
           /\ k2 \in Caches
           /\ k2 = [k EXCEPT !.mine = k2.mine, !.userGuilds = k2.userGuilds]
  BY DEF place_user_guild, Caches

\* delete_user_guild.
LEMMA UserDeleted ==
    ASSUME NEW k \in Caches, NEW u \in Users, NEW g \in Guilds
    PROVE  LET k2 == delete_user_guild(k, u, g) IN
           /\ k2 \in Caches
           /\ k2 = [k EXCEPT !.mine = k2.mine, !.userGuilds = k2.userGuilds]
  BY DEF delete_user_guild, Caches

\* What place_member_data makes of the cache: the members are there, and listed if their guild is.
MembersPut(k2, k, g, us) ==
    /\ k2.guilds = k.guilds /\ k2.channels = k.channels /\ k2.roles = k.roles /\ k2.listed = k.listed
    /\ k2.members = k.members \cup ({g} \X us)
    /\ k2.memberIds = IF g \in k.guilds THEN k.memberIds \cup ({g} \X us) ELSE k.memberIds

\* place_member_data.
LEMMA MembersPlaced ==
    ASSUME NEW k \in Caches, NEW g \in Guilds, NEW us \in SUBSET Users
    PROVE  /\ place_member_data(k, g, us) \in Caches
           /\ MembersPut(place_member_data(k, g, us), k, g, us)
<1> DEFINE with == [k EXCEPT !.members = @ \cup ({g} \X us),
                             !.memberIds = IF g \in k.guilds THEN @ \cup ({g} \X us) ELSE @]
<1>1. /\ with \in Caches
      /\ with.guilds = k.guilds /\ with.channels = k.channels /\ with.roles = k.roles /\ with.listed = k.listed
      /\ with.members = k.members \cup ({g} \X us)
      /\ with.memberIds = IF g \in k.guilds THEN k.memberIds \cup ({g} \X us) ELSE k.memberIds
  <2>1. {g} \X us \subseteq Pairs
    BY DEF Pairs
  <2> QED
    BY <2>1 DEF Caches
<1>2. place_member_data(k, g, us) = place_user_guild(with, us, g)
  BY DEF place_member_data
<1> HIDE DEF with
<1>3. /\ place_user_guild(with, us, g) \in Caches
      /\ place_user_guild(with, us, g) = [with EXCEPT !.mine = place_user_guild(with, us, g).mine,
                                                      !.userGuilds = place_user_guild(with, us, g).userGuilds]
  BY <1>1, UserPlaced
<1> QED
  BY <1>1, <1>2, <1>3 DEF Caches, MembersPut

\* delete_member: the member is gone, from the list as well.
LEMMA MemberGoes ==
    ASSUME NEW k \in Caches, ListsKept(k), NEW g \in Guilds, NEW u \in Users
    PROVE  LET k2 == delete_member(k, g, u) IN
           /\ k2 \in Caches
           /\ k2.guilds = k.guilds /\ k2.channels = k.channels /\ k2.roles = k.roles /\ k2.listed = k.listed
           /\ k2.members = k.members \ {<<g, u>>}
           /\ k2.memberIds = k.memberIds \ {<<g, u>>}
<1> DEFINE without == [k EXCEPT !.members = @ \ {<<g, u>>},
                  !.memberIds = IF <<g, u>> \in k.members /\ g \in k.guilds THEN @ \ {<<g, u>>} ELSE @]
<1>1. /\ without \in Caches
      /\ without.guilds = k.guilds /\ without.channels = k.channels
      /\ without.roles = k.roles /\ without.listed = k.listed
      /\ without.members = k.members \ {<<g, u>>}
      /\ without.memberIds = k.memberIds \ {<<g, u>>}
  <2>1. <<g, u>> \in k.memberIds => <<g, u>> \in k.members /\ g \in k.guilds
    BY DEF ListsKept
  <2>2. without = [k EXCEPT !.members = k.members \ {<<g, u>>}, !.memberIds = k.memberIds \ {<<g, u>>}]
    BY <2>1 DEF Caches
  <2> QED
    BY <2>2 DEF Caches
<1>2. delete_member(k, g, u) = delete_user_guild(without, u, g)
  BY DEF delete_member
<1> HIDE DEF without
<1>3. /\ delete_user_guild(without, u, g) \in Caches
      /\ delete_user_guild(without, u, g) = [without EXCEPT !.mine = delete_user_guild(without, u, g).mine,
                                                !.userGuilds = delete_user_guild(without, u, g).userGuilds]
  BY <1>1, UserDeleted
<1> QED
  BY <1>1, <1>2, <1>3 DEF Caches

\* What place_guild_data makes of the cache: what the data holds is there; the lists of a guild that
\* is known grow by the channels that were not there and by the members.
GuildPut(k2, k, g, data) ==
    /\ k2.guilds = k.guilds \cup {g}
    /\ k2.roles = k.roles \cup data.roles
    /\ k2.members = k.members \cup ({g} \X data.users)
    /\ k2.memberIds = k.memberIds \cup ({g} \X data.users)
    /\ k2.listed = IF g \in k.guilds THEN k.listed \cup {c \in data.channels : k.channels[c] = None}
                   ELSE k.listed \cup data.channels \cup data.roles
    /\ \A c \in Channels : k2.channels[c] = ChannelPut(k, data.channels, data.types, c)

\* place_guild_data.
LEMMA GuildPlaced ==
    ASSUME NamesAssumption, NEW k \in Caches, NEW g \in Guilds, NEW data, DataTyped(g, data)
    PROVE  /\ place_guild_data(k, g, data) \in Caches
           /\ GuildPut(place_guild_data(k, g, data), k, g, data)
<1>1. PICK cs \in SUBSET Channels, types \in [Channels -> Types], rs \in SUBSET Roles, us \in SUBSET Users :
            cs = data.channels /\ types = data.types /\ rs = data.roles /\ us = data.users
  BY DEF DataTyped
<1>2. \A c \in cs : Home[c] = g
  BY <1>1 DEF DataTyped
<1> DEFINE a == place_channel_data(k, cs, types)
           b == place_member_data(a, g, us)
           c3 == place_role_data(b, rs)
<1>3. place_guild_data(k, g, data) = IF g \in k.guilds THEN c3
                                     ELSE [c3 EXCEPT !.guilds = @ \cup {g},
                                                     !.listed = @ \cup cs \cup rs,
                                                     !.memberIds = @ \cup ({g} \X us)]
  BY <1>1 DEF place_guild_data
<1>4. /\ a \in Caches
      /\ a.guilds = k.guilds /\ a.roles = k.roles /\ a.members = k.members /\ a.memberIds = k.memberIds
      /\ a.listed = k.listed \cup {c \in cs : k.channels[c] = None /\ g \in k.guilds}
      /\ \A c \in Channels : a.channels[c] = ChannelPut(k, cs, types, c)
  <2>1. a \in Caches /\ ChannelsPut(a, k, cs, types)
    BY ChannelsPlaced
  <2> HIDE DEF a
  <2>2. a.guilds = k.guilds /\ a.roles = k.roles /\ a.members = k.members /\ a.memberIds = k.memberIds
    BY <2>1 DEF Caches, ChannelsPut
  <2>3. a.listed = k.listed \cup {c \in cs : k.channels[c] = None /\ g \in k.guilds}
    BY <1>2, <2>1 DEF ChannelsPut
  <2> QED
    BY <2>1, <2>2, <2>3 DEF ChannelsPut
<1> HIDE DEF a
<1>5. /\ b \in Caches
      /\ b.guilds = a.guilds /\ b.channels = a.channels /\ b.roles = a.roles /\ b.listed = a.listed
      /\ b.members = a.members \cup ({g} \X us)
      /\ b.memberIds = IF g \in a.guilds THEN a.memberIds \cup ({g} \X us) ELSE a.memberIds
  BY <1>4, MembersPlaced DEF MembersPut
<1> HIDE DEF b
<1>6. /\ c3 \in Caches
      /\ c3.guilds = b.guilds /\ c3.channels = b.channels /\ c3.roles = b.roles \cup rs
      /\ c3.listed = b.listed /\ c3.members = b.members /\ c3.memberIds = b.memberIds
  BY <1>5 DEF place_role_data, Caches
<1> HIDE DEF c3
<1>7. CASE g \in k.guilds
  <2>1. place_guild_data(k, g, data) = c3
    BY <1>3, <1>7
  <2>2. a.listed = k.listed \cup {c \in cs : k.channels[c] = None}
    BY <1>4, <1>7
  <2> QED
    BY <1>1, <1>4, <1>5, <1>6, <1>7, <2>1, <2>2 DEF GuildPut
<1>8. CASE g \notin k.guilds
  <2> DEFINE d == [c3 EXCEPT !.guilds = @ \cup {g}, !.listed = @ \cup cs \cup rs,
                             !.memberIds = @ \cup ({g} \X us)]
  <2>1. place_guild_data(k, g, data) = d
    BY <1>3, <1>8
  <2>2. /\ d \in Caches
        /\ d.guilds = c3.guilds \cup {g} /\ d.channels = c3.channels /\ d.roles = c3.roles
        /\ d.listed = c3.listed \cup cs \cup rs /\ d.members = c3.members
        /\ d.memberIds = c3.memberIds \cup ({g} \X us)
    <3>1. {g} \X us \subseteq Pairs /\ cs \cup rs \subseteq Objects
      BY DEF Pairs, Objects
    <3> QED
      BY <1>6, <3>1 DEF Caches
  <2> HIDE DEF d
  <2>3. a.listed = k.listed
    BY <1>4, <1>8
  <2> QED
    BY <1>1, <1>4, <1>5, <1>6, <1>8, <2>1, <2>2, <2>3 DEF GuildPut
<1> QED
  BY <1>7, <1>8

-----------------------------------------------------------------------------
(***************************************************************************)
(* What an event does to the cache, thing by thing.                        *)
(***************************************************************************)
\* What an event brings, and what of it is sure to come into the lists of its guild.
Carried(e) ==
    CASE e.type = "GUILD_CREATE" -> {e.of} \cup e.data.channels \cup e.data.roles \cup ({e.of} \X e.data.users)
      [] e.type = "GUILD_UPDATE" -> e.data.roles
      [] e.type \in {"CREATE", "UPDATE", "MEMBER_ADD"} -> {e.of}
      [] OTHER -> {}
Sure(e) ==
    CASE e.type = "GUILD_CREATE" -> {e.of} \cup e.data.channels \cup ({e.of} \X e.data.users)
      [] e.type \in {"CREATE", "MEMBER_ADD"} -> {e.of}
      [] OTHER -> {}

Stays(k, t) ==
    \/ t \in Guilds /\ t \in k.guilds
    \/ t \in Pairs /\ t \in k.memberIds
    \/ t \in Objects /\ t \in Kept(k)
There(k, t) == Stays(k, t) /\ (t \in Objects => t \in k.listed)

\* Nothing comes but what the event brings, ...
BringsOnly(k, k2, e) == \A t \in Things : Stays(k2, t) => Stays(k, t) \/ t \in Carried(e)
\* ... what it takes away is gone but for threads and for what a guild that is left does not list, ...
Takes(k, k2, e) == \A t \in Gone(e) : Stays(k2, t) => e.type = "GUILD_DELETE" /\ t \in Forgotten(k)
\* ... nothing else goes but a channel that is excused, ...
TakesOnly(k, k2, e) == \A t \in Things \ Gone(e) : There(k, t) => There(k2, t) \/ t \in Astray(k, k2, Gone(e))
\* ... and what it is sure to bring comes.
Brings(k, k2, e) ==
    /\ e.type = "GUILD_CREATE" \/ GuildOf(e.of) \in k.guilds
            => \A t \in Sure(e) : There(k2, t) \/ t \in Astray(k, k2, Gone(e))
    /\ e.type = "GUILD_CREATE" =>
            \A r \in e.data.roles : e.of \notin k.guilds \/ r \in k.listed => There(k2, r)

\* Which guilds are known, and what is listed of the guilds that the event is not about.
Knows(k, k2, e) ==
    /\ k2.guilds = (k.guilds \ Gone(e)) \cup (IF e.type = "GUILD_CREATE" THEN {e.of} ELSE {})
    /\ \A r \in Roles : r \in k.listed /\ Home[r] # GuildOf(e.of) => r \in k2.listed

HandledWell(k, k2, e) ==
    /\ k2 \in Caches /\ ListsKept(k2)
    /\ BringsOnly(k, k2, e) /\ Takes(k, k2, e) /\ TakesOnly(k, k2, e) /\ Brings(k, k2, e) /\ Knows(k, k2, e)

\* What is of one kind is not of another.
LEMMA Kinds ==
    ASSUME NamesAssumption
    PROVE  /\ \A g \in Guilds : g \notin Pairs /\ g \notin Objects /\ g \notin Channels /\ g \notin Roles
           /\ \A p \in Pairs : p \notin Guilds /\ p \notin Objects /\ p \notin Channels /\ p \notin Roles
           /\ \A c \in Channels : c \notin Guilds /\ c \notin Pairs /\ c \notin Roles /\ c \in Objects
           /\ \A r \in Roles : r \notin Guilds /\ r \notin Pairs /\ r \notin Channels /\ r \in Objects
           /\ \A x \in Objects : x \in Channels \/ x \in Roles
           /\ \A x \in Objects : Home[x] \in Guilds
           /\ \A p \in Pairs : p[1] \in Guilds /\ p[2] \in Users /\ p = <<p[1], p[2]>>
           /\ \A t \in Things : GuildOf(t) \in Guilds
  BY DEF NamesAssumption, Objects, Pairs, Things, GuildOf

\* GUILD_CREATE: _on_raw_guild_create.
LEMMA GuildComes ==
    ASSUME NamesAssumption, NEW k \in Caches, ListsKept(k), NEW e, EventTyped(e), e.type = "GUILD_CREATE"
    PROVE  HandledWell(k, Handled(k, e), e)
<1> DEFINE g == e.of
           d == e.data
           p == place_guild_data(k, g, d)
           k2 == [p EXCEPT !.mine = @ \cup {g}]
<1>1. g \in Guilds /\ DataTyped(g, d)
  BY DEF EventTyped, GuildEvents
<1>2. Handled(k, e) = k2
  <2>1. Handled(k, e) = GuildHandled(k, e)
    BY <1>1, Kinds DEF Handled
  <2> QED
    BY <2>1 DEF GuildHandled
<1>3. p \in Caches /\ GuildPut(p, k, g, d)
  BY <1>1, GuildPlaced
<1> HIDE DEF p
<1>4. /\ k2 \in Caches
      /\ k2.guilds = p.guilds /\ k2.channels = p.channels /\ k2.roles = p.roles
      /\ k2.members = p.members /\ k2.listed = p.listed /\ k2.memberIds = p.memberIds
  BY <1>1, <1>3 DEF Caches
<1> HIDE DEF k2
<1>5. Gone(e) = {} /\ GuildOf(e.of) = g
  BY <1>1 DEF Gone, GuildOf
<1>6. /\ Carried(e) = {g} \cup d.channels \cup d.roles \cup ({g} \X d.users)
      /\ Sure(e) = {g} \cup d.channels \cup ({g} \X d.users)
  BY DEF Carried, Sure
<1> HIDE DEF g, d
<1>7. /\ \A c \in d.channels : c \in Channels /\ Home[c] = g /\ d.types[c] # None
      /\ \A r \in d.roles : r \in Roles /\ Home[r] = g
      /\ {g} \X d.users \subseteq Pairs /\ \A q \in {g} \X d.users : q[1] = g
  BY <1>1 DEF DataTyped, Pairs, NamesAssumption
<1>8. ListsKept(k2)
  BY <1>3, <1>4, <1>7 DEF GuildPut, ListsKept
<1>9. BringsOnly(k, k2, e)
  BY <1>3, <1>4, <1>6, <1>7, Kinds DEF GuildPut, ChannelPut, BringsOnly, Stays, Kept
<1>10. Takes(k, k2, e)
  BY <1>5 DEF Takes
<1>11. \A t \in Channels : t \in Kept(k) => t \in Kept(k2) \/ t \in Astray(k, k2, Gone(e))
  BY <1>5 DEF Astray
<1>12. TakesOnly(k, k2, e)
  BY <1>3, <1>4, <1>7, <1>11, Kinds DEF GuildPut, TakesOnly, There, Stays, Kept
<1>13. ASSUME NEW t \in Sure(e)
       PROVE  There(k2, t) \/ t \in Astray(k, k2, Gone(e))
  <2>1. CASE t = g
    BY <1>1, <1>3, <1>4, <2>1, Kinds DEF GuildPut, There, Stays
  <2>2. CASE t \in {g} \X d.users
    BY <1>3, <1>4, <1>7, <2>2, Kinds DEF GuildPut, There, Stays
  <2>3. CASE t \in d.channels
    <3>1. t \in Channels /\ t \in Objects
      BY <1>7, <2>3, Kinds
    <3>2. CASE t \in Kept(k2)
      BY <1>5, <3>1, <3>2 DEF There, Stays, Astray, Unlisted
    <3>3. CASE t \notin Kept(k2)
      <4>1. k2.channels[t] = None
        BY <3>1, <3>3 DEF Kept
      <4>2. k.channels[t] # None
        BY <1>3, <1>4, <1>7, <2>3, <4>1 DEF GuildPut, ChannelPut
      <4> QED
        BY <1>5, <3>1, <3>3, <4>2 DEF Kept, Astray
    <3> QED
      BY <3>2, <3>3
  <2> QED
    BY <1>6, <2>1, <2>2, <2>3
<1>14. ASSUME NEW r \in d.roles, g \notin k.guilds \/ r \in k.listed
       PROVE  There(k2, r)
  BY <1>3, <1>4, <1>7, <1>14, Kinds DEF GuildPut, There, Stays, Kept
<1>15. Brings(k, k2, e)
  BY <1>13, <1>14 DEF Brings, g, d
<1>16. Knows(k, k2, e)
  BY <1>3, <1>4, <1>5 DEF GuildPut, Knows, g
<1> QED
  BY <1>2, <1>4, <1>8, <1>9, <1>10, <1>12, <1>15, <1>16 DEF HandledWell

\* GUILD_UPDATE: _on_raw_guild_update.
LEMMA GuildUpdated ==
    ASSUME NamesAssumption, NEW k \in Caches, ListsKept(k), NEW e, EventTyped(e), e.type = "GUILD_UPDATE"
    PROVE  HandledWell(k, Handled(k, e), e)
<1> DEFINE g == e.of
           d == e.data
           k2 == Handled(k, e)
<1>1. g \in Guilds /\ DataTyped(g, d) /\ d.channels = {} /\ d.users = {}
  BY DEF EventTyped, GuildEvents
<1>2. k2 = IF g \in k.guilds THEN place_guild_data(k, g, d) ELSE k
  <2>1. Handled(k, e) = GuildHandled(k, e)
    BY <1>1, Kinds DEF Handled
  <2> QED
    BY <2>1 DEF GuildHandled
<1>3. Gone(e) = {} /\ Carried(e) = d.roles /\ Sure(e) = {}
  BY DEF Gone, Carried, Sure
<1> HIDE DEF k2
<1>4. CASE g \notin k.guilds
  <2>1. k2 = k
    BY <1>2, <1>4
  <2>2. ListsKept(k2) /\ BringsOnly(k, k2, e) /\ TakesOnly(k, k2, e) /\ Knows(k, k2, e)
    BY <1>3, <2>1 DEF BringsOnly, TakesOnly, Knows
  <2> QED
    BY <1>3, <2>1, <2>2 DEF HandledWell, Takes, Brings, k2
<1>5. CASE g \in k.guilds
  <2>1. k2 \in Caches /\ GuildPut(k2, k, g, d)
    BY <1>1, <1>2, <1>5, GuildPlaced
  <2>2. \A r \in d.roles : r \in Roles
    BY <1>1 DEF DataTyped
  <2>3. /\ k2.guilds = k.guilds /\ k2.roles = k.roles \cup d.roles /\ k2.members = k.members
        /\ k2.memberIds = k.memberIds /\ k2.listed = k.listed
        /\ \A c \in Channels : k2.channels[c] = k.channels[c]
    BY <1>1, <1>5, <2>1 DEF GuildPut, ChannelPut
  <2>4. ListsKept(k2)
    BY <2>3 DEF ListsKept
  <2>5. BringsOnly(k, k2, e)
    BY <1>3, <2>2, <2>3, Kinds DEF BringsOnly, Stays, Kept
  <2>6. TakesOnly(k, k2, e)
    BY <2>3, Kinds DEF TakesOnly, There, Stays, Kept
  <2>7. Knows(k, k2, e)
    BY <1>3, <2>3 DEF Knows
  <2> QED
    BY <1>3, <2>1, <2>4, <2>5, <2>6, <2>7 DEF HandledWell, Takes, Brings, k2
<1> QED
  BY <1>4, <1>5

\* What delete_guild leaves, once the guild is not the client's any more.
GuildTaken(k2, k, g) ==
    /\ k2.guilds = k.guilds \ {g} /\ k2.memberIds = {p \in k.memberIds : p[1] # g}
    /\ k2.listed = {x \in k.listed : Home[x] # g}
    /\ \A r : r \in k2.roles <=> r \in k.roles /\ ~(r \in k.listed /\ Home[r] = g)
    /\ \A c \in Channels : k2.channels[c] = IF c \in k.listed \ Threads /\ Home[c] = g THEN None
                                            ELSE k.channels[c]
    /\ \A p \in k.memberIds : p[1] # g => p \in k2.members

\* delete_guild.
LEMMA GuildDeleted ==
    ASSUME NamesAssumption, NEW k \in Caches, ListsKept(k), NEW g \in Guilds
    PROVE  /\ delete_guild(k, g) \in Caches
           /\ GuildTaken(delete_guild(k, g), k, g)
<1>1. CASE g \notin k.guilds
  <2>1. delete_guild(k, g) = k
    BY <1>1 DEF delete_guild
  <2>2. /\ \A p \in k.memberIds : p[1] # g /\ p \in k.members
        /\ \A x \in k.listed : Home[x] # g
    BY <1>1 DEF ListsKept
  <2> QED
    BY <1>1, <2>1, <2>2 DEF GuildTaken
<1>2. CASE g \in k.guilds
  <2> DEFINE own == {x \in k.listed : Home[x] = g}
             swapped == {<<p[2], p[1]>> : p \in {q \in k.memberIds : q[1] = g}}
             k2 == [k EXCEPT !.guilds = @ \ {g},
                             !.channels = [c \in Channels |-> IF c \in own \ Threads THEN None ELSE k.channels[c]],
                             !.roles = @ \ own, !.members = @ \ swapped,
                             !.listed = @ \ own, !.memberIds = {p \in @ : p[1] # g}]
  <2>1. delete_guild(k, g) = k2
    BY <1>2 DEF delete_guild
  <2>2. \A p \in swapped : p \notin Pairs
    BY DEF Caches, Pairs, NamesAssumption
  <2> HIDE DEF swapped
  <2>3. /\ k2 \in Caches
        /\ k2.guilds = k.guilds \ {g} /\ k2.memberIds = {p \in k.memberIds : p[1] # g}
        /\ k2.channels = [c \in Channels |-> IF c \in own \ Threads THEN None ELSE k.channels[c]]
        /\ k2.roles = k.roles \ own /\ k2.members = k.members \ swapped /\ k2.listed = k.listed \ own
    BY DEF Caches
  <2> HIDE DEF k2
  <2> QED
    BY <2>1, <2>2, <2>3 DEF GuildTaken, ListsKept, Caches
<1> QED
  BY <1>1, <1>2

\* GUILD_DELETE: _on_raw_guild_delete of a guild that was left.
LEMMA GuildGoes ==
    ASSUME NamesAssumption, NEW k \in Caches, ListsKept(k), NEW e, EventTyped(e), e.type = "GUILD_DELETE"
    PROVE  HandledWell(k, Handled(k, e), e)
<1> DEFINE g == e.of
           a == [k EXCEPT !.mine = @ \ {g}]
           k2 == delete_guild(a, g)
<1>1. g \in Guilds
  BY DEF EventTyped, GuildEvents
<1>2. Handled(k, e) = k2
  <2>1. Handled(k, e) = GuildHandled(k, e)
    BY <1>1, Kinds DEF Handled
  <2> QED
    BY <2>1 DEF GuildHandled
<1>3. /\ a \in Caches
      /\ a.guilds = k.guilds /\ a.channels = k.channels /\ a.roles = k.roles
      /\ a.members = k.members /\ a.listed = k.listed /\ a.memberIds = k.memberIds
  BY DEF Caches
<1> HIDE DEF a
<1>4. ListsKept(a)
  BY <1>3 DEF ListsKept
<1>5. k2 \in Caches /\ GuildTaken(k2, a, g)
  BY <1>1, <1>3, <1>4, GuildDeleted
<1> HIDE DEF k2
<1>6. /\ Gone(e) = {g} \cup {x \in Objects : Home[x] = g} \cup {p \in Pairs : p[1] = g}
      /\ Carried(e) = {} /\ Sure(e) = {} /\ GuildOf(e.of) = g
  BY <1>1 DEF Gone, Carried, Sure, GuildOf
<1> HIDE DEF g
<1>7. ListsKept(k2)
  BY <1>3, <1>5 DEF ListsKept, GuildTaken
<1>8. BringsOnly(k, k2, e)
  BY <1>3, <1>5 DEF BringsOnly, GuildTaken, Stays, Kept
<1>9. ASSUME NEW t \in Gone(e), Stays(k2, t)
      PROVE  t \in Forgotten(k)
  <2>1. CASE t = g
    BY <1>1, <1>5, <1>9, <2>1, Kinds DEF GuildTaken, Stays
  <2>2. CASE t \in Pairs /\ t[1] = g
    BY <1>5, <1>9, <2>2, Kinds DEF GuildTaken, Stays
  <2>3. CASE t \in Objects /\ Home[t] = g
    BY <1>3, <1>5, <1>9, <2>3, Kinds DEF GuildTaken, Stays, Kept, Unlisted, Forgotten
  <2> QED
    BY <1>6, <2>1, <2>2, <2>3
<1>10. Takes(k, k2, e)
  BY <1>9 DEF Takes
<1>11. TakesOnly(k, k2, e)
  BY <1>3, <1>5, <1>6, Kinds DEF TakesOnly, GuildTaken, There, Stays, Kept
<1>12. Knows(k, k2, e)
  <2>1. k2.guilds = k.guilds \ Gone(e)
    BY <1>3, <1>5, <1>6, Kinds DEF GuildTaken, Caches
  <2> QED
    BY <1>3, <1>5, <1>6, <2>1 DEF GuildTaken, Knows
<1> QED
  BY <1>2, <1>5, <1>6, <1>7, <1>8, <1>10, <1>11, <1>12 DEF HandledWell, Brings

\* GUILD_UNAVAILABLE: _on_raw_guild_delete of a guild that is away, which leaves the cache as it is.
LEMMA GuildAway ==
    ASSUME NamesAssumption, NEW k \in Caches, ListsKept(k), NEW e, EventTyped(e), e.type = "GUILD_UNAVAILABLE"
    PROVE  HandledWell(k, Handled(k, e), e)
<1>1. Handled(k, e) = k
  <2>1. e.of \in Guilds
    BY DEF EventTyped, GuildEvents
  <2>2. Handled(k, e) = GuildHandled(k, e)
    BY <2>1, Kinds DEF Handled
  <2> QED
    BY <2>2 DEF GuildHandled
<1>2. Gone(e) = {} /\ Carried(e) = {} /\ Sure(e) = {}
  BY DEF Gone, Carried, Sure
<1> QED
  BY <1>1, <1>2 DEF HandledWell, BringsOnly, Takes, TakesOnly, Brings, Knows

\* CHANNEL_CREATE and CHANNEL_UPDATE: _on_raw_channel_create, _on_raw_channel_update.
LEMMA ChannelComes ==
    ASSUME NamesAssumption, NEW k \in Caches, ListsKept(k), NEW e, EventTyped(e),
           e.of \in Channels, e.type \in {"CREATE", "UPDATE"}
    PROVE  HandledWell(k, Handled(k, e), e)
<1> DEFINE c == e.of
           k2 == Handled(k, e)
<1>1. c \in Channels /\ e.data \in [Channels -> Types] /\ e.data[c] # None
  BY DEF EventTyped, NamesAssumption
<1>2. k2 = place_channel_data(k, {c}, e.data)
  <2>1. Handled(k, e) = ChannelHandled(k, e)
    BY <1>1, Kinds DEF Handled
  <2> QED
    BY <2>1 DEF ChannelHandled
<1>3. /\ k2 \in Caches /\ k2 = [k EXCEPT !.channels = k2.channels, !.listed = k2.listed]
      /\ \A x : x \in k2.listed <=> (x \in k.listed \/ (x = c /\ k.channels[x] = None /\ Home[x] \in k.guilds))
      /\ \A x \in Channels : k2.channels[x] = ChannelPut(k, {c}, e.data, x)
  <2>1. {c} \in SUBSET Channels
    BY <1>1
  <2>2. k2 \in Caches /\ ChannelsPut(k2, k, {c}, e.data)
    BY <1>1, <1>2, <2>1, ChannelsPlaced
  <2> QED
    BY <2>2 DEF ChannelsPut
<1> HIDE DEF k2
<1>4. /\ k2.guilds = k.guilds /\ k2.roles = k.roles /\ k2.members = k.members /\ k2.memberIds = k.memberIds
  BY <1>3 DEF Caches
<1>5. Gone(e) = {} /\ Carried(e) = {c} /\ GuildOf(e.of) = Home[c] /\ Sure(e) \subseteq {c}
  BY <1>1, Kinds DEF Gone, Carried, Sure, GuildOf
<1> HIDE DEF c
<1>6. ListsKept(k2)
  BY <1>3, <1>4 DEF ListsKept
<1>7. BringsOnly(k, k2, e)
  BY <1>1, <1>3, <1>4, <1>5, Kinds DEF ChannelPut, BringsOnly, Stays, Kept
<1>8. \A t \in Channels : t \in Kept(k) => t \in Kept(k2) \/ t \in Astray(k, k2, Gone(e))
  BY <1>5 DEF Astray
<1>9. TakesOnly(k, k2, e)
  BY <1>3, <1>4, <1>8, Kinds DEF TakesOnly, There, Stays, Kept
<1>10. There(k2, c) \/ c \in Astray(k, k2, Gone(e))
  <2>1. CASE c \in Kept(k2)
    BY <1>1, <1>5, <2>1, Kinds DEF There, Stays, Astray, Unlisted
  <2>2. CASE c \notin Kept(k2)
    <3>1. k2.channels[c] = None
      BY <1>1, <2>2 DEF Kept
    <3>2. k.channels[c] # None
      BY <1>1, <1>3, <3>1 DEF ChannelPut
    <3> QED
      BY <1>1, <1>5, <2>2, <3>2 DEF Kept, Astray
  <2> QED
    BY <2>1, <2>2
<1>11. Brings(k, k2, e)
  BY <1>5, <1>10 DEF Brings
<1>12. Knows(k, k2, e)
  BY <1>3, <1>4, <1>5 DEF Knows
<1> QED
  BY <1>3, <1>5, <1>6, <1>7, <1>9, <1>11, <1>12 DEF HandledWell, Takes, k2

\* CHANNEL_DELETE: _on_raw_channel_delete.
LEMMA ChannelGoes ==
    ASSUME NamesAssumption, NEW k \in Caches, ListsKept(k), NEW e, EventTyped(e),
           e.of \in Channels, e.type = "DELETE"
    PROVE  HandledWell(k, Handled(k, e), e)
<1> DEFINE c == e.of
           k2 == Handled(k, e)
<1>1. k2 = [k EXCEPT !.channels[c] = None,
                     !.listed = IF k.channels[c] # None /\ Home[c] \in k.guilds THEN @ \ {c} ELSE @]
  <2>1. Handled(k, e) = ChannelHandled(k, e)
    BY Kinds DEF Handled
  <2> QED
    BY <2>1 DEF ChannelHandled, delete_channel
<1> HIDE DEF k2
<1>2. /\ k2 \in Caches
      /\ k2.guilds = k.guilds /\ k2.roles = k.roles /\ k2.members = k.members /\ k2.memberIds = k.memberIds
      /\ k2.listed \subseteq k.listed /\ k.listed \subseteq k2.listed \cup {c}
      /\ \A x \in Channels : k2.channels[x] = IF x = c THEN None ELSE k.channels[x]
  BY <1>1 DEF Caches
<1>3. Gone(e) = {c} /\ Carried(e) = {} /\ Sure(e) = {} /\ GuildOf(e.of) = Home[c]
  BY Kinds DEF Gone, Carried, Sure, GuildOf
<1>4. c \in Channels
  OBVIOUS
<1> HIDE DEF c
<1>5. ListsKept(k2)
  BY <1>2 DEF ListsKept
<1>6. BringsOnly(k, k2, e)
  BY <1>2 DEF BringsOnly, Stays, Kept
<1>7. Takes(k, k2, e)
  <2>1. k2.roles \subseteq Roles
    BY <1>2 DEF Caches
  <2> QED
    BY <1>2, <1>3, <1>4, <2>1, Kinds DEF Takes, Stays, Kept
<1>8. TakesOnly(k, k2, e)
  BY <1>2, <1>3, Kinds DEF TakesOnly, There, Stays, Kept
<1>9. Knows(k, k2, e)
  BY <1>2, <1>3, <1>4, Kinds DEF Knows, Caches
<1> QED
  BY <1>2, <1>3, <1>5, <1>6, <1>7, <1>8, <1>9 DEF HandledWell, Brings, k2

\* GUILD_ROLE_CREATE: _on_raw_guild_role_create.
LEMMA RoleComes ==
    ASSUME NamesAssumption, NEW k \in Caches, ListsKept(k), NEW e, EventTyped(e),
           e.of \in Roles, e.type = "CREATE"
    PROVE  HandledWell(k, Handled(k, e), e)
<1> DEFINE r == e.of
           a == [k EXCEPT !.listed = IF Home[r] \in k.guilds THEN @ \cup {r} ELSE @]
           k2 == Handled(k, e)
<1>1. k2 = [a EXCEPT !.roles = @ \cup {r}]
  <2>1. Handled(k, e) = RoleHandled(k, e)
    BY Kinds DEF Handled
  <2> QED
    BY <2>1 DEF RoleHandled, place_role_data
<1> HIDE DEF k2
<1>2. r \in Roles /\ r \in Objects
  BY Kinds
<1>3. /\ a \in Caches
      /\ a.guilds = k.guilds /\ a.channels = k.channels /\ a.roles = k.roles
      /\ a.members = k.members /\ a.memberIds = k.memberIds
      /\ a.listed = IF Home[r] \in k.guilds THEN k.listed \cup {r} ELSE k.listed
  BY <1>2 DEF Caches
<1> HIDE DEF a
<1>4. /\ k2 \in Caches
      /\ k2.guilds = k.guilds /\ k2.channels = k.channels /\ k2.roles = k.roles \cup {r}
      /\ k2.members = k.members /\ k2.memberIds = k.memberIds
      /\ k2.listed = IF Home[r] \in k.guilds THEN k.listed \cup {r} ELSE k.listed
  BY <1>1, <1>2, <1>3 DEF Caches
<1>5. Gone(e) = {} /\ Carried(e) = {r} /\ Sure(e) = {r} /\ GuildOf(e.of) = Home[r]
  BY Kinds DEF Gone, Carried, Sure, GuildOf
<1> HIDE DEF r
<1>6. ListsKept(k2)
  BY <1>4 DEF ListsKept
<1>7. BringsOnly(k, k2, e)
  BY <1>4, <1>5, Kinds DEF BringsOnly, Stays, Kept
<1>8. TakesOnly(k, k2, e)
  BY <1>4, Kinds DEF TakesOnly, There, Stays, Kept
<1>9. Brings(k, k2, e)
  BY <1>2, <1>4, <1>5, Kinds DEF Brings, There, Stays, Kept
<1>10. Knows(k, k2, e)
  BY <1>4, <1>5 DEF Knows
<1> QED
  BY <1>4, <1>5, <1>6, <1>7, <1>8, <1>9, <1>10 DEF HandledWell, Takes, k2

\* GUILD_ROLE_DELETE: _on_raw_guild_role_delete.
LEMMA RoleGoes ==
    ASSUME NamesAssumption, NEW k \in Caches, ListsKept(k), NEW e, EventTyped(e),
           e.of \in Roles, e.type = "DELETE"
    PROVE  HandledWell(k, Handled(k, e), e)
<1> DEFINE r == e.of
           k2 == Handled(k, e)
<1>1. k2 = [k EXCEPT !.roles = @ \ {r},
                     !.listed = IF r \in k.roles /\ Home[r] \in k.guilds THEN @ \ {r} ELSE @]
  <2>1. Handled(k, e) = RoleHandled(k, e)
    BY Kinds DEF Handled
  <2> QED
    BY <2>1 DEF RoleHandled, delete_role
<1> HIDE DEF k2
<1>2. /\ k2 \in Caches
      /\ k2.guilds = k.guilds /\ k2.channels = k.channels /\ k2.roles = k.roles \ {r}
      /\ k2.members = k.members /\ k2.memberIds = k.memberIds
      /\ k2.listed \subseteq k.listed /\ k.listed \subseteq k2.listed \cup {r}
  BY <1>1 DEF Caches
<1>3. Gone(e) = {r} /\ Carried(e) = {} /\ Sure(e) = {} /\ GuildOf(e.of) = Home[r]
  BY Kinds DEF Gone, Carried, Sure, GuildOf
<1>4. r \in Roles
  OBVIOUS
<1> HIDE DEF r
<1>5. ListsKept(k2)
  BY <1>2 DEF ListsKept
<1>6. BringsOnly(k, k2, e)
  BY <1>2 DEF BringsOnly, Stays, Kept
<1>7. Takes(k, k2, e)
  BY <1>2, <1>3, <1>4, Kinds DEF Takes, Stays, Kept
<1>8. TakesOnly(k, k2, e)
  BY <1>2, <1>3, Kinds DEF TakesOnly, There, Stays, Kept
<1>9. Knows(k, k2, e)
  BY <1>2, <1>3, <1>4, Kinds DEF Knows, Caches
<1> QED
  BY <1>2, <1>3, <1>5, <1>6, <1>7, <1>8, <1>9 DEF HandledWell, Brings, k2

\* GUILD_MEMBER_ADD and GUILD_MEMBER_REMOVE: _on_raw_guild_member_add, _on_raw_guild_member_remove.
LEMMA MemberHandledWell ==
    ASSUME NamesAssumption, NEW k \in Caches, ListsKept(k), NEW e, EventTyped(e), e.of \in Pairs
    PROVE  HandledWell(k, Handled(k, e), e)
<1>1. PICK g \in Guilds, u \in Users : e.of = <<g, u>>
  BY DEF Pairs
<1>2. /\ Handled(k, e) = IF e.type = "MEMBER_ADD" THEN place_member_data(k, g, {u}) ELSE delete_member(k, g, u)
      /\ GuildOf(e.of) = g /\ e.type \in MemberEvents
  <2>1. Handled(k, e) = MemberHandled(k, e)
    BY Kinds DEF Handled
  <2>2. e.of[1] = g /\ e.of[2] = u
    BY <1>1
  <2>3. GuildOf(e.of) = g
    BY <2>2, Kinds DEF GuildOf
  <2>4. e.type \in MemberEvents
    BY Kinds DEF EventTyped
  <2> QED
    BY <2>1, <2>2, <2>3, <2>4 DEF MemberHandled
<1> DEFINE k2 == Handled(k, e)
<1>3. CASE e.type = "MEMBER_ADD"
  <2>1. /\ k2 \in Caches
        /\ k2.guilds = k.guilds /\ k2.channels = k.channels /\ k2.roles = k.roles /\ k2.listed = k.listed
        /\ k2.members = k.members \cup ({g} \X {u})
        /\ k2.memberIds = IF g \in k.guilds THEN k.memberIds \cup ({g} \X {u}) ELSE k.memberIds
    <3>1. PICK us \in SUBSET Users : us = {u}
      OBVIOUS
    <3>2. k2 = place_member_data(k, g, us)
      BY <1>2, <1>3, <3>1
    <3> HIDE DEF k2
    <3>3. k2 \in Caches /\ MembersPut(k2, k, g, us)
      BY <3>2, MembersPlaced
    <3> QED
      BY <3>1, <3>3 DEF MembersPut
  <2> HIDE DEF k2
  <2>2. Gone(e) = {} /\ Carried(e) = {<<g, u>>} /\ Sure(e) = {<<g, u>>}
    BY <1>1, <1>3 DEF Gone, Carried, Sure
  <2>3. {g} \X {u} = {<<g, u>>} /\ <<g, u>> \in Pairs
    BY <1>1
  <2>4. ListsKept(k2)
    BY <2>1, <2>3 DEF ListsKept
  <2>5. BringsOnly(k, k2, e)
    BY <2>1, <2>2, <2>3, Kinds DEF BringsOnly, Stays, Kept
  <2>6. TakesOnly(k, k2, e)
    BY <2>1, Kinds DEF TakesOnly, There, Stays, Kept
  <2>7. Brings(k, k2, e)
    BY <1>2, <1>3, <2>1, <2>2, <2>3, Kinds DEF Brings, There, Stays
  <2>8. Knows(k, k2, e)
    BY <1>3, <2>1, <2>2 DEF Knows
  <2> QED
    BY <2>1, <2>2, <2>4, <2>5, <2>6, <2>7, <2>8 DEF HandledWell, Takes, k2
<1>4. CASE e.type = "MEMBER_REMOVE"
  <2>1. /\ k2 \in Caches
        /\ k2.guilds = k.guilds /\ k2.channels = k.channels /\ k2.roles = k.roles /\ k2.listed = k.listed
        /\ k2.members = k.members \ {<<g, u>>} /\ k2.memberIds = k.memberIds \ {<<g, u>>}
    BY <1>2, <1>4, MemberGoes
  <2> HIDE DEF k2
  <2>2. Gone(e) = {<<g, u>>} /\ Carried(e) = {} /\ Sure(e) = {}
    BY <1>1, <1>4 DEF Gone, Carried, Sure
  <2>3. <<g, u>> \in Pairs
    BY <1>1
  <2>4. ListsKept(k2)
    BY <2>1 DEF ListsKept
  <2>5. BringsOnly(k, k2, e)
    BY <2>1 DEF BringsOnly, Stays, Kept
  <2>6. Takes(k, k2, e)
    BY <2>1, <2>2, <2>3, Kinds DEF Takes, Stays
  <2>7. TakesOnly(k, k2, e)
    BY <2>1, <2>2, Kinds DEF TakesOnly, There, Stays, Kept
  <2>8. Knows(k, k2, e)
    BY <1>4, <2>1, <2>2, <2>3, Kinds DEF Knows, Caches
  <2> QED
    BY <1>4, <2>1, <2>2, <2>4, <2>5, <2>6, <2>7, <2>8 DEF HandledWell, Brings, k2
<1> QED
  BY <1>2, <1>3, <1>4 DEF MemberEvents

\* Every event is handled well.
LEMMA EventHandled ==
    ASSUME NamesAssumption, NEW k \in Caches, ListsKept(k), NEW e, EventTyped(e)
    PROVE  HandledWell(k, Handled(k, e), e)
<1>1. CASE e.type \in GuildEvents
  BY <1>1, GuildComes, GuildUpdated, GuildGoes, GuildAway DEF GuildEvents
<1>2. CASE e.type \in MemberEvents
  BY <1>2, MemberHandledWell DEF EventTyped
<1>3. CASE e.type \in ObjectEvents
  <2>1. e.of \in Channels \/ (e.of \in Roles /\ e.type # "UPDATE")
    BY <1>3, Kinds DEF EventTyped
  <2> QED
    BY <1>3, <2>1, ChannelComes, ChannelGoes, RoleComes, RoleGoes DEF ObjectEvents
<1> QED
  BY <1>1, <1>2, <1>3 DEF EventTyped

-----------------------------------------------------------------------------
(***************************************************************************)
(* What an answer does to the cache.                                       *)
(***************************************************************************)
\* Of the things in about some come, nothing goes but a channel that is excused, and of the roles
\* rs those are listed whose guild is new.
PlacedWell(k, k2, about, rs) ==
    /\ k2 \in Caches /\ ListsKept(k2)
    /\ \A t \in Things : Stays(k2, t) => Stays(k, t) \/ t \in about
    /\ \A t \in Things : There(k, t) => There(k2, t) \/ t \in Astray(k, k2, {})
    /\ k.guilds \subseteq k2.guilds /\ k2.guilds \subseteq k.guilds \cup about
    /\ \A r \in Roles : r \in k.listed => r \in k2.listed
    /\ \A r \in rs : Home[r] \notin k.guilds /\ Home[r] \in k2.guilds => r \in k2.listed

\* An answer about a member is placed, and so is the one that fetch_user_guild_ids awaits.
LEMMA MemberAnswered ==
    ASSUME NamesAssumption, NEW k \in Caches, ListsKept(k), NEW g \in Guilds, NEW u \in Users, NEW rs
    PROVE  PlacedWell(k, place_member_data(k, g, {u}), {<<g, u>>}, rs)
<1> DEFINE k2 == place_member_data(k, g, {u})
<1>1. PICK us \in SUBSET Users : us = {u}
  OBVIOUS
<1>2. k2 = place_member_data(k, g, us)
  BY <1>1
<1> HIDE DEF k2
<1>3. k2 \in Caches /\ MembersPut(k2, k, g, us)
  BY <1>2, MembersPlaced
<1>4. {g} \X us = {<<g, u>>} /\ <<g, u>> \in Pairs
  BY <1>1 DEF Pairs
<1>5. ListsKept(k2)
  BY <1>3, <1>4 DEF ListsKept, MembersPut
<1>6. \A t \in Things : Stays(k2, t) => Stays(k, t) \/ t \in {<<g, u>>}
  BY <1>3, <1>4, Kinds DEF MembersPut, Stays, Kept
<1>7. \A t \in Things : There(k, t) => There(k2, t)
  BY <1>3, Kinds DEF MembersPut, There, Stays, Kept
<1> QED
  BY <1>3, <1>5, <1>6, <1>7 DEF PlacedWell, MembersPut, k2

\* An answer about a channel is placed.
LEMMA ChannelAnswered ==
    ASSUME NamesAssumption, NEW k \in Caches, ListsKept(k), NEW c \in Channels,
           NEW types \in [Channels -> Types], NEW rs
    PROVE  PlacedWell(k, place_channel_data(k, {c}, types), {c}, rs)
<1> DEFINE k2 == place_channel_data(k, {c}, types)
<1>1. PICK cs \in SUBSET Channels : cs = {c}
  OBVIOUS
<1>2. k2 = place_channel_data(k, cs, types)
  BY <1>1
<1> HIDE DEF k2
<1>3. k2 \in Caches /\ ChannelsPut(k2, k, cs, types)
  BY <1>2, ChannelsPlaced
<1>4. /\ k2.guilds = k.guilds /\ k2.roles = k.roles /\ k2.members = k.members /\ k2.memberIds = k.memberIds
      /\ \A x : x \in k2.listed <=> (x \in k.listed \/ (x = c /\ k.channels[x] = None /\ Home[x] \in k.guilds))
      /\ \A x \in Channels : k2.channels[x] = ChannelPut(k, {c}, types, x)
  BY <1>1, <1>3 DEF ChannelsPut, Caches
<1>5. ListsKept(k2)
  BY <1>4 DEF ListsKept
<1>6. \A t \in Things : Stays(k2, t) => Stays(k, t) \/ t \in {c}
  BY <1>4, Kinds DEF ChannelPut, Stays, Kept
<1>7. \A t \in Channels : t \in Kept(k) => t \in Kept(k2) \/ t \in Astray(k, k2, {})
  BY DEF Astray
<1>8. \A t \in Things : There(k, t) => There(k2, t) \/ t \in Astray(k, k2, {})
  BY <1>4, <1>7, Kinds DEF There, Stays, Kept
<1> QED
  BY <1>3, <1>4, <1>5, <1>6, <1>8 DEF PlacedWell, k2

\* An answer about a guild is placed.
LEMMA GuildAnswered ==
    ASSUME NamesAssumption, NEW k \in Caches, ListsKept(k), NEW g \in Guilds,
           NEW data, DataTyped(g, data), data.channels = {}, data.users = {}
    PROVE  PlacedWell(k, place_guild_data(k, g, data), data.roles \cup {g}, data.roles)
<1> DEFINE k2 == place_guild_data(k, g, data)
<1>1. k2 \in Caches /\ GuildPut(k2, k, g, data)
  BY GuildPlaced
<1> HIDE DEF k2
<1>2. \A r \in data.roles : r \in Roles /\ Home[r] = g
  BY DEF DataTyped
<1>3. /\ k2.guilds = k.guilds \cup {g} /\ k2.roles = k.roles \cup data.roles /\ k2.members = k.members
      /\ k2.memberIds = k.memberIds
      /\ k2.listed = IF g \in k.guilds THEN k.listed ELSE k.listed \cup data.roles
      /\ \A c \in Channels : k2.channels[c] = k.channels[c]
  BY <1>1 DEF GuildPut, ChannelPut
<1>4. ListsKept(k2)
  BY <1>2, <1>3 DEF ListsKept
<1>5. \A t \in Things : Stays(k2, t) => Stays(k, t) \/ t \in data.roles \cup {g}
  BY <1>2, <1>3, Kinds DEF Stays, Kept
<1>6. \A t \in Things : There(k, t) => There(k2, t)
  BY <1>3, Kinds DEF There, Stays, Kept
<1> QED
  BY <1>1, <1>2, <1>3, <1>4, <1>5, <1>6 DEF PlacedWell, k2

\* An answer about the roles of a guild is placed.
LEMMA RolesAnswered ==
    ASSUME NamesAssumption, NEW k \in Caches, ListsKept(k), NEW rs \in SUBSET Roles
    PROVE  PlacedWell(k, place_role_data(k, rs), rs, rs)
<1> DEFINE k2 == place_role_data(k, rs)
<1>1. /\ k2 \in Caches
      /\ k2.guilds = k.guilds /\ k2.channels = k.channels /\ k2.roles = k.roles \cup rs
      /\ k2.members = k.members /\ k2.memberIds = k.memberIds /\ k2.listed = k.listed
  BY DEF place_role_data, Caches
<1> HIDE DEF k2
<1>2. ListsKept(k2)
  BY <1>1 DEF ListsKept
<1>3. \A t \in Things : Stays(k2, t) => Stays(k, t) \/ t \in rs
  BY <1>1, Kinds DEF Stays, Kept
<1>4. \A t \in Things : There(k, t) => There(k2, t)
  BY <1>1, Kinds DEF There, Stays, Kept
<1> QED
  BY <1>1, <1>2, <1>3, <1>4 DEF PlacedWell, k2

\* The roles that an answer lists.
RolesIn(a) == IF a.kind = "guild" THEN a.data.roles ELSE {}

\* Every answer is placed well.
LEMMA AnswerPlaced ==
    ASSUME NamesAssumption, NEW k \in Caches, ListsKept(k), NEW a, AnswerTyped(a)
    PROVE  PlacedWell(k, Placed(k, a), About(a), RolesIn(a))
<1>1. CASE a.kind = "channel"
  <2>1. /\ Placed(k, a) = place_channel_data(k, {a.of}, a.data) /\ About(a) = {a.of}
        /\ a.of \in Channels /\ a.data \in [Channels -> Types]
    BY <1>1 DEF Placed, About, AnswerTyped
  <2> QED
    BY <2>1, ChannelAnswered
<1>2. CASE a.kind = "member"
  <2>1. a.of \in Pairs
    BY <1>2 DEF AnswerTyped
  <2>2. a.of[1] \in Guilds /\ a.of[2] \in Users /\ a.of = <<a.of[1], a.of[2]>>
    BY <2>1, Kinds
  <2>3. Placed(k, a) = place_member_data(k, a.of[1], {a.of[2]}) /\ About(a) = {<<a.of[1], a.of[2]>>}
    BY <1>2, <2>2 DEF Placed, About
  <2> QED
    BY <2>2, <2>3, MemberAnswered
<1>3. CASE a.kind = "guild"
  <2>1. /\ Placed(k, a) = place_guild_data(k, a.of, a.data) /\ About(a) = a.data.roles \cup {a.of}
        /\ RolesIn(a) = a.data.roles
        /\ a.of \in Guilds /\ DataTyped(a.of, a.data) /\ a.data.channels = {} /\ a.data.users = {}
    BY <1>3 DEF Placed, About, AnswerTyped, RolesIn
  <2> QED
    BY <2>1, GuildAnswered
<1>4. CASE a.kind = "roles"
  <2>1. PICK rs \in SUBSET Roles : rs = a.data.roles
    BY <1>4 DEF AnswerTyped, DataTyped
  <2>2. Placed(k, a) = place_role_data(k, rs) /\ About(a) = rs
    BY <1>4, <2>1 DEF Placed, About
  <2>3. PlacedWell(k, Placed(k, a), About(a), rs)
    BY <2>2, RolesAnswered
  <2> QED
    BY <1>4, <2>3 DEF PlacedWell, RolesIn
<1> QED
  BY <1>1, <1>2, <1>3, <1>4 DEF AnswerTyped

-----------------------------------------------------------------------------
(***************************************************************************)
(* The events on their way.                                                *)
(***************************************************************************)
DataSet == [channels : SUBSET Channels, types : [Channels -> Types], roles : SUBSET Roles, users : SUBSET Users]
EventSet ==
    {e \in [type : GuildEvents \cup ObjectEvents \cup MemberEvents, of : Things,
            data : DataSet \cup [Channels -> Types] \cup {None}] : EventTyped(e)}

\* From the a-th to the b-th event none takes t away, none brings it, none is about the guild g.
Spared(t, a, b) == \A i \in a .. b : t \notin Gone(events[i])
Uncarried(t, a, b) == \A i \in a .. b : t \notin Carried(events[i])
Silent(g, a, b) == \A i \in a .. b : GuildOf(events[i].of) # g

\* An event is about one guild, and what it takes away it does not bring.
LEMMA AboutOne ==
    ASSUME NamesAssumption, NEW e, EventTyped(e)
    PROVE  /\ e.of \in Things /\ GuildOf(e.of) \in Guilds
           /\ \A t \in Gone(e) \cup Carried(e) : t \in Things /\ GuildOf(t) = GuildOf(e.of)
           /\ \A t \in Sure(e) : t \in Carried(e)
           /\ \A t \in Gone(e) : t \notin Carried(e)
<1>1. e.of \in Things /\ GuildOf(e.of) \in Guilds
  BY Kinds DEF EventTyped, Things
<1>2. \A t \in Sure(e) : t \in Carried(e)
  BY DEF Sure, Carried
<1>3. \A t \in Gone(e) : t \notin Carried(e)
  BY DEF Gone, Carried
<1>4. ASSUME NEW t \in Gone(e)
      PROVE  t \in Things /\ GuildOf(t) = GuildOf(e.of)
  <2>1. CASE e.type \in {"DELETE", "MEMBER_REMOVE"}
    BY <1>1, <1>4, <2>1 DEF Gone
  <2>2. CASE e.type = "GUILD_DELETE"
    <3>1. e.of \in Guilds /\ GuildOf(e.of) = e.of
      BY <2>2 DEF EventTyped, GuildEvents, GuildOf
    <3>2. t = e.of \/ (t \in Objects /\ Home[t] = e.of) \/ (t \in Pairs /\ t[1] = e.of)
      BY <1>4, <2>2 DEF Gone
    <3> QED
      BY <3>1, <3>2, Kinds DEF GuildOf, Things
  <2>3. CASE e.type \notin {"DELETE", "MEMBER_REMOVE", "GUILD_DELETE"}
    BY <1>4, <2>3 DEF Gone
  <2> QED
    BY <2>1, <2>2, <2>3
<1>5. ASSUME NEW t \in Carried(e)
      PROVE  t \in Things /\ GuildOf(t) = GuildOf(e.of)
  <2>1. CASE e.type \in {"GUILD_CREATE", "GUILD_UPDATE"}
    <3>1. e.of \in Guilds /\ GuildOf(e.of) = e.of /\ DataTyped(e.of, e.data)
      BY <2>1 DEF EventTyped, GuildEvents, GuildOf
    <3>2. \/ t = e.of \/ t \in e.data.channels \/ t \in e.data.roles
          \/ e.type = "GUILD_CREATE" /\ t \in {e.of} \X e.data.users
      BY <1>5, <2>1 DEF Carried
    <3>3. t = e.of \/ (t \in Objects /\ Home[t] = e.of) \/ (t \in Pairs /\ t[1] = e.of)
      BY <3>1, <3>2, Kinds DEF DataTyped, Pairs
    <3> QED
      BY <3>1, <3>3, Kinds DEF GuildOf, Things
  <2>2. CASE e.type \notin {"GUILD_CREATE", "GUILD_UPDATE"}
    BY <1>1, <1>5, <2>2 DEF Carried
  <2> QED
    BY <2>1, <2>2
<1> QED
  BY <1>1, <1>2, <1>3, <1>4, <1>5

\* A guild goes with GUILD_DELETE and comes with GUILD_CREATE.
LEMMA GuildsInEvents ==
    ASSUME NamesAssumption, NEW e, EventTyped(e), NEW g \in Guilds
    PROVE  /\ g \in Gone(e) <=> e.type = "GUILD_DELETE" /\ e.of = g
           /\ g \in Carried(e) <=> e.type = "GUILD_CREATE" /\ e.of = g
           /\ g \in Sure(e) <=> e.type = "GUILD_CREATE" /\ e.of = g
           /\ e.type \in GuildEvents => GuildOf(e.of) = e.of
<1>1. e.type \in GuildEvents => GuildOf(e.of) = e.of
  BY DEF EventTyped, GuildOf
<1>2. g \in Gone(e) <=> e.type = "GUILD_DELETE" /\ e.of = g
  BY Kinds DEF EventTyped, Gone, GuildEvents, ObjectEvents, MemberEvents
<1>3. e.type \in {"GUILD_CREATE", "GUILD_UPDATE"} =>
        g \notin e.data.channels /\ g \notin e.data.roles
  BY Kinds DEF EventTyped, DataTyped
<1>4. e.type = "GUILD_CREATE" => g \notin {e.of} \X e.data.users
  BY Kinds DEF EventTyped, DataTyped, GuildEvents, Pairs
<1>5. g \in Carried(e) <=> e.type = "GUILD_CREATE" /\ e.of = g
  BY <1>3, <1>4, Kinds DEF EventTyped, Carried, GuildEvents, ObjectEvents, MemberEvents
<1>6. g \in Sure(e) <=> e.type = "GUILD_CREATE" /\ e.of = g
  BY <1>3, <1>4, Kinds DEF EventTyped, Sure, GuildEvents, ObjectEvents, MemberEvents
<1> QED
  BY <1>1, <1>2, <1>5, <1>6

\* An event is sent.
LEMMA Sent ==
    ASSUME events \in Seq(EventSet), NEW e \in EventSet, events' = Append(events, e)
    PROVE  /\ events' \in Seq(EventSet) /\ Len(events) \in Nat /\ Len(events') = Len(events) + 1
           /\ \A i \in 1 .. Len(events) : events'[i] = events[i] /\ events[i] \in EventSet
           /\ events'[Len(events) + 1] = e
  BY AppendProperties, LenProperties, ElementOfSeq

\* An event is taken.
LEMMA Taken ==
    ASSUME events \in Seq(EventSet), events # << >>, events' = Tail(events)
    PROVE  /\ events' \in Seq(EventSet) /\ Len(events) \in Nat \ {0} /\ Len(events') = Len(events) - 1
           /\ \A i \in 1 .. Len(events) : events[i] \in EventSet
           /\ \A i \in 1 .. Len(events) - 1 : events'[i] = events[i + 1]
           /\ Head(events) = events[1]
  BY HeadTailProperties, LenProperties, ElementOfSeq, EmptySeq

\* What is so of the events on their way once one more was sent ...
LEMMA SentAfter ==
    ASSUME events \in Seq(EventSet), NEW e \in EventSet, events' = Append(events, e)
    PROVE  /\ \A t : \A a \in Nat \ {0}, b \in 0 .. Len(events) :
                (Spared(t, a, b) => Spared(t, a, b)') /\ (Uncarried(t, a, b) => Uncarried(t, a, b)')
                /\ (Silent(t, a, b) => Silent(t, a, b)')
           /\ \A t : \A a \in Nat \ {0}, n \in {Len(events)} :
                /\ Spared(t, a, n) /\ t \notin Gone(e) => Spared(t, a, n + 1)'
                /\ Uncarried(t, a, n) /\ t \notin Carried(e) => Uncarried(t, a, n + 1)'
                /\ Silent(t, a, n) /\ GuildOf(e.of) # t => Silent(t, a, n + 1)'
<1>1. /\ Len(events) \in Nat /\ \A i \in 1 .. Len(events) : events'[i] = events[i]
      /\ events'[Len(events) + 1] = e
  BY Sent
<1>2. ASSUME NEW t, NEW a \in Nat \ {0}, NEW b \in 0 .. Len(events)
      PROVE  /\ Spared(t, a, b) => Spared(t, a, b)'
             /\ Uncarried(t, a, b) => Uncarried(t, a, b)'
             /\ Silent(t, a, b) => Silent(t, a, b)'
  <2>1. \A i \in a .. b : i \in 1 .. Len(events)
    BY <1>1
  <2> QED
    BY <1>1, <2>1 DEF Spared, Uncarried, Silent
<1>3. ASSUME NEW t, NEW a \in Nat \ {0}, NEW n \in {Len(events)}
      PROVE  /\ Spared(t, a, n) /\ t \notin Gone(e) => Spared(t, a, n + 1)'
             /\ Uncarried(t, a, n) /\ t \notin Carried(e) => Uncarried(t, a, n + 1)'
             /\ Silent(t, a, n) /\ GuildOf(e.of) # t => Silent(t, a, n + 1)'
  <2>1. n \in Nat /\ events'[n + 1] = e /\ \A i \in 1 .. n : events'[i] = events[i]
    BY <1>1
  <2>2. \A i \in a .. n + 1 : (i \in a .. n /\ i \in 1 .. n) \/ i = n + 1
    BY <2>1
  <2> QED
    BY <2>1, <2>2 DEF Spared, Uncarried, Silent
<1> QED
  BY <1>2, <1>3

\* ... and once the first was taken.
LEMMA TakenAfter ==
    ASSUME events \in Seq(EventSet), events # << >>, events' = Tail(events)
    PROVE  \A t : \A a \in Nat \ {0}, b \in Int : b < Len(events) =>
                /\ Spared(t, a + 1, b + 1) => Spared(t, a, b)'
                /\ Uncarried(t, a + 1, b + 1) => Uncarried(t, a, b)'
                /\ Silent(t, a + 1, b + 1) => Silent(t, a, b)'
<1>1. Len(events) \in Nat /\ \A i \in 1 .. Len(events) - 1 : events'[i] = events[i + 1]
  BY Taken
<1>2. ASSUME NEW t, NEW a \in Nat \ {0}, NEW b \in Int, b < Len(events)
      PROVE  /\ Spared(t, a + 1, b + 1) => Spared(t, a, b)'
             /\ Uncarried(t, a + 1, b + 1) => Uncarried(t, a, b)'
             /\ Silent(t, a + 1, b + 1) => Silent(t, a, b)'
  <2>1. \A i \in a .. b : i + 1 \in a + 1 .. b + 1 /\ events'[i] = events[i + 1]
    BY <1>1, <1>2
  <2> QED
    BY <2>1 DEF Spared, Uncarried, Silent
<1> QED
  BY <1>2

\* Nothing happens to the things of a guild that no event is about.
LEMMA SilentSpares ==
    ASSUME NamesAssumption, events \in Seq(EventSet), NEW t \in Things, NEW a \in Nat \ {0}, NEW b \in 0 .. Len(events),
           Silent(GuildOf(t), a, b)
    PROVE  Spared(t, a, b) /\ Uncarried(t, a, b)
<1>1. Len(events) \in Nat /\ \A i \in 1 .. Len(events) : EventTyped(events[i])
  BY LenProperties, ElementOfSeq DEF EventSet
<1>2. \A i \in a .. b : i \in 1 .. Len(events)
  BY <1>1
<1>3. \A i \in a .. b : t \notin Gone(events[i]) /\ t \notin Carried(events[i])
  BY <1>1, <1>2, AboutOne DEF Silent
<1> QED
  BY <1>3 DEF Spared, Uncarried

-----------------------------------------------------------------------------
(***************************************************************************)
(* The invariant.                                                          *)
(***************************************************************************)
Servers == [joined : SUBSET Guilds, away : SUBSET Guilds, missed : SUBSET Things, alive : SUBSET Objects,
            there : SUBSET Pairs, types : [Channels -> Types]]

LookTyped ==
    /\ look = [user |-> look.user, left |-> look.left, size |-> look.size, found |-> look.found, asked |-> look.asked]
    /\ look.user \in Users \cup {None} /\ look.asked \in Guilds \cup {None}
    /\ look.left \subseteq Guilds /\ look.found \subseteq Guilds
    /\ look.asked \in Guilds => look.user \in Users

Typed ==
    /\ server \in Servers /\ server.away \subseteq server.joined /\ server.missed \cap Guilds = {}
    /\ events \in Seq(EventSet)
    /\ cache \in Caches /\ ListsKept(cache)
    /\ \A a \in answers : AnswerTyped(a)
    /\ LookTyped

\* What the cache should not have, and what it should.
Dead(s, t) ==
    \/ t \in Guilds /\ t \notin s.joined
    \/ t \in Pairs /\ t \notin s.there
    \/ t \in Objects /\ (t \notin s.alive \/ Home[t] \notin s.joined)
Live(s, t) ==
    \/ t \in Guilds /\ t \in s.joined
    \/ t \in Pairs /\ t \in s.there /\ t[1] \in s.joined /\ t[1] \notin s.away
    \/ t \in Objects /\ t \in s.alive /\ Home[t] \in s.joined /\ t \notin s.missed

\* The guild g is in the cache when the i-th event is handled.
KnownAt(g, i) ==
    \/ g \in cache.guilds /\ Spared(g, 1, i - 1)
    \/ \E j \in 1 .. i - 1 : g \in Sure(events[j]) /\ Spared(g, j + 1, i - 1)

\* The last of the guild g is that it was left.  If an answer put it back, what it has is excused.
LastSeen(g) ==
    \/ \E i \in 1 .. Len(events) : g \in Gone(events[i]) /\ Silent(g, i + 1, Len(events))
    \/ /\ Silent(g, 1, Len(events))
       /\ g \in excused => \A x \in Objects : Home[x] = g => x \in excused

\* t is gone, or will be.
WillGo(t) ==
    \/ \E j \in 1 .. Len(events) : t \in Gone(events[j]) /\ Uncarried(t, j + 1, Len(events))
    \/ /\ Uncarried(t, 1, Len(events))
       /\ t \in excused \/ (~Stays(cache, t) /\ t \notin Awaited)

\* The j-th event brings the role r of a guild that is not in the cache by then, or that lists it.
FreshAt(r, j) ==
    /\ events[j].type = "GUILD_CREATE" /\ r \in events[j].data.roles
    /\ \/ \E i \in 1 .. j - 1 : Home[r] \in Gone(events[i]) /\ Silent(Home[r], i + 1, j - 1)
       \/ /\ Silent(Home[r], 1, j - 1)
          /\ Home[r] \notin cache.guilds \/ r \in cache.listed
          /\ \A a \in answers : Home[r] \in About(a) => r \in RolesIn(a)

\* t is there, or will be.
WillCome(t) ==
    \/ Spared(t, 1, Len(events)) /\ (There(cache, t) \/ (t \in excused /\ t \in Objects))
    \/ \E j \in 1 .. Len(events) : t \in Sure(events[j]) /\ Spared(t, j + 1, Len(events))
    \/ t \in Roles /\ \E j \in 1 .. Len(events) : FreshAt(t, j) /\ Spared(t, j + 1, Len(events))

InKnown ==
    \A i \in 1 .. Len(events) : events[i].type = "GUILD_CREATE" \/ KnownAt(GuildOf(events[i].of), i)
LeftLast == \A g \in Guilds \ server.joined : LastSeen(g)
DeadGoes == \A t \in Things : Dead(server, t) /\ t \notin server.missed => WillGo(t)
LiveComes == \A t \in Things : Live(server, t) => WillCome(t)
LoneExcused == Unlisted(cache) \cap Channels \subseteq excused

CacheInv == Typed /\ InKnown /\ LeftLast /\ DeadGoes /\ LiveComes /\ LoneExcused

-----------------------------------------------------------------------------
(***************************************************************************)
(* An event is sent.                                                       *)
(***************************************************************************)
\* What will go goes when an event is sent that does not bring it, and what the event takes away goes.
LEMMA SentGoes ==
    ASSUME events \in Seq(EventSet), NEW e \in EventSet, events' = Append(events, e),
           UNCHANGED <<answers, cache, look, excused>>, NEW t
    PROVE  /\ WillGo(t) /\ t \notin Carried(e) => WillGo(t)'
           /\ t \in Gone(e) => WillGo(t)'
<1>1. PICK n : n = Len(events)
  OBVIOUS
<1>2. /\ n \in Nat /\ Len(events)' = n + 1
      /\ \A i \in 1 .. n : events'[i] = events[i]
      /\ events'[n + 1] = e
  BY <1>1, Sent
<1>3. \A a \in Nat \ {0} : Uncarried(t, a, n) /\ t \notin Carried(e) => Uncarried(t, a, n + 1)'
  BY <1>1, SentAfter
<1>4. ASSUME WillGo(t), t \notin Carried(e)
      PROVE  WillGo(t)'
  <2>1. CASE \E j \in 1 .. n : t \in Gone(events[j]) /\ Uncarried(t, j + 1, n)
    <3>1. PICK j \in 1 .. n : t \in Gone(events[j]) /\ Uncarried(t, j + 1, n)
      BY <2>1
    <3>2. j \in 1 .. n + 1 /\ t \in Gone(events'[j]) /\ j + 1 \in Nat \ {0}
      BY <1>2, <3>1
    <3>3. Uncarried(t, j + 1, n + 1)'
      BY <1>3, <1>4, <3>1, <3>2
    <3> QED
      BY <1>2, <3>2, <3>3 DEF WillGo
  <2>2. CASE Uncarried(t, 1, n) /\ (t \in excused \/ (~Stays(cache, t) /\ t \notin Awaited))
    <3>1. Uncarried(t, 1, n + 1)'
      BY <1>3, <1>4, <2>2
    <3>2. t \in excused' \/ (~Stays(cache, t)' /\ t \notin Awaited')
      BY <2>2 DEF Awaited
    <3> QED
      BY <1>2, <3>1, <3>2 DEF WillGo
  <2> QED
    BY <1>1, <1>4, <2>1, <2>2 DEF WillGo
<1>5. ASSUME t \in Gone(e)
      PROVE  WillGo(t)'
  <2>1. Uncarried(t, (n + 1) + 1, n + 1)'
    BY <1>2 DEF Uncarried
  <2> QED
    BY <1>2, <1>5, <2>1 DEF WillGo
<1> QED
  BY <1>4, <1>5

\* What will come comes when an event is sent that does not take it, and what the event is sure to bring comes.
LEMMA SentComes ==
    ASSUME events \in Seq(EventSet), NEW e \in EventSet, events' = Append(events, e),
           UNCHANGED <<answers, cache, look, excused>>, NEW t
    PROVE  /\ WillCome(t) /\ t \notin Gone(e) => WillCome(t)'
           /\ t \in Sure(e) => WillCome(t)'
<1>1. PICK n : n = Len(events)
  OBVIOUS
<1>2. /\ n \in Nat /\ Len(events)' = n + 1
      /\ \A i \in 1 .. n : events'[i] = events[i]
      /\ events'[n + 1] = e
  BY <1>1, Sent
<1>3. \A a \in Nat \ {0} : Spared(t, a, n) /\ t \notin Gone(e) => Spared(t, a, n + 1)'
  BY <1>1, SentAfter
<1>4. \A g : \A a \in Nat \ {0}, b \in 0 .. n : Silent(g, a, b) => Silent(g, a, b)'
  BY <1>1, SentAfter
<1>5. ASSUME WillCome(t), t \notin Gone(e)
      PROVE  WillCome(t)'
  <2>1. CASE Spared(t, 1, n) /\ (There(cache, t) \/ (t \in excused /\ t \in Objects))
    <3>1. Spared(t, 1, n + 1)'
      BY <1>3, <1>5, <2>1
    <3> QED
      BY <1>2, <2>1, <3>1 DEF WillCome
  <2>2. CASE \E j \in 1 .. n : t \in Sure(events[j]) /\ Spared(t, j + 1, n)
    <3>1. PICK j \in 1 .. n : t \in Sure(events[j]) /\ Spared(t, j + 1, n)
      BY <2>2
    <3>2. j \in 1 .. n + 1 /\ t \in Sure(events'[j]) /\ j + 1 \in Nat \ {0}
      BY <1>2, <3>1
    <3>3. Spared(t, j + 1, n + 1)'
      BY <1>3, <1>5, <3>1, <3>2
    <3> QED
      BY <1>2, <3>2, <3>3 DEF WillCome
  <2>3. CASE t \in Roles /\ \E j \in 1 .. n : FreshAt(t, j) /\ Spared(t, j + 1, n)
    <3>1. PICK j \in 1 .. n : FreshAt(t, j) /\ Spared(t, j + 1, n)
      BY <2>3
    <3>2. j \in 1 .. n + 1 /\ j + 1 \in Nat \ {0} /\ j - 1 \in 0 .. n
      BY <1>2, <3>1
    <3>3. Spared(t, j + 1, n + 1)'
      BY <1>3, <1>5, <3>1, <3>2
    <3>4. events'[j].type = "GUILD_CREATE" /\ t \in events'[j].data.roles
      BY <1>2, <3>1 DEF FreshAt
    <3>5. CASE \E i \in 1 .. j - 1 : Home[t] \in Gone(events[i]) /\ Silent(Home[t], i + 1, j - 1)
      <4>1. PICK i \in 1 .. j - 1 : Home[t] \in Gone(events[i]) /\ Silent(Home[t], i + 1, j - 1)
        BY <3>5
      <4>2. Home[t] \in Gone(events'[i]) /\ i + 1 \in Nat \ {0}
        BY <1>2, <3>1, <4>1
      <4>3. Silent(Home[t], i + 1, j - 1)'
        BY <1>4, <3>2, <4>1, <4>2
      <4>4. FreshAt(t, j)'
        BY <3>4, <4>2, <4>3 DEF FreshAt
      <4> QED
        BY <1>2, <2>3, <3>2, <3>3, <4>4 DEF WillCome
    <3>6. CASE Silent(Home[t], 1, j - 1) /\ (Home[t] \notin cache.guilds \/ t \in cache.listed)
               /\ \A a \in answers : Home[t] \in About(a) => t \in RolesIn(a)
      <4>1. Silent(Home[t], 1, j - 1)'
        BY <1>4, <3>2, <3>6
      <4>2. FreshAt(t, j)'
        BY <3>4, <3>6, <4>1 DEF FreshAt
      <4> QED
        BY <1>2, <2>3, <3>2, <3>3, <4>2 DEF WillCome
    <3> QED
      BY <3>1, <3>5, <3>6 DEF FreshAt
  <2> QED
    BY <1>1, <1>5, <2>1, <2>2, <2>3 DEF WillCome
<1>6. ASSUME t \in Sure(e)
      PROVE  WillCome(t)'
  <2>1. Spared(t, (n + 1) + 1, n + 1)'
    BY <1>2 DEF Spared
  <2> QED
    BY <1>2, <1>6, <2>1 DEF WillCome
<1> QED
  BY <1>5, <1>6

\* A guild that was left stays silent when an event is sent about another, and is left with its GUILD_DELETE.
LEMMA SentLast ==
    ASSUME events \in Seq(EventSet), NEW e \in EventSet, events' = Append(events, e),
           UNCHANGED excused, NEW g
    PROVE  /\ LastSeen(g) /\ GuildOf(e.of) # g => LastSeen(g)'
           /\ g \in Gone(e) => LastSeen(g)'
<1>1. PICK n : n = Len(events)
  OBVIOUS
<1>2. /\ n \in Nat /\ Len(events)' = n + 1
      /\ \A i \in 1 .. n : events'[i] = events[i]
      /\ events'[n + 1] = e
  BY <1>1, Sent
<1>3. \A a \in Nat \ {0} : Silent(g, a, n) /\ GuildOf(e.of) # g => Silent(g, a, n + 1)'
  BY <1>1, SentAfter
<1>4. ASSUME LastSeen(g), GuildOf(e.of) # g
      PROVE  LastSeen(g)'
  <2>1. CASE \E i \in 1 .. n : g \in Gone(events[i]) /\ Silent(g, i + 1, n)
    <3>1. PICK i \in 1 .. n : g \in Gone(events[i]) /\ Silent(g, i + 1, n)
      BY <2>1
    <3>2. i \in 1 .. n + 1 /\ g \in Gone(events'[i]) /\ i + 1 \in Nat \ {0}
      BY <1>2, <3>1
    <3>3. Silent(g, i + 1, n + 1)'
      BY <1>3, <1>4, <3>1, <3>2
    <3> QED
      BY <1>2, <3>2, <3>3 DEF LastSeen
  <2>2. CASE Silent(g, 1, n) /\ (g \in excused => \A x \in Objects : Home[x] = g => x \in excused)
    <3>1. Silent(g, 1, n + 1)'
      BY <1>3, <1>4, <2>2
    <3> QED
      BY <1>2, <2>2, <3>1 DEF LastSeen
  <2> QED
    BY <1>1, <1>4, <2>1, <2>2 DEF LastSeen
<1>5. ASSUME g \in Gone(e)
      PROVE  LastSeen(g)'
  <2>1. Silent(g, (n + 1) + 1, n + 1)'
    BY <1>2 DEF Silent
  <2> QED
    BY <1>2, <1>5, <2>1 DEF LastSeen
<1> QED
  BY <1>4, <1>5

\* What is known stays known when an event is sent after it.
LEMMA SentKnown ==
    ASSUME events \in Seq(EventSet), NEW e \in EventSet, events' = Append(events, e),
           UNCHANGED cache, NEW g, NEW i \in 1 .. Len(events) + 1, KnownAt(g, i)
    PROVE  KnownAt(g, i)'
<1>1. PICK n : n = Len(events)
  OBVIOUS
<1>2. n \in Nat /\ \A j \in 1 .. n : events'[j] = events[j]
  BY <1>1, Sent
<1>3. \A a \in Nat \ {0}, b \in 0 .. n : Spared(g, a, b) => Spared(g, a, b)'
  BY <1>1, SentAfter
<1>4. i \in 1 .. n + 1 /\ i - 1 \in 0 .. n
  BY <1>1, <1>2
<1>5. CASE g \in cache.guilds /\ Spared(g, 1, i - 1)
  BY <1>3, <1>4, <1>5 DEF KnownAt
<1>6. CASE \E j \in 1 .. i - 1 : g \in Sure(events[j]) /\ Spared(g, j + 1, i - 1)
  <2>1. PICK j \in 1 .. i - 1 : g \in Sure(events[j]) /\ Spared(g, j + 1, i - 1)
    BY <1>6
  <2>2. j + 1 \in Nat \ {0} /\ g \in Sure(events'[j])
    BY <1>2, <1>4, <2>1
  <2>3. Spared(g, j + 1, i - 1)'
    BY <1>3, <1>4, <2>1, <2>2
  <2> QED
    BY <2>2, <2>3 DEF KnownAt
<1> QED
  BY <1>5, <1>6 DEF KnownAt

\* The roles of a guild that the client joins come.
LEMMA JoinedRoles ==
    ASSUME NamesAssumption, Typed, NEW e \in EventSet, events' = Append(events, e),
           UNCHANGED <<answers, cache, look, excused>>,
           e.type = "GUILD_CREATE", NEW r, r \in e.data.roles, LastSeen(e.of), WillGo(e.of)
    PROVE  WillCome(r)'
<1>1. PICK n : n = Len(events)
  OBVIOUS
<1>2. /\ n \in Nat /\ Len(events)' = n + 1
      /\ \A i \in 1 .. n : events'[i] = events[i] /\ EventTyped(events[i])
      /\ events'[n + 1] = e
  BY <1>1, Sent DEF Typed, EventSet
<1>3. PICK g \in Guilds : g = e.of
  BY DEF EventSet, EventTyped, GuildEvents
<1>4. r \in Roles /\ Home[r] = g /\ r \in Things /\ GuildOf(r) = g /\ r \in Objects
  <2>1. r \in Roles /\ Home[r] = g
    BY <1>3 DEF EventSet, EventTyped, DataTyped
  <2> QED
    BY <2>1, Kinds DEF GuildOf, Things
<1>5. Spared(r, (n + 1) + 1, n + 1)'
  BY <1>2 DEF Spared
<1>6. \A a \in Nat \ {0}, b \in 0 .. n : Silent(g, a, b) => Silent(g, a, b)'
  BY <1>1, SentAfter DEF Typed
<1>7. CASE \E i \in 1 .. n : g \in Gone(events[i]) /\ Silent(g, i + 1, n)
  <2>1. PICK i \in 1 .. n : g \in Gone(events[i]) /\ Silent(g, i + 1, n)
    BY <1>7
  <2>2. i + 1 \in Nat \ {0} /\ n \in 0 .. n
    BY <1>2
  <2>3. g \in Gone(events'[i]) /\ Silent(g, i + 1, n)'
    BY <1>2, <1>6, <2>1, <2>2
  <2>4. FreshAt(r, n + 1)'
    <3>1. (n + 1) - 1 = n
      BY <1>2
    <3> QED
      BY <1>2, <1>4, <2>3, <3>1 DEF FreshAt
  <2> QED
    BY <1>2, <1>4, <1>5, <2>4 DEF WillCome
<1>8. CASE Silent(g, 1, n) /\ (g \in excused => \A x \in Objects : Home[x] = g => x \in excused)
  <2>1. Spared(g, 1, n) /\ Spared(r, 1, n)
    <3>1. GuildOf(g) = g /\ g \in Things /\ n \in 0 .. Len(events) /\ 1 \in Nat \ {0}
      BY <1>1, <1>2 DEF GuildOf, Things
    <3>2. Silent(GuildOf(g), 1, n) /\ Silent(GuildOf(r), 1, n)
      BY <1>4, <1>8, <3>1
    <3>3. Spared(g, 1, n)
      BY <3>1, <3>2, SilentSpares DEF Typed
    <3>4. Spared(r, 1, n)
      BY <1>4, <3>1, <3>2, SilentSpares DEF Typed
    <3> QED
      BY <3>3, <3>4
  <2>2. CASE r \in excused
    <3>1. r \notin Gone(e)
      BY DEF Gone
    <3>2. Spared(r, 1, n + 1)'
      BY <1>1, <2>1, <3>1, SentAfter DEF Typed
    <3> QED
      BY <1>2, <1>4, <2>2, <3>2 DEF WillCome
  <2>3. CASE r \notin excused
    <3>1. g \notin excused
      BY <1>4, <1>8, <2>3
    <3>2. ~ \E j \in 1 .. n : g \in Gone(events[j])
      BY <2>1 DEF Spared
    <3>3. ~Stays(cache, g) /\ g \notin Awaited
      BY <1>1, <1>3, <3>1, <3>2 DEF WillGo
    <3>4. g \notin cache.guilds /\ \A a \in answers : g \notin About(a)
      BY <3>3 DEF Stays, Awaited
    <3>5. Silent(g, 1, n)'
      BY <1>2, <1>6, <1>8
    <3>6. FreshAt(r, n + 1)'
      <4>1. (n + 1) - 1 = n
        BY <1>2
      <4> QED
        BY <1>2, <1>4, <3>4, <3>5, <4>1 DEF FreshAt
    <3> QED
      BY <1>2, <1>4, <1>5, <3>6 DEF WillCome
  <2> QED
    BY <2>2, <2>3
<1> QED
  BY <1>1, <1>3, <1>7, <1>8 DEF LastSeen

\* What every event that the server sends has in common with the change that it is about: of the
\* guilds that are not joined then only the one that is left by it has to do with it, it brings
\* nothing that is dead, it takes away what dies, and it brings what comes to life.
Tells(e, new) ==
    /\ new \in Servers /\ new.away \subseteq new.joined /\ new.missed = server.missed
    /\ e.type = "GUILD_CREATE" \/ GuildOf(e.of) \in server.joined
    /\ \A g \in Guilds \ new.joined : g \in Gone(e) \/ (g \notin server.joined /\ GuildOf(e.of) # g)
    /\ \A t \in Things : Dead(new, t) => t \notin Carried(e) /\ (Dead(server, t) \/ t \in Gone(e))
    /\ \A t \in Things : Live(new, t) =>
            /\ t \notin Gone(e)
            /\ \/ Live(server, t) \/ t \in Sure(e)
               \/ e.type = "GUILD_CREATE" /\ t \in e.data.roles /\ e.of \notin server.joined

\* The invariant holds on when the server sends an event.
LEMMA SentKeeps ==
    ASSUME NamesAssumption, CacheInv, NEW e \in EventSet, events' = Append(events, e), Tells(e, server'),
           UNCHANGED <<answers, cache, look, excused>>
    PROVE  CacheInv'
<1>1. events \in Seq(EventSet) /\ Typed
  BY DEF CacheInv, Typed
<1>2. PICK n : n = Len(events)
  OBVIOUS
<1>3. /\ events' \in Seq(EventSet) /\ n \in Nat /\ Len(events)' = n + 1
      /\ \A i \in 1 .. n : events'[i] = events[i]
      /\ events'[n + 1] = e
  BY <1>1, <1>2, Sent
<1>4. EventTyped(e) /\ GuildOf(e.of) \in Guilds
  BY AboutOne DEF EventSet
<1>5. Typed'
  BY <1>1, <1>3 DEF Typed, Tells, LookTyped
<1>6. ASSUME NEW g \in server.joined
      PROVE  KnownAt(g, n + 1)
  <2>1. g \in Guilds /\ g \in Things /\ g \notin Objects /\ g \notin Roles
    BY <1>1, Kinds DEF Typed, Servers, Things
  <2>2. WillCome(g)
    BY <2>1 DEF CacheInv, LiveComes, Live
  <2>3. (n + 1) - 1 = n
    BY <1>3
  <2>4. CASE Spared(g, 1, n) /\ There(cache, g)
    BY <2>1, <2>3, <2>4, Kinds DEF There, Stays, KnownAt
  <2>5. CASE \E j \in 1 .. n : g \in Sure(events[j]) /\ Spared(g, j + 1, n)
    BY <2>3, <2>5 DEF KnownAt
  <2> QED
    BY <1>2, <2>1, <2>2, <2>4, <2>5 DEF WillCome
<1>7. InKnown'
  <2> SUFFICES ASSUME NEW i \in 1 .. n + 1, events'[i].type # "GUILD_CREATE"
               PROVE  KnownAt(GuildOf(events[i].of), i)'
    BY <1>3 DEF InKnown
  <2>1. PICK g : g = GuildOf(events'[i].of)
    OBVIOUS
  <2>2. CASE i \in 1 .. n
    <3>1. KnownAt(g, i)
      BY <1>2, <1>3, <2>1, <2>2 DEF CacheInv, InKnown
    <3>2. KnownAt(g, i)'
      BY <1>1, <1>2, <1>3, <2>2, <3>1, SentKnown
    <3> QED
      BY <2>1, <3>2
  <2>3. CASE i = n + 1
    <3>1. g \in server.joined
      BY <1>3, <2>1, <2>3 DEF Tells
    <3>2. KnownAt(g, i)
      BY <1>6, <2>3, <3>1
    <3>3. KnownAt(g, i)'
      BY <1>1, <1>2, <3>2, SentKnown
    <3> QED
      BY <2>1, <3>3
  <2> QED
    BY <1>3, <2>2, <2>3
<1>8. LeftLast'
  <2> SUFFICES ASSUME NEW g \in Guilds \ server'.joined
               PROVE  LastSeen(g)'
    BY DEF LeftLast
  <2>1. CASE g \in Gone(e)
    BY <1>1, <2>1, SentLast
  <2>2. CASE g \notin Gone(e)
    <3>1. g \notin server.joined /\ GuildOf(e.of) # g
      BY <2>2 DEF Tells
    <3>2. LastSeen(g)
      BY <3>1 DEF CacheInv, LeftLast
    <3> QED
      BY <1>1, <3>1, <3>2, SentLast
  <2> QED
    BY <2>1, <2>2
<1>9. DeadGoes'
  <2> SUFFICES ASSUME NEW t \in Things, Dead(server', t), t \notin server'.missed
               PROVE  WillGo(t)'
    BY DEF DeadGoes
  <2>1. t \notin Carried(e) /\ (Dead(server, t) \/ t \in Gone(e)) /\ t \notin server.missed
    BY DEF Tells
  <2>2. t \in Gone(e) \/ WillGo(t)
    BY <2>1 DEF CacheInv, DeadGoes
  <2> QED
    BY <1>1, <2>1, <2>2, SentGoes
<1>10. LiveComes'
  <2> SUFFICES ASSUME NEW t \in Things, Live(server', t)
               PROVE  WillCome(t)'
    BY DEF LiveComes
  <2>1. t \notin Gone(e)
    BY DEF Tells
  <2>2. CASE Live(server, t)
    <3>1. WillCome(t)
      BY <2>2 DEF CacheInv, LiveComes
    <3> QED
      BY <1>1, <2>1, <3>1, SentComes
  <2>3. CASE t \in Sure(e)
    BY <1>1, <2>3, SentComes
  <2>4. CASE e.type = "GUILD_CREATE" /\ t \in e.data.roles /\ e.of \notin server.joined
    <3>1. e.of \in Guilds /\ e.of \in Things
      BY <1>4, <2>4 DEF EventTyped, GuildEvents, Things
    <3>2. LastSeen(e.of)
      BY <2>4, <3>1 DEF CacheInv, LeftLast
    <3>3. WillGo(e.of)
      BY <1>1, <2>4, <3>1 DEF CacheInv, DeadGoes, Dead, Typed
    <3> QED
      BY <1>1, <2>4, <3>2, <3>3, JoinedRoles
  <2> QED
    BY <2>2, <2>3, <2>4 DEF Tells
<1>11. LoneExcused'
  BY DEF CacheInv, LoneExcused
<1> QED
  BY <1>5, <1>7, <1>8, <1>9, <1>10, <1>11 DEF CacheInv

\* What every change has in common whose event is not sent, because the guild is away: what dies by
\* it is missed, and nothing comes to life.
Misses(new) ==
    /\ new \in Servers /\ new.away \subseteq new.joined /\ new.missed \cap Guilds = {}
    /\ new.joined = server.joined
    /\ \A t \in Things : Dead(new, t) /\ t \notin new.missed => Dead(server, t) /\ t \notin server.missed
    /\ \A t \in Things : Live(new, t) => Live(server, t)

\* The invariant holds on when an event is not sent.
LEMMA MissedKeeps ==
    ASSUME CacheInv, Misses(server'), UNCHANGED <<events, answers, cache, look, excused>>
    PROVE  CacheInv'
<1>1. Typed'
  BY DEF CacheInv, Typed, Misses, LookTyped
<1>2. InKnown'
  BY DEF CacheInv, InKnown, KnownAt, Spared
<1>3. LeftLast'
  BY DEF CacheInv, LeftLast, LastSeen, Silent, Misses
<1>4. Awaited' = Awaited
  BY DEF Awaited
<1>5. \A t \in Things : WillGo(t)' <=> WillGo(t)
  BY <1>4 DEF WillGo, Uncarried
<1>6. DeadGoes'
  BY <1>5 DEF CacheInv, DeadGoes, Misses
<1>7. \A t \in Things : WillCome(t)' <=> WillCome(t)
  BY DEF WillCome, Spared, FreshAt, Silent
<1>8. LiveComes'
  BY <1>7 DEF CacheInv, LiveComes, Misses
<1>9. LoneExcused'
  BY DEF CacheInv, LoneExcused
<1> QED
  BY <1>1, <1>2, <1>3, <1>6, <1>8, <1>9 DEF CacheInv

\* Every change at the server is told or missed.
Told ==
    /\ UNCHANGED <<answers, cache, look, excused>>
    /\ \/ \E e \in EventSet : events' = Append(events, e) /\ Tells(e, server')
       \/ UNCHANGED events /\ Misses(server')

\* What is said of a guild is true of it.
LEMMA DataIs ==
    ASSUME NamesAssumption, server \in Servers, NEW g \in Guilds
    PROVE  /\ DataOf(g) \in DataSet /\ DataTyped(g, DataOf(g))
           /\ \A c : c \in DataOf(g).channels <=> c \in Channels /\ Home[c] = g /\ c \in server.alive
           /\ \A r : r \in DataOf(g).roles <=> r \in Roles /\ Home[r] = g /\ r \in server.alive
           /\ \A u : u \in DataOf(g).users <=> u \in Users /\ <<g, u>> \in server.there
           /\ BareData(g) \in DataSet /\ DataTyped(g, BareData(g))
           /\ BareData(g).channels = {} /\ BareData(g).users = {} /\ BareData(g).roles = DataOf(g).roles
<1>1. /\ DataOf(g) \in DataSet /\ DataTyped(g, DataOf(g))
      /\ \A c : c \in DataOf(g).channels <=> c \in Channels /\ Home[c] = g /\ c \in server.alive
      /\ \A r : r \in DataOf(g).roles <=> r \in Roles /\ Home[r] = g /\ r \in server.alive
      /\ \A u : u \in DataOf(g).users <=> u \in Users /\ <<g, u>> \in server.there
  BY DEF DataOf, DataSet, DataTyped, Servers
<1>2. /\ BareData(g) \in DataSet /\ DataTyped(g, BareData(g))
      /\ BareData(g).channels = {} /\ BareData(g).users = {} /\ BareData(g).roles = DataOf(g).roles
  BY <1>1 DEF BareData, DataSet, DataTyped
<1> QED
  BY <1>1, <1>2

\* GUILD_CREATE of a guild that the client joins.
LEMMA BotJoinsTold ==
    ASSUME NamesAssumption, Typed, NEW g \in Guilds, BotJoins(g)
    PROVE  Told
<1>1. PICK d \in DataSet : d = DataOf(g)
  BY DataIs DEF Typed
<1>2. /\ DataTyped(g, d)
      /\ \A c : c \in d.channels <=> c \in Channels /\ Home[c] = g /\ c \in server.alive
      /\ \A r : r \in d.roles <=> r \in Roles /\ Home[r] = g /\ r \in server.alive
      /\ \A u : u \in d.users <=> u \in Users /\ <<g, u>> \in server.there
  BY <1>1, DataIs DEF Typed
<1>3. PICK e : e = Event("GUILD_CREATE", g, d)
  OBVIOUS
<1>4. e.type = "GUILD_CREATE" /\ e.of = g /\ e.data = d
  BY <1>3 DEF Event
<1>5. e \in EventSet
  BY <1>2, <1>3, Kinds DEF Event, EventSet, EventTyped, GuildEvents, ObjectEvents, MemberEvents, Things
<1>6. /\ g \notin server.joined /\ g \notin server.away
      /\ server' = [server EXCEPT !.joined = @ \cup {g}] /\ events' = Append(events, e)
      /\ UNCHANGED <<answers, cache, look, excused>>
  BY <1>1, <1>3 DEF BotJoins, Change, Typed
<1>7. /\ server' \in Servers /\ server'.joined = server.joined \cup {g} /\ server'.away = server.away
      /\ server'.missed = server.missed /\ server'.alive = server.alive /\ server'.there = server.there
  BY <1>6 DEF Typed, Servers
<1>8. /\ Gone(e) = {} /\ Carried(e) = {g} \cup d.channels \cup d.roles \cup ({g} \X d.users)
      /\ Sure(e) = {g} \cup d.channels \cup ({g} \X d.users) /\ GuildOf(e.of) = g
  BY <1>4 DEF Gone, Carried, Sure, GuildOf
<1>9. ASSUME NEW t \in Things, Dead(server', t)
      PROVE  t \notin Carried(e) /\ Dead(server, t)
  <2>1. CASE t \in Guilds
    BY <1>2, <1>7, <1>8, <1>9, <2>1, Kinds DEF Dead, Pairs
  <2>2. CASE t \in Pairs
    BY <1>2, <1>7, <1>8, <1>9, <2>2, Kinds DEF Dead
  <2>3. CASE t \in Objects
    <3>1. t \notin {g} \X d.users /\ t # g
      BY <1>2, <2>3, Kinds DEF Pairs
    <3> QED
      BY <1>2, <1>7, <1>8, <1>9, <2>3, <3>1, Kinds DEF Dead
  <2> QED
    BY <2>1, <2>2, <2>3 DEF Things
<1>10. ASSUME NEW t \in Things, Live(server', t)
       PROVE  Live(server, t) \/ t \in Sure(e) \/ t \in d.roles
  <2>1. CASE t \in Guilds
    BY <1>7, <1>8, <1>10, <2>1, Kinds DEF Live
  <2>2. CASE t \in Pairs
    BY <1>2, <1>7, <1>8, <1>10, <2>2, Kinds DEF Live
  <2>3. CASE t \in Objects
    BY <1>2, <1>7, <1>8, <1>10, <2>3, Kinds DEF Live
  <2> QED
    BY <2>1, <2>2, <2>3 DEF Things
<1>11. Tells(e, server')
  BY <1>4, <1>6, <1>7, <1>8, <1>9, <1>10 DEF Tells, Typed
<1> QED
  BY <1>5, <1>6, <1>11 DEF Told

\* GUILD_DELETE of a guild that the client leaves.
LEMMA BotLeavesTold ==
    ASSUME NamesAssumption, Typed, NEW g \in Guilds, BotLeaves(g)
    PROVE  Told
<1>1. PICK e : e = Event("GUILD_DELETE", g, None)
  OBVIOUS
<1>2. e.type = "GUILD_DELETE" /\ e.of = g
  BY <1>1 DEF Event
<1>3. e \in EventSet
  BY <1>1 DEF Event, EventSet, EventTyped, GuildEvents, ObjectEvents, MemberEvents, Things
<1>4. /\ g \in server.joined /\ g \notin server.away
      /\ server' = [server EXCEPT !.joined = @ \ {g}] /\ events' = Append(events, e)
      /\ UNCHANGED <<answers, cache, look, excused>>
  BY <1>1 DEF BotLeaves, Change
<1>5. /\ server' \in Servers /\ server'.joined = server.joined \ {g} /\ server'.away = server.away
      /\ server'.missed = server.missed /\ server'.alive = server.alive /\ server'.there = server.there
  BY <1>4 DEF Typed, Servers
<1>6. /\ Gone(e) = {g} \cup {x \in Objects : Home[x] = g} \cup {p \in Pairs : p[1] = g}
      /\ Carried(e) = {} /\ GuildOf(e.of) = g
  BY <1>2 DEF Gone, Carried, GuildOf
<1>7. \A t \in Things : Dead(server', t) => Dead(server, t) \/ t \in Gone(e)
  BY <1>5, <1>6 DEF Dead
<1>8. \A t \in Things : Live(server', t) => Live(server, t) /\ t \notin Gone(e)
  BY <1>5, <1>6, Kinds DEF Live
<1>9. Tells(e, server')
  BY <1>4, <1>5, <1>6, <1>7, <1>8 DEF Tells, Typed
<1> QED
  BY <1>3, <1>4, <1>9 DEF Told

\* GUILD_DELETE of a guild that is away.
LEMMA GoesAwayTold ==
    ASSUME NamesAssumption, Typed, NEW g \in Guilds, GoesAway(g)
    PROVE  Told
<1>1. PICK e : e = Event("GUILD_UNAVAILABLE", g, None)
  OBVIOUS
<1>2. e.type = "GUILD_UNAVAILABLE" /\ e.of = g
  BY <1>1 DEF Event
<1>3. e \in EventSet
  BY <1>1 DEF Event, EventSet, EventTyped, GuildEvents, ObjectEvents, MemberEvents, Things
<1>4. /\ g \in server.joined /\ server' = [server EXCEPT !.away = @ \cup {g}]
      /\ events' = Append(events, e) /\ UNCHANGED <<answers, cache, look, excused>>
  BY <1>1 DEF GoesAway
<1>5. /\ server' \in Servers /\ server'.joined = server.joined /\ server'.away = server.away \cup {g}
      /\ server'.missed = server.missed /\ server'.alive = server.alive /\ server'.there = server.there
  BY <1>4 DEF Typed, Servers
<1>6. Gone(e) = {} /\ Carried(e) = {} /\ GuildOf(e.of) = g
  BY <1>2 DEF Gone, Carried, GuildOf
<1>7. \A t \in Things : Dead(server', t) => Dead(server, t)
  BY <1>5 DEF Dead
<1>8. \A t \in Things : Live(server', t) => Live(server, t)
  BY <1>5 DEF Live
<1>9. \A h \in Guilds \ server'.joined : h \notin server.joined /\ GuildOf(e.of) # h
  BY <1>4, <1>5, <1>6
<1>10. Tells(e, server')
  BY <1>4, <1>5, <1>6, <1>7, <1>8, <1>9 DEF Tells, Typed
<1> QED
  BY <1>3, <1>4, <1>10 DEF Told

\* GUILD_CREATE of a guild that is back.
LEMMA ComesBackTold ==
    ASSUME NamesAssumption, Typed, NEW g \in Guilds, ComesBack(g)
    PROVE  Told
<1>1. PICK d \in DataSet : d = DataOf(g)
  BY DataIs DEF Typed
<1>2. /\ DataTyped(g, d)
      /\ \A c : c \in d.channels <=> c \in Channels /\ Home[c] = g /\ c \in server.alive
      /\ \A r : r \in d.roles <=> r \in Roles /\ Home[r] = g /\ r \in server.alive
      /\ \A u : u \in d.users <=> u \in Users /\ <<g, u>> \in server.there
  BY <1>1, DataIs DEF Typed
<1>3. PICK e : e = Event("GUILD_CREATE", g, d)
  OBVIOUS
<1>4. e.type = "GUILD_CREATE" /\ e.of = g /\ e.data = d
  BY <1>3 DEF Event
<1>5. e \in EventSet
  BY <1>2, <1>3, Kinds DEF Event, EventSet, EventTyped, GuildEvents, ObjectEvents, MemberEvents, Things
<1>6. /\ g \in server.joined /\ g \in server.away
      /\ server' = [server EXCEPT !.away = @ \ {g}] /\ events' = Append(events, e)
      /\ UNCHANGED <<answers, cache, look, excused>>
  BY <1>1, <1>3 DEF ComesBack, Typed
<1>7. /\ server' \in Servers /\ server'.joined = server.joined /\ server'.away = server.away \ {g}
      /\ server'.missed = server.missed /\ server'.alive = server.alive /\ server'.there = server.there
  BY <1>6 DEF Typed, Servers
<1>8. /\ Gone(e) = {} /\ Carried(e) = {g} \cup d.channels \cup d.roles \cup ({g} \X d.users)
      /\ Sure(e) = {g} \cup d.channels \cup ({g} \X d.users) /\ GuildOf(e.of) = g
  BY <1>4 DEF Gone, Carried, Sure, GuildOf
<1>9. ASSUME NEW t \in Things, Dead(server', t)
      PROVE  t \notin Carried(e) /\ Dead(server, t)
  <2>1. CASE t \in Guilds
    BY <1>2, <1>6, <1>7, <1>8, <1>9, <2>1, Kinds DEF Dead, Pairs
  <2>2. CASE t \in Pairs
    BY <1>2, <1>7, <1>8, <1>9, <2>2, Kinds DEF Dead
  <2>3. CASE t \in Objects
    <3>1. t \notin {g} \X d.users /\ t # g
      BY <1>2, <2>3, Kinds DEF Pairs
    <3> QED
      BY <1>2, <1>6, <1>7, <1>8, <1>9, <2>3, <3>1, Kinds DEF Dead
  <2> QED
    BY <2>1, <2>2, <2>3 DEF Things
<1>10. ASSUME NEW t \in Things, Live(server', t)
       PROVE  Live(server, t) \/ t \in Sure(e)
  <2>1. CASE t \in Pairs
    BY <1>2, <1>7, <1>8, <1>10, <2>1, Kinds DEF Live
  <2>2. CASE t \notin Pairs
    BY <1>7, <1>10, <2>2 DEF Live
  <2> QED
    BY <2>1, <2>2
<1>11. \A h \in Guilds \ server'.joined : h \notin server.joined /\ GuildOf(e.of) # h
  BY <1>6, <1>7, <1>8
<1>12. Tells(e, server')
  BY <1>4, <1>6, <1>7, <1>8, <1>9, <1>10, <1>11 DEF Tells, Typed
<1> QED
  BY <1>5, <1>6, <1>12 DEF Told

\* GUILD_UPDATE.
LEMMA GuildChangesTold ==
    ASSUME NamesAssumption, Typed, NEW g \in Guilds, GuildChanges(g)
    PROVE  Told
<1>1. PICK d \in DataSet : d = BareData(g)
  BY DataIs DEF Typed
<1>2. /\ DataTyped(g, d) /\ d.channels = {} /\ d.users = {}
      /\ \A r : r \in d.roles <=> r \in Roles /\ Home[r] = g /\ r \in server.alive
  BY <1>1, DataIs DEF Typed
<1>3. PICK e : e = Event("GUILD_UPDATE", g, d)
  OBVIOUS
<1>4. e.type = "GUILD_UPDATE" /\ e.of = g /\ e.data = d
  BY <1>3 DEF Event
<1>5. e \in EventSet
  BY <1>2, <1>3, Kinds DEF Event, EventSet, EventTyped, GuildEvents, ObjectEvents, MemberEvents, Things
<1>6. /\ g \in server.joined /\ server' = server /\ events' = Append(events, e)
      /\ UNCHANGED <<answers, cache, look, excused>>
  BY <1>1, <1>3 DEF GuildChanges, Change, Typed
<1>7. Gone(e) = {} /\ Carried(e) = d.roles /\ GuildOf(e.of) = g
  BY <1>4 DEF Gone, Carried, GuildOf
<1>8. \A t \in d.roles : ~Dead(server, t)
  BY <1>2, <1>6, Kinds DEF Dead
<1>9. Tells(e, server')
  BY <1>6, <1>7, <1>8 DEF Tells, Typed
<1> QED
  BY <1>5, <1>6, <1>9 DEF Told

\* A channel or a role is created.
LEMMA CreatesTold ==
    ASSUME NamesAssumption, Typed, NEW x \in Objects, Creates(x)
    PROVE  Told
<1>1. PICK e : e = Event("CREATE", x, server.types)
  OBVIOUS
<1>2. e.type = "CREATE" /\ e.of = x
  BY <1>1 DEF Event
<1>3. e \in EventSet
  BY <1>1 DEF Event, EventSet, EventTyped, GuildEvents, ObjectEvents, MemberEvents, Things, Typed, Servers
<1>4. Home[x] \in server.joined /\ Home[x] \in Guilds /\ x \notin server.alive /\ x \in Things
  BY Kinds DEF Creates, Things
<1>5. CASE Home[x] \in server.away
  <2>1. /\ server' = [[server EXCEPT !.alive = @ \cup {x}] EXCEPT !.missed = @ \cup {x}]
        /\ UNCHANGED <<events, answers, cache, look, excused>>
    BY <1>2, <1>5 DEF Creates, Change, Event
  <2>2. /\ server' \in Servers /\ server'.joined = server.joined /\ server'.away = server.away
        /\ server'.missed = server.missed \cup {x} /\ server'.alive = server.alive \cup {x}
        /\ server'.there = server.there
    BY <1>4, <2>1 DEF Typed, Servers
  <2>3. Misses(server')
    BY <2>2, Kinds DEF Misses, Typed, Dead, Live
  <2> QED
    BY <2>1, <2>3 DEF Told
<1>6. CASE Home[x] \notin server.away
  <2>1. /\ server' = [server EXCEPT !.alive = @ \cup {x}] /\ events' = Append(events, e)
        /\ UNCHANGED <<answers, cache, look, excused>>
    BY <1>1, <1>6 DEF Creates, Change
  <2>2. /\ server' \in Servers /\ server'.joined = server.joined /\ server'.away = server.away
        /\ server'.missed = server.missed /\ server'.alive = server.alive \cup {x}
        /\ server'.there = server.there
    BY <2>1 DEF Typed, Servers
  <2>3. Gone(e) = {} /\ Carried(e) = {x} /\ Sure(e) = {x} /\ GuildOf(e.of) = Home[x]
    BY <1>2, Kinds DEF Gone, Carried, Sure, GuildOf
  <2>4. \A t \in Things : Dead(server', t) => t # x /\ Dead(server, t)
    BY <1>4, <2>2, Kinds DEF Dead
  <2>5. \A t \in Things : Live(server', t) => Live(server, t) \/ t = x
    BY <2>2 DEF Live
  <2>6. Tells(e, server')
    BY <1>4, <2>2, <2>3, <2>4, <2>5 DEF Tells, Typed
  <2> QED
    BY <1>3, <2>1, <2>6 DEF Told
<1> QED
  BY <1>5, <1>6

\* A channel changes its type.
LEMMA RetypesTold ==
    ASSUME NamesAssumption, Typed, NEW c \in Channels, NEW type \in Types, Retypes(c, type)
    PROVE  Told
<1>1. PICK types \in [Channels -> Types] : types = [server.types EXCEPT ![c] = type]
  BY DEF Typed, Servers
<1>2. PICK e : e = Event("UPDATE", c, types)
  OBVIOUS
<1>3. e.type = "UPDATE" /\ e.of = c
  BY <1>2 DEF Event
<1>4. e \in EventSet
  BY <1>2, Kinds DEF Event, EventSet, EventTyped, GuildEvents, ObjectEvents, MemberEvents, Things
<1>5. Home[c] \in server.joined /\ Home[c] \in Guilds /\ c \in server.alive /\ c \in Things
  BY Kinds DEF Retypes, Things
<1>6. [server EXCEPT !.types[c] = type] = [server EXCEPT !.types = types]
  BY <1>1 DEF Typed, Servers
<1>7. [server EXCEPT !.types = types].types = types
  BY DEF Typed, Servers
<1>8. CASE Home[c] \in server.away
  <2>1. /\ server' = [[server EXCEPT !.types = types] EXCEPT !.missed = @ \cup {c}]
        /\ UNCHANGED <<events, answers, cache, look, excused>>
    BY <1>6, <1>8 DEF Retypes, Change, Event
  <2>2. /\ server' \in Servers /\ server'.joined = server.joined /\ server'.away = server.away
        /\ server'.missed = server.missed \cup {c} /\ server'.alive = server.alive
        /\ server'.there = server.there
    BY <1>5, <2>1 DEF Typed, Servers
  <2>3. Misses(server')
    BY <2>2, Kinds DEF Misses, Typed, Dead, Live
  <2> QED
    BY <2>1, <2>3 DEF Told
<1>9. CASE Home[c] \notin server.away
  <2>1. /\ server' = [server EXCEPT !.types = types] /\ events' = Append(events, e)
        /\ UNCHANGED <<answers, cache, look, excused>>
    BY <1>2, <1>6, <1>7, <1>9 DEF Retypes, Change
  <2>2. /\ server' \in Servers /\ server'.joined = server.joined /\ server'.away = server.away
        /\ server'.missed = server.missed /\ server'.alive = server.alive /\ server'.there = server.there
    BY <2>1 DEF Typed, Servers
  <2>3. Gone(e) = {} /\ Carried(e) = {c} /\ GuildOf(e.of) = Home[c]
    BY <1>3, Kinds DEF Gone, Carried, GuildOf
  <2>4. \A t \in Things : Dead(server', t) => t # c /\ Dead(server, t)
    BY <1>5, <2>2, Kinds DEF Dead
  <2>5. \A t \in Things : Live(server', t) => Live(server, t)
    BY <2>2 DEF Live
  <2>6. Tells(e, server')
    BY <1>5, <2>2, <2>3, <2>4, <2>5 DEF Tells, Typed
  <2> QED
    BY <1>4, <2>1, <2>6 DEF Told
<1> QED
  BY <1>8, <1>9

\* A channel or a role is deleted.
LEMMA DeletesTold ==
    ASSUME NamesAssumption, Typed, NEW x \in Objects, Deletes(x)
    PROVE  Told
<1>1. PICK e : e = Event("DELETE", x, None)
  OBVIOUS
<1>2. e.type = "DELETE" /\ e.of = x
  BY <1>1 DEF Event
<1>3. e \in EventSet
  BY <1>1 DEF Event, EventSet, EventTyped, GuildEvents, ObjectEvents, MemberEvents, Things
<1>4. Home[x] \in server.joined /\ Home[x] \in Guilds /\ x \in Things
  BY Kinds DEF Deletes, Things
<1>5. CASE Home[x] \in server.away
  <2>1. /\ server' = [[server EXCEPT !.alive = @ \ {x}] EXCEPT !.missed = @ \cup {x}]
        /\ UNCHANGED <<events, answers, cache, look, excused>>
    BY <1>2, <1>5 DEF Deletes, Change, Event
  <2>2. /\ server' \in Servers /\ server'.joined = server.joined /\ server'.away = server.away
        /\ server'.missed = server.missed \cup {x} /\ server'.alive = server.alive \ {x}
        /\ server'.there = server.there
    BY <1>4, <2>1 DEF Typed, Servers
  <2>3. Misses(server')
    BY <2>2, Kinds DEF Misses, Typed, Dead, Live
  <2> QED
    BY <2>1, <2>3 DEF Told
<1>6. CASE Home[x] \notin server.away
  <2>1. /\ server' = [server EXCEPT !.alive = @ \ {x}] /\ events' = Append(events, e)
        /\ UNCHANGED <<answers, cache, look, excused>>
    BY <1>1, <1>6 DEF Deletes, Change
  <2>2. /\ server' \in Servers /\ server'.joined = server.joined /\ server'.away = server.away
        /\ server'.missed = server.missed /\ server'.alive = server.alive \ {x}
        /\ server'.there = server.there
    BY <2>1 DEF Typed, Servers
  <2>3. Gone(e) = {x} /\ Carried(e) = {} /\ GuildOf(e.of) = Home[x]
    BY <1>2, Kinds DEF Gone, Carried, GuildOf
  <2>4. \A t \in Things : Dead(server', t) => Dead(server, t) \/ t = x
    BY <2>2 DEF Dead
  <2>5. \A t \in Things : Live(server', t) => Live(server, t) /\ t # x
    BY <2>2, Kinds DEF Live
  <2>6. Tells(e, server')
    BY <1>4, <2>2, <2>3, <2>4, <2>5 DEF Tells, Typed
  <2> QED
    BY <1>3, <2>1, <2>6 DEF Told
<1> QED
  BY <1>5, <1>6

\* A user joins or leaves a guild.
LEMMA MembersTold ==
    ASSUME NamesAssumption, Typed, NEW g \in Guilds, NEW u \in Users, Joins(g, u) \/ Leaves(g, u)
    PROVE  Told
<1>1. PICK p \in Pairs : p = <<g, u>>
  BY DEF Pairs
<1>2. p[1] = g /\ p \in Things
  BY <1>1 DEF Things
<1>3. g \in server.joined
  BY DEF Joins, Leaves
<1>4. CASE g \in server.away
  <2>1. /\ UNCHANGED <<events, answers, cache, look, excused>>
        /\ \/ server' = [[server EXCEPT !.there = @ \cup {p}] EXCEPT !.missed = @ \cup {p}]
           \/ server' = [[server EXCEPT !.there = @ \ {p}] EXCEPT !.missed = @ \cup {p}]
    BY <1>1, <1>4 DEF Joins, Leaves, Change, Event
  <2>2. /\ server' \in Servers /\ server'.joined = server.joined /\ server'.away = server.away
        /\ server'.missed = server.missed \cup {p} /\ server'.alive = server.alive
        /\ server'.there \in {server.there \cup {p}, server.there \ {p}}
    <3>1. CASE server' = [[server EXCEPT !.there = @ \cup {p}] EXCEPT !.missed = @ \cup {p}]
      BY <1>2, <3>1 DEF Typed, Servers
    <3>2. CASE server' = [[server EXCEPT !.there = @ \ {p}] EXCEPT !.missed = @ \cup {p}]
      BY <1>2, <3>2 DEF Typed, Servers
    <3> QED
      BY <2>1, <3>1, <3>2
  <2>3. \A t \in Things : Dead(server', t) /\ t \notin server'.missed => Dead(server, t) /\ t \notin server.missed
    BY <2>2 DEF Dead
  <2>4. \A t \in Things : Live(server', t) => Live(server, t)
    BY <1>2, <1>4, <2>2 DEF Live
  <2>5. Misses(server')
    BY <2>2, <2>3, <2>4, Kinds DEF Misses, Typed
  <2> QED
    BY <2>1, <2>5 DEF Told
<1>5. CASE g \notin server.away /\ Joins(g, u)
  <2>1. PICK e : e = Event("MEMBER_ADD", p, None)
    OBVIOUS
  <2>2. e.type = "MEMBER_ADD" /\ e.of = p
    BY <2>1 DEF Event
  <2>3. e \in EventSet
    BY <2>1 DEF Event, EventSet, EventTyped, GuildEvents, ObjectEvents, MemberEvents, Things
  <2>4. /\ server' = [server EXCEPT !.there = @ \cup {p}] /\ events' = Append(events, e)
        /\ UNCHANGED <<answers, cache, look, excused>>
    BY <1>1, <1>5, <2>1 DEF Joins, Change
  <2>5. /\ server' \in Servers /\ server'.joined = server.joined /\ server'.away = server.away
        /\ server'.missed = server.missed /\ server'.alive = server.alive
        /\ server'.there = server.there \cup {p}
    BY <2>4 DEF Typed, Servers
  <2>6. Gone(e) = {} /\ Carried(e) = {p} /\ Sure(e) = {p} /\ GuildOf(e.of) = g
    BY <1>2, <2>2, Kinds DEF Gone, Carried, Sure, GuildOf
  <2>7. \A t \in Things : Dead(server', t) => t # p /\ Dead(server, t)
    BY <2>5, Kinds DEF Dead
  <2>8. \A t \in Things : Live(server', t) => Live(server, t) \/ t = p
    BY <2>5 DEF Live
  <2>9. Tells(e, server')
    BY <1>3, <2>5, <2>6, <2>7, <2>8 DEF Tells, Typed
  <2> QED
    BY <2>3, <2>4, <2>9 DEF Told
<1>6. CASE g \notin server.away /\ Leaves(g, u)
  <2>1. PICK e : e = Event("MEMBER_REMOVE", p, None)
    OBVIOUS
  <2>2. e.type = "MEMBER_REMOVE" /\ e.of = p
    BY <2>1 DEF Event
  <2>3. e \in EventSet
    BY <2>1 DEF Event, EventSet, EventTyped, GuildEvents, ObjectEvents, MemberEvents, Things
  <2>4. /\ server' = [server EXCEPT !.there = @ \ {p}] /\ events' = Append(events, e)
        /\ UNCHANGED <<answers, cache, look, excused>>
    BY <1>1, <1>6, <2>1 DEF Leaves, Change
  <2>5. /\ server' \in Servers /\ server'.joined = server.joined /\ server'.away = server.away
        /\ server'.missed = server.missed /\ server'.alive = server.alive
        /\ server'.there = server.there \ {p}
    BY <2>4 DEF Typed, Servers
  <2>6. Gone(e) = {p} /\ Carried(e) = {} /\ GuildOf(e.of) = g
    BY <1>2, <2>2, Kinds DEF Gone, Carried, GuildOf
  <2>7. \A t \in Things : Dead(server', t) => Dead(server, t) \/ t = p
    BY <2>5 DEF Dead
  <2>8. \A t \in Things : Live(server', t) => Live(server, t) /\ t # p
    BY <2>5, Kinds DEF Live
  <2>9. Tells(e, server')
    BY <1>3, <2>5, <2>6, <2>7, <2>8 DEF Tells, Typed
  <2> QED
    BY <2>3, <2>4, <2>9 DEF Told
<1> QED
  BY <1>4, <1>5, <1>6

\* Every change at the server keeps the invariant.
LEMMA ServerKeeps ==
    ASSUME NamesAssumption, CacheInv, ServerMoves
    PROVE  CacheInv'
<1>1. Typed
  BY DEF CacheInv
<1>2. Told
  BY <1>1, BotJoinsTold, BotLeavesTold, GoesAwayTold, ComesBackTold, GuildChangesTold, CreatesTold,
     DeletesTold, RetypesTold, MembersTold DEF ServerMoves
<1>3. CASE UNCHANGED events /\ Misses(server')
  BY <1>2, <1>3, MissedKeeps DEF Told
<1>4. CASE \E e \in EventSet : events' = Append(events, e) /\ Tells(e, server')
  BY <1>2, <1>4, SentKeeps DEF Told
<1> QED
  BY <1>2, <1>3, <1>4 DEF Told

-----------------------------------------------------------------------------
(***************************************************************************)
(* The client asks, and what it asked for arrives.                         *)
(***************************************************************************)
\* What an answer on its way is about.
AwaitedNow(t) ==
    (\E a \in answers : t \in About(a)) \/ (look.asked \in Guilds /\ t = <<look.asked, look.user>>)

\* Awaited is that.
LEMMA AwaitedIs == \A t : t \in Awaited <=> AwaitedNow(t)
<1> DEFINE asked == UNION {About(a) : a \in answers}
<1>1. \A t : t \in asked <=> \E a \in answers : t \in About(a)
  OBVIOUS
<1>2. Awaited = asked \cup (IF look.asked \in Guilds THEN {<<look.asked, look.user>>} ELSE {})
  BY DEF Awaited
<1> HIDE DEF asked
<1>3. CASE look.asked \in Guilds
  BY <1>1, <1>2, <1>3 DEF AwaitedNow
<1>4. CASE look.asked \notin Guilds
  BY <1>1, <1>2, <1>4 DEF AwaitedNow
<1> QED
  BY <1>3, <1>4

\* The invariant holds on when something is asked for, since an answer is true when it is made.
LEMMA AskedKeeps ==
    ASSUME NamesAssumption, CacheInv, UNCHANGED <<server, events, cache, excused>>,
           LookTyped', \A a \in answers' : AnswerTyped(a),
           \A t \in Things : t \in Awaited' => t \in Awaited \/ ~Dead(server, t),
           \A a \in answers' \ answers : \A r \in Roles :
                Home[r] \in About(a) /\ Live(server, r) => r \in RolesIn(a)
    PROVE  CacheInv'
<1>1. Typed'
  BY DEF CacheInv, Typed
<1>2. InKnown' /\ LeftLast' /\ LoneExcused'
  BY DEF CacheInv, InKnown, KnownAt, Spared, LeftLast, LastSeen, Silent, LoneExcused
<1>3. ASSUME NEW t \in Things, Dead(server, t), WillGo(t)
      PROVE  WillGo(t)'
  <2>1. CASE \E j \in 1 .. Len(events) : t \in Gone(events[j]) /\ Uncarried(t, j + 1, Len(events))
    BY <2>1 DEF WillGo, Uncarried
  <2>2. CASE Uncarried(t, 1, Len(events)) /\ (t \in excused \/ (~Stays(cache, t) /\ t \notin Awaited))
    BY <1>3, <2>2 DEF WillGo, Uncarried
  <2> QED
    BY <1>3, <2>1, <2>2 DEF WillGo
<1>4. DeadGoes'
  BY <1>3 DEF CacheInv, DeadGoes
<1>5. ASSUME NEW t \in Things, Live(server, t), WillCome(t)
      PROVE  WillCome(t)'
  <2>1. ASSUME t \in Roles, NEW j \in 1 .. Len(events), FreshAt(t, j)
        PROVE  FreshAt(t, j)'
    BY <1>5, <2>1 DEF FreshAt, Silent
  <2>2. CASE t \in Roles /\ \E j \in 1 .. Len(events) : FreshAt(t, j) /\ Spared(t, j + 1, Len(events))
    <3>1. PICK j \in 1 .. Len(events) : FreshAt(t, j) /\ Spared(t, j + 1, Len(events))
      BY <2>2
    <3>2. FreshAt(t, j)'
      BY <2>1, <2>2, <3>1
    <3> QED
      BY <2>2, <3>1, <3>2 DEF WillCome, Spared
  <2>3. CASE ~(t \in Roles /\ \E j \in 1 .. Len(events) : FreshAt(t, j) /\ Spared(t, j + 1, Len(events)))
    BY <1>5, <2>3 DEF WillCome, Spared
  <2> QED
    BY <2>2, <2>3
<1>6. LiveComes'
  BY <1>5 DEF CacheInv, LiveComes
<1> QED
  BY <1>1, <1>2, <1>4, <1>6 DEF CacheInv

\* The invariant holds on when something that was awaited is placed.
LEMMA PlacingKeeps ==
    ASSUME NamesAssumption, CacheInv, UNCHANGED <<server, events>>,
           NEW about, NEW rs, PlacedWell(cache, cache', about, rs), about \subseteq Awaited,
           \A g \in Guilds : g \in about => \E a \in answers : g \in About(a) /\ RolesIn(a) = rs,
           answers' \subseteq answers, LookTyped', Awaited' \subseteq Awaited,
           excused \subseteq excused', excused' \ excused \subseteq Channels,
           Astray(cache, cache', {}) \subseteq excused'
    PROVE  CacheInv'
<1>1. Typed'
  BY DEF CacheInv, Typed, PlacedWell
<1>2. \A g, i : KnownAt(g, i) => KnownAt(g, i)'
  BY DEF KnownAt, Spared, PlacedWell
<1>3. InKnown'
  BY <1>2 DEF CacheInv, InKnown
<1>4. LeftLast'
  BY Kinds DEF CacheInv, LeftLast, LastSeen, Silent
<1>5. ASSUME NEW t \in Things, WillGo(t)
      PROVE  WillGo(t)'
  <2>1. CASE \E j \in 1 .. Len(events) : t \in Gone(events[j]) /\ Uncarried(t, j + 1, Len(events))
    BY <2>1 DEF WillGo, Uncarried
  <2>2. CASE Uncarried(t, 1, Len(events)) /\ (t \in excused \/ (~Stays(cache, t) /\ t \notin Awaited))
    <3>1. ~Stays(cache, t) /\ t \notin Awaited => ~Stays(cache', t) /\ t \notin Awaited'
      BY DEF PlacedWell
    <3>2. Stays(cache, t)' = Stays(cache', t)
      BY DEF Stays
    <3> QED
      BY <2>2, <3>1, <3>2 DEF WillGo, Uncarried
  <2> QED
    BY <1>5, <2>1, <2>2 DEF WillGo
<1>6. DeadGoes'
  BY <1>5 DEF CacheInv, DeadGoes
<1>7. ASSUME NEW t \in Things, WillCome(t)
      PROVE  WillCome(t)'
  <2>1. CASE Spared(t, 1, Len(events)) /\ (There(cache, t) \/ (t \in excused /\ t \in Objects))
    <3>1. Spared(t, 1, Len(events))'
      BY <2>1 DEF Spared
    <3>2. There(cache', t) \/ (t \in excused' /\ t \in Objects)
      BY <2>1, Kinds DEF PlacedWell, Astray
    <3> QED
      BY <3>1, <3>2 DEF WillCome, There, Stays
  <2>2. CASE \E j \in 1 .. Len(events) : t \in Sure(events[j]) /\ Spared(t, j + 1, Len(events))
    BY <2>2 DEF WillCome, Spared
  <2>3. CASE t \in Roles /\ \E j \in 1 .. Len(events) : FreshAt(t, j) /\ Spared(t, j + 1, Len(events))
    <3>1. PICK j \in 1 .. Len(events) : FreshAt(t, j) /\ Spared(t, j + 1, Len(events))
      BY <2>3
    <3>2. Home[t] \in Guilds
      BY <2>3, Kinds
    <3>3. (\A a \in answers : Home[t] \in About(a) => t \in RolesIn(a))
            => (Home[t] \notin cache.guilds \/ t \in cache.listed
                    => Home[t] \notin cache'.guilds \/ t \in cache'.listed)
      BY <2>3, <3>2 DEF PlacedWell
    <3>4. FreshAt(t, j)'
      BY <3>1, <3>3 DEF FreshAt, Silent
    <3> QED
      BY <2>3, <3>1, <3>4 DEF WillCome, Spared
  <2> QED
    BY <1>7, <2>1, <2>2, <2>3 DEF WillCome
<1>8. LiveComes'
  BY <1>7 DEF CacheInv, LiveComes
<1>9. LoneExcused'
  BY DEF LoneExcused, Astray, Unlisted, Kept
<1> QED
  BY <1>1, <1>3, <1>4, <1>6, <1>8, <1>9 DEF CacheInv

\* The answer that the server makes is true.
LEMMA FetchKeeps ==
    ASSUME NamesAssumption, CacheInv, NEW a, answers' = answers \cup {a}, AnswerTyped(a),
           UNCHANGED <<server, events, cache, look, excused>>,
           \A t \in About(a) : ~Dead(server, t),
           a.kind = "guild" => \A r \in Roles : Home[r] = a.of /\ Live(server, r) => r \in a.data.roles
    PROVE  CacheInv'
<1>1. LookTyped' /\ \A b \in answers' : AnswerTyped(b)
  BY DEF CacheInv, Typed, LookTyped
<1>2. \A t \in Things : t \in Awaited' => t \in Awaited \/ ~Dead(server, t)
  BY DEF Awaited
<1>3. ASSUME NEW r \in Roles, Home[r] \in About(a), Live(server, r)
      PROVE  r \in RolesIn(a)
  <2>1. Home[r] \in Guilds
    BY Kinds
  <2>2. a.kind = "guild" /\ Home[r] = a.of
    BY <1>3, <2>1, Kinds DEF About, AnswerTyped, DataTyped
  <2> QED
    BY <1>3, <2>2 DEF RolesIn
<1>4. \A b \in answers' \ answers : \A r \in Roles : Home[r] \in About(b) /\ Live(server, r) => r \in RolesIn(b)
  BY <1>3
<1> QED
  BY <1>1, <1>2, <1>4, AskedKeeps

\* fetch_channel, fetch_member, fetch_guild and fetch_role.
LEMMA FetchesKeep ==
    ASSUME NamesAssumption, CacheInv,
           \/ \E c \in Channels : fetch_channel(c)
           \/ \E g \in Guilds, u \in Users : fetch_member(g, u)
           \/ \E g \in Guilds : fetch_guild(g) \/ fetch_role(g)
    PROVE  CacheInv'
<1>0. server \in Servers
  BY DEF CacheInv, Typed
<1>1. ASSUME NEW c \in Channels, fetch_channel(c)
      PROVE  CacheInv'
  <2>1. PICK a : a = [kind |-> "channel", of |-> c, data |-> server.types]
    OBVIOUS
  <2>2. AnswerTyped(a) /\ About(a) = {c} /\ a.kind = "channel"
    BY <1>0, <2>1 DEF AnswerTyped, About, Servers
  <2>3. ~Dead(server, c)
    BY <1>1, Kinds DEF fetch_channel, Dead
  <2>4. answers' = answers \cup {a} /\ UNCHANGED <<server, events, cache, look, excused>>
    BY <1>1, <2>1 DEF fetch_channel, Asked
  <2> QED
    BY <2>2, <2>3, <2>4, FetchKeeps
<1>2. ASSUME NEW g \in Guilds, NEW u \in Users, fetch_member(g, u)
      PROVE  CacheInv'
  <2>1. PICK a : a = [kind |-> "member", of |-> <<g, u>>, data |-> None]
    OBVIOUS
  <2>2. AnswerTyped(a) /\ About(a) = {<<g, u>>} /\ a.kind = "member" /\ <<g, u>> \in Pairs
    BY <2>1 DEF AnswerTyped, About, Pairs
  <2>3. ~Dead(server, <<g, u>>)
    BY <1>2, <2>2, Kinds DEF fetch_member, Dead
  <2>4. answers' = answers \cup {a} /\ UNCHANGED <<server, events, cache, look, excused>>
    BY <1>2, <2>1 DEF fetch_member, Asked
  <2> QED
    BY <2>2, <2>3, <2>4, FetchKeeps
<1>3. ASSUME NEW g \in Guilds, fetch_guild(g) \/ fetch_role(g)
      PROVE  CacheInv'
  <2>1. PICK d : d = BareData(g)
    OBVIOUS
  <2>2. /\ DataTyped(g, d) /\ d.channels = {} /\ d.users = {}
        /\ \A r : r \in d.roles <=> r \in Roles /\ Home[r] = g /\ r \in server.alive
    BY <1>0, <2>1, DataIs
  <2>3. PICK kind \in {"guild", "roles"} : answers' = answers \cup {[kind |-> kind, of |-> g, data |-> d]}
    BY <1>3, <2>1 DEF fetch_guild, fetch_role, Asked
  <2>4. PICK a : a = [kind |-> kind, of |-> g, data |-> d]
    OBVIOUS
  <2>5. AnswerTyped(a) /\ a.kind = kind /\ a.of = g /\ a.data = d
    BY <2>2, <2>4 DEF AnswerTyped
  <2>6. g \in server.joined /\ UNCHANGED <<server, events, cache, look, excused>>
    BY <1>3 DEF fetch_guild, fetch_role, Asked
  <2>7. \A t \in About(a) : ~Dead(server, t)
    <3>1. \A t \in About(a) : t = g \/ t \in d.roles
      BY <2>5 DEF About
    <3> QED
      BY <2>2, <2>6, <3>1, Kinds DEF Dead
  <2>8. \A r \in Roles : Home[r] = a.of /\ Live(server, r) => r \in a.data.roles
    BY <2>2, <2>5, Kinds DEF Live
  <2> QED
    BY <2>3, <2>4, <2>5, <2>6, <2>7, <2>8, FetchKeeps
<1> QED
  BY <1>1, <1>2, <1>3

\* fetch_user_guild_ids starts, and goes from one guild to the next.
LEMMA LookingKeeps ==
    ASSUME NamesAssumption, CacheInv, (\E u \in Users : LookStarts(u)) \/ (\E g \in Guilds : LookAsks(g))
    PROVE  CacheInv'
<1>1. /\ UNCHANGED <<server, events, answers, cache, excused>>
      /\ \A a \in answers' : AnswerTyped(a)
  BY DEF CacheInv, Typed, LookStarts, LookAsks
<1>2. ASSUME NEW u \in Users, LookStarts(u)
      PROVE  LookTyped' /\ Awaited' \subseteq Awaited
  <2>1. look' = [user |-> u, left |-> cache.mine, size |-> Cardinality(cache.mine), found |-> {}, asked |-> None]
    BY <1>2 DEF LookStarts
  <2>2. cache.mine \subseteq Guilds
    BY DEF CacheInv, Typed, Caches
  <2>3. None \notin Guilds
    BY DEF NamesAssumption
  <2>4. LookTyped'
    BY <2>1, <2>2, <2>3 DEF LookTyped
  <2> QED
    BY <1>1, <2>1, <2>3, <2>4 DEF Awaited
<1>3. ASSUME NEW g \in Guilds, LookAsks(g)
      PROVE  LookTyped' /\ \A t \in Things : t \in Awaited' => t \in Awaited \/ ~Dead(server, t)
  <2>1. look.user \in Users /\ look.asked = None /\ LookTyped /\ None \notin Guilds
    BY <1>3 DEF CacheInv, Typed, LookTyped, LookAsks, NamesAssumption
  <2> DEFINE rest == [look EXCEPT !.left = @ \ {g}]
  <2>2. \/ look' = [rest EXCEPT !.found = @ \cup {g}]
        \/ <<g, look.user>> \in server.there /\ look' = [rest EXCEPT !.asked = g]
        \/ look' = rest
    BY <1>3 DEF LookAsks
  <2>3. /\ LookTyped' /\ look'.user = look.user
        /\ look'.asked = None \/ (look'.asked = g /\ <<g, look.user>> \in server.there)
    <3>1. CASE look' = [rest EXCEPT !.found = @ \cup {g}]
      BY <2>1, <3>1 DEF LookTyped
    <3>2. CASE <<g, look.user>> \in server.there /\ look' = [rest EXCEPT !.asked = g]
      BY <2>1, <3>2 DEF LookTyped
    <3>3. CASE look' = rest
      BY <2>1, <3>3 DEF LookTyped
    <3> QED
      BY <2>2, <3>1, <3>2, <3>3
  <2>4. <<g, look.user>> \in Pairs
    BY <2>1 DEF Pairs
  <2>5. \A t \in Awaited' : t \in Awaited \/ (t = <<g, look.user>> /\ t \in server.there)
    <3>1. \A t \in Awaited' :
            (\E a \in answers : t \in About(a)) \/ (look'.asked \in Guilds /\ t = <<look'.asked, look'.user>>)
      <4>1. \A t \in Awaited' : AwaitedNow(t)'
        <5>1. (\A t : t \in Awaited <=> AwaitedNow(t))'
          BY AwaitedIs, PTL
        <5> QED
          BY <5>1
      <4> QED
        BY <1>1, <4>1 DEF AwaitedNow
    <3>2. \A a \in answers : \A t \in About(a) : t \in Awaited
      BY AwaitedIs DEF AwaitedNow
    <3> QED
      BY <2>1, <2>3, <3>1, <3>2
  <2> QED
    BY <2>3, <2>4, <2>5, Kinds DEF Dead
<1>4. CASE \E u \in Users : LookStarts(u)
  BY <1>1, <1>2, <1>4, AskedKeeps
<1>5. CASE \E g \in Guilds : LookAsks(g)
  BY <1>1, <1>3, <1>5, AskedKeeps
<1> QED
  BY <1>4, <1>5

\* An answer arrives.
LEMMA AnswerKeeps ==
    ASSUME NamesAssumption, CacheInv, NEW a \in answers, AnswerArrives(a)
    PROVE  CacheInv'
<1>1. PICK b : b = a
  OBVIOUS
<1>2. PICK about : about = About(a)
  OBVIOUS
<1>3. PICK rs : rs = RolesIn(a)
  OBVIOUS
<1>4. /\ UNCHANGED <<server, events, look>> /\ answers' \subseteq answers /\ cache' = Placed(cache, a)
      /\ excused' = excused \cup Astray(cache, cache', {})
  BY DEF AnswerArrives
<1>5. PlacedWell(cache, cache', about, rs)
  BY <1>2, <1>3, <1>4, AnswerPlaced DEF CacheInv, Typed
<1>6. about \subseteq Awaited /\ Awaited' \subseteq Awaited
  BY <1>2, <1>4 DEF Awaited
<1>7. LookTyped'
  BY <1>4 DEF CacheInv, Typed, LookTyped
<1>8. excused \subseteq excused' /\ excused' \ excused \subseteq Channels /\ Astray(cache, cache', {}) \subseteq excused'
  BY <1>4 DEF Astray
<1>9. \A g \in Guilds : g \in about => \E c \in answers : g \in About(c) /\ RolesIn(c) = rs
  BY <1>2, <1>3
<1> QED
  BY <1>4, <1>5, <1>6, <1>7, <1>8, <1>9, PlacingKeeps

\* The answer that fetch_user_guild_ids awaits arrives.
LEMMA LookAnsweredKeeps ==
    ASSUME NamesAssumption, CacheInv, LookAnswered
    PROVE  CacheInv'
<1>1. /\ UNCHANGED <<server, events, answers, excused>>
      /\ cache' = place_member_data(cache, look.asked, {look.user})
      /\ look' = [look EXCEPT !.asked = None, !.found = @ \cup {look.asked}]
  BY DEF LookAnswered
<1>2. look.asked \in Guilds /\ look.user \in Users /\ None \notin Guilds
  BY DEF CacheInv, Typed, LookTyped, LookAnswered, NamesAssumption
<1>3. PICK about : about = {<<look.asked, look.user>>}
  OBVIOUS
<1>4. PICK rs : rs = {}
  OBVIOUS
<1>5. PlacedWell(cache, cache', about, rs)
  BY <1>1, <1>2, <1>3, MemberAnswered DEF CacheInv, Typed
<1>6. LookTyped' /\ look'.asked = None
  BY <1>1, <1>2 DEF CacheInv, Typed, LookTyped
<1>7. about \subseteq Awaited /\ Awaited' \subseteq Awaited
  <2>1. about \subseteq Awaited
    BY <1>2, <1>3, AwaitedIs DEF AwaitedNow
  <2>2. \A t \in Awaited' : \E a \in answers : t \in About(a)
    BY <1>1, <1>2, <1>6 DEF Awaited
  <2>3. \A a \in answers : \A t \in About(a) : t \in Awaited
    BY DEF Awaited
  <2> QED
    BY <2>1, <2>2, <2>3
<1>8. Kept(cache') = Kept(cache) /\ cache'.listed = cache.listed
  <2>1. PICK us \in SUBSET Users : us = {look.user}
    BY <1>2
  <2>2. MembersPut(place_member_data(cache, look.asked, us), cache, look.asked, us)
    BY <1>2, MembersPlaced DEF CacheInv, Typed
  <2> QED
    BY <1>1, <2>1, <2>2 DEF MembersPut, Kept
<1>9. Astray(cache, cache', {}) \subseteq excused'
  BY <1>1, <1>8 DEF CacheInv, LoneExcused, Astray, Unlisted
<1>10. \A g \in Guilds : g \notin about
  BY <1>2, <1>3, Kinds DEF Pairs
<1> QED
  BY <1>1, <1>5, <1>6, <1>7, <1>9, <1>10, PlacingKeeps

\* fetch_user_guild_ids ends.
LEMMA LookEndsKeeps ==
    ASSUME NamesAssumption, CacheInv, LookEnds
    PROVE  CacheInv'
<1>1. /\ UNCHANGED <<server, events, answers, excused>>
      /\ look' = NoLook
      /\ \/ cache' = [cache EXCEPT !.userGuilds[look.user] = look.found]
         \/ cache' = cache
  BY DEF LookEnds
<1>2. cache \in Caches /\ LookTyped /\ look.user \in Users
  BY DEF CacheInv, Typed, LookTyped, LookEnds
<1>3. /\ cache' \in Caches
      /\ cache'.guilds = cache.guilds /\ cache'.channels = cache.channels /\ cache'.roles = cache.roles
      /\ cache'.members = cache.members /\ cache'.listed = cache.listed /\ cache'.memberIds = cache.memberIds
  <2>1. CASE cache' = [cache EXCEPT !.userGuilds[look.user] = look.found]
    BY <1>2, <2>1 DEF Caches, LookTyped
  <2>2. CASE cache' = cache
    BY <1>2, <2>2
  <2> QED
    BY <1>1, <2>1, <2>2
<1>4. PICK about : about = {}
  OBVIOUS
<1>5. PICK rs : rs = {}
  OBVIOUS
<1>6. PlacedWell(cache, cache', about, rs)
  <2>1. \A t : (Stays(cache', t) <=> Stays(cache, t)) /\ (There(cache', t) <=> There(cache, t))
    BY <1>3 DEF Stays, There, Kept
  <2>2. ListsKept(cache')
    BY <1>3 DEF CacheInv, Typed, ListsKept
  <2> QED
    BY <1>3, <1>5, <2>1, <2>2 DEF PlacedWell
<1>7. LookTyped' /\ look'.asked = None /\ None \notin Guilds
  BY <1>1 DEF NoLook, LookTyped, NamesAssumption
<1>8. about \subseteq Awaited /\ Awaited' \subseteq Awaited
  BY <1>1, <1>4, <1>7 DEF Awaited
<1>9. Astray(cache, cache', {}) \subseteq excused'
  BY <1>1, <1>3 DEF CacheInv, LoneExcused, Astray, Unlisted, Kept
<1> QED
  BY <1>1, <1>4, <1>6, <1>7, <1>8, <1>9, PlacingKeeps

-----------------------------------------------------------------------------
(***************************************************************************)
(* An event arrives.                                                       *)
(***************************************************************************)
\* The first event is handled; a guild may be asked for with that.
Handles(e) ==
    /\ e \in EventSet /\ e = events[1] /\ events # << >> /\ events' = Tail(events)
    /\ UNCHANGED <<server, look>>
    /\ HandledWell(cache, cache', e)
    /\ excused' = (excused \ Gone(e)) \cup Raced(e) \cup Astray(cache, cache', Gone(e))
    /\ answers \subseteq answers' /\ \A a \in answers' : AnswerTyped(a)
    /\ \A t \in Things : t \in Awaited' => t \in Awaited \/ (Gone(e) = {} /\ ~Dead(server, t))
    /\ \A a \in answers' \ answers : \A r \in Roles :
            Home[r] \in About(a) /\ Live(server, r) => r \in RolesIn(a)

\* That is what a processor does.
LEMMA Handling ==
    ASSUME NamesAssumption, CacheInv, EventArrives
    PROVE  \E e \in EventSet : Handles(e)
<1>1. events \in Seq(EventSet) /\ events # << >>
  BY DEF CacheInv, Typed, EventArrives
<1>2. PICK e : e = Head(events)
  OBVIOUS
<1>3. /\ events' = Tail(events) /\ cache' = Handled(cache, e) /\ UNCHANGED <<server, look>>
      /\ excused' = (excused \ Gone(e)) \cup Raced(e) \cup Astray(cache, cache', Gone(e))
      /\ IF e.type = "GUILD_UPDATE" /\ e.of \notin cache.guilds /\ e.of \in server.joined
         THEN answers' = answers \cup {[kind |-> "guild", of |-> e.of, data |-> BareData(e.of)]}
         ELSE UNCHANGED answers
  BY <1>2 DEF EventArrives
<1>4. e \in EventSet /\ e = events[1] /\ EventTyped(e)
  <2>1. Len(events) \in Nat \ {0} /\ \A i \in 1 .. Len(events) : events[i] \in EventSet
    BY <1>1, <1>3, Taken
  <2>2. e = events[1] /\ 1 \in 1 .. Len(events)
    BY <1>1, <1>2, <1>3, <2>1, Taken
  <2> QED
    BY <2>1, <2>2 DEF EventSet
<1>5. HandledWell(cache, cache', e)
  BY <1>3, <1>4, EventHandled DEF CacheInv, Typed
<1>6. CASE UNCHANGED answers
  <2>1. Awaited' = Awaited
    BY <1>3, <1>6 DEF Awaited
  <2> QED
    BY <1>1, <1>3, <1>4, <1>5, <1>6, <2>1 DEF Handles, CacheInv, Typed
<1>7. CASE e.type = "GUILD_UPDATE" /\ e.of \in server.joined
           /\ answers' = answers \cup {[kind |-> "guild", of |-> e.of, data |-> BareData(e.of)]}
  <2>1. PICK d : d = BareData(e.of)
    OBVIOUS
  <2>2. PICK a : a = [kind |-> "guild", of |-> e.of, data |-> d]
    OBVIOUS
  <2>3. e.of \in Guilds
    BY <1>4, <1>7 DEF EventTyped, GuildEvents
  <2>4. /\ DataTyped(e.of, d) /\ d.channels = {} /\ d.users = {}
        /\ \A r : r \in d.roles <=> r \in Roles /\ Home[r] = e.of /\ r \in server.alive
    BY <2>1, <2>3, DataIs DEF CacheInv, Typed
  <2>5. AnswerTyped(a) /\ About(a) = d.roles \cup {e.of} /\ RolesIn(a) = d.roles /\ answers' = answers \cup {a}
    BY <1>7, <2>1, <2>2, <2>3, <2>4 DEF AnswerTyped, About, RolesIn
  <2>6. Gone(e) = {}
    BY <1>7 DEF Gone
  <2>7. \A t \in About(a) : ~Dead(server, t)
    BY <1>7, <2>3, <2>4, <2>5, Kinds DEF Dead
  <2>8. \A t \in Things : t \in Awaited' => t \in Awaited \/ ~Dead(server, t)
    <3>1. (\A t : t \in Awaited <=> AwaitedNow(t))'
      BY AwaitedIs, PTL
    <3>2. \A t : AwaitedNow(t)' => AwaitedNow(t) \/ t \in About(a)
      BY <1>3, <2>5 DEF AwaitedNow
    <3> QED
      BY <2>7, <3>1, <3>2, AwaitedIs
  <2>9. ASSUME NEW r \in Roles, Home[r] \in About(a), Live(server, r)
        PROVE  r \in RolesIn(a)
    BY <2>3, <2>4, <2>5, <2>9, Kinds DEF Live
  <2>10. /\ answers \subseteq answers' /\ \A b \in answers' : AnswerTyped(b)
         /\ \A b \in answers' \ answers : b = a
    BY <2>5 DEF CacheInv, Typed
  <2> QED
    BY <1>1, <1>3, <1>4, <1>5, <2>6, <2>8, <2>9, <2>10 DEF Handles
<1> QED
  BY <1>3, <1>6, <1>7

\* Excused is still what was, unless it is taken away; then it is what raced.
LEMMA ExcusedThen ==
    ASSUME NEW e \in EventSet, Handles(e), NEW t
    PROVE  /\ t \notin Gone(e) /\ t \in excused => t \in excused'
           /\ t \in Gone(e) => (t \in excused' <=> t \in Raced(e))
           /\ t \in Astray(cache, cache', Gone(e)) => t \in excused'
           /\ t \in Gone(e) /\ t \in Awaited => t \in excused'
           /\ t \in excused' => t \in excused \/ t \in Gone(e) \/ t \in Channels
  BY DEF Handles, Raced, Astray

\* A guild that is known stays so, or the event that brings it is still on its way.
LEMMA HandledKnown ==
    ASSUME NamesAssumption, CacheInv, NEW e \in EventSet, Handles(e), NEW g \in Guilds,
           NEW i \in Nat \ {0}, i < Len(events), KnownAt(g, i + 1)
    PROVE  KnownAt(g, i)'
<1>1. events \in Seq(EventSet) /\ events # << >> /\ events' = Tail(events) /\ e = events[1] /\ EventTyped(e)
  BY DEF CacheInv, Typed, Handles, EventSet
<1>2. PICK n : n = Len(events)
  OBVIOUS
<1>3. n \in Nat \ {0} /\ \A j \in 1 .. n - 1 : events'[j] = events[j + 1]
  BY <1>1, <1>2, Taken
<1>4. \A a \in Nat \ {0}, b \in Int : b < n => (Spared(g, a + 1, b + 1) => Spared(g, a, b)')
  BY <1>1, <1>2, TakenAfter
<1>5. cache'.guilds = (cache.guilds \ Gone(e)) \cup (IF e.type = "GUILD_CREATE" THEN {e.of} ELSE {})
  BY DEF Handles, HandledWell, Knows
<1>6. (i + 1) - 1 = i /\ i - 1 \in Int /\ i - 1 < n /\ (i - 1) + 1 = i
  BY <1>2
<1>7. CASE g \in cache.guilds /\ Spared(g, 1, i)
  <2>1. g \notin Gone(e)
    BY <1>1, <1>7 DEF Spared
  <2>2. Spared(g, 1 + 1, (i - 1) + 1)
    BY <1>6, <1>7 DEF Spared
  <2>3. Spared(g, 1, i - 1)'
    BY <1>4, <1>6, <2>2
  <2> QED
    BY <1>5, <1>7, <2>1, <2>3 DEF KnownAt
<1>8. CASE \E j \in 1 .. i : g \in Sure(events[j]) /\ Spared(g, j + 1, i)
  <2>1. PICK j \in 1 .. i : g \in Sure(events[j]) /\ Spared(g, j + 1, i)
    BY <1>8
  <2>2. CASE j = 1
    <3>1. e.type = "GUILD_CREATE" /\ e.of = g
      BY <1>1, <2>1, <2>2, GuildsInEvents
    <3>2. Spared(g, 1 + 1, (i - 1) + 1)
      BY <1>6, <2>1, <2>2
    <3>3. Spared(g, 1, i - 1)'
      BY <1>4, <1>6, <3>2
    <3> QED
      BY <1>5, <3>1, <3>3 DEF KnownAt
  <2>3. CASE j # 1
    <3>1. PICK m \in 1 .. i - 1 : j = m + 1
      BY <1>2, <1>3, <2>1, <2>3
    <3>2. m \in 1 .. n - 1 /\ m + 1 \in Nat \ {0} /\ j + 1 = (m + 1) + 1
      BY <1>2, <1>3, <3>1
    <3>3. g \in Sure(events'[m])
      BY <1>3, <2>1, <3>1, <3>2
    <3>4. Spared(g, (m + 1) + 1, (i - 1) + 1)
      BY <1>6, <2>1, <3>2
    <3>5. Spared(g, m + 1, i - 1)'
      BY <1>4, <1>6, <3>2, <3>4
    <3> QED
      BY <3>1, <3>3, <3>5 DEF KnownAt
  <2> QED
    BY <2>2, <2>3
<1> QED
  BY <1>6, <1>7, <1>8 DEF KnownAt

\* A guild that was left stays silent, and if an answer put it back, what it has is excused.
LEMMA HandledLast ==
    ASSUME NamesAssumption, CacheInv, NEW e \in EventSet, Handles(e), NEW g \in Guilds, LastSeen(g)
    PROVE  LastSeen(g)'
<1>1. events \in Seq(EventSet) /\ events # << >> /\ events' = Tail(events) /\ e = events[1] /\ EventTyped(e)
  BY DEF CacheInv, Typed, Handles, EventSet
<1>2. PICK n : n = Len(events)
  OBVIOUS
<1>3. n \in Nat \ {0} /\ Len(events)' = n - 1 /\ \A j \in 1 .. n - 1 : events'[j] = events[j + 1]
  BY <1>1, <1>2, Taken
<1>4. \A a \in Nat \ {0} : Silent(g, a + 1, n) => Silent(g, a, n - 1)'
  <2>1. n - 1 \in Int /\ n - 1 < n /\ (n - 1) + 1 = n
    BY <1>3
  <2> QED
    BY <1>1, <1>2, <2>1, TakenAfter
<1>5. CASE \E i \in 1 .. n : g \in Gone(events[i]) /\ Silent(g, i + 1, n)
  <2>1. PICK i \in 1 .. n : g \in Gone(events[i]) /\ Silent(g, i + 1, n)
    BY <1>5
  <2>2. CASE i = 1
    <3>1. Silent(g, 1, n - 1)'
      BY <1>4, <2>1, <2>2
    <3>2. e.type = "GUILD_DELETE" /\ e.of = g /\ g \in Gone(e)
      BY <1>1, <2>1, <2>2, GuildsInEvents
    <3>3. ASSUME g \in excused', NEW x \in Objects, Home[x] = g
          PROVE  x \in excused'
      <4>1. g \in Raced(e)
        BY <3>2, <3>3, ExcusedThen
      <4>2. g \in Awaited
        BY <3>2, <4>1, Kinds DEF Raced, Forgotten, Unlisted, Kept, CacheInv, Typed, Caches
      <4>3. x \in Gone(e)
        BY <3>2, <3>3 DEF Gone
      <4>4. x \in Raced(e)
        BY <3>2, <4>2, <4>3 DEF Raced
      <4> QED
        BY <4>3, <4>4, ExcusedThen
    <3> QED
      BY <1>3, <3>1, <3>3 DEF LastSeen
  <2>3. CASE i # 1
    <3>1. PICK m \in 1 .. n - 1 : i = m + 1
      BY <1>3, <2>1, <2>3
    <3>2. m + 1 \in Nat \ {0} /\ i + 1 = (m + 1) + 1 /\ g \in Gone(events'[m])
      BY <1>3, <2>1, <3>1
    <3>3. Silent(g, m + 1, n - 1)'
      BY <1>4, <2>1, <3>2
    <3> QED
      BY <1>3, <3>1, <3>2, <3>3 DEF LastSeen
  <2> QED
    BY <2>2, <2>3
<1>6. CASE Silent(g, 1, n) /\ (g \in excused => \A x \in Objects : Home[x] = g => x \in excused)
  <2>1. GuildOf(e.of) # g
    BY <1>1, <1>3, <1>6 DEF Silent
  <2>2. Silent(g, 1 + 1, n)
    BY <1>6 DEF Silent
  <2>3. Silent(g, 1, n - 1)'
    BY <1>4, <2>2
  <2>4. GuildOf(g) = g /\ g \notin Gone(e)
    BY <1>1, <2>1, AboutOne DEF GuildOf
  <2>5. ASSUME g \in excused', NEW x \in Objects, Home[x] = g
        PROVE  x \in excused'
    <3>1. g \in excused
      BY <2>4, <2>5, ExcusedThen, Kinds
    <3>2. x \in excused
      BY <1>6, <2>5, <3>1
    <3>3. GuildOf(x) = g
      BY <2>5, Kinds DEF GuildOf
    <3>4. x \notin Gone(e)
      BY <1>1, <2>1, <3>3, AboutOne
    <3> QED
      BY <3>2, <3>4, ExcusedThen
  <2> QED
    BY <1>3, <2>3, <2>5 DEF LastSeen
<1> QED
  BY <1>2, <1>5, <1>6 DEF LastSeen

\* What is gone at the server goes.
LEMMA HandledGo ==
    ASSUME NamesAssumption, CacheInv, NEW e \in EventSet, Handles(e), NEW t \in Things, Dead(server, t), WillGo(t)
    PROVE  WillGo(t)'
<1>1. events \in Seq(EventSet) /\ events # << >> /\ events' = Tail(events) /\ e = events[1] /\ EventTyped(e)
  BY DEF CacheInv, Typed, Handles, EventSet
<1>2. PICK n : n = Len(events)
  OBVIOUS
<1>3. n \in Nat \ {0} /\ Len(events)' = n - 1 /\ \A j \in 1 .. n - 1 : events'[j] = events[j + 1]
  BY <1>1, <1>2, Taken
<1>4. \A a \in Nat \ {0} : Uncarried(t, a + 1, n) => Uncarried(t, a, n - 1)'
  <2>1. n - 1 \in Int /\ n - 1 < n /\ (n - 1) + 1 = n
    BY <1>3
  <2> QED
    BY <1>1, <1>2, <2>1, TakenAfter
<1>5. ASSUME t \in Gone(e), Uncarried(t, 2, n)
      PROVE  WillGo(t)'
  <2>1. Uncarried(t, 1, n - 1)'
    BY <1>4, <1>5
  <2>2. CASE t \in Awaited
    BY <1>3, <1>5, <2>1, <2>2, ExcusedThen DEF WillGo
  <2>3. CASE t \notin Awaited /\ Stays(cache', t)
    <3>1. e.type = "GUILD_DELETE" /\ t \in Forgotten(cache)
      BY <1>5, <2>3 DEF Handles, HandledWell, Takes
    <3>2. t \in Raced(e)
      BY <1>5, <3>1 DEF Raced
    <3> QED
      BY <1>3, <1>5, <2>1, <3>2, ExcusedThen DEF WillGo
  <2>4. CASE t \notin Awaited /\ ~Stays(cache', t)
    <3>1. t \notin Awaited'
      BY <1>5, <2>4 DEF Handles
    <3>2. ~Stays(cache, t)'
      BY <2>4 DEF Stays
    <3> QED
      BY <1>3, <2>1, <3>1, <3>2 DEF WillGo
  <2> QED
    BY <2>2, <2>3, <2>4
<1>6. CASE \E j \in 1 .. n : t \in Gone(events[j]) /\ Uncarried(t, j + 1, n)
  <2>1. PICK j \in 1 .. n : t \in Gone(events[j]) /\ Uncarried(t, j + 1, n)
    BY <1>6
  <2>2. CASE j = 1
    BY <1>1, <1>5, <2>1, <2>2
  <2>3. CASE j # 1
    <3>1. PICK m \in 1 .. n - 1 : j = m + 1
      BY <1>3, <2>1, <2>3
    <3>2. m + 1 \in Nat \ {0} /\ j + 1 = (m + 1) + 1 /\ t \in Gone(events'[m])
      BY <1>3, <2>1, <3>1
    <3>3. Uncarried(t, m + 1, n - 1)'
      BY <1>4, <2>1, <3>2
    <3> QED
      BY <1>3, <3>1, <3>2, <3>3 DEF WillGo
  <2> QED
    BY <2>2, <2>3
<1>7. CASE Uncarried(t, 1, n) /\ (t \in excused \/ (~Stays(cache, t) /\ t \notin Awaited))
  <2>1. t \notin Carried(e) /\ Uncarried(t, 2, n)
    BY <1>1, <1>3, <1>7 DEF Uncarried
  <2>2. CASE t \in Gone(e)
    BY <1>5, <2>1, <2>2
  <2>3. CASE t \notin Gone(e)
    <3>1. Uncarried(t, 1, n - 1)'
      BY <1>4, <2>1
    <3>2. CASE t \in excused
      BY <1>3, <2>3, <3>1, <3>2, ExcusedThen DEF WillGo
    <3>3. CASE ~Stays(cache, t) /\ t \notin Awaited
      <4>1. ~Stays(cache', t)
        BY <2>1, <3>3 DEF Handles, HandledWell, BringsOnly
      <4>2. ~Stays(cache, t)'
        BY <4>1 DEF Stays
      <4>3. t \notin Awaited'
        BY <3>3 DEF Handles
      <4> QED
        BY <1>3, <3>1, <4>2, <4>3 DEF WillGo
    <3> QED
      BY <1>7, <3>2, <3>3
  <2> QED
    BY <2>2, <2>3
<1> QED
  BY <1>2, <1>6, <1>7 DEF WillGo

\* A role stays on its way while events before it are handled, or it is excused, or it comes.
LEMMA HandledFresh ==
    ASSUME NamesAssumption, CacheInv, NEW e \in EventSet, Handles(e), NEW r \in Roles, Live(server, r),
           NEW j \in 1 .. Len(events), FreshAt(r, j), Spared(r, j + 1, Len(events))
    PROVE  WillCome(r)'
<1>1. events \in Seq(EventSet) /\ events # << >> /\ events' = Tail(events) /\ e = events[1] /\ EventTyped(e)
  BY DEF CacheInv, Typed, Handles, EventSet
<1>2. PICK n : n = Len(events)
  OBVIOUS
<1>3. /\ n \in Nat \ {0} /\ Len(events)' = n - 1
      /\ \A i \in 1 .. n - 1 : events'[i] = events[i + 1]
      /\ \A i \in 1 .. n : EventTyped(events[i])
  BY <1>1, <1>2, Taken DEF EventSet
<1>4. PICK g \in Guilds : g = Home[r]
  BY Kinds
<1>5. r \in Things /\ r \in Objects /\ GuildOf(r) = g /\ Home[r] = g
  BY <1>4, Kinds DEF GuildOf, Things
<1>6. /\ \A a \in Nat \ {0} : Spared(r, a + 1, n) => Spared(r, a, n - 1)'
      /\ \A a \in Nat \ {0}, b \in Int : b < n => (Silent(g, a + 1, b + 1) => Silent(g, a, b)')
  <2>1. n - 1 \in Int /\ n - 1 < n /\ (n - 1) + 1 = n
    BY <1>3
  <2> QED
    BY <1>1, <1>2, <2>1, TakenAfter
<1>7. events[j].type = "GUILD_CREATE" /\ r \in events[j].data.roles /\ r \notin Gone(events[j])
  BY DEF FreshAt, Gone
<1>8. CASE j = 1
  <2>1. Home[r] \notin cache.guilds \/ r \in cache.listed
    BY <1>8 DEF FreshAt
  <2>2. e.of = g
    BY <1>1, <1>5, <1>7, <1>8 DEF EventTyped, DataTyped
  <2>3. There(cache', r)
    BY <1>1, <1>5, <1>7, <1>8, <2>1, <2>2 DEF Handles, HandledWell, Brings
  <2>4. There(cache, r)'
    BY <2>3 DEF There, Stays
  <2>5. Spared(r, 1, n - 1)'
    BY <1>2, <1>6, <1>8
  <2> QED
    BY <1>3, <2>4, <2>5 DEF WillCome
<1>9. CASE j # 1
  <2>0. j \in 1 .. n
    BY <1>2
  <2>1. PICK m \in 1 .. n - 1 : j = m + 1
    <3>1. j - 1 \in 1 .. n - 1 /\ j = (j - 1) + 1
      BY <1>3, <1>9, <2>0
    <3> QED
      BY <3>1
  <2>2. m + 1 \in Nat \ {0} /\ m - 1 \in Int /\ m - 1 < n /\ j - 1 = (m - 1) + 1 /\ j + 1 = (m + 1) + 1
    BY <1>3, <2>1
  <2>3. Spared(r, m + 1, n - 1)'
    BY <1>2, <1>6, <2>2
  <2>4. events'[m].type = "GUILD_CREATE" /\ r \in events'[m].data.roles
    BY <1>3, <1>7, <2>1
  <2>5. ASSUME FreshAt(r, m)'
        PROVE  WillCome(r)'
    BY <1>3, <2>1, <2>3, <2>5 DEF WillCome
  <2>6. CASE \E i \in 1 .. j - 1 : Home[r] \in Gone(events[i]) /\ Silent(Home[r], i + 1, j - 1)
    <3>1. PICK i \in 1 .. j - 1 : g \in Gone(events[i]) /\ Silent(g, i + 1, j - 1)
      BY <1>5, <2>6
    <3>2. CASE i # 1
      <4>1. PICK l \in 1 .. m - 1 : i = l + 1
        BY <1>3, <2>1, <3>1, <3>2
      <4>2. l + 1 \in Nat \ {0} /\ i + 1 = (l + 1) + 1 /\ l \in 1 .. n - 1
        BY <1>3, <2>1, <4>1
      <4>3. g \in Gone(events'[l])
        BY <1>3, <3>1, <4>1, <4>2
      <4>4. Silent(g, l + 1, m - 1)'
        BY <1>6, <2>2, <3>1, <4>2
      <4> QED
        BY <1>5, <2>4, <2>5, <4>1, <4>3, <4>4 DEF FreshAt
    <3>3. CASE i = 1
      <4>1. Silent(g, 1, m - 1)'
        BY <1>6, <2>2, <3>1, <3>3
      <4>2. g \in Gone(e) /\ e.type = "GUILD_DELETE" /\ e.of = g /\ GuildOf(e.of) = g
        BY <1>1, <3>1, <3>3, GuildsInEvents DEF GuildEvents
      <4>3. r \in Gone(e)
        BY <1>5, <4>2 DEF Gone
      <4>4. CASE g \in Awaited
        <5>1. r \in excused'
          <6>1. r \in Raced(e)
            BY <1>5, <4>2, <4>3, <4>4 DEF Raced
          <6> QED
            BY <4>3, <6>1, ExcusedThen
        <5>2. Spared(r, i + 1, j - 1)
          <6>1. /\ i + 1 \in Nat \ {0} /\ j - 1 \in 0 .. Len(events)
                /\ Silent(GuildOf(r), i + 1, j - 1)
            BY <1>2, <1>3, <1>5, <3>1
          <6> QED
            BY <1>1, <1>5, <6>1, SilentSpares
        <5>3. \A q \in 2 .. n : r \notin Gone(events[q])
          <6>1. \A q \in 2 .. n : q \in i + 1 .. j - 1 \/ q = j \/ q \in j + 1 .. n
            BY <1>2, <1>3, <3>3
          <6> QED
            BY <1>2, <1>7, <5>2, <6>1 DEF Spared
        <5>4. Spared(r, 1 + 1, n)
          BY <5>3 DEF Spared
        <5>5. Spared(r, 1, n - 1)'
          BY <1>6, <5>4
        <5> QED
          BY <1>3, <1>5, <5>1, <5>5 DEF WillCome
      <4>5. CASE g \notin Awaited
        <5>1. g \notin cache'.guilds
          BY <4>2 DEF Handles, HandledWell, Knows
        <5>2. \A a \in answers' : g \notin About(a)
          <6>1. (\A t : t \in Awaited <=> AwaitedNow(t))'
            BY AwaitedIs, PTL
          <6>2. g \notin Awaited'
            BY <4>2, <4>5 DEF Handles, Things
          <6> QED
            BY <6>1, <6>2 DEF AwaitedNow
        <5> QED
          BY <1>5, <2>4, <2>5, <4>1, <5>1, <5>2 DEF FreshAt
      <4> QED
        BY <4>4, <4>5
    <3> QED
      BY <3>2, <3>3
  <2>7. CASE Silent(Home[r], 1, j - 1) /\ (Home[r] \notin cache.guilds \/ r \in cache.listed)
             /\ \A a \in answers : Home[r] \in About(a) => r \in RolesIn(a)
    <3>1. Silent(g, 1 + 1, j - 1)
      BY <1>5, <2>7 DEF Silent
    <3>2. Silent(g, 1, m - 1)'
      BY <1>6, <2>2, <3>1
    <3>3. GuildOf(e.of) # g
      BY <1>1, <1>3, <1>5, <2>1, <2>7 DEF Silent
    <3>4. cache'.guilds \cap {g} = cache.guilds \cap {g}
      <4>1. g \notin Gone(e) /\ (e.type = "GUILD_CREATE" => e.of # g)
        BY <1>1, <3>3, AboutOne, GuildsInEvents DEF GuildEvents
      <4> QED
        BY <4>1 DEF Handles, HandledWell, Knows
    <3>5. r \in cache.listed => r \in cache'.listed
      BY <1>5, <3>3 DEF Handles, HandledWell, Knows
    <3>6. \A a \in answers' : Home[r] \in About(a) => r \in RolesIn(a)
      BY <2>7 DEF Handles
    <3>7. FreshAt(r, m)'
      BY <1>5, <2>4, <2>7, <3>2, <3>4, <3>5, <3>6 DEF FreshAt
    <3> QED
      BY <2>5, <3>7
  <2> QED
    BY <2>6, <2>7 DEF FreshAt
<1> QED
  BY <1>8, <1>9

\* What is at the server comes.
LEMMA HandledCome ==
    ASSUME NamesAssumption, CacheInv, NEW e \in EventSet, Handles(e), NEW t \in Things, Live(server, t), WillCome(t)
    PROVE  WillCome(t)'
<1>1. events \in Seq(EventSet) /\ events # << >> /\ events' = Tail(events) /\ e = events[1] /\ EventTyped(e)
  BY DEF CacheInv, Typed, Handles, EventSet
<1>2. PICK n : n = Len(events)
  OBVIOUS
<1>3. n \in Nat \ {0} /\ Len(events)' = n - 1 /\ \A j \in 1 .. n - 1 : events'[j] = events[j + 1]
  BY <1>1, <1>2, Taken
<1>4. \A a \in Nat \ {0} : Spared(t, a + 1, n) => Spared(t, a, n - 1)'
  <2>1. n - 1 \in Int /\ n - 1 < n /\ (n - 1) + 1 = n
    BY <1>3
  <2> QED
    BY <1>1, <1>2, <2>1, TakenAfter
<1>5. ASSUME Spared(t, 2, n), There(cache', t) \/ t \in Astray(cache, cache', Gone(e)) \/ (t \in excused' /\ t \in Objects)
      PROVE  WillCome(t)'
  <2>1. Spared(t, 1, n - 1)'
    BY <1>4, <1>5
  <2>2. There(cache', t) \/ (t \in excused' /\ t \in Objects)
    BY <1>5, ExcusedThen, Kinds DEF Astray
  <2> QED
    BY <1>3, <2>1, <2>2 DEF WillCome, There, Stays
<1>6. CASE Spared(t, 1, n) /\ (There(cache, t) \/ (t \in excused /\ t \in Objects))
  <2>1. t \notin Gone(e) /\ Spared(t, 2, n)
    BY <1>1, <1>3, <1>6 DEF Spared
  <2>2. There(cache, t) => There(cache', t) \/ t \in Astray(cache, cache', Gone(e))
    BY <2>1 DEF Handles, HandledWell, TakesOnly
  <2>3. t \in excused => t \in excused'
    BY <2>1, ExcusedThen
  <2> QED
    BY <1>5, <1>6, <2>1, <2>2, <2>3
<1>7. CASE \E j \in 1 .. n : t \in Sure(events[j]) /\ Spared(t, j + 1, n)
  <2>1. PICK j \in 1 .. n : t \in Sure(events[j]) /\ Spared(t, j + 1, n)
    BY <1>7
  <2>2. CASE j = 1
    <3>1. e.type = "GUILD_CREATE" \/ GuildOf(e.of) \in cache.guilds
      BY <1>1, <1>2, <1>3 DEF CacheInv, InKnown, KnownAt
    <3>2. There(cache', t) \/ t \in Astray(cache, cache', Gone(e))
      BY <1>1, <2>1, <2>2, <3>1 DEF Handles, HandledWell, Brings
    <3> QED
      BY <1>5, <2>1, <2>2, <3>2
  <2>3. CASE j # 1
    <3>1. PICK m \in 1 .. n - 1 : j = m + 1
      <4>1. j - 1 \in 1 .. n - 1 /\ j = (j - 1) + 1
        BY <1>3, <2>1, <2>3
      <4> QED
        BY <4>1
    <3>2. m + 1 \in Nat \ {0} /\ j + 1 = (m + 1) + 1 /\ t \in Sure(events'[m])
      BY <1>3, <2>1, <3>1
    <3>3. Spared(t, m + 1, n - 1)'
      BY <1>4, <2>1, <3>2
    <3> QED
      BY <1>3, <3>1, <3>2, <3>3 DEF WillCome
  <2> QED
    BY <2>2, <2>3
<1>8. CASE t \in Roles /\ \E j \in 1 .. n : FreshAt(t, j) /\ Spared(t, j + 1, n)
  BY <1>2, <1>8, HandledFresh
<1> QED
  BY <1>2, <1>6, <1>7, <1>8 DEF WillCome

\* The invariant holds on when an event arrives.
LEMMA EventKeeps ==
    ASSUME NamesAssumption, CacheInv, EventArrives
    PROVE  CacheInv'
<1>1. PICK e \in EventSet : Handles(e)
  BY Handling
<1>2. events \in Seq(EventSet) /\ events # << >> /\ events' = Tail(events) /\ UNCHANGED server /\ Typed
  BY <1>1 DEF CacheInv, Typed, Handles
<1>3. PICK n : n = Len(events)
  OBVIOUS
<1>4. /\ events' \in Seq(EventSet) /\ n \in Nat \ {0} /\ Len(events)' = n - 1
      /\ \A j \in 1 .. n - 1 : events'[j] = events[j + 1]
      /\ \A j \in 1 .. n : EventTyped(events[j])
  BY <1>2, <1>3, Taken DEF EventSet
<1>5. Typed'
  BY <1>1, <1>2, <1>4 DEF Typed, Handles, HandledWell, LookTyped
<1>6. InKnown'
  <2> SUFFICES ASSUME NEW i \in 1 .. n - 1, events'[i].type # "GUILD_CREATE"
               PROVE  KnownAt(GuildOf(events[i].of), i)'
    BY <1>4 DEF InKnown
  <2>1. PICK g \in Guilds : g = GuildOf(events[i + 1].of)
    BY <1>4, AboutOne
  <2>2. i \in Nat \ {0} /\ i < n /\ i + 1 \in 1 .. n /\ events'[i] = events[i + 1]
    BY <1>4
  <2>3. KnownAt(g, i + 1)
    BY <1>3, <2>1, <2>2 DEF CacheInv, InKnown
  <2>4. KnownAt(g, i)'
    BY <1>1, <1>3, <2>2, <2>3, HandledKnown
  <2> QED
    BY <2>1, <2>2, <2>4
<1>7. LeftLast'
  BY <1>1, <1>2, HandledLast DEF CacheInv, LeftLast
<1>8. DeadGoes'
  BY <1>1, <1>2, HandledGo DEF CacheInv, DeadGoes
<1>9. LiveComes'
  BY <1>1, <1>2, HandledCome DEF CacheInv, LiveComes
<1>10. ASSUME NEW c \in Channels, c \in Unlisted(cache')
       PROVE  c \in excused'
  <2>1. CASE c \notin Gone(e)
    BY <1>1, <1>10, <2>1, ExcusedThen DEF Astray
  <2>2. CASE c \in Gone(e)
    <3>1. Stays(cache', c)
      BY <1>10, Kinds DEF Stays, Unlisted
    <3>2. e.type = "GUILD_DELETE" /\ c \in Forgotten(cache)
      BY <1>1, <2>2, <3>1 DEF Handles, HandledWell, Takes
    <3>3. c \in Raced(e)
      BY <2>2, <3>2 DEF Raced
    <3> QED
      BY <1>1, <2>2, <3>3, ExcusedThen
  <2> QED
    BY <2>1, <2>2
<1>11. LoneExcused'
  BY <1>10 DEF LoneExcused, Unlisted, Kept
<1> QED
  BY <1>5, <1>6, <1>7, <1>8, <1>9, <1>11 DEF CacheInv

-----------------------------------------------------------------------------
(***************************************************************************)
(* The theorems.                                                           *)
(***************************************************************************)
\* The invariant holds when the guilds that the client starts in have come.
LEMMA CacheAtFirst ==
    ASSUME NamesAssumption, Init
    PROVE  CacheInv
<1>1. /\ server \in Servers /\ server.away = {} /\ server.missed = {} /\ server.alive = Objects
      /\ server.joined \subseteq Guilds /\ server.there \subseteq Pairs
  <2>1. (CHOOSE t \in Types : TRUE) \in Types
    BY DEF NamesAssumption
  <2>2. PICK js \in SUBSET Guilds, there \in {{}, Pairs} :
            server = [joined |-> js, away |-> {}, missed |-> {}, alive |-> Objects, there |-> there,
                      types |-> [c \in Channels |-> CHOOSE t \in Types : TRUE]]
    BY DEF Init
  <2>3. there \subseteq Pairs
    BY <2>2
  <2> QED
    BY <2>1, <2>2, <2>3 DEF Servers
<1>2. events = << >> /\ Len(events) = 0 /\ answers = {} /\ look = NoLook /\ excused = {} /\ cache = Filled(server)
  BY DEF Init
<1> DEFINE own == {x \in server.alive : Home[x] \in server.joined}
           known == {p \in server.there : p[1] \in server.joined}
<1>3. /\ cache \in Caches
      /\ cache.guilds = server.joined /\ cache.roles = own \cap Roles
      /\ cache.channels = [c \in Channels |-> IF c \in own THEN server.types[c] ELSE None]
      /\ cache.members = known /\ cache.memberIds = known /\ cache.listed = own
  <2> DEFINE ids == [u \in Users |-> IF u = Bot THEN {} ELSE {p[1] : p \in {q \in known : q[2] = u}}]
  <2>1. cache = [guilds |-> server.joined,
                 channels |-> [c \in Channels |-> IF c \in own THEN server.types[c] ELSE None],
                 roles |-> own \cap Roles, members |-> known, listed |-> own, memberIds |-> known,
                 userGuilds |-> ids, mine |-> server.joined]
    BY <1>2 DEF Filled
  <2>2. own \subseteq Objects /\ known \subseteq Pairs /\ own \cap Roles \subseteq Roles
    BY <1>1 DEF Objects
  <2>3. ids \in [Users -> SUBSET Guilds]
    <3>1. \A p \in known : p[1] \in Guilds
      BY <1>1
    <3> QED
      BY <3>1
  <2>4. [c \in Channels |-> IF c \in own THEN server.types[c] ELSE None] \in [Channels -> Types \cup {None}]
    BY <1>1 DEF Servers
  <2> HIDE DEF ids, own, known
  <2> QED
    BY <1>1, <2>1, <2>2, <2>3, <2>4 DEF Caches
<1>4. ListsKept(cache)
  BY <1>3 DEF ListsKept
<1>5. Typed
  <2>1. events \in Seq(EventSet)
    BY <1>2
  <2>2. LookTyped
    BY <1>2 DEF LookTyped, NoLook, NamesAssumption
  <2> QED
    BY <1>1, <1>2, <1>3, <1>4, <2>1, <2>2 DEF Typed
<1>6. InKnown
  BY <1>2 DEF InKnown
<1>7. \A t \in Things : Spared(t, 1, Len(events)) /\ Uncarried(t, 1, Len(events)) /\ Silent(t, 1, Len(events))
  BY <1>2 DEF Spared, Uncarried, Silent
<1>8. LeftLast
  BY <1>2, <1>7 DEF LeftLast, LastSeen, Things
<1>9. \A c \in Channels : c \in own => cache.channels[c] # None
  BY <1>1, <1>3 DEF Servers, NamesAssumption
<1>10. ASSUME NEW t \in Things, Dead(server, t)
       PROVE  WillGo(t)
  <2>1. ~Stays(cache, t)
    BY <1>3, <1>10, Kinds DEF Dead, Stays, Kept
  <2>2. t \notin Awaited
    <3>1. look.asked \notin Guilds
      BY <1>2 DEF NoLook, NamesAssumption
    <3> QED
      BY <1>2, <3>1, AwaitedIs DEF AwaitedNow
  <2> QED
    BY <1>7, <2>1, <2>2 DEF WillGo
<1>11. ASSUME NEW t \in Things, Live(server, t)
       PROVE  WillCome(t)
  <2>1. There(cache, t)
    BY <1>3, <1>9, <1>11, Kinds DEF Live, There, Stays, Kept
  <2> QED
    BY <1>7, <2>1 DEF WillCome
<1>12. LoneExcused
  BY <1>3, Kinds DEF LoneExcused, Unlisted, Kept
<1> QED
  BY <1>5, <1>6, <1>8, <1>10, <1>11, <1>12 DEF CacheInv, DeadGoes, LiveComes

\* Every step keeps the invariant.
LEMMA CacheKept ==
    ASSUME NamesAssumption, CacheInv, [Next]_vars
    PROVE  CacheInv'
<1>1. CASE ServerMoves
  BY <1>1, ServerKeeps
<1>2. CASE Requests
  BY <1>2, FetchesKeep, LookingKeeps DEF Requests
<1>3. CASE Arrivals
  BY <1>3, EventKeeps, AnswerKeeps, LookAnsweredKeeps, LookEndsKeeps DEF Arrivals
<1>4. CASE UNCHANGED vars
  <2>1. UNCHANGED <<server, events, answers, cache, look, excused>>
    BY <1>4 DEF vars
  <2>2. LookTyped' /\ \A a \in answers' : AnswerTyped(a)
    BY <2>1 DEF CacheInv, Typed, LookTyped
  <2>3. Awaited' = Awaited
    BY <2>1 DEF Awaited
  <2> QED
    BY <2>1, <2>2, <2>3, AskedKeeps
<1> QED
  BY <1>1, <1>2, <1>3, <1>4 DEF Next

\* GlobalCache has its types, and lists only what it keeps.
LEMMA TypesIn ==
    ASSUME CacheInv
    PROVE  TypeOK /\ ListedAreKept
  BY DEF CacheInv, Typed, Servers, Caches, ListsKept, TypeOK, ListedAreKept

\* Once everything has arrived, it has what the server has.
LEMMA MissingIn ==
    ASSUME NamesAssumption, CacheInv
    PROVE  NothingMissing
<1> SUFFICES ASSUME Quiet
             PROVE  /\ server.joined \subseteq cache.guilds
                    /\ {p \in server.there : p[1] \in server.joined} \subseteq cache.memberIds
                    /\ \A x \in server.alive :
                            Home[x] \in server.joined =>
                                x \in Excused \/ (x \in cache.listed /\ (x \in Roles => x \in cache.roles)
                                                    /\ (x \in Channels => cache.channels[x] # None))
  BY DEF NothingMissing
<1>1. events = << >> /\ Len(events) = 0 /\ server.away = {}
  BY DEF Quiet
<1>2. /\ server.joined \subseteq Guilds /\ server.alive \subseteq Objects /\ server.there \subseteq Pairs
  BY DEF CacheInv, Typed, Servers
<1>3. ASSUME NEW t \in Things, Live(server, t)
      PROVE  There(cache, t) \/ (t \in excused /\ t \in Objects)
  <2>1. WillCome(t)
    BY <1>3 DEF CacheInv, LiveComes
  <2>2. ~(\E j \in 1 .. 0 : TRUE)
    OBVIOUS
  <2> QED
    BY <1>1, <2>1, <2>2 DEF WillCome
<1>4. server.joined \subseteq cache.guilds
  BY <1>2, <1>3, Kinds DEF Live, There, Stays, Things
<1>5. {p \in server.there : p[1] \in server.joined} \subseteq cache.memberIds
  BY <1>1, <1>2, <1>3, Kinds DEF Live, There, Stays, Things
<1>6. ASSUME NEW x \in server.alive, Home[x] \in server.joined, x \notin Excused
      PROVE  x \in cache.listed /\ (x \in Roles => x \in cache.roles) /\ (x \in Channels => cache.channels[x] # None)
  <2>1. x \in Objects /\ x \in Things /\ x \notin server.missed /\ x \notin excused
    BY <1>2, <1>6 DEF Things, Excused
  <2>2. There(cache, x)
    BY <1>3, <1>6, <2>1 DEF Live
  <2>3. x \in cache.listed /\ x \in Kept(cache)
    BY <2>1, <2>2, Kinds DEF There, Stays
  <2>4. (x \in Roles => x \in cache.roles) /\ (x \in Channels => cache.channels[x] # None)
    <3>1. cache.roles \subseteq Roles
      BY DEF CacheInv, Typed, Caches
    <3> QED
      BY <2>1, <2>3, <3>1, Kinds DEF Kept
  <2> QED
    BY <2>3, <2>4
<1> QED
  BY <1>4, <1>5, <1>6

\* Once everything has arrived, what else it has is excused.
LEMMA RemainingIn ==
    ASSUME NamesAssumption, CacheInv
    PROVE  OnlyRacesRemain
<1> SUFFICES ASSUME Quiet
             PROVE  /\ cache.guilds \ server.joined \subseteq Excused
                    /\ cache.memberIds \ server.there \subseteq Excused
                    /\ \A x \in Objects :
                            (x \notin server.alive \/ Home[x] \notin server.joined)
                                /\ (x \in cache.roles \/ (x \in Channels /\ cache.channels[x] # None))
                            => x \in Excused
  BY DEF OnlyRacesRemain
<1>1. events = << >> /\ Len(events) = 0
  BY DEF Quiet
<1>2. cache.guilds \subseteq Guilds /\ cache.memberIds \subseteq Pairs
  BY DEF CacheInv, Typed, Caches
<1>3. ASSUME NEW t \in Things, Dead(server, t), Stays(cache, t)
      PROVE  t \in Excused
  <2>1. CASE t \notin server.missed
    <3>1. WillGo(t)
      BY <1>3, <2>1 DEF CacheInv, DeadGoes
    <3>2. ~(\E j \in 1 .. 0 : TRUE)
      OBVIOUS
    <3> QED
      BY <1>1, <1>3, <3>1, <3>2 DEF WillGo, Excused
  <2> QED
    BY <2>1 DEF Excused
<1>4. cache.guilds \ server.joined \subseteq Excused
  BY <1>2, <1>3 DEF Dead, Stays, Things
<1>5. cache.memberIds \ server.there \subseteq Excused
  BY <1>2, <1>3 DEF Dead, Stays, Things
<1>6. \A x \in Objects : (x \notin server.alive \/ Home[x] \notin server.joined) /\ x \in Kept(cache) => x \in Excused
  BY <1>3 DEF Dead, Stays, Things
<1> QED
  BY <1>4, <1>5, <1>6 DEF Kept

\* Whatever is sent, asked for and answered, in whatever order it arrives, the cache stays within
\* its invariant.
LEMMA CacheRight ==
    ASSUME NamesAssumption
    PROVE  Spec => []CacheInv
<1>1. Init => CacheInv
  BY CacheAtFirst
<1>2. CacheInv /\ [Next]_vars => CacheInv'
  BY CacheKept
<1> QED
  BY <1>1, <1>2, PTL DEF Spec
=============================================================================

---------------------------- MODULE MCSafeParts ----------------------------
(* The instance of SafeParts that TLC checks. *)
EXTENDS SafeParts, Samples

\* GuildCache: the channels and roles are all in one guild.
OneGuild == [x \in CachedChannels \cup CachedRoles |-> CHOOSE g \in CachedGuilds : TRUE]

\* GuildChunks: two chunks, one of them with two members.
TwoChunks == <<<<"m1", "m2">>, <<"m3">>>>
=============================================================================

----------------------------- MODULE EndPoints -----------------------------
(***************************************************************************)
(* The end points of the REST API: Route of Interfluxer/api/http/route.py, *)
(* and the wrappers of http_requests/*.py, one per end point, with what    *)
(* each makes of its arguments.                                            *)
(*                                                                         *)
(* A path is the sequence of its segments, a field of it the name of the   *)
(* parameter that replaces it.  Of what is sent beside the path only the   *)
(* keyword of request() is kept: params, payload or files.  Reasons, which *)
(* travel in a header, are left out.  The rows of a table stand in the     *)
(* order of the source, and wrappers that make the same request share one. *)
(***************************************************************************)
EXTENDS Naturals, Sequences, FiniteSets

CONSTANT Ids    \* values of an identifier

\* The parameters that fields may name.
FieldNames == {
    "channel_id", "guild_id", "webhook_id", "webhook_token", "application_id", "user_id", "message_id",
    "role_id", "emoji_id", "emoji", "sticker_id", "invite_code", "overwrite_id", "tag_id", "entitlement_id",
    "integration_id", "template_code", "rule_id", "answer_id", "scheduled_event_id", "thread_id",
    "with_user_count"}

Fields(path) == {path[i] : i \in DOMAIN path} \cap FieldNames

\* An end point: method, path, the parameters Route is given, the keywords request() is given
\* with it, and the fields an f-string fills in before Route sees the path.
Ep(method, path, params, carries) ==
    [method |-> method, path |-> path, params |-> params, carries |-> carries, inlined |-> {}]
Inlined(fields, ep) == [ep EXCEPT !.inlined = fields]

Get(path, params, carries) == Ep("GET", path, params, carries)
Put(path, params, carries) == Ep("PUT", path, params, carries)
Post(path, params, carries) == Ep("POST", path, params, carries)
Patch(path, params, carries) == Ep("PATCH", path, params, carries)
Delete(path, params, carries) == Ep("DELETE", path, params, carries)

-----------------------------------------------------------------------------

\* http_requests/bot.py
Bot == {
    Get(<<"oauth2", "applications", "@me">>, {}, {}),
    Get(<<"oauth2", "@me">>, {}, {}),
    Get(<<"voice", "regions">>, {}, {})}

\* http_requests/channels.py
ChannelReads == {
    Get(<<"channels", "channel_id">>, {"channel_id"}, {}),
    Get(<<"channels", "channel_id", "messages">>, {"channel_id"}, {"params"})}
ChannelEdits == {
    Post(<<"guilds", "guild_id", "channels">>, {"guild_id"}, {"payload"}),
    Patch(<<"guilds", "guild_id", "channels">>, {"guild_id"}, {"payload"}),
    Patch(<<"channels", "channel_id">>, {"channel_id"}, {"payload"}),
    Delete(<<"channels", "channel_id">>, {"channel_id"}, {}),
    Get(<<"channels", "channel_id", "invites">>, {"channel_id"}, {})}
Invites == {
    Post(<<"channels", "channel_id", "invites">>, {"channel_id"}, {"payload"}),
    Get(<<"invites", "invite_code">>, {"invite_code", "params"}, {}),
    Delete(<<"invites", "invite_code">>, {"invite_code"}, {})}
ChannelPermissions == {
    Put(<<"channels", "channel_id", "permissions", "overwrite_id">>,
          {"channel_id", "overwrite_id"}, {"payload"}),
    Delete(<<"channels", "channel_id", "permissions", "overwrite_id">>, {"channel_id", "overwrite_id"}, {}),
    Post(<<"channels", "channel_id", "followers">>, {"channel_id"}, {"payload"}),
    Post(<<"channels", "channel_id", "typing">>, {"channel_id"}, {}),
    Get(<<"channels", "channel_id", "pins">>, {"channel_id"}, {})}
StageInstances == {
    Post(<<"stage-instances">>, {}, {"payload"}),
    Get(<<"stage-instances", "channel_id">>, {"channel_id"}, {}),
    Patch(<<"stage-instances", "channel_id">>, {"channel_id"}, {"payload"}),
    Delete(<<"stage-instances", "channel_id">>, {"channel_id"}, {})}
ForumTags == {
    Post(<<"channels", "channel_id", "tags">>, {"channel_id"}, {"payload"}),
    Put(<<"channels", "channel_id", "tags", "tag_id">>, {"channel_id", "tag_id"}, {"payload"}),
    Delete(<<"channels", "channel_id", "tags", "tag_id">>, {"channel_id", "tag_id"}, {})}

\* http_requests/emojis.py
GuildEmojis == {
    Get(<<"guilds", "guild_id", "emojis">>, {"guild_id"}, {}),
    Get(<<"guilds", "guild_id", "emojis", "emoji_id">>, {"guild_id", "emoji_id"}, {}),
    Post(<<"guilds", "guild_id", "emojis">>, {"guild_id"}, {"payload"}),
    Patch(<<"guilds", "guild_id", "emojis", "emoji_id">>, {"guild_id", "emoji_id"}, {"payload"}),
    Delete(<<"guilds", "guild_id", "emojis", "emoji_id">>, {"guild_id", "emoji_id"}, {})}
ApplicationEmojis == {
    Inlined({"application_id"}, Get(<<"applications", "application_id", "emojis">>, {}, {})),
    Inlined({"application_id", "emoji_id"},
          Get(<<"applications", "application_id", "emojis", "emoji_id">>, {}, {})),
    Inlined({"application_id"}, Post(<<"applications", "application_id", "emojis">>, {}, {"payload"})),
    Inlined({"application_id", "emoji_id"},
          Patch(<<"applications", "application_id", "emojis", "emoji_id">>, {}, {"payload"})),
    Inlined({"application_id", "emoji_id"},
          Delete(<<"applications", "application_id", "emojis", "emoji_id">>, {}, {}))}

\* http_requests/entitlements.py
Entitlements == {
    Get(<<"applications", "application_id", "entitlements">>, {"application_id"}, {"params"}),
    Post(<<"applications", "application_id", "entitlements">>, {"application_id"}, {"payload"}),
    Delete(<<"applications", "application_id", "entitlements", "entitlement_id">>,
          {"application_id", "entitlement_id"}, {}),
    Post(<<"applications", "application_id", "entitlements", "entitlement_id", "consume">>,
          {"application_id", "entitlement_id"}, {})}

\* http_requests/guild.py
Guilds == {
    Get(<<"users", "@me", "guilds">>, {"params"}, {}),
    Get(<<"guilds", "guild_id">>, {"guild_id"}, {"params"}),
    Get(<<"guilds", "guild_id", "preview">>, {"guild_id"}, {}),
    Get(<<"guilds", "guild_id", "channels">>, {"guild_id"}, {}),
    Get(<<"guilds", "guild_id", "roles">>, {"guild_id"}, {}),
    Patch(<<"guilds", "guild_id">>, {"guild_id"}, {"payload"}),
    Delete(<<"guilds", "guild_id">>, {"guild_id"}, {})}
Bans == {
    Put(<<"guilds", "guild_id", "members", "user_id">>, {"guild_id", "user_id"}, {"payload"}),
    Delete(<<"guilds", "guild_id", "members", "user_id">>, {"guild_id", "user_id"}, {}),
    Get(<<"guilds", "guild_id", "bans">>, {"guild_id"}, {"params"}),
    Get(<<"guilds", "guild_id", "bans", "user_id">>, {"guild_id", "user_id"}, {}),
    Put(<<"guilds", "guild_id", "bans", "user_id">>, {"guild_id", "user_id"}, {"payload"}),
    Delete(<<"guilds", "guild_id", "bans", "user_id">>, {"guild_id", "user_id"}, {})}
Pruning == {
    Post(<<"guilds", "guild_id", "bulk-ban">>, {"guild_id"}, {"payload"}),
    Get(<<"guilds", "guild_id", "prune">>, {"guild_id"}, {"params"}),
    Post(<<"guilds", "guild_id", "prune">>, {"guild_id"}, {"payload"}),
    Get(<<"guilds", "guild_id", "invites">>, {"guild_id"}, {})}
GuildRoles == {
    Post(<<"guilds", "guild_id", "roles">>, {"guild_id"}, {"payload"}),
    Patch(<<"guilds", "guild_id", "roles">>, {"guild_id"}, {"payload"}),
    Patch(<<"guilds", "guild_id", "roles", "role_id">>, {"guild_id", "role_id"}, {"payload"}),
    Delete(<<"guilds", "guild_id", "roles", "role_id">>, {"guild_id", "role_id"}, {}),
    Get(<<"guilds", "guild_id", "audit-logs">>, {"guild_id"}, {"params"}),
    Get(<<"guilds", "guild_id", "regions">>, {"guild_id"}, {})}
GuildPages == {
    Get(<<"guilds", "guild_id", "integrations">>, {"guild_id"}, {}),
    Delete(<<"guilds", "guild_id", "integrations", "integration_id">>, {"guild_id", "integration_id"}, {}),
    Get(<<"guilds", "guild_id", "widget">>, {"guild_id"}, {}),
    Get(<<"guilds", "guild_id", "widget.json">>, {"guild_id"}, {}),
    Get(<<"guilds", "guild_id", "widget.png">>, {"guild_id", "style"}, {}),   \* "?style={style}" is no f-string
    Get(<<"guilds", "guild_id", "welcome-screen">>, {"guild_id"}, {}),
    Get(<<"guilds", "guild_id", "vanity-url">>, {"guild_id"}, {}),
    Get(<<"guilds", "guild_id", "channels">>, {"guild_id"}, {})}
GuildSettings == {
    Patch(<<"guilds", "guild_id", "widget">>, {"guild_id"}, {"payload"}),
    Patch(<<"guilds", "guild_id", "welcome-screen">>, {"guild_id"}, {"payload"}),
    Patch(<<"guilds", "guild_id", "voice-states", "@me">>, {"guild_id"}, {"payload"}),
    Patch(<<"guilds", "guild_id", "voice-states", "user_id">>, {"guild_id", "user_id"}, {"payload"}),
    Post(<<"guilds">>, {}, {"payload"})}
Templates == {
    Post(<<"guilds", "templates", "template_code">>, {"template_code"}, {"payload"}),
    Get(<<"guilds", "guild_id", "templates">>, {"guild_id"}, {}),
    Post(<<"guilds", "guild_id", "templates">>, {"guild_id"}, {"payload"}),
    Put(<<"guilds", "guild_id", "templates", "template_code">>, {"guild_id", "template_code"}, {}),
    Patch(<<"guilds", "guild_id", "templates", "template_code">>,
          {"guild_id", "template_code"}, {"payload"}),
    Delete(<<"guilds", "guild_id", "templates", "template_code">>, {"guild_id", "template_code"}, {})}
AutoModeration == {
    Get(<<"guilds", "guild_id", "auto-moderation", "rules">>, {"guild_id"}, {}),
    Get(<<"guilds", "guild_id", "auto-moderation", "rules", "rule_id">>, {"guild_id", "rule_id"}, {}),
    Post(<<"guilds", "guild_id", "auto-moderation", "rules">>, {"guild_id"}, {"payload"}),
    Patch(<<"guilds", "guild_id", "auto-moderation", "rules", "rule_id">>,
          {"guild_id", "rule_id"}, {"payload"}),
    Delete(<<"guilds", "guild_id", "auto-moderation", "rules", "rule_id">>, {"guild_id", "rule_id"}, {})}
Onboarding == {
    Get(<<"guilds", "guild_id", "onboarding">>, {"guild_id"}, {}),
    Put(<<"guilds", "guild_id", "onboarding">>, {"guild_id"}, {"payload"})}

\* http_requests/members.py
\* Mutant: a parameter is forgotten.
MembersUnnamed == {Get(<<"guilds", "guild_id", "members", "user_id">>, {"guild_id"}, {})}

Members == {
    Get(<<"guilds", "guild_id", "members", "user_id">>, {"guild_id", "user_id"}, {}),
    Get(<<"guilds", "guild_id", "members">>, {"guild_id"}, {"params"}),
    Get(<<"guilds", "guild_id", "members", "search">>, {"guild_id"}, {"params"}),
    Patch(<<"guilds", "guild_id", "members", "user_id">>, {"guild_id", "user_id"}, {"payload"}),
    Patch(<<"guilds", "guild_id", "members", "@me">>, {"guild_id"}, {"payload"})}
MemberRoles == {
    Put(<<"guilds", "guild_id", "members", "user_id", "roles", "role_id">>,
          {"guild_id", "user_id", "role_id"}, {}),
    Delete(<<"guilds", "guild_id", "members", "user_id", "roles", "role_id">>,
          {"guild_id", "user_id", "role_id"}, {})}

\* http_requests/messages.py
Messages == {
    Post(<<"channels", "channel_id", "messages">>, {"channel_id"}, {"payload", "files"}),
    Delete(<<"channels", "channel_id", "messages", "message_id">>, {"channel_id", "message_id"}, {}),
    Post(<<"channels", "channel_id", "messages", "bulk-delete">>, {"channel_id"}, {"payload"}),
    Get(<<"channels", "channel_id", "messages", "message_id">>, {"channel_id", "message_id"}, {}),
    Put(<<"channels", "channel_id", "pins", "message_id">>, {"channel_id", "message_id"}, {}),
    Delete(<<"channels", "channel_id", "pins", "message_id">>, {"channel_id", "message_id"}, {}),
    Patch(<<"channels", "channel_id", "messages", "message_id">>,
          {"channel_id", "message_id"}, {"payload", "files"})}
Polls == {
    Post(<<"channels", "channel_id", "messages", "message_id", "crosspost">>,
          {"channel_id", "message_id"}, {}),
    Get(<<"channels", "channel_id", "polls", "message_id", "answers", "answer_id">>,
          {"channel_id", "message_id", "answer_id"}, {"params"}),
    Post(<<"channels", "channel_id", "polls", "message_id", "expire">>, {"channel_id", "message_id"}, {})}

\* http_requests/reactions.py
Reactions == {
    Put(<<"channels", "channel_id", "messages", "message_id", "reactions", "emoji", "@me">>,
          {"channel_id", "message_id", "emoji"}, {}),
    Delete(<<"channels", "channel_id", "messages", "message_id", "reactions", "emoji", "@me">>,
          {"channel_id", "message_id", "emoji"}, {}),
    Delete(<<"channels", "channel_id", "messages", "message_id", "reactions", "emoji", "user_id">>,
          {"channel_id", "message_id", "emoji", "user_id"}, {}),
    Delete(<<"channels", "channel_id", "messages", "message_id", "reactions", "emoji">>,
          {"channel_id", "message_id", "emoji"}, {}),
    Delete(<<"channels", "channel_id", "messages", "message_id", "reactions">>,
          {"channel_id", "message_id"}, {}),
    Get(<<"channels", "channel_id", "messages", "message_id", "reactions", "emoji">>,
          {"channel_id", "message_id", "emoji"}, {"params"})}

\* http_requests/scheduled_events.py
ScheduledEvents == {
    Get(<<"guilds", "guild_id", "scheduled-events", "with_user_count">>,
          {"guild_id", "with_user_count"}, {}),
    Get(<<"guilds", "guild_id", "scheduled-events", "scheduled_event_id", "with_user_count">>,
          {"guild_id", "scheduled_event_id", "with_user_count"}, {}),
    Post(<<"guilds", "guild_id", "scheduled-events">>, {"guild_id"}, {"payload"}),
    Patch(<<"guilds", "guild_id", "scheduled-events", "scheduled_event_id">>,
          {"guild_id", "scheduled_event_id"}, {"payload"}),
    Delete(<<"guilds", "guild_id", "scheduled-events", "scheduled_event_id">>,
          {"guild_id", "scheduled_event_id"}, {})}
EventUsers == {
    Get(<<"guilds", "guild_id", "scheduled-events", "scheduled_event_id", "users">>,
          {"guild_id", "scheduled_event_id"}, {"params"})}

\* http_requests/stickers.py
Stickers == {
    Get(<<"stickers", "sticker_id">>, {"sticker_id"}, {}),
    Get(<<"sticker-packs">>, {}, {}),
    Get(<<"guilds", "guild_id", "stickers">>, {"guild_id"}, {}),
    Get(<<"guilds", "guild_id", "stickers", "sticker_id">>, {"guild_id", "sticker_id"}, {}),
    Post(<<"guilds", "guild_id", "stickers">>, {"guild_id"}, {"payload", "files"}),
    Patch(<<"guilds", "guild_id", "stickers", "sticker_id">>, {"guild_id", "sticker_id"}, {"payload"}),
    Delete(<<"guilds", "guild_id", "stickers", "sticker_id">>, {"guild_id", "sticker_id"}, {})}

\* http_requests/threads.py
Threads == {
    Put(<<"channels", "thread_id", "thread-members", "@me">>, {"thread_id"}, {}),
    Delete(<<"channels", "thread_id", "thread-members", "@me">>, {"thread_id"}, {}),
    Put(<<"channels", "thread_id", "thread-members", "user_id">>, {"thread_id", "user_id"}, {}),
    Delete(<<"channels", "thread_id", "thread-members", "user_id">>, {"thread_id", "user_id"}, {}),
    Get(<<"channels", "thread_id", "thread-members">>, {"thread_id"}, {}),
    Get(<<"channels", "channel_id", "threads", "archived", "public">>, {"channel_id"}, {"params"}),
    Get(<<"channels", "channel_id", "threads", "archived", "private">>, {"channel_id"}, {"params"}),
    Get(<<"channels", "channel_id", "users", "@me", "threads", "archived", "private">>,
          {"channel_id"}, {"params"})}
NewThreads == {
    Get(<<"guilds", "guild_id", "threads", "active">>, {"guild_id"}, {}),
    Post(<<"channels", "channel_id", "messages", "message_id", "threads">>,
          {"channel_id", "message_id"}, {"payload"}),
    Post(<<"channels", "channel_id", "threads">>, {"channel_id"}, {"payload"}),
    Post(<<"channels", "channel_id", "threads">>, {"channel_id"}, {"payload", "files"})}

\* http_requests/users.py
Users == {
    Get(<<"users", "user_id">>, {"user_id"}, {}),
    Patch(<<"users", "@me">>, {}, {"payload"}),
    Get(<<"users", "@me", "guilds">>, {}, {}),
    Delete(<<"users", "@me", "guilds", "guild_id">>, {"guild_id"}, {}),
    Post(<<"users", "@me", "channels">>, {}, {"payload"}),
    Get(<<"users", "@me", "connections">>, {}, {}),
    Put(<<"channels", "channel_id", "recipients", "user_id">>, {"channel_id", "user_id"}, {"payload"}),
    Delete(<<"channels", "channel_id", "recipients", "user_id">>, {"channel_id", "user_id"}, {}),
    Get(<<"users", "user_id", "profile">>, {"user_id"}, {}),
    Patch(<<"guilds", "guild_id", "members", "@me", "nick">>, {"guild_id"}, {"payload"})}

\* http_requests/webhooks.py
Webhooks == {
    Post(<<"channels", "channel_id", "webhooks">>, {"channel_id"}, {"payload"}),
    Get(<<"channels", "channel_id", "webhooks">>, {"channel_id"}, {}),
    Get(<<"guilds", "guild_id", "webhooks">>, {"guild_id"}, {}),
    Inlined({"webhook_token"},
          Get(<<"webhooks", "webhook_id", "webhook_token">>, {"webhook_id", "webhook_token"}, {})),
    Get(<<>>, {"webhook_id"}, {}),
    Inlined({"webhook_token"},
          Patch(<<"webhooks", "webhook_id", "webhook_token">>, {"webhook_id", "webhook_token"}, {"payload"})),
    Patch(<<>>, {"webhook_id"}, {"payload"}),
    Inlined({"webhook_token"},
          Delete(<<"webhooks", "webhook_id", "webhook_token">>, {"webhook_id", "webhook_token"}, {})),
    Delete(<<>>, {"webhook_id"}, {}),
    Post(<<"webhooks", "webhook_id", "webhook_token">>,
          {"webhook_id", "webhook_token"}, {"params", "payload", "files"})}
WebhookMessages == {
    Get(<<"webhooks", "webhook_id", "webhook_token", "messages", "message_id">>,
          {"webhook_id", "webhook_token", "message_id"}, {}),
    Patch(<<"webhooks", "webhook_id", "webhook_token", "messages", "message_id">>,
          {"webhook_id", "webhook_token", "message_id"}, {"payload", "files"}),
    Delete(<<"webhooks", "webhook_id", "webhook_token", "messages", "message_id">>,
          {"webhook_id", "webhook_token", "message_id"}, {})}

-----------------------------------------------------------------------------
EndPointSet == 
    Bot \cup ChannelReads \cup ChannelEdits \cup Invites \cup ChannelPermissions \cup StageInstances
    \cup ForumTags \cup GuildEmojis \cup ApplicationEmojis \cup Entitlements \cup Guilds \cup Bans \cup
    Pruning \cup GuildRoles \cup GuildPages \cup GuildSettings \cup Templates \cup AutoModeration \cup
    Onboarding \cup Members \cup MemberRoles \cup Messages \cup Polls \cup Reactions \cup
    ScheduledEvents \cup EventUsers \cup Stickers \cup Threads \cup NewThreads \cup Users \cup Webhooks
    \cup WebhookMessages

\* A call of a wrapper: an end point, and a value for each identifier in it.
CallsOf(ep) == {[ep |-> ep, ids |-> f] : f \in [ep.params \cup ep.inlined -> Ids]}

NoId == 0    \* parameters.get of what is not there

Param(call, name) == IF name \in call.ep.params THEN call.ids[name] ELSE NoId

\* resolved_path: the fields replaced.
EndPoint(call) == [i \in DOMAIN call.ep.path |->
    IF call.ep.path[i] \in call.ep.inlined THEN <<call.ep.path[i], call.ids[call.ep.path[i]]>>
                                           ELSE <<call.ep.path[i]>>]

\* Mutant: the guild is no part of it.
KeyByChannel(call) ==
    <<IF "webhook_token" \in call.ep.params
        THEN <<Param(call, "webhook_id"), Param(call, "webhook_token")>> ELSE <<>>,
      Param(call, "channel_id"), call.ep.method, EndPoint(call)>>

\* rl_bucket, of a route whose known_bucket nobody has set: the name under which HTTPClient
\* remembers the bucket of the call.
RlBucket(call) ==
    <<IF "webhook_token" \in call.ep.params
        THEN <<Param(call, "webhook_id"), Param(call, "webhook_token")>> ELSE <<>>,
      Param(call, "channel_id"), Param(call, "guild_id"), call.ep.method, EndPoint(call)>>

VARIABLES first, second    \* two calls of one end point, one after the other

vars == <<first, second>>

Init == \E ep \in EndPointSet : first \in CallsOf(ep) /\ second \in CallsOf(ep)

\* request(): one more call.
Request == \E call \in CallsOf(second.ep) : first' = second /\ second' = call

Next == Request

Spec == Init /\ [][Next]_vars

-----------------------------------------------------------------------------
(***************************************************************************)
(* Properties                                                              *)
(***************************************************************************)
\* Every field of every path is given its parameter: format_map raises KeyError on one that is
\* not, and only a call of that very wrapper would show it.
PathsResolve == Fields(first.ep.path) \subseteq first.ep.params \cup first.ep.inlined

\* Two calls of an end point have the same entry in HTTPClient's table of buckets if and only
\* if the channel, guild and webhook that their paths name are the same: requests of one guild
\* are not held up by another's, and those of the same one share what the server told.
Majors(ep) == Fields(ep.path) \cap {"channel_id", "guild_id", "webhook_id", "webhook_token"}
KeysTellApart ==
    RlBucket(first) = RlBucket(second)
        <=> \A m \in Majors(first.ep) \cup first.ep.inlined : first.ids[m] = second.ids[m]

\* What a wrapper hands to Route for the server to see does reach it: only the path of a
\* Route is sent, and what request() itself carries.  Not so for "Get guilds before this guild
\* ID" (http_requests/guild.py:31) and the "webhook object for the given id"
\* (http_requests/webhooks.py:66).
ArgumentsReach == first.ep.params \subseteq Fields(first.ep.path) \cup first.ep.carries
=============================================================================

------------------------------ MODULE Messages ------------------------------
(***************************************************************************)
(* One message in message_cache of GlobalCache                             *)
(* (Interfluxer/client/smart_cache.py), its reactions, and the processors  *)
(* of message and reaction events (api/events/processors/message_events.py *)
(* and reaction_events.py).                                                *)
(*                                                                         *)
(* Events arrive in order and each is handled in a task of its own.  A     *)
(* reaction waits for its author when the author is not cached, so a later *)
(* event may overtake it; one for a message that is not cached asks for    *)
(* the message, whose answer may count what an event on its way counts     *)
(* again.  The cache drops a message at any time (TTLCache).               *)
(***************************************************************************)
EXTENDS Naturals, Sequences, FiniteSets

CONSTANTS
    Emojis,
    None,
    MaxChanges,    \* bound: changes the server makes
    MaxEvents,     \* bound: events on their way
    MaxHandlers    \* bound: handlers and requests that wait at the same time

\* None is no message.
BoundsAssumption == MaxChanges \in Nat /\ None \notin [version : Nat, counts : [Emojis -> Nat]]

VARIABLES
    server,      \* the message at the server: [alive, version, counts]
    events,      \* events on their way
    handlers,    \* handlers and requests that wait
    cached,      \* the cached message, or None
    wrong,       \* history: the cached message is known to be out of step
    changes      \* bound: changes made so far

vars == <<server, events, handlers, cached, wrong, changes>>

Blank == [e \in Emojis |-> 0]     \* an emoji without an entry counts 0
Seen == [version |-> server.version, counts |-> server.counts]

-----------------------------------------------------------------------------
\* The server.  An event carries its number, which tells equal ones apart.

\* What is under way is out of date when the server moves on.
Overtaken(hs) == {[h EXCEPT !.raced = @ \/ h.at = "answered"] : h \in hs}

Send(type, emoji, new) ==
    /\ server.alive /\ changes < MaxChanges /\ Len(events) < MaxEvents
    /\ changes' = changes + 1
    /\ server' = new
    /\ events' = Append(events, [type |-> type, emoji |-> emoji, number |-> changes', version |-> new.version])
    /\ handlers' = Overtaken(handlers)
    /\ UNCHANGED <<cached, wrong>>

Edit == Send("UPDATE", None, [server EXCEPT !.version = @ + 1])
React(e) == Send("ADD", e, [server EXCEPT !.counts[e] = @ + 1])
Unreact(e) == server.counts[e] > 0 /\ Send("REMOVE", e, [server EXCEPT !.counts[e] = @ - 1])
ClearEmoji(e) == Send("REMOVE_EMOJI", e, [server EXCEPT !.counts[e] = 0])
ClearAll == Send("REMOVE_ALL", None, [server EXCEPT !.counts = Blank])
Delete == Send("DELETE", None, [server EXCEPT !.alive = FALSE])
DeleteBulk == Send("DELETE_BULK", None, [server EXCEPT !.alive = FALSE])

-----------------------------------------------------------------------------
\* message_cache

place_message_data(data) == cached' = data     \* from_dict, or update_from_dict
delete_message == cached' = None /\ wrong' = FALSE
Expire == cached # None /\ delete_message /\ UNCHANGED <<server, events, handlers, changes>>

Handler(number, type, emoji, at) ==
    [number |-> number, type |-> type, emoji |-> emoji, at |-> at, answer |-> None, raced |-> FALSE]

\* A request by the user: fetch_message, with force or because the message is not cached.
fetch_message ==
    /\ Cardinality(handlers) < MaxHandlers /\ \A h \in handlers : h.number # 0
    /\ handlers' = handlers \cup {Handler(0, "FETCH", None, "asked")}
    /\ UNCHANGED <<server, events, cached, wrong, changes>>

\* Reactions that will still be counted, or taken away.
Uncounted ==
    {i \in DOMAIN events : events[i].type \notin {"UPDATE", "DELETE", "DELETE_BULK"}} # {}
        \/ \E h \in handlers : h.at = "author"

\* The answer to get_message leaves the server; NotFound ends the handler.
Answered(h) ==
    /\ h \in handlers /\ h.at = "asked"
    /\ handlers' = (handlers \ {h}) \cup
            IF server.alive THEN {[h EXCEPT !.at = "answered", !.answer = Seen, !.raced = Uncounted]} ELSE {}
    /\ UNCHANGED <<server, events, cached, wrong, changes>>

\* The data of a message without reactions does not name them: those of the cached message stay.
KeepsReactions(answer) == cached # None /\ answer.counts = Blank

\* The answer is placed, whatever happened since it left.
AnswerPlaced(h) ==
    /\ h \in handlers /\ h.at = "answered"
    /\ place_message_data(IF KeepsReactions(h.answer) THEN [h.answer EXCEPT !.counts = cached.counts] ELSE h.answer)
    /\ wrong' = (h.raced \/ (wrong /\ cached' # h.answer))
    /\ handlers' = handlers \ {h}
    /\ UNCHANGED <<server, events, changes>>

-----------------------------------------------------------------------------
\* _handle_message_reaction_change, once the author is known.

\* Mutant: whatever happened to a reaction, it counts one more.
CountedUp(type, e) == cached.counts[e] + 1

Changed(type, e) ==
    LET count == cached.counts[e] IN
    IF count = 0
    THEN 1                                             \* no entry: one is made, whatever happened
    ELSE IF type = "ADD" THEN count + 1 ELSE count - 1 \* popped at 0

Counted(type, e) ==
    /\ place_message_data([cached EXCEPT !.counts[e] = Changed(type, e)])
    /\ wrong' = (wrong \/ (type = "REMOVE" /\ cached.counts[e] = 0))

\* The message is looked up after the author was waited for.
AuthorKnown(h) ==
    /\ h \in handlers /\ h.at = "author"
    /\ \/ /\ cached # None
          /\ Counted(h.type, h.emoji)
          /\ handlers' = handlers \ {h}
       \/ /\ cached = None
          /\ handlers' = (handlers \ {h}) \cup {[h EXCEPT !.at = "permission"]}
          /\ UNCHANGED <<cached, wrong>>
    /\ UNCHANGED <<server, events, changes>>

\* fetch_member or fetch_user raises, of an author who has left, say: the reaction is never counted.
AuthorUnknown(h) ==
    /\ h \in handlers /\ h.at = "author"
    /\ handlers' = handlers \ {h}
    /\ wrong' = (wrong \/ cached # None)
    /\ UNCHANGED <<server, events, cached, changes>>

\* _check_message_fetch_permissions, then fetch_message, which looks at the cache again.
PermissionKnown(h) ==
    /\ h \in handlers /\ h.at = "permission"
    /\ \/ handlers' = handlers \ {h}      \* no permission, or cached by now
       \/ cached = None /\ handlers' = (handlers \ {h}) \cup {[h EXCEPT !.at = "asked"]}
    \* an older answer cached the message meanwhile: this reaction is never counted
    /\ wrong' = (wrong \/ cached # None)
    /\ UNCHANGED <<server, events, cached, changes>>

-----------------------------------------------------------------------------
\* The processors, to their first await.

Waits(e, at) ==
    /\ Cardinality(handlers) < MaxHandlers
    /\ handlers' = handlers \cup {Handler(e.number, e.type, e.emoji, at)}
    /\ UNCHANGED <<cached, wrong>>

Reaction(e) ==
    \/ Waits(e, "author")                                                   \* no member in the data
    \/ cached = None /\ Waits(e, "permission")
    \/ cached # None /\ Counted(e.type, e.emoji) /\ UNCHANGED handlers

Cleared(e) ==
    \/ cached = None /\ Waits(e, "asked")
    \/ /\ cached # None
       /\ place_message_data(IF e.type = "REMOVE_ALL" THEN [cached EXCEPT !.counts = Blank]
                                                      ELSE [cached EXCEPT !.counts[e.emoji] = 0])
       /\ wrong' = (wrong \/ \E h \in handlers : h.at = "author")
       /\ UNCHANGED handlers

\* The data of an update holds no reactions: those of a message that was not cached are lost.
Updated(e) ==
    /\ IF cached = None
       THEN place_message_data([version |-> e.version, counts |-> Blank]) /\ wrong' = TRUE
       ELSE place_message_data([cached EXCEPT !.version = e.version]) /\ UNCHANGED wrong
    /\ UNCHANGED handlers

\* _on_raw_message_delete; a request under way brings the message back.
Deleted == delete_message /\ handlers' = Overtaken(handlers)

\* _on_raw_message_delete_bulk only tells the listeners.
DeletedBulk == wrong' = (cached # None) /\ handlers' = Overtaken(handlers) /\ UNCHANGED cached

EventArrives ==
    /\ events # <<>>
    /\ LET e == Head(events) IN
        \/ e.type \in {"ADD", "REMOVE"} /\ Reaction(e)
        \/ e.type \in {"REMOVE_ALL", "REMOVE_EMOJI"} /\ Cleared(e)
        \/ e.type = "UPDATE" /\ Updated(e)
        \/ e.type = "DELETE" /\ Deleted
        \/ e.type = "DELETE_BULK" /\ DeletedBulk
    /\ events' = Tail(events)
    /\ UNCHANGED <<server, changes>>

-----------------------------------------------------------------------------

\* MESSAGE_CREATE placed the message, or it was sent before the client was there.
Init ==
    /\ server = [alive |-> TRUE, version |-> 0, counts |-> Blank]
    /\ cached \in {None, Seen}
    /\ events = <<>> /\ handlers = {} /\ wrong = FALSE /\ changes = 0

Next ==
    \/ Edit \/ ClearAll \/ Delete \/ DeleteBulk
    \/ \E e \in Emojis : React(e) \/ Unreact(e) \/ ClearEmoji(e)
    \/ Expire \/ fetch_message \/ EventArrives
    \/ \E h \in handlers : Answered(h) \/ AnswerPlaced(h) \/ AuthorKnown(h)
                            \/ AuthorUnknown(h) \/ PermissionKnown(h)

Spec == Init /\ [][Next]_vars

-----------------------------------------------------------------------------

TypeOK ==
    /\ cached = None \/ (cached.version \in 0..MaxChanges /\ cached.counts \in [Emojis -> 0..2 * MaxChanges])
    /\ \A h \in handlers : h.at \in {"author", "permission", "asked", "answered"}

Quiet == events = <<>> /\ handlers = {}

\* Once everything has arrived, a cached message is what the server has, with as many of every
\* reaction, unless one of these happened since it was cached: an answer was overtaken by an
\* event or counted one that was still to come, a reaction was removed before it was known or
\* counted after all were removed, its author could not be fetched and it was never counted, or
\* the message was cached from an update.  The handlers of reactions overtake each other and
\* those of edits at their awaits.
InStep == Quiet /\ cached # None /\ ~wrong => server.alive /\ cached = Seen
=============================================================================

----------------------------- MODULE VoiceLink -----------------------------
(***************************************************************************)
(* One VoiceGateway (Interfluxer/api/voice/voice_gateway.py, with the      *)
(* parts of WebsocketClient it inherits) and the ActiveVoiceState it       *)
(* belongs to (models/internal/active_voice_state.py, kept in              *)
(* bot_voice_state_cache): the task of _ws_connect with receive(), the     *)
(* heartbeater, both of which reconnect under _race_lock, the voice server *)
(* with its session, and the events of the bot's own voice state.          *)
(*                                                                         *)
(* Audio is not here: stopping a player that plays is a step of what stops *)
(* it (see Playback).  Messages of the connection come one at a time.      *)
(***************************************************************************)
EXTENDS Naturals

CONSTANTS
    None,
    MaxFaults    \* bound: what goes wrong, and changes of the bot's voice state

VARIABLES
    pc,          \* of the tasks: "rx" runs _ws_connect, "hb" run_bee_gees
    resume,      \* the argument of each one's reconnect()
    owner,       \* who holds _race_lock
    open,        \* _closed: set while there is a connection
    acked, ready, told, killed, closing,   \* _acknowledged, ready, _voice_server_update,
                                           \* _kill_bee_gees, _close_gateway
    link,        \* is the connection up, at the server?
    inbox,       \* the message that is to be received
    beat,        \* a heartbeat to be acknowledged
    session,     \* at the server: "none", "fresh", "offered", "selected", "described", "lost"
    inChannel,   \* is the bot in a voice channel?
    pending,     \* events of its voice state that are on their way
    cached,      \* in bot_voice_state_cache: "not yet", "yes", "gone"
    copied,      \* a copy of the ActiveVoiceState, which a handler has made
    hurt,        \* history: a HELLO or the answer of the IP discovery did not come
    faults       \* bound: faults so far

control == <<pc, resume, owner, open>>
flags == <<acked, ready, told, killed, closing>>
wire == <<link, inbox, beat, session>>
voice == <<inChannel, pending, cached, copied>>
vars == <<control, flags, wire, voice, hurt, faults>>

Tasks == {"rx", "hb"}
Closes == {"NEW", "RESUME"}      \* 4006, 4009 and 4014; 4015
Messages == Closes \cup {"CLOSED", "FATAL", "HELLO", "READY", "DESCRIPTION", "ACK"}

NoneAssumption == None \notin Tasks \cup Messages

At(t, p) == pc[t] = p
Goes(t, p) == pc' = [pc EXCEPT ![t] = p]
Fault == faults < MaxFaults /\ faults' = faults + 1

Freed(t) == owner' = IF owner = t THEN None ELSE owner

\* What t is doing raises: run() ends, and __aexit__ kills the heartbeater and waits for it; the
\* heartbeater closes the gateway.
Raises(t) ==
    /\ Goes(t, IF t = "rx" THEN "exit" ELSE "over")
    /\ Freed(t)
    /\ closing' = TRUE /\ killed' = (killed \/ t = "rx")

-----------------------------------------------------------------------------
\* reconnect(), of either task

\* The socket is closed, which sends a receive() that is waiting for it back to _closed; a new
\* session waits for the new voice server first.
TakesLock(t) ==
    /\ At(t, "lock") /\ owner = None
    /\ owner' = t /\ open' = FALSE
    /\ link' = FALSE /\ inbox' = None /\ beat' = FALSE
    /\ pc' = [u \in Tasks |-> IF u = t THEN (IF resume[t] THEN "connect" ELSE "update")
                              ELSE IF pc[u] = "read" THEN "waitOpen" ELSE pc[u]]
    /\ UNCHANGED <<resume, flags, session, voice, hurt, faults>>

Updated(t) ==
    /\ At(t, "update") /\ told
    /\ told' = FALSE
    /\ Goes(t, "connect")
    /\ UNCHANGED <<resume, owner, open, acked, ready, killed, closing, wire, voice, hurt, faults>>

\* Mutant: the gateway is not closed.
UpdateTimesOutOpen(t) ==
    /\ At(t, "update") /\ ~told
    /\ killed' = TRUE
    /\ Goes(t, "waitOpen") /\ Freed(t)
    /\ UNCHANGED <<resume, open, acked, ready, told, closing, wire, voice, hurt, faults>>

UpdateTimesOut(t) ==
    /\ At(t, "update") /\ ~told
    /\ killed' = TRUE /\ closing' = TRUE
    /\ Goes(t, "waitOpen") /\ Freed(t)
    /\ UNCHANGED <<resume, open, acked, ready, told, wire, voice, hurt, faults>>

Connects(t) ==
    /\ At(t, "connect")
    /\ \/ link' = TRUE /\ Goes(t, "hello") /\ UNCHANGED <<owner, killed, closing, faults>>
       \/ Fault /\ Raises(t) /\ UNCHANGED link
    /\ UNCHANGED <<resume, open, acked, ready, told, inbox, beat, session, voice, hurt>>

\* HELLO: IDENTIFY or RESUME is sent.  The heartbeater goes on to its heartbeat.
Greeted(t) ==
    /\ At(t, "hello") /\ inbox = "HELLO"
    /\ inbox' = None
    /\ session' = IF resume[t] THEN session ELSE IF inChannel THEN "fresh" ELSE "lost"
    /\ open' = TRUE /\ owner' = None
    /\ acked' = (t = "rx")
    /\ Goes(t, IF t = "rx" THEN "waitOpen" ELSE "send")
    /\ UNCHANGED <<resume, ready, told, killed, closing, link, beat, voice, hurt, faults>>

\* Another message in its place: RuntimeError, or a close that can be recovered from, calls
\* reconnect() again, in the arms of _race_lock.
NotGreeted(t) ==
    /\ At(t, "hello") /\ inbox \in Closes \cup {"CLOSED", "FATAL"}
    /\ inbox' = None
    /\ IF inbox = "FATAL"
       THEN Raises(t) /\ UNCHANGED <<resume, ready, hurt>>
       ELSE /\ Goes(t, "lock")
            /\ resume' = IF inbox = "CLOSED" THEN resume ELSE [resume EXCEPT ![t] = inbox = "RESUME"]
            /\ ready' = (ready /\ inbox = "CLOSED")
            /\ hurt' = TRUE
            /\ UNCHANGED <<owner, killed, closing>>
    /\ UNCHANGED <<open, acked, told, link, beat, session, voice, faults>>

reconnect(t) ==
    TakesLock(t) \/ Updated(t) \/ UpdateTimesOut(t) \/ Connects(t) \/ Greeted(t) \/ NotGreeted(t)

-----------------------------------------------------------------------------
\* _ws_connect

\* __aenter__: HELLO and IDENTIFY.  Anything else ends the task, with nobody told, at once or
\* when what follows is taken for the HELLO.
Enter ==
    /\ At("rx", "enter") /\ inbox # None
    /\ inbox' = None
    /\ IF inbox = "HELLO"
       THEN /\ open' = TRUE /\ session' = IF inChannel THEN "fresh" ELSE "lost"
            /\ pc' = [rx |-> "waitOpen", hb |-> "sleep"]
       ELSE Goes("rx", "over") /\ UNCHANGED <<open, session>>
    /\ UNCHANGED <<resume, owner, flags, link, beat, voice, hurt, faults>>

\* The top of receive().
Looks ==
    /\ At("rx", "waitOpen") /\ open
    /\ Goes("rx", "read")
    /\ UNCHANGED <<resume, owner, open, flags, wire, voice, hurt, faults>>

\* Mutant: ready is not cleared.
ClosedReady(m) ==
    /\ resume' = [resume EXCEPT !["rx"] = m # "NEW"]
    /\ Goes("rx", "lock")
    /\ UNCHANGED <<ready, acked, owner, killed, closing>>

\* The server's close frame, or the end of the connection without one.
Closed(m) ==
    /\ resume' = [resume EXCEPT !["rx"] = m # "NEW"]
    /\ Goes("rx", "lock")
    /\ ready' = (ready /\ m \notin Closes)
    /\ UNCHANGED <<acked, owner, killed, closing>>

\* dispatch_opcode, READY and SESSION_DESCRIPTION.
Dispatched(m) ==
    /\ Goes("rx", IF m = "READY" THEN "discover" ELSE "waitOpen")
    /\ ready' = (ready \/ m = "DESCRIPTION")
    /\ acked' = (acked \/ m = "ACK")
    /\ UNCHANGED <<resume, owner, killed, closing>>

receive ==
    /\ At("rx", "read") /\ inbox # None
    /\ inbox' = None
    /\ \/ inbox \in Closes \cup {"CLOSED"} /\ Closed(inbox)
       \/ inbox = "FATAL" /\ Raises("rx") /\ UNCHANGED <<resume, ready, acked>>
       \/ inbox \in {"READY", "DESCRIPTION", "ACK"} /\ Dispatched(inbox)
    /\ UNCHANGED <<open, told, link, beat, session, voice, hurt, faults>>

\* The IP discovery waits for one UDP packet, without a limit; SELECT_PROTOCOL is sent under the lock.
establish_voice_socket ==
    /\ At("rx", "discover")
    /\ \/ /\ owner = None
          /\ Goes("rx", "waitOpen")
          /\ session' = IF session = "offered" THEN "selected" ELSE session
          /\ UNCHANGED <<hurt, faults>>
       \/ Fault /\ hurt' = TRUE /\ Goes("rx", "deaf") /\ UNCHANGED session
    /\ UNCHANGED <<resume, owner, open, flags, link, inbox, beat, voice>>

\* run(): a gateway that is closed cancels the receive(), wherever that is.
Stops ==
    /\ closing /\ pc["rx"] \in {"waitOpen", "read", "lock", "update", "connect", "hello"}
    /\ Raises("rx")
    /\ UNCHANGED <<resume, open, acked, ready, told, wire, voice, hurt, faults>>

\* __aexit__ has waited for the heartbeater.  _closed stays as it is.
Exits ==
    /\ At("rx", "exit") /\ At("hb", "over")
    /\ Goes("rx", "over")
    /\ link' = FALSE /\ inbox' = None
    /\ UNCHANGED <<resume, owner, open, flags, beat, session, voice, hurt, faults>>

Rx == Enter \/ Looks \/ receive \/ establish_voice_socket \/ Stops \/ Exits \/ reconnect("rx")

-----------------------------------------------------------------------------
\* The heartbeater

\* A heartbeat is due.  That the last one is not acknowledged by then is a fault.
Beats ==
    /\ At("hb", "sleep")
    /\ \/ killed /\ Goes("hb", "over") /\ UNCHANGED <<acked, resume, faults>>
       \/ ~killed /\ acked /\ Goes("hb", "send") /\ acked' = FALSE /\ UNCHANGED <<resume, faults>>
       \/ ~killed /\ ~acked /\ Goes("hb", "lock") /\ resume' = [resume EXCEPT !["hb"] = TRUE] /\ Fault
          /\ UNCHANGED acked
    /\ UNCHANGED <<owner, open, ready, told, killed, closing, wire, voice, hurt>>

\* On a connection that the server has closed send_str may raise; without one nothing is sent.
send_heartbeat ==
    /\ At("hb", "send") /\ owner = None
    /\ \/ link /\ beat' = TRUE /\ Goes("hb", "sleep") /\ UNCHANGED <<owner, killed, closing>>
       \/ ~link /\ UNCHANGED beat /\ Goes("hb", "sleep") /\ UNCHANGED <<owner, killed, closing>>
       \/ ~link /\ UNCHANGED beat /\ Raises("hb")
    /\ UNCHANGED <<resume, open, acked, ready, told, link, inbox, session, voice, hurt, faults>>

Hb == Beats \/ send_heartbeat \/ reconnect("hb")

-----------------------------------------------------------------------------
\* The voice server

Sends(m) == link /\ inbox = None /\ inbox' = m

Greets ==
    /\ \E t \in Tasks : pc[t] \in {"enter", "hello"}
    /\ Sends("HELLO")
    /\ UNCHANGED <<control, flags, link, beat, session, voice, hurt, faults>>

Answers ==
    /\ open
    /\ \/ session = "fresh" /\ Sends("READY") /\ session' = "offered" /\ UNCHANGED beat
       \/ session = "selected" /\ Sends("DESCRIPTION") /\ session' = "described" /\ UNCHANGED beat
       \/ beat /\ Sends("ACK") /\ beat' = FALSE /\ UNCHANGED session
    /\ UNCHANGED <<control, flags, link, voice, hurt, faults>>

\* The connection of a session that is lost is closed ...
Refuses ==
    /\ open /\ session = "lost" /\ Sends("NEW")
    /\ link' = FALSE
    /\ UNCHANGED <<control, flags, beat, session, voice, hurt, faults>>

\* ... and any other may be.
Breaks ==
    /\ Fault
    /\ \E m \in Closes \cup {"CLOSED", "FATAL"} :
        /\ Sends(m)
        /\ session' = IF m = "NEW" THEN "lost" ELSE session
    /\ link' = FALSE
    /\ UNCHANGED <<control, flags, beat, voice, hurt>>

-----------------------------------------------------------------------------
\* The bot's voice state

\* It is muted, or moved to another voice server, or leaves.
Changes ==
    /\ inChannel /\ Fault
    /\ \/ pending' = pending \cup {"state"} /\ UNCHANGED <<inChannel, session>>
       \/ pending' = pending \cup {"state", "server"} /\ session' = "lost" /\ UNCHANGED inChannel
       \/ pending' = pending \cup {"left"} /\ session' = "lost" /\ inChannel' = FALSE
    /\ UNCHANGED <<control, flags, link, inbox, beat, cached, copied, hurt>>

\* voice_connect: connect() waits for ready, without a limit, and the state is cached then.
voice_connect ==
    /\ cached = "not yet" /\ ready
    /\ cached' = "yes"
    /\ UNCHANGED <<control, flags, wire, inChannel, pending, copied, hurt, faults>>

\* ActiveVoiceState._close_connection and __del__ close the gateway, if it is connected.
ClosesIfOpen == closing' = (closing \/ open)

\* VOICE_STATE_UPDATE of the bot: the handler works on a copy of the cached state.
StateArrives ==
    /\ "state" \in pending
    /\ pending' = pending \ {"state"}
    /\ copied' = (copied \/ cached = "yes")
    /\ UNCHANGED <<control, flags, wire, inChannel, cached, hurt, faults>>

LeftArrives ==
    /\ "left" \in pending
    /\ pending' = pending \ {"left"}
    /\ IF cached = "yes" THEN cached' = "gone" /\ copied' = TRUE /\ ClosesIfOpen
                         ELSE UNCHANGED <<cached, copied, closing>>
    /\ UNCHANGED <<control, acked, ready, told, killed, wire, inChannel, hurt, faults>>

\* VOICE_SERVER_UPDATE: set_new_voice_server.
ServerArrives ==
    /\ "server" \in pending
    /\ pending' = pending \ {"server"}
    /\ told' = (told \/ cached = "yes")
    /\ UNCHANGED <<control, acked, ready, killed, closing, wire, inChannel, cached, copied, hurt, faults>>

\* Nobody needs the copy any more: __del__.
CopyDies ==
    /\ copied
    /\ copied' = FALSE
    /\ ClosesIfOpen
    /\ UNCHANGED <<control, acked, ready, told, killed, wire, inChannel, pending, cached, hurt, faults>>

Events == StateArrives \/ LeftArrives \/ ServerArrives \/ CopyDies

-----------------------------------------------------------------------------

Init ==
    /\ pc = [rx |-> "enter", hb |-> "off"]
    /\ resume = [t \in Tasks |-> FALSE] /\ owner = None /\ open = FALSE
    /\ acked = TRUE /\ ready = FALSE /\ told = FALSE /\ killed = FALSE /\ closing = FALSE
    /\ link = TRUE /\ inbox = None /\ beat = FALSE /\ session = "none"
    /\ inChannel = TRUE /\ pending = {} /\ cached = "not yet" /\ copied = FALSE
    /\ hurt = FALSE /\ faults = 0

Next ==
    \/ Rx \/ Hb
    \/ Greets \/ Answers \/ Refuses \/ Breaks
    \/ Changes \/ voice_connect \/ Events

Spec == Init /\ [][Next]_vars

\* The tasks go on, and get the lock and the event they wait for in their turn.  The server greets
\* and closes what is lost, and its events arrive.
FairSpec ==
    /\ Spec
    /\ SF_vars(Rx) /\ SF_vars(Hb)
    /\ WF_vars(Greets) /\ SF_vars(Refuses) /\ WF_vars(Events)

-----------------------------------------------------------------------------

TypeOK ==
    /\ owner \in Tasks \cup {None}
    /\ session \in {"none", "fresh", "offered", "selected", "described", "lost"}
    /\ pending \subseteq {"state", "server", "left"}

\* ready says that the secret key is that of the session: whoever reconnects and however, no
\* packet is sent under the key of an earlier session once a new one has begun.
KeyIsCurrent == ready => session \in {"described", "lost"}

\* A connection that was lost is made anew or given up, by whichever task; and the gateway of a bot
\* that has left its channel is given up, whatever it is doing when the event arrives, and though
\* _close_connection leaves a gateway alone that is reconnecting.  (Unless a HELLO fails to come or
\* the answer of an IP discovery is lost.)
Over == At("rx", "over")
Linked == open /\ inChannel
Settled == Linked \/ Over \/ hurt
LinkSettles == ~Linked ~> Settled

\* Nobody waits in vain: who holds _race_lock is on the way to release it (unless it calls reconnect()
\* again there), and a receive() without a connection has a heartbeater that makes one, or is stopped.
LinkIsAwaited ==
    /\ owner = None \/ pc[owner] \in {"update", "connect", "hello"} \/ hurt
    /\ At("rx", "waitOpen") /\ ~open => closing \/ owner = "hb"

\* voice_gateway.py:247, of a HELLO that does not come: "sometimes the initial connection fails with
\* voice gateways, handle that".  The connection that failed is made anew or given up.
FailureHandled == (\E t \in Tasks : At(t, "lock") /\ owner = t) ~> open \/ Over

\* "Move to another voice channel" (active_voice_state.py:169): a bot that stays in voice keeps its
\* connection.  Not so: the copy of its state closes the gateway when it dies.
StaysConnected == [][CopyDies /\ cached = "yes" => closing' = closing]_vars

\* "Is this voice state currently connected?" (active_voice_state.py:91).  Not so: _closed stays set
\* when the gateway is over.
ConnectedIsUp == Over => ~open
=============================================================================

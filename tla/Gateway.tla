------------------------------ MODULE Gateway ------------------------------
(***************************************************************************)
(* One shard's gateway connection: Interfluxer/api/gateway/websocket.py,   *)
(* gateway.py and state.py.  Four kinds of asyncio tasks share one         *)
(* GatewayClient:                                                          *)
(*                                                                         *)
(*   "shard"  ConnectionState._ws_connect: __aenter__, run, __aexit__      *)
(*   "recv"   the receive() task that run() creates for every message      *)
(*   "beat"   run_bee_gees, the heartbeater                                *)
(*   Senders  user tasks calling change_presence, request_member_chunks... *)
(*                                                                         *)
(* and Client.stop() runs beside them.  An action is the code a task runs  *)
(* between two awaits that can suspend it; pc[t] names the await t is at.  *)
(* The server and the network are the environment: what they may do        *)
(* beyond answering is the set ServerMay.                                  *)
(***************************************************************************)
EXTENDS Naturals, Sequences

CONSTANTS
    Senders,             \* user tasks that send over the gateway
    NoOne,               \* the owner of a lock nobody holds
    MaxConns,            \* bound: connections opened; a later attempt fails
    MaxEvents,           \* bound: events of one session
    MaxRx,               \* bound: frames received and not yet read
    ServerMay,           \* what the environment does in this instance
    CloseWakesReceive    \* does closing the HTTP session end a pending receive()?
                         \* (aiohttp >= 3.12.4: yes, says websocket.py:212)

Loops == {"shard", "recv", "beat"}
Tasks == Loops \cup Senders

\* How a frame that ends a connection closes it: resumable, with a new session, or fatal.
CloseKinds == {"CLOSE", "CLOSE_NEW", "CLOSE_FATAL"}
DataKinds == {"READY", "RESUMED", "EVENT", "ACK", "HEARTBEAT", "RECONNECT", "INVALIDATE"}
Kinds == {"HELLO", "PART"} \cup DataKinds \cup CloseKinds
Errors == {"h500", "fatal", "other"}
Environment == {"HEARTBEAT", "RECONNECT", "INVALIDATE", "PART"} \cup CloseKinds
                 \cup {"ZOMBIE", "DROP", "FAIL", "H500"}

ASSUME NoOneAssumption == NoOne \notin Tasks
ASSUME SendersAssumption == Senders \cap Loops = {}
ASSUME BoundsAssumption == MaxConns \in Nat /\ MaxEvents \in Nat /\ MaxRx \in Nat
ASSUME ServerAssumption == ServerMay \subseteq Environment /\ CloseWakesReceive \in BOOLEAN

VARIABLES
    pc,          \* task -> the await it is suspended at
    lock,        \* _race_lock: its owner
    resume,      \* task -> the resume argument of the reconnect() it is in
    ws,          \* the connection in self.ws, 0 for None
    closedEv,    \* _closed, set while the connection is usable
    acked,       \* _acknowledged
    kill,        \* _kill_bee_gees
    closeGw,     \* _close_gateway
    sess,        \* session_id, 0 for None
    seq,         \* sequence, 0 for None
    gwSet,       \* is ConnectionState.gateway this instance?
    shardReady,  \* ConnectionState._shard_ready
    clientReady, \* Client._ready
    settling,    \* READY and RESUMED listeners that will set Client._ready
    got,         \* what the receive task returned or raised
    buf,         \* connection whose partial message receive() buffers, 0 for none
    exc,         \* the exception that ended run(), or "none"
    stop,        \* Client.stop(): "no", "gateway", "join", "done"
    conns,       \* connections opened so far
    live,        \* connections opened and not closed by the client
    rx,          \* frames the current connection has delivered, unread
    peer,        \* "up", "dead" (silent), "dropped", or "closed" with the session
    wire,        \* the last kind of frame sent over the current connection
    hb,          \* has the server a heartbeat to acknowledge?
    ask,         \* the IDENTIFY or RESUME the server has to answer
    on,          \* has the server a session on the current connection?
    valid,       \* the session the server lets a client resume, 0 for none
    spos,        \* the last event it sent on the current connection
    sessions,    \* sessions created so far
    last         \* history: session and number of the last event dispatched

taskVars  == <<pc, lock, resume, got, buf, exc>>
clientVars == <<ws, closedEv, acked, kill, closeGw, gwSet>>
sessVars  == <<sess, seq, last>>
readyVars == <<shardReady, clientReady, settling>>
netVars   == <<conns, live, rx, peer, wire, hb>>
srvVars   == <<ask, on, valid, spos, sessions>>
vars == <<taskVars, clientVars, sessVars, readyVars, netVars, srvVars, stop>>

Frame(k) == [k |-> k, s |-> 0, n |-> 0]
Event(k, s, n) == [k |-> k, s |-> s, n |-> n]
Raise(e) == Frame(e)          \* receive() leaves with an exception
Nothing == Frame("NOTHING")
Noop == Frame("NOOP")
NoAsk == [k |-> "none", s |-> 0, n |-> 0]

\* Mutant: stop() does not close the HTTP session.
httpStaysOpen == FALSE

httpClosed == stop # "no"

RcPcs == {"rcLock", "rcClose", "rcConnect", "rcHello"}
ShardPcs == {"connect", "hello", "run", "hbLock", "exit", "backoff", "ended"} \cup RcPcs
RecvPcs == {"none", "wait", "woken", "socket", "done"} \cup RcPcs
BeatPcs == {"none", "first", "sleep", "hbLock", "done"} \cup RcPcs
SenderPcs == {"idle", "lock", "rate"}

Frames == [k : Kinds, s : Nat, n : Nat]
Results == [k : {"NOTHING", "NOOP"} \cup DataKinds \cup Errors, s : Nat, n : Nat]

TypeTasks ==
    /\ pc \in [Tasks -> ShardPcs \cup RecvPcs \cup BeatPcs \cup SenderPcs]
    /\ pc["shard"] \in ShardPcs /\ pc["recv"] \in RecvPcs /\ pc["beat"] \in BeatPcs
    /\ \A s \in Senders : pc[s] \in SenderPcs
    /\ lock \in Tasks \cup {NoOne}

TypeFlags ==
    /\ resume \in [Loops -> BOOLEAN]
    /\ closedEv \in BOOLEAN /\ acked \in BOOLEAN /\ kill \in BOOLEAN
    /\ closeGw \in BOOLEAN /\ gwSet \in BOOLEAN
    /\ shardReady \in BOOLEAN /\ clientReady \in BOOLEAN
    /\ hb \in BOOLEAN /\ on \in BOOLEAN

TypeData ==
    /\ got \in Results
    /\ buf \in Nat /\ ws \in Nat /\ conns \in Nat
    /\ exc \in Errors \cup {"none"}
    /\ sess \in Nat /\ seq \in Nat /\ settling \in Nat
    /\ stop \in {"no", "gateway", "join", "done"}
    /\ live \subseteq Nat
    /\ rx \in Seq(Frames)
    /\ peer \in {"up", "dead", "dropped", "closed"}
    /\ wire \in {"none", "auth", "hb", "msg"}
    /\ ask \in [k : {"none", "identify", "resume"}, s : Nat, n : Nat]
    /\ valid \in Nat /\ spos \in Nat /\ sessions \in Nat
    /\ last \in [s : Nat, n : Nat]

TypeOK == TypeTasks /\ TypeFlags /\ TypeData

Init ==
    /\ pc = [t \in Tasks |-> CASE t = "shard" -> "connect"
                               [] t \in Senders -> "idle"
                               [] OTHER -> "none"]
    /\ lock = NoOne
    /\ resume = [t \in Loops |-> FALSE]
    /\ got = Nothing /\ buf = 0 /\ exc = "none"
    /\ ws = 0 /\ closedEv = FALSE /\ acked = TRUE /\ kill = FALSE
    /\ closeGw = FALSE /\ gwSet = FALSE
    /\ sess = 0 /\ seq = 0 /\ last = [s |-> 0, n |-> 0]
    /\ shardReady = FALSE /\ clientReady = FALSE /\ settling = 0
    /\ conns = 0 /\ live = {} /\ rx = <<>> /\ peer = "dropped"
    /\ wire = "none" /\ hb = FALSE
    /\ ask = NoAsk /\ on = FALSE /\ valid = 0 /\ spos = 0 /\ sessions = 0
    /\ stop = "no"

-----------------------------------------------------------------------------
(* Pieces the handlers share. *)

Writable == ws # 0 /\ peer \in {"up", "dead"}

\* Mutant: no lock around reconnect() and send().
NoRaceLock == TRUE

\* async with self._race_lock can be entered.
LockFree == lock = NoOne

\* Mutant: receive() does not wait for _closed.
NoWait == "socket"

\* await self._closed.wait() returns at once while the event is set.
AfterWait == IF closedEv THEN "socket" ELSE "wait"

\* http.websocket_connect() succeeded; the server speaks first: HELLO, or a close.
Open ==
    /\ ~httpClosed /\ conns < MaxConns
    /\ conns' = conns + 1
    /\ ws' = conns + 1
    /\ live' = live \cup {conns + 1}
    /\ \E k \in {"HELLO"} \cup (ServerMay \cap CloseKinds) : rx' = <<Frame(k)>>
    /\ peer' = "up" /\ wire' = "none" /\ hb' = FALSE
    /\ ask' = NoAsk /\ on' = FALSE
    /\ UNCHANGED <<valid, spos, sessions>>

\* What http.websocket_connect() may raise; past the bound, only that.
ConnectErrors ==
    (IF httpClosed \/ conns = MaxConns \/ "FAIL" \in ServerMay THEN {"other"} ELSE {})
      \cup (IF "H500" \in ServerMay /\ ~httpClosed THEN {"h500"} ELSE {})

\* The first frame of the connection in self.ws, as receive(force=True) reads it.
HelloArrives == rx # <<>> /\ Head(rx).k = "HELLO"

\* Why receive(force=True), or the send of the first payload after it, raises.
HelloErrors ==
    IF HelloArrives THEN (IF Writable THEN {} ELSE {"other"})
    ELSE IF rx # <<>> THEN (IF Head(rx).k = "CLOSE_FATAL" THEN {"fatal"} ELSE {"other"})
    ELSE IF peer \in {"dropped", "closed"} THEN {"other"} ELSE {}

\* _identify() or _resume_connection(): the first payload of a connection.
Authenticate(r) ==
    /\ Writable
    /\ wire' = "auth"
    /\ ask' = IF peer # "up" THEN NoAsk
              ELSE IF r THEN [k |-> "resume", s |-> sess, n |-> seq]
              ELSE [k |-> "identify", s |-> 0, n |-> 0]

\* run() ends, with exception e or "none": _ws_connect's finally, then __aexit__
\* up to the heartbeater it waits for.
Leave(e) ==
    /\ exc' = e
    /\ closeGw' = TRUE /\ kill' = TRUE
    /\ shardReady' = FALSE

\* GatewayClient.reconnect() up to the lock: the readiness is dropped first.
StartReconnect(t, r) ==
    /\ resume' = [resume EXCEPT ![t] = r]
    /\ shardReady' = FALSE /\ clientReady' = FALSE
    /\ UNCHANGED settling

\* Mutant: a heartbeater that fails does not close the gateway.
RaisedUnnoticed(t, e) ==
    \/ /\ t = "recv"
       /\ pc' = [pc EXCEPT !["recv"] = "done"]
       /\ got' = Raise(e)
       /\ UNCHANGED <<exc, closeGw, kill, shardReady>>
    \/ /\ t = "beat"
       /\ pc' = [pc EXCEPT !["beat"] = "done"]
       /\ UNCHANGED <<got, exc, closeGw, kill, shardReady>>
    \/ /\ t = "shard"
       /\ pc' = [pc EXCEPT !["shard"] = "exit"]
       /\ Leave(e)
       /\ UNCHANGED got

\* An exception e leaves task t inside reconnect() or send().
Raised(t, e) ==
    \/ /\ t = "recv"
       /\ pc' = [pc EXCEPT !["recv"] = "done"]
       /\ got' = Raise(e)
       /\ UNCHANGED <<exc, closeGw, kill, shardReady>>
    \/ /\ t = "beat"      \* run_bee_gees closes the gateway and swallows it
       /\ pc' = [pc EXCEPT !["beat"] = "done"]
       /\ closeGw' = TRUE
       /\ UNCHANGED <<got, exc, kill, shardReady>>
    \/ /\ t = "shard"
       /\ pc' = [pc EXCEPT !["shard"] = "exit"]
       /\ Leave(e)
       /\ UNCHANGED got

\* run() creates the task for its next receive().
NextReceive ==
    /\ pc' = [pc EXCEPT !["recv"] = AfterWait]
    /\ got' = Nothing
    /\ buf' = 0

-----------------------------------------------------------------------------
(* The shard: __aenter__, run, __aexit__, and _ws_connect around them. *)

EnterConnect ==
    /\ pc["shard"] = "connect"
    /\ \/ /\ Open
          /\ pc' = [pc EXCEPT !["shard"] = "hello"]
          /\ UNCHANGED exc
       \/ /\ \E e \in ConnectErrors :
                /\ exc' = e
                /\ pc' = [pc EXCEPT !["shard"] = IF e = "h500" THEN "backoff" ELSE "ended"]
          /\ UNCHANGED <<conns, live, rx, peer, wire, hb, srvVars, ws>>
    /\ UNCHANGED <<lock, resume, got, buf, closedEv, acked, kill, closeGw, gwSet,
                   sessVars, readyVars, stop>>

\* HELLO arrived: the heartbeater is created, IDENTIFY sent, and run() begins.
EnterHello ==
    /\ pc["shard"] = "hello" /\ HelloArrives
    /\ Authenticate(FALSE)
    /\ closedEv' = TRUE
    /\ gwSet' = TRUE
    /\ pc' = [pc EXCEPT !["shard"] = "run", !["beat"] = "first", !["recv"] = "socket"]
    /\ rx' = Tail(rx)
    /\ UNCHANGED <<lock, resume, got, buf, exc, ws, acked, kill, closeGw, sessVars, readyVars,
                   conns, live, peer, hb, on, valid, spos, sessions, stop>>

\* __aenter__ raises: __aexit__ does not run, self.ws stays as it is.
EnterFails ==
    /\ pc["shard"] = "hello"
    /\ \E e \in HelloErrors : exc' = e
    /\ pc' = [pc EXCEPT !["shard"] = "ended", !["beat"] = IF HelloArrives THEN "first" ELSE @]
    /\ closedEv' = HelloArrives
    /\ UNCHANGED <<lock, resume, got, buf, ws, acked, kill, closeGw, gwSet, sessVars, readyVars,
                   netVars, srvVars, stop>>

\* Mutant: only READY records the sequence.
DispatchStale(f) ==
    /\ seq' = IF f.k = "READY" THEN f.n ELSE seq
    /\ sess' = IF f.k = "READY" THEN f.s ELSE sess
    /\ last' = IF f.n # 0 THEN [s |-> f.s, n |-> f.n] ELSE last
    /\ shardReady' = (shardReady \/ f.k = "RESUMED")
    /\ settling' = IF f.k \in {"READY", "RESUMED"} THEN settling + 1 ELSE settling
    /\ UNCHANGED clientReady

\* dispatch_event: READY and RESUMED also start a listener that will set Client._ready.
Dispatch(f) ==
    /\ seq' = IF f.n # 0 THEN f.n ELSE seq
    /\ sess' = IF f.k = "READY" THEN f.s ELSE sess
    /\ last' = IF f.n # 0 THEN [s |-> f.s, n |-> f.n] ELSE last
    /\ shardReady' = (shardReady \/ f.k = "RESUMED")
    /\ settling' = IF f.k \in {"READY", "RESUMED"} THEN settling + 1 ELSE settling
    /\ UNCHANGED clientReady

\* run(): a dispatched event, an ACK or the internal no-op; then the next receive().
RunEvent ==
    /\ pc["shard"] = "run" /\ pc["recv"] = "done"
    /\ \/ got.k \in {"READY", "RESUMED", "EVENT"} /\ Dispatch(got) /\ UNCHANGED acked
       \/ got.k = "ACK" /\ acked' = TRUE /\ UNCHANGED <<sessVars, readyVars>>
       \/ got = Noop /\ UNCHANGED <<acked, sessVars, readyVars>>
    /\ NextReceive
    /\ UNCHANGED <<lock, resume, exc, ws, closedEv, kill, closeGw, gwSet, netVars, srvVars, stop>>

\* run(): an opcode that is awaited before anything more is received.
RunOpcode ==
    /\ pc["shard"] = "run" /\ pc["recv"] = "done"
    /\ \/ /\ got.k = "HEARTBEAT"
          /\ pc' = [pc EXCEPT !["shard"] = "hbLock", !["recv"] = "none"]
          /\ UNCHANGED <<resume, readyVars>>
       \/ /\ got.k \in {"RECONNECT", "INVALIDATE"}
          /\ pc' = [pc EXCEPT !["shard"] = "rcLock", !["recv"] = "none"]
          /\ StartReconnect("shard", got.k = "RECONNECT")
    /\ got' = Nothing
    /\ UNCHANGED <<lock, buf, exc, clientVars, sessVars, netVars, srvVars, stop>>

\* run(): the receive task raised.
RunRaises ==
    /\ pc["shard"] = "run" /\ pc["recv"] = "done" /\ got.k \in Errors
    /\ pc' = [pc EXCEPT !["shard"] = "exit", !["recv"] = "none"]
    /\ got' = Nothing
    /\ Leave(got.k)
    /\ UNCHANGED <<lock, resume, buf, ws, closedEv, acked, gwSet, sessVars, clientReady, settling,
                   netVars, srvVars, stop>>

\* run(): _close_gateway is set and no message is there; the receive task is cancelled,
\* and gives back the lock if it was reconnecting.
RunStops ==
    /\ pc["shard"] = "run" /\ closeGw /\ pc["recv"] # "done"
    /\ pc' = [pc EXCEPT !["shard"] = "exit", !["recv"] = "none"]
    /\ lock' = IF lock = "recv" THEN NoOne ELSE lock
    /\ Leave("none")
    /\ UNCHANGED <<resume, got, buf, ws, closedEv, acked, gwSet, sessVars, clientReady, settling,
                   netVars, srvVars, stop>>

\* Mutant: self.ws is forgotten without being closed.
Forget ==
    /\ ws' = 0 /\ live' = live
    /\ rx' = <<>> /\ peer' = "dropped" /\ hb' = FALSE
    /\ ask' = NoAsk /\ on' = FALSE
    /\ UNCHANGED <<conns, wire, valid, spos, sessions>>

\* self.ws is closed and forgotten; the server's side of the connection is over.
Close ==
    /\ ws' = 0
    /\ live' = live \ {ws}
    /\ rx' = <<>> /\ peer' = "dropped" /\ hb' = FALSE
    /\ ask' = NoAsk /\ on' = FALSE
    /\ UNCHANGED <<conns, wire, valid, spos, sessions>>

\* __aexit__: the heartbeater has ended; only a 5xx of the handshake is retried.
ExitClose ==
    /\ pc["shard"] = "exit" /\ pc["beat"] = "done"
    /\ Close
    /\ pc' = [pc EXCEPT !["shard"] = IF exc = "h500" THEN "backoff" ELSE "ended"]
    /\ UNCHANGED <<lock, resume, got, buf, exc, closedEv, acked, kill, closeGw, gwSet,
                   sessVars, readyVars, stop>>

\* The backoff is over: a new GatewayClient, which ConnectionState.gateway does not name
\* yet.  Senders of the old one find its ws gone and end without touching the new one.
Retry ==
    /\ pc["shard"] = "backoff"
    /\ pc' = [t \in Tasks |-> CASE t = "shard" -> "connect" [] t \in Senders -> "idle"
                              [] OTHER -> "none"]
    /\ lock' = NoOne
    /\ resume' = [t \in Loops |-> FALSE]
    /\ got' = Nothing /\ buf' = 0 /\ exc' = "none"
    /\ closedEv' = FALSE /\ acked' = TRUE /\ kill' = FALSE
    /\ closeGw' = FALSE /\ gwSet' = FALSE
    /\ sess' = 0 /\ seq' = 0
    /\ UNCHANGED <<ws, last, readyVars, netVars, srvVars, stop>>

-----------------------------------------------------------------------------
(* receive(), in the task run() creates. *)

\* The event it waited for was set; self.ws is read only now.
ReceiveWoken ==
    /\ pc["recv"] = "woken"
    /\ pc' = [pc EXCEPT !["recv"] = "socket"]
    /\ UNCHANGED <<lock, resume, got, buf, exc, clientVars, sessVars, readyVars, netVars, srvVars, stop>>

\* A data frame.  A partial one waits for the rest; bytes of two connections do not
\* decompress, and zlib.error leaves receive().
ReceiveData ==
    /\ pc["recv"] = "socket" /\ rx # <<>>
    /\ \/ /\ Head(rx).k = "PART"
          /\ buf' = IF buf = 0 THEN ws ELSE buf
          /\ pc' = [pc EXCEPT !["recv"] = AfterWait]
          /\ UNCHANGED got
       \/ /\ Head(rx).k \in DataKinds
          /\ got' = IF buf \in {0, ws} THEN Head(rx) ELSE Raise("other")
          /\ pc' = [pc EXCEPT !["recv"] = "done"]
          /\ UNCHANGED buf
    /\ rx' = Tail(rx)
    /\ UNCHANGED <<lock, resume, exc, clientVars, sessVars, readyVars, conns, live, peer, wire, hb,
                   srvVars, stop>>

\* A CLOSE frame: fatal, or a reconnect with or without the session.
ReceiveClose ==
    /\ pc["recv"] = "socket" /\ rx # <<>> /\ Head(rx).k \in CloseKinds
    /\ \/ /\ Head(rx).k = "CLOSE_FATAL"
          /\ got' = Raise("fatal")
          /\ pc' = [pc EXCEPT !["recv"] = "done"]
          /\ UNCHANGED <<resume, readyVars>>
       \/ /\ Head(rx).k # "CLOSE_FATAL"
          /\ StartReconnect("recv", Head(rx).k = "CLOSE")
          /\ pc' = [pc EXCEPT !["recv"] = "rcLock"]
          /\ UNCHANGED got
    /\ rx' = Tail(rx)
    /\ UNCHANGED <<lock, buf, exc, clientVars, sessVars, conns, live, peer, wire, hb, srvVars, stop>>

\* CLOSED: the socket is gone without a closing handshake, or with the HTTP session.
ReceiveClosed ==
    /\ pc["recv"] = "socket" /\ rx = <<>>
    /\ peer = "dropped" \/ (peer = "closed" /\ CloseWakesReceive)
    /\ \/ /\ ~closedEv
          /\ pc' = [pc EXCEPT !["recv"] = "wait"]
          /\ UNCHANGED <<got, resume, readyVars>>
       \/ /\ closedEv /\ httpClosed
          /\ got' = Noop
          /\ pc' = [pc EXCEPT !["recv"] = "done"]
          /\ UNCHANGED <<resume, readyVars>>
       \/ /\ closedEv /\ ~httpClosed
          /\ StartReconnect("recv", TRUE)
          /\ pc' = [pc EXCEPT !["recv"] = "rcLock"]
          /\ UNCHANGED got
    /\ UNCHANGED <<lock, buf, exc, clientVars, sessVars, netVars, srvVars, stop>>

\* CLOSING: another task is closing the socket receive() reads.
ReceiveClosing ==
    /\ pc["recv"] = "socket"
    /\ \E t \in Loops \ {"recv"} : pc[t] = "rcClose"
    /\ pc' = [pc EXCEPT !["recv"] = AfterWait]
    /\ UNCHANGED <<lock, resume, got, buf, exc, clientVars, sessVars, readyVars, netVars, srvVars, stop>>

-----------------------------------------------------------------------------
(* WebsocketClient.reconnect(), in whichever loop t called it. *)

ReconnectLocked(t) ==
    /\ pc[t] = "rcLock" /\ LockFree
    /\ lock' = t
    /\ closedEv' = FALSE
    /\ pc' = [pc EXCEPT ![t] = "rcClose"]
    /\ UNCHANGED <<resume, got, buf, exc, ws, acked, kill, closeGw, gwSet, sessVars, readyVars,
                   netVars, srvVars, stop>>

\* ws.close() returns once a receive() of another task on that socket has.
ReconnectClose(t) ==
    /\ pc[t] = "rcClose"
    /\ t = "recv" \/ pc["recv"] # "socket"
    /\ Close
    /\ pc' = [pc EXCEPT ![t] = "rcConnect"]
    /\ UNCHANGED <<lock, resume, got, buf, exc, closedEv, acked, kill, closeGw, gwSet,
                   sessVars, readyVars, stop>>

\* A connection takes a network round trip, far longer than run() takes to handle a
\* message that receive() has already returned.
ReconnectConnect(t) ==
    /\ pc[t] = "rcConnect"
    /\ ~(pc["shard"] = "run" /\ pc["recv"] = "done")
    /\ Open
    /\ pc' = [pc EXCEPT ![t] = "rcHello"]
    /\ UNCHANGED <<lock, resume, got, buf, exc, closedEv, acked, kill, closeGw, gwSet,
                   sessVars, readyVars, stop>>

\* HELLO arrived: IDENTIFY or RESUME, the events are set and the lock given back.  The
\* heartbeater goes on to clear _acknowledged for the heartbeat it sends next.
ReconnectHello(t) ==
    /\ pc[t] = "rcHello" /\ HelloArrives
    /\ Authenticate(resume[t])
    /\ rx' = Tail(rx)
    /\ closedEv' = TRUE
    /\ acked' = (t # "beat")
    /\ lock' = NoOne
    /\ pc' = CASE t = "shard" -> [pc EXCEPT !["shard"] = "run", !["recv"] = "socket"]
               [] t = "recv" -> [pc EXCEPT !["recv"] = "socket"]
               [] t = "beat" -> [pc EXCEPT !["beat"] = "hbLock",
                                           !["recv"] = IF @ = "wait" THEN "woken" ELSE @]
    /\ buf' = IF t = "shard" THEN 0 ELSE buf
    /\ UNCHANGED <<resume, got, exc, ws, kill, closeGw, gwSet, sessVars, readyVars,
                   conns, live, peer, hb, on, valid, spos, sessions, stop>>

\* The connection or its HELLO fails: the exception leaves reconnect(), which gives the
\* lock back and leaves _closed cleared.
ReconnectFails(t) ==
    /\ \E e \in Errors :
          /\ \/ pc[t] = "rcConnect" /\ e \in ConnectErrors
             \/ pc[t] = "rcHello" /\ e \in HelloErrors
          /\ Raised(t, e)
    /\ lock' = NoOne
    /\ UNCHANGED <<resume, buf, ws, closedEv, acked, gwSet, sessVars, clientReady, settling,
                   netVars, srvVars, stop>>

-----------------------------------------------------------------------------
(* The heartbeater, and everything that sends. *)

\* Mutant: the heartbeater does not look at _acknowledged.
BeatBlind ==
    /\ pc["beat"] \in {"first", "sleep"} /\ ~kill /\ pc["recv"] # "woken"
    /\ acked' = FALSE
    /\ pc' = [pc EXCEPT !["beat"] = "hbLock"]
    /\ UNCHANGED <<resume, readyVars, lock, got, buf, exc, ws, closedEv, kill, closeGw, gwSet,
                   sessVars, netVars, srvVars, stop>>

\* An interval (the first one: a random part of it) is over; the loop's next turn.  A task
\* that is ready to run does not wait that long.
BeatTurn ==
    /\ pc["beat"] \in {"first", "sleep"} /\ ~kill /\ pc["recv"] # "woken"
    /\ \/ /\ acked
          /\ acked' = FALSE
          /\ pc' = [pc EXCEPT !["beat"] = "hbLock"]
          /\ UNCHANGED <<resume, readyVars>>
       \/ /\ ~acked
          /\ StartReconnect("beat", TRUE)
          /\ pc' = [pc EXCEPT !["beat"] = "rcLock"]
          /\ UNCHANGED acked
    /\ UNCHANGED <<lock, got, buf, exc, ws, closedEv, kill, closeGw, gwSet, sessVars,
                   netVars, srvVars, stop>>

BeatKilled ==
    /\ pc["beat"] \in {"first", "sleep"} /\ kill
    /\ pc' = [pc EXCEPT !["beat"] = "done"]
    /\ UNCHANGED <<lock, resume, got, buf, exc, clientVars, sessVars, readyVars, netVars, srvVars, stop>>

\* send_heartbeat(): nothing is awaited while the lock is held.  The shard sends one when
\* the server asks, and then receives again.
Heartbeat(t) ==
    /\ pc[t] = "hbLock" /\ LockFree
    /\ \/ /\ ws = 0 \/ Writable
          /\ pc' = IF t = "beat" THEN [pc EXCEPT !["beat"] = "sleep"]
                   ELSE [pc EXCEPT !["shard"] = "run", !["recv"] = AfterWait]
          /\ buf' = IF t = "beat" THEN buf ELSE 0
          /\ wire' = IF ws = 0 THEN wire ELSE "hb"
          /\ hb' = (hb \/ (ws # 0 /\ peer = "up"))
          /\ UNCHANGED <<got, exc, closeGw, kill, shardReady>>
       \/ /\ ws # 0 /\ ~Writable
          /\ Raised(t, "other")
          /\ UNCHANGED <<wire, hb, buf>>
    /\ UNCHANGED <<lock, resume, ws, closedEv, acked, gwSet, sessVars, clientReady, settling,
                   conns, live, rx, peer, srvVars, stop>>

\* A user task calls change_presence(), request_member_chunks() or voice_state_update().
SendCalled(s) ==
    /\ pc[s] = "idle" /\ gwSet /\ stop \in {"no", "gateway"}
    /\ pc' = [pc EXCEPT ![s] = "lock"]
    /\ UNCHANGED <<lock, resume, got, buf, exc, clientVars, sessVars, readyVars, netVars, srvVars, stop>>

\* send() has the lock: without a socket it only warns, else it waits for the rate limit.
SendLocked(s) ==
    /\ pc[s] = "lock" /\ LockFree
    /\ \/ ws = 0 /\ pc' = [pc EXCEPT ![s] = "idle"] /\ UNCHANGED lock
       \/ ws # 0 /\ pc' = [pc EXCEPT ![s] = "rate"] /\ lock' = s
    /\ UNCHANGED <<resume, got, buf, exc, clientVars, sessVars, readyVars, netVars, srvVars, stop>>

\* The rate limit lets it through: self.ws.send_str(), which may raise in the user's task.
SendFrame(s) ==
    /\ pc[s] = "rate"
    /\ pc' = [pc EXCEPT ![s] = "idle"]
    /\ lock' = NoOne
    /\ wire' = IF Writable THEN "msg" ELSE wire
    /\ UNCHANGED <<resume, got, buf, exc, clientVars, sessVars, readyVars, conns, live, rx, peer, hb,
                   srvVars, stop>>

-----------------------------------------------------------------------------
(* Client: its ready listeners, and stop(). *)

\* Mutant: a listener that settles more often than it was started.
SettledTwice ==
    /\ settling' = settling - 1
    /\ clientReady' = TRUE
    /\ UNCHANGED <<taskVars, clientVars, sessVars, shardReady, netVars, srvVars, stop>>

\* _on_websocket_ready or on_resume comes to its end, however long it waited for guilds.
Settled ==
    /\ settling > 0
    /\ settling' = settling - 1
    /\ clientReady' = TRUE
    /\ UNCHANGED <<taskVars, clientVars, sessVars, shardReady, netVars, srvVars, stop>>

\* Client.stop(): first the HTTP session, and every socket with it.
StopHttp ==
    /\ stop = "no"
    /\ stop' = "gateway"
    /\ clientReady' = FALSE
    /\ live' = {}
    /\ peer' = IF peer = "dropped" THEN peer ELSE "closed"
    /\ UNCHANGED <<taskVars, clientVars, sessVars, shardReady, settling, conns, rx, wire, hb, srvVars>>

\* ConnectionState.stop(): closes the gateway it names; none is named before __aenter__ returns.
StopGateway ==
    /\ stop = "gateway"
    /\ stop' = "join"
    /\ closeGw' = (closeGw \/ gwSet)
    /\ UNCHANGED <<taskVars, ws, closedEv, acked, kill, gwSet, sessVars, readyVars, netVars, srvVars>>

StopJoin ==
    /\ stop = "join" /\ pc["shard"] = "ended"
    /\ stop' = "done"
    /\ UNCHANGED <<taskVars, clientVars, sessVars, readyVars, netVars, srvVars>>

-----------------------------------------------------------------------------
(* The server and the network. *)

Deliver(f) == Len(rx) < MaxRx /\ rx' = Append(rx, f)

\* IDENTIFY makes a session; RESUME replays from the sequence the client gives, or fails.
ServerAnswers ==
    /\ peer = "up" /\ ask.k # "none"
    /\ ask' = NoAsk
    /\ \/ /\ ask.k = "identify"
          /\ sessions' = sessions + 1 /\ valid' = sessions + 1
          /\ spos' = 1 /\ on' = TRUE
          /\ Deliver(Event("READY", sessions + 1, 1))
       \/ /\ ask.k = "resume" /\ ask.s = valid /\ valid # 0
          /\ spos' = ask.n /\ on' = TRUE
          /\ Deliver(Frame("RESUMED"))
          /\ UNCHANGED <<valid, sessions>>
       \/ /\ ask.k = "resume" /\ (ask.s # valid \/ valid = 0)
          /\ valid' = 0
          /\ Deliver(Frame("INVALIDATE"))
          /\ UNCHANGED <<spos, on, sessions>>
    /\ UNCHANGED <<taskVars, clientVars, sessVars, readyVars, conns, live, peer, wire, hb, stop>>

ServerEvent ==
    /\ peer = "up" /\ on /\ spos < MaxEvents
    /\ Deliver(Event("EVENT", valid, spos + 1))
    /\ spos' = spos + 1
    /\ UNCHANGED <<taskVars, clientVars, sessVars, readyVars, conns, live, peer, wire, hb,
                   ask, on, valid, sessions, stop>>

ServerAck ==
    /\ peer = "up" /\ hb
    /\ Deliver(Frame("ACK"))
    /\ hb' = FALSE
    /\ UNCHANGED <<taskVars, clientVars, sessVars, readyVars, conns, live, peer, wire, srvVars, stop>>

\* A heartbeat or reconnect request, the first part of a message, an invalidated session,
\* a close: after the last two the session is over, after a close the server is silent.
ServerControl ==
    /\ peer = "up" /\ wire # "none"
    /\ \E k \in ServerMay \cap ({"HEARTBEAT", "RECONNECT", "INVALIDATE", "PART"} \cup CloseKinds) :
         /\ Deliver(Frame(k))
         /\ peer' = IF k \in CloseKinds THEN "dead" ELSE peer
         /\ IF k \in {"INVALIDATE", "CLOSE_NEW"}
              THEN valid' = 0 /\ on' = FALSE ELSE UNCHANGED <<valid, on>>
    /\ UNCHANGED <<taskVars, clientVars, sessVars, readyVars, conns, live, wire, hb,
                   ask, spos, sessions, stop>>

\* The connection goes silent (a zombie), or is lost.
NetworkFails ==
    /\ \/ "ZOMBIE" \in ServerMay /\ peer = "up" /\ wire # "none" /\ peer' = "dead"
       \/ "DROP" \in ServerMay /\ ws # 0 /\ peer \in {"up", "dead"} /\ peer' = "dropped"
    /\ UNCHANGED <<taskVars, clientVars, sessVars, readyVars, conns, live, rx, wire, hb, srvVars, stop>>

-----------------------------------------------------------------------------
ShardNext == \/ EnterConnect \/ EnterHello \/ EnterFails \/ RunEvent \/ RunOpcode \/ RunRaises
             \/ RunStops \/ ExitClose \/ Retry
ReceiveNext == ReceiveWoken \/ ReceiveData \/ ReceiveClose \/ ReceiveClosed \/ ReceiveClosing
ReconnectNext(t) == \/ ReconnectLocked(t) \/ ReconnectClose(t) \/ ReconnectConnect(t)
                    \/ ReconnectHello(t) \/ ReconnectFails(t)
BeatNext == BeatTurn \/ BeatKilled
SendNext(s) == SendCalled(s) \/ SendLocked(s) \/ SendFrame(s)
ClientNext == Settled \/ StopHttp \/ StopGateway \/ StopJoin
ServerNext == ServerAnswers \/ ServerEvent \/ ServerAck \/ ServerControl \/ NetworkFails

Next == \/ ShardNext \/ ReceiveNext \/ BeatNext \/ ClientNext \/ ServerNext
        \/ \E t \in Loops : ReconnectNext(t)
        \/ \E t \in {"shard", "beat"} : Heartbeat(t)
        \/ \E s \in Senders : SendNext(s)

Spec == Init /\ [][Next]_vars

\* The event loop runs every task that can go on, timers expire, and asyncio.Lock is first
\* come, first served.  Nothing is assumed of the server, of the network or of the users.
Fairness ==
    /\ WF_vars(ShardNext) /\ WF_vars(ReceiveNext) /\ WF_vars(BeatNext)
    /\ \A t \in Loops : WF_vars(ReconnectNext(t)) /\ SF_vars(ReconnectLocked(t))
    /\ \A t \in {"shard", "beat"} : SF_vars(Heartbeat(t))
    /\ \A s \in Senders : WF_vars(SendFrame(s))
    /\ WF_vars(StopGateway \/ StopJoin)
FairSpec == Spec /\ Fairness
-----------------------------------------------------------------------------
(* Safety. *)

\* run() has been told to end: by stop(), by the heartbeater, or by an exception on its way.
Ending == closeGw \/ got.k \in Errors \/ pc["shard"] = "ended"

InReconnect(t) == pc[t] \in {"rcClose", "rcConnect", "rcHello"}

\* No connection is left open behind the client's back: whatever was opened and not closed
\* is the one in self.ws, over reconnects, failed handshakes, cancellation and new instances.
OneSocket == live \subseteq {ws} \ {0}

\* receive() never calls self.ws.receive() on None: the socket it was told to read is not
\* taken away between _closed.set() and its own turn (websocket.py:183-185).
ReceiveHasSocket == pc["recv"] \in {"woken", "socket"} => ws # 0

\* A sender that saw a socket still has it when the rate limit lets it through: reconnect()
\* cannot come between (gateway.py:73); only the end of the shard can.
SendHasSocket == \A s \in Senders : pc[s] = "rate" => ws # 0 \/ pc["shard"] \in {"ended", "backoff"}

\* Whoever waits for _closed is owed it: while it is cleared and run() goes on, some task is
\* inside reconnect(), or a failed reconnect() is about to end run() (websocket.py:183, 231).
WaiterIsOwed ==
    (pc["shard"] = "run" /\ pc["recv"] = "wait") =>
        (closedEv \/ Ending \/ \E t \in Loops : InReconnect(t))

\* Only one task at a time rebuilds the connection, and it is the one that holds the lock.
OneReconnector == \A t \in Loops : InReconnect(t) => lock = t

\* Events reach the bot in order, none twice and none skipped, over any number of resumed
\* connections: what receive() returns is the event after the last one dispatched, or the
\* READY of a new session.
InOrder ==
    got.n # 0 => \/ got.s = last.s /\ got.n = last.n + 1
                 \/ got.s > last.s /\ got.n = 1

\* The first payload of every connection is IDENTIFY or RESUME: neither a heartbeat nor a
\* user's message slips in between the connect and it.  (When a reconnect() was cancelled or
\* failed at HELLO, one can: the connection is about to be closed.)
IdentifyFirst == [][wire = "none" /\ ~Ending => wire' \in {"none", "auth"}]_vars

\* The inductive invariant behind the five state invariants above.
LockHeld ==
    /\ OneReconnector
    /\ \A s \in Senders : pc[s] = "rate" => lock = s
    /\ \A t \in Loops : InReconnect(t) => ~closedEv

\* Where the other two loops can be while the shard is outside run().
Alone ==
    /\ pc["recv"] # "none" => pc["shard"] = "run"
    /\ pc["shard"] \in {"connect", "hello", "backoff"} => pc["beat"] \in {"none", "done"}

SocketKnown ==
    /\ pc["shard"] \in {"connect", "backoff"} => ws = 0
    /\ pc["shard"] = "hello" => ws # 0
    /\ \A t \in Loops : pc[t] = "rcConnect" => ws = 0
    /\ closedEv => ws # 0 \/ pc["shard"] \in {"ended", "backoff"}

WakeKept ==
    /\ pc["recv"] = "woken" => pc["beat"] # "rcLock" /\ closedEv
    /\ got.k \in Errors => pc["recv"] = "done"
    /\ (pc["shard"] \in {"run", "hbLock", "rcLock"} /\ ~closedEv) =>
           (Ending \/ \E t \in Loops : InReconnect(t))

IInv == /\ LockHeld /\ Alone /\ SocketKnown /\ WakeKept
        /\ OneSocket /\ ReceiveHasSocket /\ SendHasSocket

-----------------------------------------------------------------------------
(* Liveness. *)

\* Client.stop() comes to an end whatever the shard is doing.
StopEnds == (stop = "gateway") ~> (stop = "done")

\* A connection gone silent is replaced, or the shard ends: the heartbeater notices.
ZombieReplaced == (peer = "dead" /\ pc["shard"] = "run") ~> (peer # "dead" \/ pc["shard"] # "run")
=============================================================================

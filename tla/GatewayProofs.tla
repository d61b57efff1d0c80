--------------------------- MODULE GatewayProofs ---------------------------
(***************************************************************************)
(* What TLAPS proves of Gateway, for any number of senders, connections,   *)
(* events and frames, and for any behaviour of the server: the types, the  *)
(* inductive invariant IInv with the safety invariants it implies, the     *)
(* order of the events (EventsInOrder) and the first payload of every      *)
(* connection (FirstPayload).                                              *)
(***************************************************************************)
EXTENDS Gateway, TLAPS

\* The initial state is of the right type.
LEMMA TypeInit == Init => TypeOK
<1> SUFFICES ASSUME Init PROVE TypeOK
  OBVIOUS
<1>1. TypeTasks
  BY NoOneAssumption, SendersAssumption
  DEF Init, TypeTasks, Tasks, Loops, ShardPcs, RecvPcs, BeatPcs, SenderPcs, RcPcs
<1>2. TypeFlags
  BY DEF Init, TypeFlags
<1>3. TypeData
  BY DEF Init, TypeData, Nothing, NoAsk, Frame, Frames, Results
<1> QED
  BY <1>1, <1>2, <1>3 DEF TypeOK

\* What a failing connect or HELLO may raise.
LEMMA ErrorsRaised == ConnectErrors \subseteq Errors /\ HelloErrors \subseteq Errors
  BY DEF ConnectErrors, HelloErrors, Errors

\* The parts of a non-empty sequence.
LEMMA HeadTail ==
  ASSUME NEW S, NEW q \in Seq(S), q # <<>>
  PROVE  Head(q) \in S /\ Tail(q) \in Seq(S)
  OBVIOUS

\* A new connection keeps the types.
LEMMA OpenType == TypeData /\ Open => /\ live' \subseteq Nat /\ conns' \in Nat /\ ws' \in Nat
                                     /\ rx' \in Seq(Frames)
<1> SUFFICES ASSUME TypeData, Open
             PROVE live' \subseteq Nat /\ conns' \in Nat /\ ws' \in Nat /\ rx' \in Seq(Frames)
  OBVIOUS
<1>1. live' \subseteq Nat /\ conns' \in Nat /\ ws' \in Nat
  BY DEF TypeData, Open
<1>2. PICK k \in {"HELLO"} \cup CloseKinds : rx' = <<Frame(k)>>
  BY DEF Open
<1>3. Frame(k) \in Frames
  BY <1>2 DEF Frame, Frames, Kinds, CloseKinds
<1> QED
  BY <1>1, <1>2, <1>3

\* Every step of every task keeps the types.
LEMMA TypeStep == TypeOK /\ [Next]_vars => TypeOK'
<1> SUFFICES ASSUME TypeTasks, TypeFlags, TypeData, [Next]_vars
             PROVE TypeTasks' /\ TypeFlags' /\ TypeData'
  BY DEF TypeOK
<1> USE NoOneAssumption, SendersAssumption, BoundsAssumption, ServerAssumption
<1> USE DEF taskVars, clientVars, sessVars, readyVars, netVars, srvVars
<1>1. ASSUME EnterConnect PROVE TypeTasks' /\ TypeFlags' /\ TypeData'
  <2>1. TypeTasks'
    BY <1>1 DEF EnterConnect, Open, ConnectErrors, NoAsk, Frame, TypeTasks, Tasks, Loops,
        ShardPcs, RecvPcs, BeatPcs, SenderPcs, RcPcs
  <2>2. TypeFlags'
    BY <1>1 DEF EnterConnect, Open, ConnectErrors, NoAsk, Frame, TypeFlags
  <2>3. TypeData'
    <3>1. CASE Open /\ UNCHANGED exc
      BY <1>1, <3>1, OpenType DEF EnterConnect, Open, NoAsk, TypeData
    <3>2. CASE exc' \in ConnectErrors /\ UNCHANGED <<conns, live, rx, peer, wire, hb, srvVars, ws>>
      BY <1>1, <3>2, ErrorsRaised DEF EnterConnect, TypeData
    <3> QED
      BY <1>1, <3>1, <3>2 DEF EnterConnect
  <2> QED
    BY <2>1, <2>2, <2>3
<1>2. ASSUME EnterHello PROVE TypeTasks' /\ TypeFlags' /\ TypeData'
  <2>1. TypeTasks'
    BY <1>2 DEF EnterHello, Authenticate, Writable, HelloArrives, NoAsk, TypeTasks, Tasks,
        Loops, ShardPcs, RecvPcs, BeatPcs, SenderPcs, RcPcs
  <2>2. TypeFlags'
    BY <1>2 DEF EnterHello, Authenticate, Writable, HelloArrives, NoAsk, TypeFlags
  <2>3. TypeData'
    BY <1>2 DEF EnterHello, Authenticate, Writable, HelloArrives, NoAsk, TypeData, Frames,
        Results, Kinds,
        DataKinds, CloseKinds, Errors
  <2> QED
    BY <2>1, <2>2, <2>3
<1>3. ASSUME EnterFails PROVE TypeTasks' /\ TypeFlags' /\ TypeData'
  <2>1. TypeTasks'
    BY <1>3 DEF EnterFails, HelloErrors, HelloArrives, Writable, TypeTasks, Tasks, Loops,
        ShardPcs, RecvPcs, BeatPcs, SenderPcs, RcPcs
  <2>2. TypeFlags'
    BY <1>3 DEF EnterFails, HelloErrors, HelloArrives, Writable, TypeFlags
  <2>3. TypeData'
    BY <1>3 DEF EnterFails, HelloErrors, HelloArrives, Writable, TypeData, Frames, Results,
        Kinds, DataKinds,
        CloseKinds, Errors
  <2> QED
    BY <2>1, <2>2, <2>3
<1>4. ASSUME RunEvent PROVE TypeTasks' /\ TypeFlags' /\ TypeData'
  <2>1. TypeTasks'
    BY <1>4 DEF RunEvent, Dispatch, NextReceive, AfterWait, Nothing, Frame, Noop, TypeTasks,
        Tasks, Loops, ShardPcs, RecvPcs, BeatPcs, SenderPcs, RcPcs
  <2>2. TypeFlags'
    BY <1>4 DEF RunEvent, Dispatch, NextReceive, AfterWait, Nothing, Frame, Noop, TypeFlags
  <2>3. TypeData'
    BY <1>4 DEF RunEvent, Dispatch, NextReceive, AfterWait, Nothing, Frame, Noop, TypeData,
        Frames, Results, Kinds, DataKinds, CloseKinds, Errors
  <2> QED
    BY <2>1, <2>2, <2>3
<1>5. ASSUME RunOpcode PROVE TypeTasks' /\ TypeFlags' /\ TypeData'
  <2>1. TypeTasks'
    BY <1>5 DEF RunOpcode, StartReconnect, Nothing, Frame, Noop, TypeTasks, Tasks, Loops,
        ShardPcs, RecvPcs, BeatPcs, SenderPcs, RcPcs
  <2>2. TypeFlags'
    BY <1>5 DEF RunOpcode, StartReconnect, Nothing, Frame, Noop, TypeFlags
  <2>3. TypeData'
    BY <1>5 DEF RunOpcode, StartReconnect, Nothing, Frame, Noop, TypeData, Frames, Results,
        Kinds, DataKinds,
        CloseKinds, Errors
  <2> QED
    BY <2>1, <2>2, <2>3
<1>6. ASSUME RunRaises PROVE TypeTasks' /\ TypeFlags' /\ TypeData'
  <2>1. TypeTasks'
    BY <1>6 DEF RunRaises, Leave, Nothing, Frame, TypeTasks, Tasks, Loops, ShardPcs, RecvPcs,
        BeatPcs, SenderPcs, RcPcs
  <2>2. TypeFlags'
    BY <1>6 DEF RunRaises, Leave, Nothing, Frame, TypeFlags
  <2>3. TypeData'
    BY <1>6 DEF RunRaises, Leave, Nothing, Frame, TypeData, Frames, Results, Kinds, DataKinds,
        CloseKinds, Errors
  <2> QED
    BY <2>1, <2>2, <2>3
<1>7. ASSUME RunStops PROVE TypeTasks' /\ TypeFlags' /\ TypeData'
  <2>1. TypeTasks'
    BY <1>7 DEF RunStops, Leave, TypeTasks, Tasks, Loops, ShardPcs, RecvPcs, BeatPcs, SenderPcs,
        RcPcs
  <2>2. TypeFlags'
    BY <1>7 DEF RunStops, Leave, TypeFlags
  <2>3. TypeData'
    BY <1>7 DEF RunStops, Leave, TypeData, Frames, Results, Kinds, DataKinds, CloseKinds, Errors
  <2> QED
    BY <2>1, <2>2, <2>3
<1>8. ASSUME ExitClose PROVE TypeTasks' /\ TypeFlags' /\ TypeData'
  <2>1. TypeTasks'
    BY <1>8 DEF ExitClose, Close, NoAsk, Frame, TypeTasks, Tasks, Loops, ShardPcs, RecvPcs,
        BeatPcs, SenderPcs, RcPcs
  <2>2. TypeFlags'
    BY <1>8 DEF ExitClose, Close, NoAsk, Frame, TypeFlags
  <2>3. TypeData'
    BY <1>8 DEF ExitClose, Close, NoAsk, Frame, TypeData, Frames, Results, Kinds, DataKinds,
        CloseKinds, Errors
  <2> QED
    BY <2>1, <2>2, <2>3
<1>9. ASSUME Retry PROVE TypeTasks' /\ TypeFlags' /\ TypeData'
  <2>1. TypeTasks'
    BY <1>9 DEF Retry, Nothing, Frame, TypeTasks, Tasks, Loops, ShardPcs, RecvPcs, BeatPcs,
        SenderPcs, RcPcs
  <2>2. TypeFlags'
    BY <1>9 DEF Retry, Nothing, Frame, TypeFlags
  <2>3. TypeData'
    BY <1>9 DEF Retry, Nothing, Frame, TypeData, Frames, Results, Kinds, DataKinds, CloseKinds,
        Errors
  <2> QED
    BY <2>1, <2>2, <2>3
<1>10. ASSUME ReceiveWoken PROVE TypeTasks' /\ TypeFlags' /\ TypeData'
  <2>1. TypeTasks'
    BY <1>10 DEF ReceiveWoken, TypeTasks, Tasks, Loops, ShardPcs, RecvPcs, BeatPcs, SenderPcs,
        RcPcs
  <2>2. TypeFlags'
    BY <1>10 DEF ReceiveWoken, TypeFlags
  <2>3. TypeData'
    BY <1>10 DEF ReceiveWoken, TypeData, Frames, Results, Kinds, DataKinds, CloseKinds, Errors
  <2> QED
    BY <2>1, <2>2, <2>3
<1>11. ASSUME ReceiveData PROVE TypeTasks' /\ TypeFlags' /\ TypeData'
  <2>1. TypeTasks'
    BY <1>11 DEF ReceiveData, AfterWait, Raise, Frame, TypeTasks, Tasks, Loops, ShardPcs,
        RecvPcs, BeatPcs, SenderPcs, RcPcs
  <2>2. TypeFlags'
    BY <1>11 DEF ReceiveData, AfterWait, Raise, Frame, TypeFlags
  <2>3. TypeData'
    <3>1. Head(rx) \in Frames /\ rx' \in Seq(Frames)
      BY <1>11, HeadTail DEF ReceiveData, TypeData
    <3>2. Head(rx).k \in DataKinds => Head(rx) \in Results
      BY <3>1 DEF Frames, Results
    <3>3. Raise("other") \in Results
      BY DEF Results, Raise, Frame, Errors
    <3>4. got' \in Results /\ buf' \in Nat
      BY <1>11, <3>2, <3>3 DEF ReceiveData, TypeData
    <3> QED
      BY <1>11, <3>1, <3>4 DEF ReceiveData, TypeData
  <2> QED
    BY <2>1, <2>2, <2>3
<1>12. ASSUME ReceiveClose PROVE TypeTasks' /\ TypeFlags' /\ TypeData'
  <2>1. TypeTasks'
    BY <1>12 DEF ReceiveClose, StartReconnect, Raise, Frame, TypeTasks, Tasks, Loops, ShardPcs,
        RecvPcs, BeatPcs, SenderPcs, RcPcs
  <2>2. TypeFlags'
    BY <1>12 DEF ReceiveClose, StartReconnect, Raise, Frame, TypeFlags
  <2>3. TypeData'
    BY <1>12 DEF ReceiveClose, StartReconnect, Raise, Frame, TypeData, Frames, Results, Kinds,
        DataKinds,
        CloseKinds, Errors
  <2> QED
    BY <2>1, <2>2, <2>3
<1>13. ASSUME ReceiveClosed PROVE TypeTasks' /\ TypeFlags' /\ TypeData'
  <2>1. TypeTasks'
    BY <1>13 DEF ReceiveClosed, StartReconnect, Noop, Frame, TypeTasks, Tasks, Loops, ShardPcs,
        RecvPcs, BeatPcs, SenderPcs, RcPcs
  <2>2. TypeFlags'
    BY <1>13 DEF ReceiveClosed, StartReconnect, Noop, Frame, TypeFlags
  <2>3. TypeData'
    BY <1>13 DEF ReceiveClosed, StartReconnect, Noop, Frame, TypeData, Frames, Results, Kinds,
        DataKinds,
        CloseKinds, Errors
  <2> QED
    BY <2>1, <2>2, <2>3
<1>14. ASSUME ReceiveClosing PROVE TypeTasks' /\ TypeFlags' /\ TypeData'
  <2>1. TypeTasks'
    BY <1>14 DEF ReceiveClosing, AfterWait, TypeTasks, Tasks, Loops, ShardPcs, RecvPcs, BeatPcs,
        SenderPcs, RcPcs
  <2>2. TypeFlags'
    BY <1>14 DEF ReceiveClosing, AfterWait, TypeFlags
  <2>3. TypeData'
    BY <1>14 DEF ReceiveClosing, AfterWait, TypeData, Frames, Results, Kinds, DataKinds,
        CloseKinds, Errors
  <2> QED
    BY <2>1, <2>2, <2>3
<1>15. ASSUME BeatTurn PROVE TypeTasks' /\ TypeFlags' /\ TypeData'
  <2>1. TypeTasks'
    BY <1>15 DEF BeatTurn, StartReconnect, TypeTasks, Tasks, Loops, ShardPcs, RecvPcs, BeatPcs,
        SenderPcs, RcPcs
  <2>2. TypeFlags'
    BY <1>15 DEF BeatTurn, StartReconnect, TypeFlags
  <2>3. TypeData'
    BY <1>15 DEF BeatTurn, StartReconnect, TypeData, Frames, Results, Kinds, DataKinds,
        CloseKinds, Errors
  <2> QED
    BY <2>1, <2>2, <2>3
<1>16. ASSUME BeatKilled PROVE TypeTasks' /\ TypeFlags' /\ TypeData'
  <2>1. TypeTasks'
    BY <1>16 DEF BeatKilled, TypeTasks, Tasks, Loops, ShardPcs, RecvPcs, BeatPcs, SenderPcs,
        RcPcs
  <2>2. TypeFlags'
    BY <1>16 DEF BeatKilled, TypeFlags
  <2>3. TypeData'
    BY <1>16 DEF BeatKilled, TypeData, Frames, Results, Kinds, DataKinds, CloseKinds, Errors
  <2> QED
    BY <2>1, <2>2, <2>3
<1>17. ASSUME Settled PROVE TypeTasks' /\ TypeFlags' /\ TypeData'
  <2>1. TypeTasks'
    BY <1>17 DEF Settled, TypeTasks, Tasks, Loops, ShardPcs, RecvPcs, BeatPcs, SenderPcs, RcPcs
  <2>2. TypeFlags'
    BY <1>17 DEF Settled, TypeFlags
  <2>3. TypeData'
    BY <1>17 DEF Settled, TypeData, Frames, Results, Kinds, DataKinds, CloseKinds, Errors
  <2> QED
    BY <2>1, <2>2, <2>3
<1>18. ASSUME StopHttp PROVE TypeTasks' /\ TypeFlags' /\ TypeData'
  <2>1. TypeTasks'
    BY <1>18 DEF StopHttp, TypeTasks, Tasks, Loops, ShardPcs, RecvPcs, BeatPcs, SenderPcs, RcPcs
  <2>2. TypeFlags'
    BY <1>18 DEF StopHttp, TypeFlags
  <2>3. TypeData'
    BY <1>18 DEF StopHttp, TypeData, Frames, Results, Kinds, DataKinds, CloseKinds, Errors
  <2> QED
    BY <2>1, <2>2, <2>3
<1>19. ASSUME StopGateway PROVE TypeTasks' /\ TypeFlags' /\ TypeData'
  <2>1. TypeTasks'
    BY <1>19 DEF StopGateway, TypeTasks, Tasks, Loops, ShardPcs, RecvPcs, BeatPcs, SenderPcs,
        RcPcs
  <2>2. TypeFlags'
    BY <1>19 DEF StopGateway, TypeFlags
  <2>3. TypeData'
    BY <1>19 DEF StopGateway, TypeData, Frames, Results, Kinds, DataKinds, CloseKinds, Errors
  <2> QED
    BY <2>1, <2>2, <2>3
<1>20. ASSUME StopJoin PROVE TypeTasks' /\ TypeFlags' /\ TypeData'
  <2>1. TypeTasks'
    BY <1>20 DEF StopJoin, TypeTasks, Tasks, Loops, ShardPcs, RecvPcs, BeatPcs, SenderPcs, RcPcs
  <2>2. TypeFlags'
    BY <1>20 DEF StopJoin, TypeFlags
  <2>3. TypeData'
    BY <1>20 DEF StopJoin, TypeData, Frames, Results, Kinds, DataKinds, CloseKinds, Errors
  <2> QED
    BY <2>1, <2>2, <2>3
<1>21. ASSUME ServerAnswers PROVE TypeTasks' /\ TypeFlags' /\ TypeData'
  <2>1. TypeTasks'
    BY <1>21 DEF ServerAnswers, Deliver, Event, Frame, NoAsk, TypeTasks, Tasks, Loops, ShardPcs,
        RecvPcs, BeatPcs, SenderPcs, RcPcs
  <2>2. TypeFlags'
    BY <1>21 DEF ServerAnswers, Deliver, Event, Frame, NoAsk, TypeFlags
  <2>3. TypeData'
    <3>1. Event("READY", sessions + 1, 1) \in Frames
          /\ Frame("RESUMED") \in Frames /\ Frame("INVALIDATE") \in Frames
      BY DEF TypeData, Event, Frame, Frames, Kinds, DataKinds
    <3>2. \A f \in Frames : Append(rx, f) \in Seq(Frames)
      BY DEF TypeData
    <3>3. rx' \in Seq(Frames)
      BY <1>21, <3>1, <3>2 DEF ServerAnswers, Deliver
    <3>4. spos' \in Nat /\ valid' \in Nat /\ sessions' \in Nat
      BY <1>21 DEF ServerAnswers, TypeData
    <3> QED
      BY <1>21, <3>3, <3>4 DEF ServerAnswers, NoAsk, TypeData
  <2> QED
    BY <2>1, <2>2, <2>3
<1>22. ASSUME ServerEvent PROVE TypeTasks' /\ TypeFlags' /\ TypeData'
  <2>1. TypeTasks'
    BY <1>22 DEF ServerEvent, Deliver, Event, TypeTasks, Tasks, Loops, ShardPcs, RecvPcs,
        BeatPcs, SenderPcs, RcPcs
  <2>2. TypeFlags'
    BY <1>22 DEF ServerEvent, Deliver, Event, TypeFlags
  <2>3. TypeData'
    BY <1>22 DEF ServerEvent, Deliver, Event, TypeData, Frames, Results, Kinds, DataKinds,
        CloseKinds, Errors
  <2> QED
    BY <2>1, <2>2, <2>3
<1>23. ASSUME ServerAck PROVE TypeTasks' /\ TypeFlags' /\ TypeData'
  <2>1. TypeTasks'
    BY <1>23 DEF ServerAck, Deliver, Frame, TypeTasks, Tasks, Loops, ShardPcs, RecvPcs, BeatPcs,
        SenderPcs, RcPcs
  <2>2. TypeFlags'
    BY <1>23 DEF ServerAck, Deliver, Frame, TypeFlags
  <2>3. TypeData'
    BY <1>23 DEF ServerAck, Deliver, Frame, TypeData, Frames, Results, Kinds, DataKinds,
        CloseKinds, Errors
  <2> QED
    BY <2>1, <2>2, <2>3
<1>24. ASSUME ServerControl PROVE TypeTasks' /\ TypeFlags' /\ TypeData'
  <2>1. TypeTasks'
    BY <1>24 DEF ServerControl, Deliver, Frame, TypeTasks, Tasks, Loops, ShardPcs, RecvPcs,
        BeatPcs, SenderPcs, RcPcs
  <2>2. TypeFlags'
    BY <1>24 DEF ServerControl, Deliver, Frame, TypeFlags
  <2>3. TypeData'
    BY <1>24 DEF ServerControl, Deliver, Frame, TypeData, Frames, Results, Kinds, DataKinds,
        CloseKinds, Errors
  <2> QED
    BY <2>1, <2>2, <2>3
<1>25. ASSUME NetworkFails PROVE TypeTasks' /\ TypeFlags' /\ TypeData'
  <2>1. TypeTasks'
    BY <1>25 DEF NetworkFails, TypeTasks, Tasks, Loops, ShardPcs, RecvPcs, BeatPcs, SenderPcs,
        RcPcs
  <2>2. TypeFlags'
    BY <1>25 DEF NetworkFails, TypeFlags
  <2>3. TypeData'
    BY <1>25 DEF NetworkFails, TypeData, Frames, Results, Kinds, DataKinds, CloseKinds, Errors
  <2> QED
    BY <2>1, <2>2, <2>3
<1>26. ASSUME NEW t \in Loops, ReconnectLocked(t) PROVE TypeTasks' /\ TypeFlags' /\ TypeData'
  <2>1. TypeTasks'
    BY <1>26 DEF ReconnectLocked, LockFree, TypeTasks, Tasks, Loops, ShardPcs, RecvPcs, BeatPcs,
        SenderPcs, RcPcs
  <2>2. TypeFlags'
    BY <1>26 DEF ReconnectLocked, LockFree, TypeFlags
  <2>3. TypeData'
    BY <1>26 DEF ReconnectLocked, LockFree, TypeData, Frames, Results, Kinds, DataKinds,
        CloseKinds, Errors
  <2> QED
    BY <2>1, <2>2, <2>3
<1>27. ASSUME NEW t \in Loops, ReconnectClose(t) PROVE TypeTasks' /\ TypeFlags' /\ TypeData'
  <2>1. TypeTasks'
    BY <1>27 DEF ReconnectClose, Close, NoAsk, Frame, TypeTasks, Tasks, Loops, ShardPcs,
        RecvPcs, BeatPcs, SenderPcs, RcPcs
  <2>2. TypeFlags'
    BY <1>27 DEF ReconnectClose, Close, NoAsk, Frame, TypeFlags
  <2>3. TypeData'
    BY <1>27 DEF ReconnectClose, Close, NoAsk, Frame, TypeData, Frames, Results, Kinds,
        DataKinds, CloseKinds,
        Errors
  <2> QED
    BY <2>1, <2>2, <2>3
<1>28. ASSUME NEW t \in Loops, ReconnectConnect(t) PROVE TypeTasks' /\ TypeFlags' /\ TypeData'
  <2>1. TypeTasks'
    BY <1>28 DEF ReconnectConnect, Open, NoAsk, Frame, TypeTasks, Tasks, Loops, ShardPcs,
        RecvPcs, BeatPcs, SenderPcs, RcPcs
  <2>2. TypeFlags'
    BY <1>28 DEF ReconnectConnect, Open, NoAsk, Frame, TypeFlags
  <2>3. TypeData'
    BY <1>28, OpenType DEF ReconnectConnect, Open, NoAsk, TypeData
  <2> QED
    BY <2>1, <2>2, <2>3
<1>29. ASSUME NEW t \in Loops, ReconnectHello(t) PROVE TypeTasks' /\ TypeFlags' /\ TypeData'
  <2>1. TypeTasks'
    BY <1>29 DEF ReconnectHello, Authenticate, Writable, HelloArrives, NoAsk, TypeTasks, Tasks,
        Loops, ShardPcs, RecvPcs, BeatPcs, SenderPcs, RcPcs
  <2>2. TypeFlags'
    BY <1>29 DEF ReconnectHello, Authenticate, Writable, HelloArrives, NoAsk, TypeFlags
  <2>3. TypeData'
    BY <1>29 DEF ReconnectHello, Authenticate, Writable, HelloArrives, NoAsk, TypeData, Frames,
        Results, Kinds,
        DataKinds, CloseKinds, Errors
  <2> QED
    BY <2>1, <2>2, <2>3
<1>30. ASSUME NEW t \in Loops, ReconnectFails(t) PROVE TypeTasks' /\ TypeFlags' /\ TypeData'
  <2>1. TypeTasks'
    BY <1>30 DEF ReconnectFails, Raised, Leave, Raise, Frame, TypeTasks, Tasks, Loops, ShardPcs,
        RecvPcs, BeatPcs, SenderPcs, RcPcs
  <2>2. TypeFlags'
    BY <1>30 DEF ReconnectFails, Raised, Leave, Raise, Frame, TypeFlags
  <2>3. TypeData'
    BY <1>30 DEF ReconnectFails, Raised, Leave, Raise, Frame, TypeData, Frames, Results, Kinds,
        DataKinds,
        CloseKinds, Errors
  <2> QED
    BY <2>1, <2>2, <2>3
<1>31. ASSUME NEW t \in {"shard", "beat"}, Heartbeat(t) PROVE TypeTasks' /\ TypeFlags' /\ TypeData'
  <2>1. TypeTasks'
    BY <1>31 DEF Heartbeat, LockFree, Raised, Leave, Raise, Frame, AfterWait, Writable,
        TypeTasks, Tasks, Loops, ShardPcs, RecvPcs, BeatPcs, SenderPcs, RcPcs
  <2>2. TypeFlags'
    BY <1>31 DEF Heartbeat, LockFree, Raised, Leave, Raise, Frame, AfterWait, Writable,
        TypeFlags
  <2>3. TypeData'
    BY <1>31 DEF Heartbeat, LockFree, Raised, Leave, Raise, Frame, AfterWait, Writable,
        TypeData, Frames, Results, Kinds, DataKinds, CloseKinds, Errors
  <2> QED
    BY <2>1, <2>2, <2>3
<1>32. ASSUME NEW s \in Senders, SendCalled(s) PROVE TypeTasks' /\ TypeFlags' /\ TypeData'
  <2>1. TypeTasks'
    BY <1>32 DEF SendCalled, TypeTasks, Tasks, Loops, ShardPcs, RecvPcs, BeatPcs, SenderPcs,
        RcPcs
  <2>2. TypeFlags'
    BY <1>32 DEF SendCalled, TypeFlags
  <2>3. TypeData'
    BY <1>32 DEF SendCalled, TypeData, Frames, Results, Kinds, DataKinds, CloseKinds, Errors
  <2> QED
    BY <2>1, <2>2, <2>3
<1>33. ASSUME NEW s \in Senders, SendLocked(s) PROVE TypeTasks' /\ TypeFlags' /\ TypeData'
  <2>1. TypeTasks'
    BY <1>33 DEF SendLocked, LockFree, TypeTasks, Tasks, Loops, ShardPcs, RecvPcs, BeatPcs,
        SenderPcs, RcPcs
  <2>2. TypeFlags'
    BY <1>33 DEF SendLocked, LockFree, TypeFlags
  <2>3. TypeData'
    BY <1>33 DEF SendLocked, LockFree, TypeData, Frames, Results, Kinds, DataKinds, CloseKinds,
        Errors
  <2> QED
    BY <2>1, <2>2, <2>3
<1>34. ASSUME NEW s \in Senders, SendFrame(s) PROVE TypeTasks' /\ TypeFlags' /\ TypeData'
  <2>1. TypeTasks'
    BY <1>34 DEF SendFrame, Writable, TypeTasks, Tasks, Loops, ShardPcs, RecvPcs, BeatPcs,
        SenderPcs, RcPcs
  <2>2. TypeFlags'
    BY <1>34 DEF SendFrame, Writable, TypeFlags
  <2>3. TypeData'
    BY <1>34 DEF SendFrame, Writable, TypeData, Frames, Results, Kinds, DataKinds, CloseKinds,
        Errors
  <2> QED
    BY <2>1, <2>2, <2>3
<1>50. CASE UNCHANGED vars
  BY <1>50 DEF vars, TypeTasks, TypeFlags, TypeData
<1> QED
  BY <1>1, <1>2, <1>3, <1>4, <1>5, <1>6, <1>7, <1>8, <1>9, <1>10, <1>11, <1>12, <1>13, <1>14,
     <1>15, <1>16, <1>17, <1>18, <1>19, <1>20, <1>21, <1>22, <1>23, <1>24, <1>25, <1>26, <1>27,
     <1>28, <1>29, <1>30, <1>31, <1>32, <1>33, <1>34, <1>50
  DEF Next, ShardNext, ReceiveNext, ReconnectNext, BeatNext, SendNext, ClientNext, ServerNext

\* Type correctness, for every value of the constants.
THEOREM TypeCorrect == Spec => []TypeOK
<1>1. Init => TypeOK
  BY TypeInit
<1>2. TypeOK /\ [Next]_vars => TypeOK'
  BY TypeStep
<1> QED
  BY <1>1, <1>2, PTL DEF Spec

-----------------------------------------------------------------------------
\* The inductive invariant holds at the start ...
LEMMA IInvInit == Init => IInv
  BY NoOneAssumption, SendersAssumption
  DEF Init, IInv, LockHeld, Alone, SocketKnown, WakeKept, OneSocket, OneReconnector,
      InReconnect, ReceiveHasSocket, SendHasSocket, Tasks, Loops, Nothing, Frame, Errors

\* ... and every step of every task keeps it.
LEMMA IInvStep == TypeOK /\ IInv /\ [Next]_vars => IInv'
<1> SUFFICES ASSUME TypeTasks, TypeFlags, TypeData, IInv, [Next]_vars PROVE IInv'
  BY DEF TypeOK
<1> USE NoOneAssumption, SendersAssumption
<1> USE DEF taskVars, clientVars, sessVars, readyVars, netVars, srvVars
<1> USE DEF IInv, LockHeld, Alone, SocketKnown, WakeKept, OneSocket, OneReconnector, InReconnect,
            ReceiveHasSocket, SendHasSocket, Ending
<1>1. ASSUME EnterConnect PROVE IInv'
  <2>1. CASE Open
    <3>1. ws' # 0 /\ OneSocket'
      BY <1>1, <2>1 DEF EnterConnect, Open, TypeData
    <3>2. pc' = [pc EXCEPT !["shard"] = "hello"]
      BY <1>1, <2>1 DEF EnterConnect, Open, TypeData
    <3> QED
      BY <1>1, <2>1, <3>1, <3>2 DEF EnterConnect, TypeTasks, Tasks, Loops
  <2>2. CASE ~Open
    BY <1>1, <2>2 DEF EnterConnect, TypeTasks, Tasks, Loops
  <2> QED
    BY <2>1, <2>2
<1>2. ASSUME EnterHello PROVE IInv'
  BY <1>2 DEF EnterHello, Authenticate, Writable, HelloArrives, NoAsk, TypeTasks, TypeData,
      Tasks, Loops, Errors
<1>3. ASSUME EnterFails PROVE IInv'
  BY <1>3 DEF EnterFails, HelloErrors, HelloArrives, Writable, TypeTasks, TypeData, Tasks,
      Loops, Errors
<1>4. ASSUME RunEvent PROVE IInv'
  BY <1>4 DEF RunEvent, Dispatch, NextReceive, AfterWait, Nothing, Frame, Noop, TypeTasks,
      TypeData, Tasks, Loops, Errors
<1>5. ASSUME RunOpcode PROVE IInv'
  BY <1>5 DEF RunOpcode, StartReconnect, Nothing, Frame, Noop, TypeTasks, TypeData, Tasks,
      Loops, Errors
<1>6. ASSUME RunRaises PROVE IInv'
  BY <1>6 DEF RunRaises, Leave, Nothing, Frame, TypeTasks, TypeData, Tasks, Loops, Errors
<1>7. ASSUME RunStops PROVE IInv'
  BY <1>7 DEF RunStops, Leave, TypeTasks, TypeData, Tasks, Loops, Errors
<1>8. ASSUME ExitClose PROVE IInv'
  BY <1>8 DEF ExitClose, Close, NoAsk, Frame, TypeTasks, TypeData, Tasks, Loops, Errors
<1>9. ASSUME Retry PROVE IInv'
  BY <1>9 DEF Retry, Nothing, Frame, TypeTasks, TypeData, Tasks, Loops, Errors
<1>10. ASSUME ReceiveWoken PROVE IInv'
  BY <1>10 DEF ReceiveWoken, TypeTasks, TypeData, Tasks, Loops, Errors
<1>11. ASSUME ReceiveData PROVE IInv'
  BY <1>11 DEF ReceiveData, AfterWait, Raise, Frame, TypeTasks, TypeData, Tasks, Loops, Errors
<1>12. ASSUME ReceiveClose PROVE IInv'
  BY <1>12 DEF ReceiveClose, StartReconnect, Raise, Frame, TypeTasks, TypeData, Tasks, Loops,
      Errors
<1>13. ASSUME ReceiveClosed PROVE IInv'
  BY <1>13 DEF ReceiveClosed, StartReconnect, Noop, Frame, TypeTasks, TypeData, Tasks, Loops,
      Errors
<1>14. ASSUME ReceiveClosing PROVE IInv'
  BY <1>14 DEF ReceiveClosing, AfterWait, TypeTasks, TypeData, Tasks, Loops, Errors
<1>15. ASSUME BeatTurn PROVE IInv'
  BY <1>15 DEF BeatTurn, StartReconnect, TypeTasks, TypeData, Tasks, Loops, Errors
<1>16. ASSUME BeatKilled PROVE IInv'
  BY <1>16 DEF BeatKilled, TypeTasks, TypeData, Tasks, Loops, Errors
<1>17. ASSUME Settled PROVE IInv'
  BY <1>17 DEF Settled, TypeTasks, TypeData, Tasks, Loops, Errors
<1>18. ASSUME StopHttp PROVE IInv'
  BY <1>18 DEF StopHttp, TypeTasks, TypeData, Tasks, Loops, Errors
<1>19. ASSUME StopGateway PROVE IInv'
  BY <1>19 DEF StopGateway, TypeTasks, TypeData, Tasks, Loops, Errors
<1>20. ASSUME StopJoin PROVE IInv'
  BY <1>20 DEF StopJoin, TypeTasks, TypeData, Tasks, Loops, Errors
<1>21. ASSUME ServerAnswers PROVE IInv'
  BY <1>21 DEF ServerAnswers, Deliver, Event, Frame, NoAsk, TypeTasks, TypeData, Tasks, Loops,
      Errors
<1>22. ASSUME ServerEvent PROVE IInv'
  BY <1>22 DEF ServerEvent, Deliver, Event, TypeTasks, TypeData, Tasks, Loops, Errors
<1>23. ASSUME ServerAck PROVE IInv'
  BY <1>23 DEF ServerAck, Deliver, Frame, TypeTasks, TypeData, Tasks, Loops, Errors
<1>24. ASSUME ServerControl PROVE IInv'
  BY <1>24 DEF ServerControl, Deliver, Frame, TypeTasks, TypeData, Tasks, Loops, Errors
<1>25. ASSUME NetworkFails PROVE IInv'
  BY <1>25 DEF NetworkFails, TypeTasks, TypeData, Tasks, Loops, Errors
<1>26. ASSUME NEW t \in Loops, ReconnectLocked(t) PROVE IInv'
  BY <1>26 DEF ReconnectLocked, LockFree, TypeTasks, TypeData, Tasks, Loops, Errors
<1>27. ASSUME NEW t \in Loops, ReconnectClose(t) PROVE IInv'
  BY <1>27 DEF ReconnectClose, Close, NoAsk, Frame, TypeTasks, TypeData, Tasks, Loops, Errors
<1>28. ASSUME NEW t \in Loops, ReconnectConnect(t) PROVE IInv'
  BY <1>28 DEF ReconnectConnect, Open, NoAsk, Frame, TypeTasks, TypeData, Tasks, Loops, Errors
<1>29. ASSUME NEW t \in Loops, ReconnectHello(t) PROVE IInv'
  BY <1>29 DEF ReconnectHello, Authenticate, Writable, HelloArrives, NoAsk, TypeTasks, TypeData,
      Tasks, Loops, Errors
<1>30. ASSUME NEW t \in Loops, ReconnectFails(t) PROVE IInv'
  <2>1. PICK e \in Errors : Raised(t, e)
    BY <1>30 DEF ReconnectFails
  <2>2. CASE t = "recv"
    BY <1>30, <2>1, <2>2 DEF ReconnectFails, Raised, Raise, Frame, TypeTasks, Tasks, Loops
  <2>3. CASE t = "beat"
    BY <1>30, <2>1, <2>3 DEF ReconnectFails, Raised, TypeTasks, Tasks, Loops
  <2>4. CASE t = "shard"
    BY <1>30, <2>1, <2>4 DEF ReconnectFails, Raised, Leave, TypeTasks, Tasks, Loops
  <2> QED
    BY <2>2, <2>3, <2>4 DEF Loops
<1>31. ASSUME NEW t \in {"shard", "beat"}, Heartbeat(t) PROVE IInv'
  <2>1. CASE t = "beat"
    BY <1>31, <2>1 DEF Heartbeat, LockFree, Raised, TypeTasks, Tasks, Loops
  <2>2. CASE t = "shard"
    BY <1>31, <2>2 DEF Heartbeat, LockFree, Raised, Leave, AfterWait, TypeTasks, TypeFlags,
                       Tasks, Loops, Errors
  <2> QED
    BY <2>1, <2>2
<1>32. ASSUME NEW s \in Senders, SendCalled(s) PROVE IInv'
  BY <1>32 DEF SendCalled, TypeTasks, TypeData, Tasks, Loops, Errors
<1>33. ASSUME NEW s \in Senders, SendLocked(s) PROVE IInv'
  BY <1>33 DEF SendLocked, LockFree, TypeTasks, TypeData, Tasks, Loops, Errors
<1>34. ASSUME NEW s \in Senders, SendFrame(s) PROVE IInv'
  BY <1>34 DEF SendFrame, Writable, TypeTasks, TypeData, Tasks, Loops, Errors
<1>50. CASE UNCHANGED vars
  BY <1>50 DEF vars
<1> QED
  BY <1>1, <1>2, <1>3, <1>4, <1>5, <1>6, <1>7, <1>8, <1>9, <1>10, <1>11, <1>12, <1>13, <1>14,
     <1>15, <1>16, <1>17, <1>18, <1>19, <1>20, <1>21, <1>22, <1>23, <1>24, <1>25, <1>26, <1>27,
     <1>28, <1>29, <1>30, <1>31, <1>32, <1>33, <1>34, <1>50
  DEF Next, ShardNext, ReceiveNext, ReconnectNext, BeatNext, SendNext, ClientNext, ServerNext

\* The inductive invariant holds in every reachable state.
THEOREM Inductive == Spec => []IInv
<1>1. Init => IInv
  BY IInvInit
<1>2. TypeOK /\ IInv /\ [Next]_vars => IInv'
  BY IInvStep
<1> QED
  BY <1>1, <1>2, TypeCorrect, PTL DEF Spec

\* Only the connection in self.ws is open.
THEOREM SocketsClosed == Spec => []OneSocket
<1>1. IInv => OneSocket
  BY DEF IInv
<1> QED
  BY <1>1, Inductive, PTL

\* receive() always has a socket to read.
THEOREM ReceiveSafe == Spec => []ReceiveHasSocket
<1>1. IInv => ReceiveHasSocket
  BY DEF IInv
<1> QED
  BY <1>1, Inductive, PTL

\* A sender waiting for the rate limit keeps its socket.
THEOREM SendSafe == Spec => []SendHasSocket
<1>1. IInv => SendHasSocket
  BY DEF IInv
<1> QED
  BY <1>1, Inductive, PTL

\* A receive() that waits for _closed is owed it.
THEOREM WaitersOwed == Spec => []WaiterIsOwed
<1>1. IInv => WaiterIsOwed
  BY DEF IInv, WakeKept, WaiterIsOwed
<1> QED
  BY <1>1, Inductive, PTL

-----------------------------------------------------------------------------
(***************************************************************************)
(* The order of events.  A place is a session and the number of one of its *)
(* events.  The unread frames lead from the place of what receive() has    *)
(* returned to the place e at their end, when every numbered frame follows *)
(* the numbered one before it; e is then where the server goes on, or what *)
(* a RESUME it has yet to answer asks for.                                 *)
(***************************************************************************)
Places == [s : Nat, n : Nat]
Place(f) == [s |-> f.s, n |-> f.n]

\* Frame f is the event after place p, or the READY of a later session.
Follows(p, f) == (f.s = p.s /\ f.n = p.n + 1) \/ (f.s > p.s /\ f.n = 1)

\* at[i] is the place reached by the first i frames of q from p; N bounds its session.
Chain(q, p, N, at) ==
    /\ at[0] = p
    /\ \A i \in 1..Len(q) : IF q[i].n = 0 THEN at[i] = at[i - 1]
                            ELSE at[i] = Place(q[i]) /\ Follows(at[i - 1], q[i])
    /\ \A i \in 0..Len(q) : at[i].s <= N

Leads(q, p, N, e) == \E at \in [0..Len(q) -> Places] : Chain(q, p, N, at) /\ at[Len(q)] = e

\* Frames without a number lead nowhere.
LEMMA LeadsNowhere ==
  ASSUME NEW q \in Seq(Frames), NEW p \in Places, NEW N \in Nat, p.s <= N,
         \A i \in 1..Len(q) : q[i].n = 0
  PROVE  Leads(q, p, N, p)
<1> DEFINE at == [i \in 0..Len(q) |-> p]
<1>1. at \in [0..Len(q) -> Places] /\ at[Len(q)] = p
  OBVIOUS
<1>2. Chain(q, p, N, at)
  BY DEF Chain
<1> QED
  BY <1>1, <1>2 DEF Leads

\* The first frame is taken.
LEMMA LeadsOn ==
  ASSUME NEW q \in Seq(Frames), NEW p \in Places, NEW N \in Nat, NEW e,
         Leads(q, p, N, e), q # <<>>
  PROVE  /\ Head(q).n = 0 => Leads(Tail(q), p, N, e)
         /\ Head(q).n # 0 => /\ Follows(p, Head(q)) /\ Head(q).s <= N
                             /\ Leads(Tail(q), Place(Head(q)), N, e)
<1>1. PICK at \in [0..Len(q) -> Places] : Chain(q, p, N, at) /\ at[Len(q)] = e
  BY DEF Leads
<1>2. /\ Len(q) \in Nat \ {0} /\ Len(Tail(q)) = Len(q) - 1 /\ Head(q) = q[1]
      /\ \A i \in 1..Len(Tail(q)) : Tail(q)[i] = q[i + 1]
  OBVIOUS
<1> DEFINE on1 == [i \in 0..Len(Tail(q)) |-> at[i + 1]]
<1>3. on1 \in [0..Len(Tail(q)) -> Places] /\ on1[Len(Tail(q))] = e /\ on1[0] = at[1]
  BY <1>1, <1>2
<1>4. Chain(Tail(q), at[1], N, on1)
  BY <1>1, <1>2, <1>3 DEF Chain
<1>5. Leads(Tail(q), at[1], N, e)
  BY <1>3, <1>4 DEF Leads
<1>6. IF q[1].n = 0 THEN at[1] = p ELSE at[1] = Place(q[1]) /\ Follows(p, q[1])
  BY <1>1, <1>2 DEF Chain
<1>7. at[1].s <= N
  BY <1>1, <1>2 DEF Chain
<1> QED
  BY <1>2, <1>5, <1>6, <1>7 DEF Place

\* A frame arrives.
LEMMA LeadsTo ==
  ASSUME NEW q \in Seq(Frames), NEW p \in Places, NEW N \in Nat, NEW M \in Nat, NEW e \in Places,
         NEW f \in Frames, Leads(q, p, N, e), N <= M
  PROVE  /\ f.n = 0 => Leads(Append(q, f), p, M, e)
         /\ Follows(e, f) /\ f.n # 0 /\ f.s <= M => Leads(Append(q, f), p, M, Place(f))
<1>1. PICK at \in [0..Len(q) -> Places] : Chain(q, p, N, at) /\ at[Len(q)] = e
  BY DEF Leads
<1>2. /\ Len(q) \in Nat /\ Len(Append(q, f)) = Len(q) + 1 /\ Append(q, f)[Len(q) + 1] = f
      /\ \A i \in 1..Len(q) : Append(q, f)[i] = q[i]
  OBVIOUS
<1>3. ASSUME NEW d \in Places, d.s <= M, IF f.n = 0 THEN d = e ELSE d = Place(f) /\ Follows(e, f)
      PROVE  Leads(Append(q, f), p, M, d)
  <2> DEFINE to == [i \in 0..Len(Append(q, f)) |-> IF i <= Len(q) THEN at[i] ELSE d]
  <2>1. /\ to \in [0..Len(Append(q, f)) -> Places] /\ to[Len(Append(q, f))] = d /\ to[0] = p
        /\ \A i \in 0..Len(q) : to[i] = at[i]
        /\ to[Len(q) + 1] = d
    BY <1>1, <1>2, <1>3 DEF Chain
  <2> HIDE DEF to
  <2>2. ASSUME NEW i \in 1..Len(Append(q, f))
        PROVE  IF Append(q, f)[i].n = 0 THEN to[i] = to[i - 1]
               ELSE to[i] = Place(Append(q, f)[i]) /\ Follows(to[i - 1], Append(q, f)[i])
    <3>1. CASE i = Len(q) + 1
      <4>1. Append(q, f)[i] = f /\ to[i] = d /\ to[i - 1] = e
        BY <1>1, <1>2, <2>1, <3>1
      <4> QED
        BY <1>3, <4>1
    <3>2. CASE i \in 1..Len(q)
      <4>1. i \in 0..Len(q) /\ i - 1 \in 0..Len(q)
        BY <3>2
      <4>2. to[i] = at[i] /\ to[i - 1] = at[i - 1] /\ Append(q, f)[i] = q[i]
        BY <1>2, <2>1, <3>2, <4>1
      <4> QED
        BY <1>1, <3>2, <4>2 DEF Chain
    <3> QED
      BY <1>2, <3>1, <3>2
  <2>3. ASSUME NEW i \in 0..Len(Append(q, f)) PROVE to[i].s <= M
    <3>1. CASE i = Len(q) + 1
      BY <1>3, <2>1, <3>1
    <3>2. CASE i \in 0..Len(q)
      BY <1>1, <2>1, <3>2 DEF Chain, Places
    <3> QED
      BY <1>2, <3>1, <3>2
  <2> QED
    BY <2>1, <2>2, <2>3 DEF Leads, Chain
<1>4. e.s <= M
  BY <1>1 DEF Chain, Places
<1>5. Place(f) \in Places /\ Place(f).s = f.s
  BY DEF Place, Places, Frames
<1> QED
  BY <1>3, <1>4, <1>5

-----------------------------------------------------------------------------
\* Only READY and EVENT frames are numbered; a session begins with its READY.
Numbering(f) == \/ f.k \notin {"READY", "EVENT"} /\ f.n = 0
                \/ f.k = "READY" /\ f.n = 1
                \/ f.k = "EVENT" /\ f.n > 1

\* The place of the last event receive() has returned.
Here == IF got.n # 0 THEN Place(got) ELSE last

\* The shard still takes what receive() returns.
Reading == pc["shard"] \notin {"exit", "ended"} /\ got.k \notin Errors

\* The server has sent everything up to place e, or is asked to go on from there.
SentTo(e) ==
    /\ on => e = [s |-> valid, n |-> spos]
    /\ (ask.k = "resume" /\ ask.s # 0) => e = [s |-> ask.s, n |-> ask.n]

\* While a task opens a connection no receive() reads a socket, and none of its results
\* is left to handle once the connection is there.
Undisturbed == \A t \in Loops :
    /\ pc[t] \in {"rcConnect", "rcHello"} => pc["recv"] # "socket"
    /\ pc[t] = "rcHello" => pc["recv"] # "done"

\* What a RESUME will ask for is the place of the last event dispatched.
Recorded == last.s <= sessions /\ (sess # 0 => last = [s |-> sess, n |-> seq] /\ seq # 0)

Received == /\ Numbering(got)
            /\ got.n # 0 => pc["recv"] = "done" /\ got.s <= sessions /\ Follows(last, got)

\* A server with a session on the connection has nothing to answer.
ServerSure == /\ on => valid # 0 /\ spos # 0 /\ ask.k = "none"
              /\ ask.s # 0 => ask.n # 0

Numbered == \A i \in 1..Len(rx) : Numbering(rx[i])

\* HELLO comes first, and nothing numbered comes before it is answered.
Greeted == \A i \in 1..Len(rx) : rx[i].k = "HELLO" =>
               i = 1 /\ ~on /\ ask.k = "none" /\ \A j \in 1..Len(rx) : rx[j].n = 0

\* The unread frames lead from the last event received to where the server is.
Streaming == Reading => \E e \in Places : Leads(rx, Here, sessions, e) /\ SentTo(e)

Steady == Undisturbed /\ Recorded /\ Received /\ ServerSure
Orderly == Numbered /\ Greeted /\ Streaming
OrderInv == Steady /\ Orderly

\* The place reached is a place.
LEMMA HereIs == TypeOK => Here \in Places
  BY DEF TypeOK, TypeData, Here, Places, Place, Results

\* A step that leaves the frames alone.
LEMMA SameFrames ==
  ASSUME Orderly, rx' = rx, sessions' = sessions, ask' = ask,
         on' => on /\ valid' = valid /\ spos' = spos,
         Reading' => Reading /\ Here' = Here
  PROVE  Orderly'
<1>1. Numbered' /\ Greeted'
  BY DEF Orderly, Numbered, Greeted, Numbering
<1>2. ASSUME Reading' PROVE \E e \in Places : Leads(rx', Here', sessions', e) /\ SentTo(e)'
  <2>1. PICK e \in Places : Leads(rx, Here, sessions, e) /\ SentTo(e)
    BY <1>2 DEF Orderly, Streaming
  <2>2. SentTo(e)'
    BY <2>1 DEF SentTo
  <2> QED
    BY <1>2, <2>1, <2>2
<1>3. Streaming'
  BY <1>2 DEF Streaming
<1> QED
  BY <1>1, <1>3 DEF Orderly

\* A step after which no numbered frame is unread.
LEMMA FreshFrames ==
  ASSUME TypeOK', \A i \in 1..Len(rx') : Numbering(rx'[i]) /\ rx'[i].n = 0,
         \A i \in 1..Len(rx') : rx'[i].k = "HELLO" => i = 1 /\ ask'.k = "none",
         ~on', NEW e, Here' = e, e.s <= sessions',
         ask'.k = "resume" /\ ask'.s # 0 => e = [s |-> ask'.s, n |-> ask'.n]
  PROVE  Orderly'
<1>1. Numbered' /\ Greeted'
  BY DEF Numbered, Greeted, Numbering
<1>2. rx' \in Seq(Frames) /\ e \in Places /\ sessions' \in Nat
  BY DEF TypeOK, TypeData, Here, Places, Place, Results
<1>3. Leads(rx', e, sessions', e)
  BY <1>2, LeadsNowhere
<1>4. SentTo(e)'
  BY DEF SentTo
<1>5. Streaming'
  BY <1>2, <1>3, <1>4 DEF Streaming
<1> QED
  BY <1>1, <1>5 DEF Orderly

\* A step that takes the first frame.
LEMMA FrameTaken ==
  ASSUME TypeOK, Orderly, rx # <<>>, rx' = Tail(rx),
         UNCHANGED <<ask, on, valid, spos, sessions>>,
         Reading' => Reading /\ Here' = IF Head(rx).n = 0 THEN Here ELSE Place(Head(rx))
  PROVE  Orderly'
<1>1. rx \in Seq(Frames) /\ sessions \in Nat /\ Here \in Places
  BY HereIs DEF TypeOK, TypeData
<1>2. Len(rx') = Len(rx) - 1 /\ \A i \in 1..Len(rx') : rx'[i] = rx[i + 1] /\ i + 1 \in 1..Len(rx)
  BY <1>1
<1>3. Numbered'
  BY <1>2 DEF Orderly, Numbered, Numbering
<1>4. Greeted'
  <2>1. \A i \in 1..Len(rx') : rx'[i].k # "HELLO"
    BY <1>1, <1>2 DEF Orderly, Greeted
  <2> QED
    BY <2>1 DEF Greeted
<1>5. ASSUME Reading' PROVE \E e \in Places : Leads(rx', Here', sessions', e) /\ SentTo(e)'
  <2>1. PICK e \in Places : Leads(rx, Here, sessions, e) /\ SentTo(e)
    BY <1>5 DEF Orderly, Streaming
  <2>2. Leads(rx', Here', sessions', e)
    <3>1. Head(rx).n = 0 => Leads(Tail(rx), Here, sessions, e)
      BY <1>1, <2>1, LeadsOn
    <3>2. Head(rx).n # 0 => Leads(Tail(rx), Place(Head(rx)), sessions, e)
      BY <1>1, <2>1, LeadsOn
    <3> QED
      BY <1>5, <3>1, <3>2
  <2>3. SentTo(e)'
    BY <2>1 DEF SentTo
  <2> QED
    BY <2>2, <2>3
<1>6. Streaming'
  BY <1>5 DEF Streaming
<1> QED
  BY <1>3, <1>4, <1>6 DEF Orderly

\* The server sends frame f.
LEMMA FrameAdded ==
  ASSUME TypeOK, Orderly, NEW f \in Frames, Numbering(f), f.k # "HELLO", rx' = Append(rx, f),
         sessions' \in Nat, sessions <= sessions', Reading' => Reading /\ Here' = Here,
         ~on /\ ask.k = "none" => f.n = 0 /\ ~on' /\ ask'.k = "none",
         \A e \in Places : e.s <= sessions /\ SentTo(e) =>
             \/ f.n = 0 /\ SentTo(e)'
             \/ f.n # 0 /\ Follows(e, f) /\ f.s <= sessions' /\ SentTo(Place(f))'
  PROVE  Orderly'
<1>1. rx \in Seq(Frames) /\ sessions \in Nat /\ Here \in Places
  BY HereIs DEF TypeOK, TypeData
<1>2. /\ Len(rx') = Len(rx) + 1 /\ Len(rx) \in Nat /\ rx'[Len(rx) + 1] = f
      /\ \A i \in 1..Len(rx) : rx'[i] = rx[i]
  BY <1>1
<1>3. Numbered'
  BY <1>2 DEF Orderly, Numbered, Numbering
<1>4. Greeted'
  BY <1>2 DEF Orderly, Greeted
<1>5. ASSUME Reading' PROVE \E e \in Places : Leads(rx', Here', sessions', e) /\ SentTo(e)'
  <2>1. PICK e \in Places : Leads(rx, Here, sessions, e) /\ SentTo(e)
    BY <1>5 DEF Orderly, Streaming
  <2>2. e.s <= sessions
    <3>1. PICK at \in [0..Len(rx) -> Places] : Chain(rx, Here, sessions, at) /\ at[Len(rx)] = e
      BY <2>1 DEF Leads
    <3> QED
      BY <1>2, <3>1 DEF Chain
  <2>3. CASE f.n = 0 /\ SentTo(e)'
    <3>1. Leads(rx', Here', sessions', e)
      BY <1>1, <1>5, <2>1, <2>3, LeadsTo
    <3> QED
      BY <2>3, <3>1
  <2>4. CASE f.n # 0 /\ Follows(e, f) /\ f.s <= sessions' /\ SentTo(Place(f))'
    <3>1. Leads(rx', Here', sessions', Place(f))
      BY <1>1, <1>5, <2>1, <2>4, LeadsTo
    <3>2. Place(f) \in Places
      BY DEF Place, Places, Frames
    <3> QED
      BY <2>4, <3>1, <3>2
  <2> QED
    BY <2>1, <2>2, <2>3, <2>4
<1>6. Streaming'
  BY <1>5 DEF Streaming
<1> QED
  BY <1>3, <1>4, <1>6 DEF Orderly

\* Every step of every task keeps what the order rests on, apart from the frames.
LEMMA SteadyKept == TypeOK /\ IInv /\ OrderInv /\ [Next]_vars => Steady'
<1> SUFFICES ASSUME TypeTasks, TypeFlags, TypeData, IInv, Steady, Orderly, [Next]_vars
             PROVE Steady'
  BY DEF TypeOK, OrderInv
<1> USE NoOneAssumption, SendersAssumption
<1> USE DEF taskVars, clientVars, sessVars, readyVars, netVars, srvVars
<1> USE DEF Steady, Undisturbed, Recorded, Received, ServerSure
<1>0. /\ \A t \in Loops : InReconnect(t) => lock = t /\ ~closedEv
      /\ pc["recv"] # "none" => pc["shard"] = "run"
      /\ pc["recv"] = "woken" => closedEv
      /\ got.k \in Errors => pc["recv"] = "done"
  BY DEF IInv, LockHeld, OneReconnector, Alone, WakeKept
<1>60. HelloArrives => ~on /\ ask.k = "none"
  <2>1. rx # <<>> => 1 \in 1..Len(rx) /\ Head(rx) = rx[1]
    BY DEF TypeData
  <2> QED
    BY <2>1 DEF HelloArrives, Orderly, Greeted
<1>1. ASSUME EnterConnect PROVE Steady'
  <2>1. pc["recv"] = "none" /\ UNCHANGED <<got, last, sess, seq, sessions>>
    BY <1>0, <1>1 DEF EnterConnect, Open
  <2>2. \A t \in Loops : t # "shard" => pc'[t] = pc[t]
    BY <1>1 DEF EnterConnect, TypeTasks, Tasks, Loops
  <2>3. pc'["shard"] \in {"hello", "backoff", "ended"}
    BY <1>1 DEF EnterConnect, TypeTasks, Tasks, Loops
  <2>4. ServerSure'
    BY <1>1 DEF EnterConnect, Open, NoAsk
  <2>5. Undisturbed'
    BY <2>1, <2>2, <2>3 DEF Loops
  <2>6. Recorded'
    BY <2>1
  <2>7. Received'
    BY <2>1, <2>2 DEF Loops, Numbering, Follows
  <2> QED
    BY <2>4, <2>5, <2>6, <2>7
<1>2. ASSUME EnterHello PROVE Steady'
  BY <1>0, <1>60, <1>2 DEF EnterHello, Authenticate, Writable, NoAsk, InReconnect,
      TypeTasks, TypeData, Tasks, Loops, Errors, Numbering, Follows
<1>3. ASSUME EnterFails PROVE Steady'
  BY <1>0, <1>3 DEF EnterFails, HelloErrors, HelloArrives, Writable, InReconnect, TypeTasks,
      TypeData, Tasks, Loops, Errors, Numbering, Follows
<1>4. ASSUME RunEvent PROVE Steady'
  BY <1>0, <1>4 DEF RunEvent, Dispatch, NextReceive, AfterWait, Nothing, Frame, Noop,
      InReconnect, TypeTasks, TypeData, Tasks, Loops, Errors, Numbering, Follows
<1>5. ASSUME RunOpcode PROVE Steady'
  BY <1>0, <1>5 DEF RunOpcode, StartReconnect, Nothing, Frame, Noop, InReconnect, TypeTasks,
      TypeData, Tasks, Loops, Errors, Numbering, Follows
<1>6. ASSUME RunRaises PROVE Steady'
  BY <1>0, <1>6 DEF RunRaises, Leave, Nothing, Frame, InReconnect, TypeTasks, TypeData, Tasks,
      Loops, Errors, Numbering, Follows
<1>7. ASSUME RunStops PROVE Steady'
  BY <1>0, <1>7 DEF RunStops, Leave, InReconnect, TypeTasks, TypeData, Tasks, Loops, Errors,
      Numbering, Follows
<1>8. ASSUME ExitClose PROVE Steady'
  BY <1>0, <1>8 DEF ExitClose, Close, NoAsk, Frame, InReconnect, TypeTasks, TypeData, Tasks,
      Loops, Errors, Numbering, Follows
<1>9. ASSUME Retry PROVE Steady'
  BY <1>0, <1>9 DEF Retry, Nothing, Frame, InReconnect, TypeTasks, TypeData, Tasks, Loops,
      Errors, Numbering, Follows
<1>10. ASSUME ReceiveWoken PROVE Steady'
  BY <1>0, <1>10 DEF ReceiveWoken, InReconnect, TypeTasks, TypeData, Tasks, Loops, Errors,
      Numbering, Follows
<1>11. ASSUME ReceiveData PROVE Steady'
  <2>1. Numbering(Head(rx)) /\ Head(rx) \in Frames
    BY <1>11, HeadTail DEF ReceiveData, TypeData, Orderly, Numbered
  <2>2. got.n = 0 /\ Reading
    BY <1>0, <1>11 DEF ReceiveData, Reading
  <2>3. Head(rx).n # 0 => Head(rx).s <= sessions /\ Follows(last, Head(rx))
    <3>1. PICK e \in Places : Leads(rx, Here, sessions, e)
      BY <2>2 DEF Orderly, Streaming
    <3>2. Here = last /\ Here \in Places
      BY <2>2, HereIs DEF Here, TypeOK
    <3> QED
      BY <1>11, <3>1, <3>2, LeadsOn DEF ReceiveData, TypeData
  <2>4. Numbering(got')
    BY <1>11, <2>1 DEF ReceiveData, Raise, Frame, Numbering
  <2>5. got'.n # 0 => pc'["recv"] = "done" /\ got'.s <= sessions' /\ Follows(last', got')
    BY <1>11, <2>2, <2>3 DEF ReceiveData, Raise, Frame, TypeTasks, Tasks, Loops, Follows
  <2>6. Undisturbed'
    BY <1>0, <1>11 DEF ReceiveData, AfterWait, InReconnect, TypeTasks, Tasks, Loops
  <2>7. Recorded' /\ ServerSure'
    BY <1>11 DEF ReceiveData
  <2> QED
    BY <2>4, <2>5, <2>6, <2>7
<1>12. ASSUME ReceiveClose PROVE Steady'
  BY <1>0, <1>12 DEF ReceiveClose, StartReconnect, Raise, Frame, InReconnect, TypeTasks,
      TypeData, Tasks, Loops, Errors, Numbering, Follows
<1>13. ASSUME ReceiveClosed PROVE Steady'
  BY <1>0, <1>13 DEF ReceiveClosed, StartReconnect, Noop, Frame, InReconnect, TypeTasks,
      TypeData, Tasks, Loops, Errors, Numbering, Follows
<1>14. ASSUME ReceiveClosing PROVE Steady'
  BY <1>0, <1>14 DEF ReceiveClosing, AfterWait, InReconnect, TypeTasks, TypeData, Tasks, Loops,
      Errors, Numbering, Follows
<1>15. ASSUME BeatTurn PROVE Steady'
  BY <1>0, <1>15 DEF BeatTurn, StartReconnect, InReconnect, TypeTasks, TypeData, Tasks, Loops,
      Errors, Numbering, Follows
<1>16. ASSUME BeatKilled PROVE Steady'
  BY <1>0, <1>16 DEF BeatKilled, InReconnect, TypeTasks, TypeData, Tasks, Loops, Errors,
      Numbering, Follows
<1>17. ASSUME Settled PROVE Steady'
  BY <1>0, <1>17 DEF Settled, InReconnect, TypeTasks, TypeData, Tasks, Loops, Errors,
      Numbering, Follows
<1>18. ASSUME StopHttp PROVE Steady'
  BY <1>0, <1>18 DEF StopHttp, InReconnect, TypeTasks, TypeData, Tasks, Loops, Errors,
      Numbering, Follows
<1>19. ASSUME StopGateway PROVE Steady'
  BY <1>0, <1>19 DEF StopGateway, InReconnect, TypeTasks, TypeData, Tasks, Loops, Errors,
      Numbering, Follows
<1>20. ASSUME StopJoin PROVE Steady'
  BY <1>0, <1>20 DEF StopJoin, InReconnect, TypeTasks, TypeData, Tasks, Loops, Errors,
      Numbering, Follows
<1>21. ASSUME ServerAnswers PROVE Steady'
  <2>1. sessions' \in Nat /\ sessions <= sessions' /\ last.s \in Nat /\ got.s \in Nat
    BY <1>21 DEF ServerAnswers, TypeData, Results
  <2>2. UNCHANGED <<pc, got, last, sess, seq>>
    BY <1>21 DEF ServerAnswers
  <2>3. ServerSure'
    <3>1. ask' = NoAsk /\ (on' => valid' # 0 /\ spos' # 0)
      BY <1>21 DEF ServerAnswers, TypeData
    <3> QED
      BY <3>1 DEF NoAsk
  <2>4. Recorded' /\ Received'
    BY <2>1, <2>2 DEF TypeData, Numbering, Follows
  <2>5. Undisturbed'
    BY <2>2
  <2> QED
    BY <2>3, <2>4, <2>5
<1>22. ASSUME ServerEvent PROVE Steady'
  BY <1>0, <1>22 DEF ServerEvent, Deliver, Event, InReconnect, TypeTasks, TypeData, Tasks,
      Loops, Errors, Numbering, Follows
<1>23. ASSUME ServerAck PROVE Steady'
  BY <1>0, <1>23 DEF ServerAck, Deliver, Frame, InReconnect, TypeTasks, TypeData, Tasks, Loops,
      Errors, Numbering, Follows
<1>24. ASSUME ServerControl PROVE Steady'
  BY <1>0, <1>24 DEF ServerControl, Deliver, Frame, InReconnect, TypeTasks, TypeData, Tasks,
      Loops, Errors, Numbering, Follows
<1>25. ASSUME NetworkFails PROVE Steady'
  BY <1>0, <1>25 DEF NetworkFails, InReconnect, TypeTasks, TypeData, Tasks, Loops, Errors,
      Numbering, Follows
<1>26. ASSUME NEW t \in Loops, ReconnectLocked(t) PROVE Steady'
  BY <1>0, <1>26 DEF ReconnectLocked, LockFree, InReconnect, TypeTasks, TypeData, Tasks, Loops,
      Errors, Numbering, Follows
<1>27. ASSUME NEW t \in Loops, ReconnectClose(t) PROVE Steady'
  BY <1>0, <1>27 DEF ReconnectClose, Close, NoAsk, Frame, InReconnect, TypeTasks, TypeData,
      Tasks, Loops, Errors, Numbering, Follows
<1>28. ASSUME NEW t \in Loops, ReconnectConnect(t) PROVE Steady'
  BY <1>0, <1>28 DEF ReconnectConnect, Open, NoAsk, Frame, InReconnect, TypeTasks, TypeData,
      Tasks, Loops, Errors, Numbering, Follows
<1>29. ASSUME NEW t \in Loops, ReconnectHello(t) PROVE Steady'
  BY <1>0, <1>60, <1>29 DEF ReconnectHello, Authenticate, Writable, NoAsk, InReconnect,
      TypeTasks, TypeData, Tasks, Loops, Errors, Numbering, Follows
<1>30. ASSUME NEW t \in Loops, ReconnectFails(t) PROVE Steady'
  BY <1>0, <1>30 DEF ReconnectFails, Raised, Leave, Raise, Frame, InReconnect, TypeTasks,
      TypeData, Tasks, Loops, Errors, Numbering, Follows
<1>31. ASSUME NEW t \in {"shard", "beat"}, Heartbeat(t) PROVE Steady'
  BY <1>0, <1>31 DEF Heartbeat, LockFree, Raised, Leave, Raise, Frame, AfterWait, Writable,
      InReconnect, TypeTasks, TypeData, Tasks, Loops, Errors, Numbering, Follows
<1>32. ASSUME NEW s \in Senders, SendCalled(s) PROVE Steady'
  BY <1>0, <1>32 DEF SendCalled, InReconnect, TypeTasks, TypeData, Tasks, Loops, Errors,
      Numbering, Follows
<1>33. ASSUME NEW s \in Senders, SendLocked(s) PROVE Steady'
  BY <1>0, <1>33 DEF SendLocked, LockFree, InReconnect, TypeTasks, TypeData, Tasks, Loops,
      Errors, Numbering, Follows
<1>34. ASSUME NEW s \in Senders, SendFrame(s) PROVE Steady'
  BY <1>0, <1>34 DEF SendFrame, Writable, InReconnect, TypeTasks, TypeData, Tasks, Loops,
      Errors, Numbering, Follows
<1>50. CASE UNCHANGED vars
  BY <1>50 DEF vars
<1> QED
  BY <1>1, <1>2, <1>3, <1>4, <1>5, <1>6, <1>7, <1>8, <1>9, <1>10, <1>11, <1>12, <1>13, <1>14,
      <1>15, <1>16, <1>17, <1>18, <1>19, <1>20, <1>21, <1>22, <1>23, <1>24, <1>25, <1>26,
      <1>27, <1>28, <1>29, <1>30, <1>31, <1>32, <1>33, <1>34, <1>50
  DEF Next, ShardNext, ReceiveNext, ReconnectNext, BeatNext, SendNext, ClientNext, ServerNext

\* A connection is opened, or closed, when nothing received is left to dispatch.
LEMMA OrderlyOpen == ASSUME TypeOK', Open, Here' = last, last.s <= sessions PROVE Orderly'
<1>1. PICK k \in {"HELLO"} \cup CloseKinds : rx' = <<Frame(k)>>
  BY DEF Open
<1>2. \A i \in 1..Len(rx') : Numbering(rx'[i]) /\ rx'[i].n = 0 /\ i = 1
  BY <1>1 DEF Frame, CloseKinds, Numbering
<1>3. ask'.k = "none" /\ ~on' /\ sessions' = sessions
  BY DEF Open, NoAsk
<1> QED
  BY <1>2, <1>3, FreshFrames

\* Client.stop() closes the connection: nothing is left to read, and what was answered stays answered.
LEMMA OrderlyClose == ASSUME TypeOK', Close, NEW e, Here' = e, e.s <= sessions PROVE Orderly'
<1>1. Len(rx') = 0
  BY DEF Close
<1>2. \A i \in 1..Len(rx') : FALSE
  BY <1>1
<1>3. ask'.k = "none" /\ ~on' /\ sessions' = sessions
  BY DEF Close, NoAsk
<1> QED
  BY <1>2, <1>3, FreshFrames

\* Every step of every task keeps the frames in order.
LEMMA OrderlyKept == TypeOK /\ TypeOK' /\ IInv /\ OrderInv /\ [Next]_vars => Orderly'
<1> SUFFICES ASSUME TypeTasks, TypeFlags, TypeData, TypeOK, TypeOK', IInv, Steady, Orderly,
                    [Next]_vars
             PROVE Orderly'
  BY DEF TypeOK, OrderInv
<1> USE DEF taskVars, clientVars, sessVars, readyVars, netVars, srvVars
<1>0. /\ \A t \in Loops : InReconnect(t) => lock = t /\ ~closedEv
      /\ pc["recv"] # "none" => pc["shard"] = "run"
      /\ got.k \in Errors => pc["recv"] = "done"
      /\ got.n # 0 => pc["recv"] = "done" /\ got.k \in {"READY", "EVENT"}
      /\ last.s <= sessions
      /\ \A t \in Loops : pc[t] = "rcHello" => pc["recv"] # "done"
  BY DEF IInv, LockHeld, OneReconnector, Alone, WakeKept, Steady, Undisturbed, Recorded, Received,
         Numbering
<1>60. HelloArrives => /\ ~on
                       /\ \A i \in 1..Len(Tail(rx)) : /\ Numbering(Tail(rx)[i])
                                                      /\ Tail(rx)[i].n = 0
                                                      /\ Tail(rx)[i].k # "HELLO"
  <2>1. rx # <<>> => /\ 1 \in 1..Len(rx) /\ Head(rx) = rx[1]
                     /\ \A i \in 1..Len(Tail(rx)) : Tail(rx)[i] = rx[i + 1] /\ i + 1 \in 1..Len(rx)
                                                   /\ i + 1 # 1
    BY DEF TypeData
  <2> QED
    BY <2>1 DEF HelloArrives, Orderly, Greeted, Numbered
<1>1. ASSUME EnterConnect PROVE Orderly'
  <2>1. CASE Open
    <3>1. Here' = last
      BY <1>0, <1>1 DEF EnterConnect, Here
    <3> QED
      BY <1>0, <2>1, <3>1, OrderlyOpen
  <2>2. CASE UNCHANGED <<rx, srvVars>>
    <3>1. rx' = rx /\ sessions' = sessions /\ ask' = ask /\ on' = on /\ valid' = valid /\ spos' = spos
      BY <2>2
    <3>2. Reading' => Reading /\ Here' = Here
      BY <1>1 DEF EnterConnect, Reading, Here, Place
    <3> QED
      BY <3>1, <3>2, SameFrames
  <2> QED
    BY <1>1, <2>1, <2>2 DEF EnterConnect
<1>2. ASSUME EnterHello PROVE Orderly'
  <2>1. HelloArrives /\ rx' = Tail(rx) /\ on' = on /\ sessions' = sessions
    BY <1>2 DEF EnterHello
  <2>2. Here' = last
    BY <1>0, <1>2 DEF EnterHello, Here
  <2>3. \/ ask'.k = "none" \/ ask'.s = 0
        \/ ask'.s = sess /\ ask'.n = seq
    BY <1>2 DEF EnterHello, Authenticate, NoAsk
  <2>4. ask'.s # 0 /\ ask'.k # "none" => last = [s |-> ask'.s, n |-> ask'.n]
    BY <2>3 DEF Steady, Recorded
  <2>5. ~on
    BY <2>1, <1>60
  <2> QED
    BY <1>0, <1>60, <2>1, <2>2, <2>4, <2>5, FreshFrames
<1>3. ASSUME EnterFails PROVE Orderly'
  <2>1. rx' = rx /\ sessions' = sessions /\ ask' = ask /\ on' = on /\ valid' = valid /\ spos' = spos
    BY <1>3 DEF EnterFails
  <2>2. Reading' => Reading /\ Here' = Here
    BY <1>0, <1>3 DEF EnterFails, HelloErrors, HelloArrives, Writable, TypeTasks, Tasks, Loops,
        Errors, Reading, Here, Place
  <2> QED
    BY <2>1, <2>2, SameFrames
<1>4. ASSUME RunEvent PROVE Orderly'
  <2>1. rx' = rx /\ sessions' = sessions /\ ask' = ask /\ on' = on /\ valid' = valid /\ spos' = spos
    BY <1>4 DEF RunEvent
  <2>2. Reading' => Reading /\ Here' = Here
    BY <1>0, <1>4 DEF RunEvent, Dispatch, NextReceive, AfterWait, Nothing, Frame, Noop,
        TypeTasks, Tasks, Loops, Errors, Reading, Here, Place
  <2> QED
    BY <2>1, <2>2, SameFrames
<1>5. ASSUME RunOpcode PROVE Orderly'
  <2>1. rx' = rx /\ sessions' = sessions /\ ask' = ask /\ on' = on /\ valid' = valid /\ spos' = spos
    BY <1>5 DEF RunOpcode
  <2>2. Reading' => Reading /\ Here' = Here
    BY <1>0, <1>5 DEF RunOpcode, StartReconnect, Nothing, Frame, Noop, TypeTasks, Tasks, Loops,
        Errors, Reading, Here, Place
  <2> QED
    BY <2>1, <2>2, SameFrames
<1>6. ASSUME RunRaises PROVE Orderly'
  <2>1. rx' = rx /\ sessions' = sessions /\ ask' = ask /\ on' = on /\ valid' = valid /\ spos' = spos
    BY <1>6 DEF RunRaises
  <2>2. Reading' => Reading /\ Here' = Here
    BY <1>0, <1>6 DEF RunRaises, Leave, Nothing, Frame, TypeTasks, Tasks, Loops, Errors,
        Reading, Here, Place
  <2> QED
    BY <2>1, <2>2, SameFrames
<1>7. ASSUME RunStops PROVE Orderly'
  <2>1. rx' = rx /\ sessions' = sessions /\ ask' = ask /\ on' = on /\ valid' = valid /\ spos' = spos
    BY <1>7 DEF RunStops
  <2>2. Reading' => Reading /\ Here' = Here
    BY <1>0, <1>7 DEF RunStops, Leave, TypeTasks, Tasks, Loops, Errors, Reading, Here, Place
  <2> QED
    BY <2>1, <2>2, SameFrames
<1>8. ASSUME ExitClose PROVE Orderly'
  <2>1. Here' = last
    BY <1>0, <1>8 DEF ExitClose, Here
  <2> QED
    BY <1>0, <1>8, <2>1, OrderlyClose DEF ExitClose
<1>9. ASSUME Retry PROVE Orderly'
  <2>1. rx' = rx /\ sessions' = sessions /\ ask' = ask /\ on' = on /\ valid' = valid /\ spos' = spos
    BY <1>9 DEF Retry
  <2>2. Reading' => Reading /\ Here' = Here
    BY <1>0, <1>9 DEF Retry, Nothing, Frame, TypeTasks, Tasks, Loops, Errors, Reading, Here,
        Place
  <2> QED
    BY <2>1, <2>2, SameFrames
<1>10. ASSUME ReceiveWoken PROVE Orderly'
  <2>1. rx' = rx /\ sessions' = sessions /\ ask' = ask /\ on' = on /\ valid' = valid /\ spos' = spos
    BY <1>10 DEF ReceiveWoken
  <2>2. Reading' => Reading /\ Here' = Here
    BY <1>0, <1>10 DEF ReceiveWoken, TypeTasks, Tasks, Loops, Errors, Reading, Here, Place
  <2> QED
    BY <2>1, <2>2, SameFrames
<1>11. ASSUME ReceiveData PROVE Orderly'
  <2>1. rx # <<>> /\ rx' = Tail(rx) /\ UNCHANGED <<ask, on, valid, spos, sessions>>
    BY <1>11 DEF ReceiveData
  <2>2. Numbering(Head(rx))
    BY <2>1 DEF TypeData, Orderly, Numbered
  <2>3. pc["shard"] = "run" /\ got.n = 0 /\ got.k \notin Errors /\ Here = last
    BY <1>0, <1>11 DEF ReceiveData, Here
  <2>4. CASE Head(rx).k = "PART" /\ UNCHANGED got
    BY <1>11, <2>1, <2>2, <2>3, <2>4, FrameTaken
    DEF ReceiveData, Reading, Here, Place, Numbering
  <2>5. CASE got' = Head(rx)
    <3>1. last' = last
      BY <1>11 DEF ReceiveData
    <3> QED
      BY <2>1, <2>3, <2>5, <3>1, FrameTaken DEF Reading, Here
  <2>6. CASE got' = Raise("other")
    BY <2>1, <2>6, FrameTaken DEF Reading, Raise, Frame, Errors
  <2> QED
    BY <1>11, <2>4, <2>5, <2>6 DEF ReceiveData
<1>12. ASSUME ReceiveClose PROVE Orderly'
  <2>1. rx # <<>> /\ rx' = Tail(rx) /\ UNCHANGED <<ask, on, valid, spos, sessions>>
    BY <1>12 DEF ReceiveClose
  <2>2. Head(rx).n = 0
    BY <1>12, <2>1 DEF ReceiveClose, TypeData, Orderly, Numbered, Numbering, CloseKinds
  <2>3. Reading' => Reading /\ Here' = Here
    BY <1>0, <1>12 DEF ReceiveClose, Raise, Frame, Errors, Reading, Here, Place
  <2> QED
    BY <2>1, <2>2, <2>3, FrameTaken
<1>13. ASSUME ReceiveClosed PROVE Orderly'
  <2>1. rx' = rx /\ sessions' = sessions /\ ask' = ask /\ on' = on /\ valid' = valid /\ spos' = spos
    BY <1>13 DEF ReceiveClosed
  <2>2. Reading' => Reading /\ Here' = Here
    BY <1>0, <1>13 DEF ReceiveClosed, StartReconnect, Noop, Frame, TypeTasks, Tasks, Loops,
        Errors, Reading, Here, Place
  <2> QED
    BY <2>1, <2>2, SameFrames
<1>14. ASSUME ReceiveClosing PROVE Orderly'
  <2>1. rx' = rx /\ sessions' = sessions /\ ask' = ask /\ on' = on /\ valid' = valid /\ spos' = spos
    BY <1>14 DEF ReceiveClosing
  <2>2. Reading' => Reading /\ Here' = Here
    BY <1>0, <1>14 DEF ReceiveClosing, AfterWait, TypeTasks, Tasks, Loops, Errors, Reading,
        Here, Place
  <2> QED
    BY <2>1, <2>2, SameFrames
<1>15. ASSUME BeatTurn PROVE Orderly'
  <2>1. rx' = rx /\ sessions' = sessions /\ ask' = ask /\ on' = on /\ valid' = valid /\ spos' = spos
    BY <1>15 DEF BeatTurn
  <2>2. Reading' => Reading /\ Here' = Here
    BY <1>0, <1>15 DEF BeatTurn, StartReconnect, TypeTasks, Tasks, Loops, Errors, Reading,
        Here, Place
  <2> QED
    BY <2>1, <2>2, SameFrames
<1>16. ASSUME BeatKilled PROVE Orderly'
  <2>1. rx' = rx /\ sessions' = sessions /\ ask' = ask /\ on' = on /\ valid' = valid /\ spos' = spos
    BY <1>16 DEF BeatKilled
  <2>2. Reading' => Reading /\ Here' = Here
    BY <1>0, <1>16 DEF BeatKilled, TypeTasks, Tasks, Loops, Errors, Reading, Here, Place
  <2> QED
    BY <2>1, <2>2, SameFrames
<1>17. ASSUME Settled PROVE Orderly'
  <2>1. rx' = rx /\ sessions' = sessions /\ ask' = ask /\ on' = on /\ valid' = valid /\ spos' = spos
    BY <1>17 DEF Settled
  <2>2. Reading' => Reading /\ Here' = Here
    BY <1>0, <1>17 DEF Settled, TypeTasks, Tasks, Loops, Errors, Reading, Here, Place
  <2> QED
    BY <2>1, <2>2, SameFrames
<1>18. ASSUME StopHttp PROVE Orderly'
  <2>1. rx' = rx /\ sessions' = sessions /\ ask' = ask /\ on' = on /\ valid' = valid /\ spos' = spos
    BY <1>18 DEF StopHttp
  <2>2. Reading' => Reading /\ Here' = Here
    BY <1>0, <1>18 DEF StopHttp, TypeTasks, Tasks, Loops, Errors, Reading, Here, Place
  <2> QED
    BY <2>1, <2>2, SameFrames
<1>19. ASSUME StopGateway PROVE Orderly'
  <2>1. rx' = rx /\ sessions' = sessions /\ ask' = ask /\ on' = on /\ valid' = valid /\ spos' = spos
    BY <1>19 DEF StopGateway
  <2>2. Reading' => Reading /\ Here' = Here
    BY <1>0, <1>19 DEF StopGateway, TypeTasks, Tasks, Loops, Errors, Reading, Here, Place
  <2> QED
    BY <2>1, <2>2, SameFrames
<1>20. ASSUME StopJoin PROVE Orderly'
  <2>1. rx' = rx /\ sessions' = sessions /\ ask' = ask /\ on' = on /\ valid' = valid /\ spos' = spos
    BY <1>20 DEF StopJoin
  <2>2. Reading' => Reading /\ Here' = Here
    BY <1>0, <1>20 DEF StopJoin, TypeTasks, Tasks, Loops, Errors, Reading, Here, Place
  <2> QED
    BY <2>1, <2>2, SameFrames
<1>21. ASSUME ServerAnswers PROVE Orderly'
  <2>1. Reading' => Reading /\ Here' = Here
    BY <1>21 DEF ServerAnswers, Reading, Here, Place
  <2>2. ~on /\ ask.k # "none" /\ ask' = NoAsk /\ sessions \in Nat
    BY <1>21 DEF ServerAnswers, Steady, ServerSure, TypeData
  <2>3. CASE ask.k = "identify" /\ sessions' = sessions + 1 /\ valid' = sessions + 1 /\ spos' = 1
             /\ rx' = Append(rx, Event("READY", sessions + 1, 1))
    <3>0. PICK f : f = Event("READY", sessions + 1, 1)
      OBVIOUS
    <3>1. /\ f \in Frames /\ f.k = "READY" /\ f.s = sessions + 1 /\ f.n = 1
          /\ Place(f) = [s |-> sessions + 1, n |-> 1]
      BY <2>2, <3>0 DEF Event, Frames, Kinds, DataKinds, Place
    <3>2. SentTo(Place(f))'
      BY <2>2, <2>3, <3>1 DEF SentTo, NoAsk
    <3>3. \A e \in Places : e.s <= sessions => Follows(e, f)
      BY <2>2, <3>1 DEF Places, Follows
    <3>4. rx' = Append(rx, f)
      BY <2>3, <3>0
    <3>5. sessions' \in Nat /\ sessions <= sessions' /\ f.s <= sessions' /\ f.n # 0 /\ Numbering(f)
      BY <2>2, <2>3, <3>1 DEF Numbering
    <3> QED
      BY <2>1, <2>2, <3>1, <3>2, <3>3, <3>4, <3>5, FrameAdded
  <2>4. CASE ask.k = "resume" /\ ask.s = valid /\ valid # 0 /\ spos' = ask.n
             /\ rx' = Append(rx, Frame("RESUMED")) /\ UNCHANGED <<valid, sessions>>
    <3>1. /\ Frame("RESUMED") \in Frames /\ Frame("RESUMED").n = 0
          /\ Frame("RESUMED").k = "RESUMED" /\ Numbering(Frame("RESUMED"))
      BY DEF Frame, Frames, Kinds, DataKinds, Numbering
    <3>2. \A e \in Places : SentTo(e) => SentTo(e)'
      BY <2>2, <2>4 DEF SentTo, NoAsk
    <3> QED
      BY <2>1, <2>2, <2>4, <3>1, <3>2, FrameAdded
  <2>5. CASE rx' = Append(rx, Frame("INVALIDATE")) /\ UNCHANGED <<spos, on, sessions>>
    <3>1. /\ Frame("INVALIDATE") \in Frames /\ Frame("INVALIDATE").n = 0
          /\ Frame("INVALIDATE").k = "INVALIDATE" /\ Numbering(Frame("INVALIDATE"))
      BY DEF Frame, Frames, Kinds, DataKinds, Numbering
    <3>2. \A e \in Places : SentTo(e)'
      BY <2>2, <2>5 DEF SentTo, NoAsk
    <3> QED
      BY <2>1, <2>2, <2>5, <3>1, <3>2, FrameAdded
  <2> QED
    BY <1>21, <2>3, <2>4, <2>5 DEF ServerAnswers, Deliver
<1>22. ASSUME ServerEvent PROVE Orderly'
  <2>1. Reading' => Reading /\ Here' = Here
    BY <1>22 DEF ServerEvent, Reading, Here, Place
  <2>2. on /\ ask.k = "none" /\ valid # 0 /\ spos # 0 /\ valid \in Nat /\ spos \in Nat /\ sessions \in Nat
    BY <1>22 DEF ServerEvent, Steady, ServerSure, TypeData
  <2>0. PICK f : f = Event("EVENT", valid, spos + 1)
    OBVIOUS
  <2>3. /\ f \in Frames /\ f.k = "EVENT" /\ f.s = valid /\ f.n = spos + 1
        /\ Place(f) = [s |-> valid, n |-> spos + 1]
    BY <2>0, <2>2 DEF Event, Frames, Kinds, DataKinds, Place
  <2>4. rx' = Append(rx, f) /\ UNCHANGED <<ask, on, valid, sessions>> /\ spos' = spos + 1
    BY <1>22, <2>0 DEF ServerEvent, Deliver
  <2>5. SentTo(Place(f))'
    BY <2>2, <2>3, <2>4 DEF SentTo
  <2>6. ASSUME NEW e \in Places, e.s <= sessions, SentTo(e) PROVE Follows(e, f) /\ f.s <= sessions'
    BY <2>2, <2>3, <2>4, <2>6 DEF SentTo, Follows
  <2>7. Numbering(f) /\ f.n # 0
    BY <2>2, <2>3 DEF Numbering
  <2> QED
    BY <2>1, <2>2, <2>3, <2>4, <2>5, <2>6, <2>7, FrameAdded
<1>23. ASSUME ServerAck PROVE Orderly'
  <2>1. Reading' => Reading /\ Here' = Here
    BY <1>23 DEF ServerAck, Reading, Here, Place
  <2>2. rx' = Append(rx, Frame("ACK")) /\ UNCHANGED <<ask, on, valid, spos, sessions>>
    BY <1>23 DEF ServerAck, Deliver
  <2>3. /\ Frame("ACK") \in Frames /\ Frame("ACK").n = 0
        /\ Frame("ACK").k = "ACK" /\ Numbering(Frame("ACK"))
    BY DEF Frame, Frames, Kinds, DataKinds, Numbering
  <2>4. \A e \in Places : SentTo(e) => SentTo(e)'
    BY <2>2 DEF SentTo
  <2>5. sessions' \in Nat /\ sessions <= sessions'
    BY <2>2 DEF TypeData
  <2> QED
    BY <2>1, <2>2, <2>3, <2>4, <2>5, FrameAdded
<1>24. ASSUME ServerControl PROVE Orderly'
  <2>1. Reading' => Reading /\ Here' = Here
    BY <1>24 DEF ServerControl, Reading, Here, Place
  <2>2. PICK k \in {"HEARTBEAT", "RECONNECT", "INVALIDATE", "PART"} \cup CloseKinds :
             rx' = Append(rx, Frame(k)) /\ (on' => on /\ valid' = valid)
    BY <1>24 DEF ServerControl, Deliver
  <2>3. Frame(k) \in Frames /\ Frame(k).n = 0 /\ Frame(k).k # "HELLO" /\ Numbering(Frame(k))
    BY DEF Frame, Frames, Kinds, DataKinds, CloseKinds, Numbering
  <2>4. UNCHANGED <<ask, spos, sessions>>
    BY <1>24 DEF ServerControl
  <2>5. \A e \in Places : SentTo(e) => SentTo(e)'
    BY <2>2, <2>4 DEF SentTo
  <2>6. sessions' \in Nat /\ sessions <= sessions'
    BY <2>4 DEF TypeData
  <2> QED
    BY <2>1, <2>2, <2>3, <2>4, <2>5, <2>6, FrameAdded
<1>25. ASSUME NetworkFails PROVE Orderly'
  <2>1. rx' = rx /\ sessions' = sessions /\ ask' = ask /\ on' = on /\ valid' = valid /\ spos' = spos
    BY <1>25 DEF NetworkFails
  <2>2. Reading' => Reading /\ Here' = Here
    BY <1>0, <1>25 DEF NetworkFails, TypeTasks, Tasks, Loops, Errors, Reading, Here, Place
  <2> QED
    BY <2>1, <2>2, SameFrames
<1>26. ASSUME NEW t \in Loops, ReconnectLocked(t) PROVE Orderly'
  <2>1. rx' = rx /\ sessions' = sessions /\ ask' = ask /\ on' = on /\ valid' = valid /\ spos' = spos
    BY <1>26 DEF ReconnectLocked
  <2>2. Reading' => Reading /\ Here' = Here
    BY <1>0, <1>26 DEF ReconnectLocked, LockFree, TypeTasks, Tasks, Loops, Errors, Reading,
        Here, Place
  <2> QED
    BY <2>1, <2>2, SameFrames
<1>27. ASSUME NEW t \in Loops, ReconnectClose(t) PROVE Orderly'
  <2>1. Here' = Here
    BY <1>27 DEF ReconnectClose, Here, Place
  <2>2. Here.s <= sessions
    BY <1>0 DEF Steady, Received, Here, Place
  <2> QED
    BY <1>27, <2>1, <2>2, OrderlyClose DEF ReconnectClose
<1>28. ASSUME NEW t \in Loops, ReconnectConnect(t) PROVE Orderly'
  <2>1. Here' = last
    BY <1>0, <1>28 DEF ReconnectConnect, Here
  <2> QED
    BY <1>0, <1>28, <2>1, OrderlyOpen DEF ReconnectConnect
<1>29. ASSUME NEW t \in Loops, ReconnectHello(t) PROVE Orderly'
  <2>1. HelloArrives /\ rx' = Tail(rx) /\ on' = on /\ sessions' = sessions
    BY <1>29 DEF ReconnectHello
  <2>2. Here' = last
    BY <1>0, <1>29 DEF ReconnectHello, Here
  <2>3. \/ ask'.k = "none" \/ ask'.s = 0
        \/ ask'.s = sess /\ ask'.n = seq
    BY <1>29 DEF ReconnectHello, Authenticate, NoAsk
  <2>4. ask'.s # 0 /\ ask'.k # "none" => last = [s |-> ask'.s, n |-> ask'.n]
    BY <2>3 DEF Steady, Recorded
  <2>5. ~on
    BY <2>1, <1>60
  <2> QED
    BY <1>0, <1>60, <2>1, <2>2, <2>4, <2>5, FreshFrames
<1>30. ASSUME NEW t \in Loops, ReconnectFails(t) PROVE Orderly'
  <2>1. rx' = rx /\ sessions' = sessions /\ ask' = ask /\ on' = on /\ valid' = valid /\ spos' = spos
    BY <1>30 DEF ReconnectFails
  <2>2. Reading' => Reading /\ Here' = Here
    BY <1>0, <1>30 DEF ReconnectFails, Raised, Leave, Raise, Frame, TypeTasks, Tasks, Loops,
        Errors, Reading, Here, Place
  <2> QED
    BY <2>1, <2>2, SameFrames
<1>31. ASSUME NEW t \in {"shard", "beat"}, Heartbeat(t) PROVE Orderly'
  <2>1. rx' = rx /\ sessions' = sessions /\ ask' = ask /\ on' = on /\ valid' = valid /\ spos' = spos
    BY <1>31 DEF Heartbeat
  <2>2. Reading' => Reading /\ Here' = Here
    BY <1>0, <1>31 DEF Heartbeat, LockFree, Raised, Leave, Raise, Frame, AfterWait, Writable,
        TypeTasks, Tasks, Loops, Errors, Reading, Here, Place
  <2> QED
    BY <2>1, <2>2, SameFrames
<1>32. ASSUME NEW s \in Senders, SendCalled(s) PROVE Orderly'
  <2>1. rx' = rx /\ sessions' = sessions /\ ask' = ask /\ on' = on /\ valid' = valid /\ spos' = spos
    BY <1>32 DEF SendCalled
  <2>2. Reading' => Reading /\ Here' = Here
    BY <1>0, <1>32 DEF SendCalled, TypeTasks, Tasks, Loops, Errors, Reading, Here, Place
  <2> QED
    BY <2>1, <2>2, SameFrames
<1>33. ASSUME NEW s \in Senders, SendLocked(s) PROVE Orderly'
  <2>1. rx' = rx /\ sessions' = sessions /\ ask' = ask /\ on' = on /\ valid' = valid /\ spos' = spos
    BY <1>33 DEF SendLocked
  <2>2. Reading' => Reading /\ Here' = Here
    BY <1>0, <1>33 DEF SendLocked, LockFree, TypeTasks, Tasks, Loops, Errors, Reading, Here,
        Place
  <2> QED
    BY <2>1, <2>2, SameFrames
<1>34. ASSUME NEW s \in Senders, SendFrame(s) PROVE Orderly'
  <2>1. rx' = rx /\ sessions' = sessions /\ ask' = ask /\ on' = on /\ valid' = valid /\ spos' = spos
    BY <1>34 DEF SendFrame
  <2>2. Reading' => Reading /\ Here' = Here
    BY <1>0, <1>34 DEF SendFrame, Writable, TypeTasks, Tasks, Loops, Errors, Reading, Here,
        Place
  <2> QED
    BY <2>1, <2>2, SameFrames
<1>50. CASE UNCHANGED vars
  <2>1. rx' = rx /\ sessions' = sessions /\ ask' = ask /\ on' = on /\ valid' = valid /\ spos' = spos
    BY <1>50 DEF vars
  <2>2. Reading' => Reading /\ Here' = Here
    BY <1>50 DEF vars, Reading, Here
  <2> QED
    BY <2>1, <2>2, SameFrames
<1> QED
  BY <1>1, <1>2, <1>3, <1>4, <1>5, <1>6, <1>7, <1>8, <1>9, <1>10, <1>11, <1>12, <1>13, <1>14,
      <1>15, <1>16, <1>17, <1>18, <1>19, <1>20, <1>21, <1>22, <1>23, <1>24, <1>25, <1>26,
      <1>27, <1>28, <1>29, <1>30, <1>31, <1>32, <1>33, <1>34, <1>50
  DEF Next, ShardNext, ReceiveNext, ReconnectNext, BeatNext, SendNext, ClientNext, ServerNext

\* The initial state is in order.
LEMMA OrderInit == Init => OrderInv
<1> SUFFICES ASSUME Init PROVE OrderInv
  OBVIOUS
<1>1. Steady
  BY DEF Init, Steady, Undisturbed, Recorded, Received, ServerSure, Numbering, Nothing, Frame, NoAsk,
         Tasks, Loops
<1>2. Numbered /\ Greeted
  BY DEF Init, Numbered, Greeted
<1>3. /\ rx \in Seq(Frames) /\ sessions \in Nat /\ Here = [s |-> 0, n |-> 0] /\ sessions = 0
      /\ Here \in Places /\ Len(rx) = 0
  BY DEF Init, Here, Nothing, Frame, Places
<1>4. Leads(rx, Here, sessions, Here)
  <2>1. Here.s <= sessions /\ \A i \in 1..Len(rx) : rx[i].n = 0
    BY <1>3
  <2> QED
    BY <1>3, <2>1, LeadsNowhere
<1>5. SentTo([s |-> 0, n |-> 0])
  BY DEF Init, SentTo, NoAsk
<1>6. Streaming
  BY <1>3, <1>4, <1>5 DEF Streaming
<1> QED
  BY <1>1, <1>2, <1>6 DEF OrderInv, Orderly

\* Events reach the bot in order, none twice and none skipped, over any number of
\* connections and sessions, whatever the server and the network do.
THEOREM EventsInOrder == Spec => []InOrder
<1>1. Init => OrderInv
  BY OrderInit
<1>2. TypeOK /\ TypeOK' /\ IInv /\ OrderInv /\ [Next]_vars => OrderInv'
  BY SteadyKept, OrderlyKept DEF OrderInv
<1>3. OrderInv => InOrder
  BY DEF OrderInv, Steady, Received, Follows, InOrder
<1> QED
  BY <1>1, <1>2, <1>3, TypeCorrect, Inductive, PTL DEF Spec

-----------------------------------------------------------------------------
\* A connection over which nothing was sent is being opened, by the shard's first connect
\* or in a reconnect(), as long as run() has not been told to end.
Opening == (wire = "none" /\ ~Ending) =>
    pc["shard"] \in {"connect", "hello", "backoff"} \/ \E t \in Loops : InReconnect(t)

\* A new GatewayClient is not named until its first payload is sent: nobody sends over it.
Unnamed ==
    /\ pc["shard"] = "exit" => closeGw
    /\ pc["shard"] \in {"connect", "hello"} \/ (pc["shard"] = "backoff" /\ ~closeGw) =>
           ~gwSet /\ \A s \in Senders : pc[s] = "idle"

FirstInv == Opening /\ Unnamed

\* The invariant holds at the start ...
LEMMA FirstInit == Init => FirstInv
  BY SendersAssumption DEF Init, FirstInv, Opening, Unnamed, Tasks, Loops

\* ... and every step keeps it.
LEMMA FirstKept == TypeOK /\ IInv /\ FirstInv /\ [Next]_vars => FirstInv'
<1> SUFFICES ASSUME TypeTasks, TypeFlags, TypeData, IInv, FirstInv, [Next]_vars PROVE FirstInv'
  BY DEF TypeOK
<1> USE NoOneAssumption, SendersAssumption
<1> USE DEF taskVars, clientVars, sessVars, readyVars, netVars, srvVars
<1> USE DEF FirstInv, Opening, Unnamed, Ending, InReconnect
<1>0. /\ \A t \in Loops : pc[t] \in {"rcClose", "rcConnect", "rcHello"} => lock = t
      /\ \A s \in Senders : pc[s] = "rate" => lock = s
      /\ pc["recv"] # "none" => pc["shard"] = "run"
      /\ got.k \in Errors => pc["recv"] = "done"
  BY DEF IInv, LockHeld, OneReconnector, Alone, WakeKept, InReconnect
<1>1. ASSUME EnterConnect PROVE FirstInv'
  BY <1>0, <1>1 DEF EnterConnect, TypeTasks, Tasks, Loops, Errors
<1>2. ASSUME EnterHello PROVE FirstInv'
  BY <1>0, <1>2 DEF EnterHello, Authenticate, Writable, HelloArrives, NoAsk, TypeTasks, Tasks,
      Loops, Errors
<1>3. ASSUME EnterFails PROVE FirstInv'
  BY <1>0, <1>3 DEF EnterFails, HelloErrors, HelloArrives, Writable, TypeTasks, Tasks, Loops,
      Errors
<1>4. ASSUME RunEvent PROVE FirstInv'
  BY <1>0, <1>4 DEF RunEvent, Dispatch, NextReceive, AfterWait, Nothing, Frame, Noop,
      TypeTasks, Tasks, Loops, Errors
<1>5. ASSUME RunOpcode PROVE FirstInv'
  BY <1>0, <1>5 DEF RunOpcode, StartReconnect, Nothing, Frame, Noop, TypeTasks, Tasks, Loops,
      Errors
<1>6. ASSUME RunRaises PROVE FirstInv'
  BY <1>0, <1>6 DEF RunRaises, Leave, Nothing, Frame, TypeTasks, Tasks, Loops, Errors
<1>7. ASSUME RunStops PROVE FirstInv'
  BY <1>0, <1>7 DEF RunStops, Leave, TypeTasks, Tasks, Loops, Errors
<1>8. ASSUME ExitClose PROVE FirstInv'
  BY <1>0, <1>8 DEF ExitClose, Close, NoAsk, Frame, TypeTasks, Tasks, Loops, Errors
<1>9. ASSUME Retry PROVE FirstInv'
  BY <1>0, <1>9 DEF Retry, Nothing, Frame, TypeTasks, Tasks, Loops, Errors
<1>10. ASSUME ReceiveWoken PROVE FirstInv'
  BY <1>0, <1>10 DEF ReceiveWoken, TypeTasks, Tasks, Loops, Errors
<1>11. ASSUME ReceiveData PROVE FirstInv'
  BY <1>0, <1>11 DEF ReceiveData, AfterWait, Raise, Frame, TypeTasks, Tasks, Loops, Errors
<1>12. ASSUME ReceiveClose PROVE FirstInv'
  BY <1>0, <1>12 DEF ReceiveClose, StartReconnect, Raise, Frame, TypeTasks, Tasks, Loops,
      Errors
<1>13. ASSUME ReceiveClosed PROVE FirstInv'
  BY <1>0, <1>13 DEF ReceiveClosed, StartReconnect, Noop, Frame, TypeTasks, Tasks, Loops,
      Errors
<1>14. ASSUME ReceiveClosing PROVE FirstInv'
  BY <1>0, <1>14 DEF ReceiveClosing, AfterWait, TypeTasks, Tasks, Loops, Errors
<1>15. ASSUME BeatTurn PROVE FirstInv'
  BY <1>0, <1>15 DEF BeatTurn, StartReconnect, TypeTasks, Tasks, Loops, Errors
<1>16. ASSUME BeatKilled PROVE FirstInv'
  BY <1>0, <1>16 DEF BeatKilled, TypeTasks, Tasks, Loops, Errors
<1>17. ASSUME Settled PROVE FirstInv'
  BY <1>0, <1>17 DEF Settled, TypeTasks, Tasks, Loops, Errors
<1>18. ASSUME StopHttp PROVE FirstInv'
  BY <1>0, <1>18 DEF StopHttp, TypeTasks, Tasks, Loops, Errors
<1>19. ASSUME StopGateway PROVE FirstInv'
  BY <1>0, <1>19 DEF StopGateway, TypeTasks, Tasks, Loops, Errors
<1>20. ASSUME StopJoin PROVE FirstInv'
  BY <1>0, <1>20 DEF StopJoin, TypeTasks, Tasks, Loops, Errors
<1>21. ASSUME ServerAnswers PROVE FirstInv'
  BY <1>0, <1>21 DEF ServerAnswers, Deliver, Event, Frame, NoAsk, TypeTasks, Tasks, Loops,
      Errors
<1>22. ASSUME ServerEvent PROVE FirstInv'
  BY <1>0, <1>22 DEF ServerEvent, Deliver, Event, TypeTasks, Tasks, Loops, Errors
<1>23. ASSUME ServerAck PROVE FirstInv'
  BY <1>0, <1>23 DEF ServerAck, Deliver, Frame, TypeTasks, Tasks, Loops, Errors
<1>24. ASSUME ServerControl PROVE FirstInv'
  BY <1>0, <1>24 DEF ServerControl, Deliver, Frame, TypeTasks, Tasks, Loops, Errors
<1>25. ASSUME NetworkFails PROVE FirstInv'
  BY <1>0, <1>25 DEF NetworkFails, TypeTasks, Tasks, Loops, Errors
<1>26. ASSUME NEW t \in Loops, ReconnectLocked(t) PROVE FirstInv'
  BY <1>0, <1>26 DEF ReconnectLocked, LockFree, TypeTasks, Tasks, Loops, Errors
<1>27. ASSUME NEW t \in Loops, ReconnectClose(t) PROVE FirstInv'
  BY <1>0, <1>27 DEF ReconnectClose, Close, NoAsk, Frame, TypeTasks, Tasks, Loops, Errors
<1>28. ASSUME NEW t \in Loops, ReconnectConnect(t) PROVE FirstInv'
  BY <1>0, <1>28 DEF ReconnectConnect, Open, NoAsk, Frame, TypeTasks, Tasks, Loops, Errors
<1>29. ASSUME NEW t \in Loops, ReconnectHello(t) PROVE FirstInv'
  BY <1>0, <1>29 DEF ReconnectHello, Authenticate, Writable, HelloArrives, NoAsk, TypeTasks,
      Tasks, Loops, Errors
<1>30. ASSUME NEW t \in Loops, ReconnectFails(t) PROVE FirstInv'
  <2>1. PICK e \in Errors : Raised(t, e)
    BY <1>30 DEF ReconnectFails
  <2>2. /\ pc[t] \in {"rcConnect", "rcHello"} /\ UNCHANGED <<wire, gwSet>>
        /\ t = "shard" => pc["shard"] \in {"rcConnect", "rcHello"}
    BY <1>30 DEF ReconnectFails
  <2>3. CASE t = "recv"
    BY <1>0, <2>1, <2>2, <2>3 DEF Raised, Raise, Frame, TypeTasks, Tasks, Loops
  <2>4. CASE t = "beat"
    BY <1>0, <2>1, <2>2, <2>4 DEF Raised, TypeTasks, Tasks, Loops
  <2>5. CASE t = "shard"
    BY <1>0, <2>1, <2>2, <2>5 DEF Raised, Leave, TypeTasks, Tasks, Loops
  <2> QED
    BY <2>3, <2>4, <2>5 DEF Loops
<1>31. ASSUME NEW t \in {"shard", "beat"}, Heartbeat(t) PROVE FirstInv'
  BY <1>0, <1>31 DEF Heartbeat, LockFree, Raised, Leave, Raise, Frame, AfterWait, Writable,
      TypeTasks, Tasks, Loops, Errors
<1>32. ASSUME NEW s \in Senders, SendCalled(s) PROVE FirstInv'
  BY <1>0, <1>32 DEF SendCalled, TypeTasks, Tasks, Loops, Errors
<1>33. ASSUME NEW s \in Senders, SendLocked(s) PROVE FirstInv'
  BY <1>0, <1>33 DEF SendLocked, LockFree, TypeTasks, Tasks, Loops, Errors
<1>34. ASSUME NEW s \in Senders, SendFrame(s) PROVE FirstInv'
  BY <1>0, <1>34 DEF SendFrame, Writable, TypeTasks, Tasks, Loops, Errors
<1>50. CASE UNCHANGED vars
  BY <1>50 DEF vars
<1> QED
  BY <1>1, <1>2, <1>3, <1>4, <1>5, <1>6, <1>7, <1>8, <1>9, <1>10, <1>11, <1>12, <1>13, <1>14,
      <1>15, <1>16, <1>17, <1>18, <1>19, <1>20, <1>21, <1>22, <1>23, <1>24, <1>25, <1>26,
      <1>27, <1>28, <1>29, <1>30, <1>31, <1>32, <1>33, <1>34, <1>50
  DEF Next, ShardNext, ReceiveNext, ReconnectNext, BeatNext, SendNext, ClientNext, ServerNext

\* The first payload of every connection is IDENTIFY or RESUME.
THEOREM FirstPayload == Spec => IdentifyFirst
<1>1. Init => FirstInv
  BY FirstInit
<1>2. TypeOK /\ IInv /\ FirstInv /\ [Next]_vars => FirstInv'
  BY FirstKept
<1>3. ASSUME TypeTasks, IInv, FirstInv, [Next]_vars, wire = "none", ~Ending
      PROVE  wire' \in {"none", "auth"}
  <2> USE NoOneAssumption, SendersAssumption
  <2> USE DEF taskVars, clientVars, sessVars, readyVars, netVars, srvVars
  <2>1. /\ \A t \in Loops : InReconnect(t) => lock = t
        /\ \A s \in Senders : pc[s] = "rate" => lock = s
        /\ pc["shard"] \in {"connect", "hello", "backoff"} =>
               pc["beat"] # "hbLock" /\ \A s \in Senders : pc[s] = "idle"
    BY <1>3 DEF IInv, LockHeld, OneReconnector, Alone, FirstInv, Unnamed, Ending
  <2>2. pc["shard"] \in {"connect", "hello", "backoff"} \/ \E t \in Loops : lock = t
    BY <1>3, <2>1 DEF FirstInv, Opening
  <2>3. ASSUME NEW t \in {"shard", "beat"}, Heartbeat(t) PROVE FALSE
    BY <2>1, <2>2, <2>3 DEF Heartbeat, LockFree, Tasks, Loops
  <2>4. ASSUME NEW s \in Senders, SendFrame(s) PROVE FALSE
    BY <2>1, <2>2, <2>4 DEF SendFrame, Loops
  <2>5. CASE ShardNext
    BY <1>3, <2>5 DEF ShardNext, EnterConnect, EnterHello, EnterFails, RunEvent, RunOpcode,
        RunRaises, RunStops, ExitClose, Retry, Open, Close, Authenticate
  <2>6. CASE ReceiveNext
    BY <1>3, <2>6 DEF ReceiveNext, ReceiveWoken, ReceiveData, ReceiveClose, ReceiveClosed,
        ReceiveClosing
  <2>7. CASE BeatNext \/ ClientNext
    BY <1>3, <2>7 DEF BeatNext, BeatTurn, BeatKilled, ClientNext, Settled, StopHttp, StopGateway,
        StopJoin
  <2>8. CASE ServerNext
    BY <1>3, <2>8 DEF ServerNext, ServerAnswers, ServerEvent, ServerAck, ServerControl,
        NetworkFails
  <2>9. ASSUME NEW t \in Loops, ReconnectNext(t) PROVE wire' \in {"none", "auth"}
    BY <1>3, <2>9 DEF ReconnectNext, ReconnectLocked, ReconnectClose, ReconnectConnect,
        ReconnectHello, ReconnectFails, Open, Close, Authenticate
  <2>10. ASSUME NEW s \in Senders, SendNext(s) PROVE wire' \in {"none", "auth"}
    BY <1>3, <2>4, <2>10 DEF SendNext, SendCalled, SendLocked
  <2>11. CASE UNCHANGED vars
    BY <1>3, <2>11 DEF vars
  <2> QED
    BY <1>3, <2>3, <2>5, <2>6, <2>7, <2>8, <2>9, <2>10, <2>11 DEF Next
<1>4. TypeOK /\ IInv /\ FirstInv /\ [Next]_vars =>
          [wire = "none" /\ ~Ending => wire' \in {"none", "auth"}]_vars
  BY <1>3 DEF TypeOK
<1> QED
  BY <1>1, <1>2, <1>4, TypeCorrect, Inductive, PTL DEF Spec, IdentifyFirst

=============================================================================

-------------------------- MODULE ReadinessProofs --------------------------
(***************************************************************************)
(* Proofs about StartUp, ShardStart and VoiceLink, as LiveParts composes   *)
(* them: a client, the shards and a voice gateway are not ready too early. *)
(***************************************************************************)
EXTENDS LiveParts, FiniteSetTheorems, TLAPS

-----------------------------------------------------------------------------
(* StartUp *)

Stages == {"asleep", "woken", "chunk", "over"}
Calls == [pc : Stages, first : BOOLEAN,
          expected : SUBSET Guilds, seen : SUBSET Guilds, todo : SUBSET (Guilds \X Nat)]

StartUpTypes ==
    /\ member \in SUBSET Guilds /\ suComing \in SUBSET member /\ mine \in SUBSET member
    /\ suCached \in SUBSET Guilds /\ object \in [Guilds -> Nat]
    /\ suHandlers \in Seq(Calls)
    /\ suStartup \in BOOLEAN /\ suEvent \in BOOLEAN /\ blurred \in BOOLEAN

\* What a call that waits was told of are the guilds of the user, m, and it waits for their
\* members when all of them are in the cache, c.
Counts(h, m, c) == h.pc # "over" => h.expected = m /\ (h.pc = "chunk" => h.first /\ m \subseteq c)

StartUpInv ==
    /\ StartUpTypes
    /\ ~blurred => \A i \in DOMAIN suHandlers : Counts(suHandlers[i], member, suCached)

-----------------------------------------------------------------------------
\* A step of the parts is one of the start-up, or leaves it alone.
LEMMA StartUpStep == [Next]_vars => [Su!Next]_suVars
BY DEF Next, vars, suVars

\* The sizes that StartUp speaks of are those the lemmas on finite sets speak of.
LEMMA SameSizes == \A S : (Su!IsFiniteSet(S) <=> IsFiniteSet(S)) /\ Su!Cardinality(S) = Cardinality(S)
<1>1. \A S : Su!IsFiniteSet(S) <=> IsFiniteSet(S)
  BY DEF Su!IsFiniteSet, IsFiniteSet
<1>2. \A S : Su!Cardinality(S) = Cardinality(S)
  BY Zenon DEF Su!Cardinality, Cardinality
<1> QED
  BY <1>1, <1>2

\* Whoever counts as many guilds as the READY told of, and no others, has those.
LEMMA AllCounted ==
    ASSUME NEW h \in Calls, NEW known \in SUBSET Guilds, h.first, known \subseteq h.expected,
           Su!HasAll(h, known)
    PROVE  h.expected \subseteq known
<1>1. IsFiniteSet(Guilds) /\ h.expected \in SUBSET Guilds
  BY ReadinessConstants, SameSizes DEF Su!GuildsAssumption, Calls
<1>2. IsFiniteSet(h.expected)
  BY <1>1, FS_Subset
<1>3. Cardinality(known) = Cardinality(h.expected)
  BY SameSizes DEF Su!HasAll
<1> QED
  BY <1>2, <1>3, FS_Subset

\* Where the top of the loop leads to.
LEMMA StageReached ==
    ASSUME NEW h \in Calls, NEW known \in SUBSET Guilds, NEW event
    PROVE  /\ Su!Stage(h, known, event) \in Stages
           /\ Su!Stage(h, known, event) = "chunk" => h.first
           /\ known \subseteq h.expected /\ h.first /\ Su!Stage(h, known, event) \in {"chunk", "over"}
                => h.expected \subseteq known
BY AllCounted DEF Su!Stage, Su!AfterLoop, Stages

\* A READY handler that leaves its loop is at one of the stages.
LEMMA AfterLoopIsStage ==
    ASSUME NEW h \in Calls, NEW known
    PROVE  Su!AfterLoop(h, known) \in Stages
BY DEF Su!AfterLoop, Stages

\* What a call's step does to the calls.
LEMMA CallReaches ==
    ASSUME StartUpTypes, NEW i \in 1 .. Len(suHandlers) + 1, NEW h \in Calls, NEW pc \in Stages,
           NEW known \in SUBSET Guilds, Su!Reaches(i, h, pc, known)
    PROVE  /\ suHandlers' \in Seq(Calls) /\ DOMAIN suHandlers' = DOMAIN suHandlers \cup {i}
           /\ suHandlers'[i] = [h EXCEPT !.pc = pc, !.todo = Su!Objects(known)]
           /\ \A j \in DOMAIN suHandlers \ {i} : suHandlers'[j] = suHandlers[j]
           /\ suStartup' \in BOOLEAN
<1> DEFINE g == [h EXCEPT !.pc = pc, !.todo = Su!Objects(known)]
<1>1. g \in Calls
  <2>1. Su!Objects(known) \in SUBSET (Guilds \X Nat)
    BY DEF Su!Objects, StartUpTypes
  <2> QED
    BY <2>1 DEF Calls
<1>2. suHandlers \in Seq(Calls) /\ DOMAIN suHandlers = 1 .. Len(suHandlers) /\ Len(suHandlers) \in Nat
  BY DEF StartUpTypes
<1>3. suHandlers' = IF i \in DOMAIN suHandlers THEN [suHandlers EXCEPT ![i] = g] ELSE Append(suHandlers, g)
  BY DEF Su!Reaches
<1>4. suStartup' \in BOOLEAN
  BY DEF Su!Reaches
<1> DEFINE Effect == /\ suHandlers' \in Seq(Calls) /\ DOMAIN suHandlers' = DOMAIN suHandlers \cup {i}
                     /\ suHandlers'[i] = g
                     /\ \A j \in DOMAIN suHandlers \ {i} : suHandlers'[j] = suHandlers[j]
<1>5. Effect
  <2> HIDE DEF g
  <2>1. CASE i \in DOMAIN suHandlers
    BY <1>1, <1>2, <1>3, <2>1
  <2>2. CASE i \notin DOMAIN suHandlers
    <3>0. suHandlers' = Append(suHandlers, g)
      BY <1>3, <2>2
    <3>1. i = Len(suHandlers) + 1 /\ suHandlers' = Append(suHandlers, g)
      BY <1>2, <2>2, <3>0
    <3>2. suHandlers' \in Seq(Calls) /\ Len(suHandlers') = Len(suHandlers) + 1
      BY <1>1, <1>2, <3>1
    <3>3. DOMAIN suHandlers' = DOMAIN suHandlers \cup {i}
      BY <1>2, <3>1, <3>2
    <3>4. suHandlers'[i] = g /\ \A j \in DOMAIN suHandlers \ {i} : suHandlers'[j] = suHandlers[j]
      BY <1>1, <1>2, <3>1
    <3> QED
      BY <3>2, <3>3, <3>4
  <2> QED
    BY <2>1, <2>2
<1> QED
  BY <1>4, <1>5

-----------------------------------------------------------------------------
\* A call that reaches a stage: what it must have seen for the invariant, and for Startup.
LEMMA CallGoes ==
    ASSUME StartUpInv, NEW i \in 1 .. Len(suHandlers) + 1, NEW h \in Calls, NEW pc \in Stages,
           NEW known \in SUBSET Guilds, Su!Reaches(i, h, pc, known),
           member' = member, suCached' = suCached, object' = object,
           suComing' \in SUBSET member, mine' \in SUBSET member, suEvent' \in BOOLEAN, blurred' \in BOOLEAN,
           ~blurred' => /\ ~blurred
                        /\ pc # "over" => h.expected = member
                        /\ pc = "chunk" => h.first /\ member \subseteq suCached
                        /\ h.first /\ pc = "over" => h.expected \subseteq suCached
    PROVE  StartUpInv' /\ Su!GuildsAreThere
<1>1. StartUpTypes
  BY DEF StartUpInv
<1>2. /\ suHandlers' \in Seq(Calls) /\ DOMAIN suHandlers' = DOMAIN suHandlers \cup {i}
      /\ suHandlers'[i] = [h EXCEPT !.pc = pc, !.todo = Su!Objects(known)]
      /\ \A j \in DOMAIN suHandlers \ {i} : suHandlers'[j] = suHandlers[j]
      /\ suStartup' \in BOOLEAN
  BY <1>1, CallReaches
<1>3. /\ suHandlers'[i].pc = pc /\ suHandlers'[i].first = h.first
      /\ suHandlers'[i].expected = h.expected
  BY <1>2 DEF Calls
<1>4. StartUpTypes'
  BY <1>1, <1>2 DEF StartUpTypes
<1>5. ASSUME ~blurred', NEW j \in DOMAIN suHandlers'
      PROVE  Counts(suHandlers'[j], member', suCached')
  BY <1>2, <1>3, <1>5 DEF StartUpInv, Counts
<1>6. StartUpInv'
  BY <1>4, <1>5 DEF StartUpInv
<1>7. Su!GuildsAreThere
  BY <1>2, <1>3 DEF Su!GuildsAreThere
<1> QED
  BY <1>6, <1>7

\* A step that takes no call to its end.
LEMMA NoneEnds ==
    ASSUME DOMAIN suHandlers' = DOMAIN suHandlers,
           \A i \in DOMAIN suHandlers : suHandlers'[i].pc = "over" => suHandlers[i].pc = "over"
    PROVE  Su!GuildsAreThere
BY DEF Su!GuildsAreThere

\* The calls that wait know nothing of another guild or of a resume: those blur what they see.
LEMMA NobodyWaits ==
    ASSUME StartUpInv, suHandlers' = suHandlers, StartUpTypes',
           blurred' = (blurred \/ Su!Waiting # {})
    PROVE  StartUpInv' /\ Su!GuildsAreThere
<1>1. Su!GuildsAreThere
  BY NoneEnds
<1>2. ASSUME ~blurred', NEW j \in DOMAIN suHandlers'
      PROVE  Counts(suHandlers'[j], member', suCached')
  BY <1>2 DEF Counts, Su!Waiting
<1> QED
  BY <1>1, <1>2 DEF StartUpInv

\* A guild that comes: calls that sleep are woken, and nothing else changes for the first one.
LEMMA GuildComes ==
    ASSUME StartUpInv, NEW g \in Guilds, Su!GuildCreate(g)
    PROVE  StartUpInv' /\ Su!GuildsAreThere
<1>1. StartUpTypes
  BY DEF StartUpInv
<1> DEFINE Seen(h) == IF h.first \/ h.pc = "over" THEN h ELSE [h EXCEPT !.seen = @ \cup {g}]
           Up(h) == IF h.pc = "asleep" THEN [h EXCEPT !.pc = "woken"] ELSE h
<1>2. suHandlers' = [i \in DOMAIN suHandlers |-> Up(Seen(suHandlers[i]))]
  <2>1. suHandlers' = Su!Woken([i \in DOMAIN suHandlers |-> Seen(suHandlers[i])])
    BY DEF Su!GuildCreate
  <2> HIDE DEF Seen
  <2> QED
    BY <2>1 DEF Su!Woken
<1>3. \A i \in DOMAIN suHandlers : suHandlers[i] \in Calls
  BY <1>1 DEF StartUpTypes
<1>4. ASSUME NEW h \in Calls
      PROVE  /\ Up(Seen(h)) \in Calls /\ Up(Seen(h)).first = h.first /\ Up(Seen(h)).expected = h.expected
             /\ Up(Seen(h)).pc = IF h.pc = "asleep" THEN "woken" ELSE h.pc
  BY DEF Calls, Stages
<1> HIDE DEF Up, Seen
<1>5. \A i \in DOMAIN suHandlers :
         /\ suHandlers'[i] \in Calls
         /\ suHandlers'[i].first = suHandlers[i].first /\ suHandlers'[i].expected = suHandlers[i].expected
         /\ suHandlers'[i].pc = IF suHandlers[i].pc = "asleep" THEN "woken" ELSE suHandlers[i].pc
  BY <1>2, <1>3, <1>4
<1>6. DOMAIN suHandlers' = DOMAIN suHandlers /\ suHandlers' \in Seq(Calls)
  <2>1. DOMAIN suHandlers = 1 .. Len(suHandlers) /\ Len(suHandlers) \in Nat
    BY <1>1 DEF StartUpTypes
  <2>2. suHandlers' \in [1 .. Len(suHandlers) -> Calls]
    BY <1>2, <1>5, <2>1
  <2>3. ASSUME NEW n \in Nat, NEW f \in [1 .. n -> Calls]
        PROVE  f \in Seq(Calls)
    OBVIOUS
  <2> QED
    BY <1>2, <2>1, <2>2, <2>3
<1>7. /\ suComing' = suComing \ {g} /\ suCached' = suCached \cup {g} /\ mine' = mine \cup {g}
      /\ g \in suComing /\ suEvent' = TRUE /\ UNCHANGED <<member, object, suStartup, blurred>>
  BY DEF Su!GuildCreate, Su!flags
<1>8. StartUpTypes'
  BY <1>1, <1>6, <1>7 DEF StartUpTypes
<1>9. ASSUME ~blurred', NEW j \in DOMAIN suHandlers'
      PROVE  Counts(suHandlers'[j], member', suCached')
  BY <1>5, <1>6, <1>7, <1>9 DEF StartUpInv, Counts
<1>10. Su!GuildsAreThere
  BY <1>5, <1>6, NoneEnds
<1> QED
  BY <1>8, <1>9, <1>10 DEF StartUpInv

\* A step of a handler or of the client keeps StartUpInv, from which the guilds are there.
LEMMA StartUpKept == StartUpInv /\ [Su!Next]_suVars => StartUpInv' /\ Su!GuildsAreThere
<1> SUFFICES ASSUME StartUpInv, [Su!Next]_suVars
             PROVE  StartUpInv' /\ Su!GuildsAreThere
  OBVIOUS
<1>1. StartUpTypes
  BY DEF StartUpInv
<1>2. /\ DOMAIN suHandlers = 1 .. Len(suHandlers) /\ Len(suHandlers) \in Nat
      /\ \A i \in DOMAIN suHandlers : suHandlers[i] \in Calls
  BY <1>1 DEF StartUpTypes
<1>3. CASE Su!WebsocketReady
  <2> DEFINE h == [pc |-> "asleep", first |-> ~suStartup, expected |-> member, seen |-> {}, todo |-> {}]
             known == mine' \cap suCached
  <2>1. /\ mine' = mine \cup member /\ suComing' = member
        /\ Su!Reaches(Len(suHandlers) + 1, h, Su!Stage(h, known, suEvent), known)
        /\ UNCHANGED <<member, suCached, object, suEvent, blurred>>
    BY <1>3 DEF Su!WebsocketReady, Su!members
  <2>2. mine' = member /\ known \in SUBSET Guilds /\ known \subseteq member
    BY <1>1, <2>1 DEF StartUpTypes
  <2>3. h \in Calls /\ h.expected = member
    BY <1>1 DEF StartUpTypes, Calls, Stages
  <2>4. /\ Su!Stage(h, known, suEvent) \in Stages
        /\ Su!Stage(h, known, suEvent) = "chunk" => h.first
        /\ h.first /\ Su!Stage(h, known, suEvent) \in {"chunk", "over"} => member \subseteq suCached
    <3> HIDE DEF h
    <3>1. \A e : /\ Su!Stage(h, known, e) \in Stages
                 /\ Su!Stage(h, known, e) = "chunk" => h.first
                 /\ known \subseteq h.expected /\ h.first /\ Su!Stage(h, known, e) \in {"chunk", "over"}
                      => h.expected \subseteq known
      BY <2>2, <2>3, StageReached
    <3>2. known \subseteq suCached
      OBVIOUS
    <3> HIDE DEF known
    <3> QED
      BY <2>2, <2>3, <3>1, <3>2
  <2>5. /\ suComing' \in SUBSET member /\ mine' \in SUBSET member /\ suEvent' \in BOOLEAN
        /\ blurred' \in BOOLEAN /\ Len(suHandlers) + 1 \in 1 .. Len(suHandlers) + 1
    BY <1>1, <1>2, <2>1, <2>2 DEF StartUpTypes
  <2> HIDE DEF h, known
  <2> QED
    BY <2>1, <2>2, <2>3, <2>4, <2>5, CallGoes
<1>4. CASE Su!Resumed
  <2>1. StartUpTypes'
    BY <1>1, <1>4 DEF StartUpTypes, Su!Resumed, Su!members
  <2> QED
    BY <1>4, <2>1, NobodyWaits DEF Su!Resumed
<1>5. CASE Su!ConnectionLost
  <2>1. UNCHANGED <<member, suComing, mine, suCached, object, suEvent, suStartup, suHandlers, blurred>>
    BY <1>5 DEF Su!ConnectionLost, Su!members
  <2>2. StartUpInv'
    BY <2>1 DEF StartUpInv, StartUpTypes, Counts
  <2> QED
    BY <2>1, <2>2, NoneEnds
<1>6. ASSUME NEW g \in Guilds, Su!Joins(g)
      PROVE  StartUpInv' /\ Su!GuildsAreThere
  <2>1. StartUpTypes'
    BY <1>1, <1>6 DEF StartUpTypes, Su!Joins, Su!flags, Su!members
  <2> QED
    BY <1>6, <2>1, NobodyWaits DEF Su!Joins
<1>7. ASSUME NEW g \in Guilds, Su!GuildDelete(g)
      PROVE  StartUpInv' /\ Su!GuildsAreThere
  <2>1. StartUpTypes'
    BY <1>1, <1>7 DEF StartUpTypes, Su!GuildDelete, Su!flags, Su!members
  <2> QED
    BY <1>7, <2>1, NobodyWaits DEF Su!GuildDelete
<1>8. ASSUME NEW g \in Guilds, Su!ChunkEnds(g)
      PROVE  StartUpInv' /\ Su!GuildsAreThere
  <2>1. UNCHANGED <<member, suComing, mine, suCached, object, suEvent, suStartup, suHandlers, blurred>>
    BY <1>8 DEF Su!ChunkEnds, Su!server, Su!flags
  <2>2. StartUpInv'
    BY <2>1 DEF StartUpInv, StartUpTypes, Counts
  <2> QED
    BY <2>1, <2>2, NoneEnds
<1>9. ASSUME NEW i, Su!Wakes(i)
      PROVE  StartUpInv' /\ Su!GuildsAreThere
  <2> DEFINE h == suHandlers[i]
  <2>1. /\ i \in DOMAIN suHandlers /\ h.pc = "woken" /\ suEvent' = FALSE
        /\ Su!Reaches(i, h, Su!Stage(h, Su!Known, FALSE), Su!Known)
        /\ UNCHANGED <<member, suComing, mine, suCached, object, blurred>>
    BY <1>9 DEF Su!Wakes, Su!At, Su!server, Su!members
  <2>2. /\ i \in 1 .. Len(suHandlers) + 1 /\ h \in Calls
        /\ Su!Known \in SUBSET Guilds /\ Su!Known \subseteq member /\ Su!Known \subseteq suCached
    BY <1>1, <1>2, <2>1 DEF StartUpTypes, Su!Known
  <2>3. ~blurred => h.expected = member
    BY <2>1 DEF StartUpInv, Counts
  <2> HIDE DEF h
  <2>4. /\ Su!Stage(h, Su!Known, FALSE) \in Stages
        /\ Su!Stage(h, Su!Known, FALSE) = "chunk" => h.first
        /\ ~blurred /\ h.first /\ Su!Stage(h, Su!Known, FALSE) \in {"chunk", "over"} => member \subseteq suCached
    BY <2>2, <2>3, StageReached
  <2>5. /\ suComing' \in SUBSET member /\ mine' \in SUBSET member /\ suEvent' \in BOOLEAN /\ blurred' \in BOOLEAN
    BY <1>1, <2>1 DEF StartUpTypes
  <2> QED
    BY <2>1, <2>2, <2>3, <2>4, <2>5, CallGoes
<1>10. ASSUME NEW i, Su!TimesOut(i)
       PROVE  StartUpInv' /\ Su!GuildsAreThere
  <2> DEFINE h == suHandlers[i]
  <2>1. /\ i \in DOMAIN suHandlers /\ blurred' = TRUE
        /\ Su!Reaches(i, h, Su!AfterLoop(h, Su!Known), Su!Known)
        /\ UNCHANGED <<member, suComing, mine, suCached, object, suEvent>>
    BY <1>10 DEF Su!TimesOut, Su!At, Su!server, Su!members
  <2>2. i \in 1 .. Len(suHandlers) + 1 /\ h \in Calls /\ Su!Known \in SUBSET Guilds
    BY <1>1, <1>2, <2>1 DEF StartUpTypes, Su!Known
  <2> HIDE DEF h
  <2>3. Su!AfterLoop(h, Su!Known) \in Stages
    BY <2>2, AfterLoopIsStage
  <2>4. /\ suComing' \in SUBSET member /\ mine' \in SUBSET member /\ suEvent' \in BOOLEAN
    BY <1>1, <2>1 DEF StartUpTypes
  <2> QED
    BY <2>1, <2>2, <2>3, <2>4, CallGoes
<1>11. ASSUME NEW i, Su!Chunked(i)
       PROVE  StartUpInv' /\ Su!GuildsAreThere
  <2> DEFINE h == suHandlers[i]
  <2>1. /\ i \in DOMAIN suHandlers /\ h.pc = "chunk"
        /\ Su!Reaches(i, h, "over", {})
        /\ UNCHANGED <<member, suComing, mine, suCached, object, suEvent, blurred>>
    BY <1>11 DEF Su!Chunked, Su!At, Su!server, Su!members
  <2>2. i \in 1 .. Len(suHandlers) + 1 /\ h \in Calls
    BY <1>1, <1>2, <2>1
  <2>3. ~blurred => h.expected \subseteq suCached
    BY <2>1 DEF StartUpInv, Counts
  <2> HIDE DEF h
  <2>4. /\ suComing' \in SUBSET member /\ mine' \in SUBSET member /\ suEvent' \in BOOLEAN /\ blurred' \in BOOLEAN
    BY <1>1, <2>1 DEF StartUpTypes
  <2>5. "over" \in Stages /\ {} \in SUBSET Guilds
    BY DEF Stages
  <2> QED
    BY <2>1, <2>2, <2>3, <2>4, <2>5, CallGoes
<1>12. CASE UNCHANGED suVars
  <2>1. UNCHANGED <<member, suComing, mine, suCached, object, suEvent, suStartup, suHandlers, blurred>>
    BY <1>12 DEF suVars
  <2>2. StartUpInv'
    BY <2>1 DEF StartUpInv, StartUpTypes, Counts
  <2> QED
    BY <2>1, <2>2, NoneEnds
<1> QED
  BY <1>3, <1>4, <1>5, <1>6, <1>7, <1>8, <1>9, <1>10, <1>11, <1>12, GuildComes DEF Su!Next, Su!Handler

\* Before the first READY no handler runs.
LEMMA StartUpInit == Su!Init => StartUpInv
<1> SUFFICES ASSUME Su!Init
             PROVE  StartUpInv
  OBVIOUS
<1>1. suHandlers = <<>> /\ DOMAIN suHandlers = {} /\ suHandlers \in Seq(Calls)
  <2>1. suHandlers = <<>>
    BY DEF Su!Init
  <2> QED
    BY <2>1
<1>2. StartUpTypes
  BY <1>1 DEF Su!Init, StartUpTypes
<1> QED
  BY <1>1, <1>2 DEF StartUpInv
-----------------------------------------------------------------------------
(* ShardStart *)

ShardCalls == [shard : Shards, pc : {"asleep", "woken", "all", "over"}, seen : SUBSET Shards]

\* What a call has seen ready has been ready once; nothing else can start the client.
ShardInv ==
    /\ shard \in [Shards -> {"off", "connecting", "up", "down", "failed"}]
    /\ shardReady \subseteq once /\ once \subseteq Shards
    /\ ssHandlers \in Seq(ShardCalls)
    /\ \A i \in DOMAIN ssHandlers : ssHandlers[i].seen \subseteq once
    /\ Ss!StartupAfterAll

\* A step of the parts is one of the shards' start, or leaves it alone.
LEMMA ShardStartStep == [Next]_vars => [Ss!Next]_ssVars
BY DEF Next, vars, ssVars

\* The calls hs are left as they are or told of more shards: nothing is lost.
LEMMA ShardsSet ==
    ASSUME ShardInv, NEW s \in Shards, NEW hs \in Seq(ShardCalls), Ss!Sets({s}, hs),
           \A i \in DOMAIN hs : hs[i].seen \subseteq once,
           ssStartup' = ssStartup, shard' \in [Shards -> {"off", "connecting", "up", "down", "failed"}]
    PROVE  ShardInv'
<1>1. shardReady' \subseteq once' /\ once' = once \cup {s} /\ once' \subseteq Shards
  BY DEF Ss!Sets, ShardInv
<1> DEFINE g(h) == IF h.pc = "all" THEN [h EXCEPT !.seen = @ \cup {s}] ELSE h
<1>2. \A h \in ShardCalls : /\ g(h) \in ShardCalls
                            /\ h.seen \subseteq once => g(h).seen \subseteq once'
  BY <1>1 DEF ShardCalls
<1>3. ssHandlers' = [i \in DOMAIN hs |-> g(hs[i])]
  BY DEF Ss!Sets
<1>4. DOMAIN hs = 1 .. Len(hs) /\ Len(hs) \in Nat /\ \A i \in DOMAIN hs : hs[i] \in ShardCalls
  OBVIOUS
<1> HIDE DEF g
<1>5. ssHandlers' \in Seq(ShardCalls) /\ DOMAIN ssHandlers' = DOMAIN hs
  <2>1. ssHandlers' \in [1 .. Len(hs) -> ShardCalls]
    BY <1>2, <1>3, <1>4
  <2>2. ASSUME NEW n \in Nat, NEW f \in [1 .. n -> ShardCalls]
        PROVE  f \in Seq(ShardCalls)
    OBVIOUS
  <2> QED
    BY <1>3, <1>4, <2>1, <2>2
<1>6. \A i \in DOMAIN ssHandlers' : ssHandlers'[i].seen \subseteq once'
  BY <1>2, <1>3, <1>4, <1>5
<1>7. Ss!StartupAfterAll'
  BY <1>1 DEF ShardInv, Ss!StartupAfterAll
<1> QED
  BY <1>1, <1>5, <1>6, <1>7 DEF ShardInv

\* A call goes on to stage pc, or begins there.
LEMMA ShardCallGoes ==
    ASSUME ShardInv, NEW i \in DOMAIN ssHandlers, NEW pc \in {"asleep", "woken", "all", "over"}
    PROVE  /\ Ss!Becomes(i, pc) \in Seq(ShardCalls) /\ DOMAIN Ss!Becomes(i, pc) = DOMAIN ssHandlers
           /\ \A j \in DOMAIN ssHandlers : Ss!Becomes(i, pc)[j].seen \subseteq once
<1>1. ssHandlers \in Seq(ShardCalls) /\ shardReady \subseteq once /\ once \subseteq Shards
  BY DEF ShardInv
<1> DEFINE g == [ssHandlers[i] EXCEPT !.pc = pc, !.seen = IF pc = "all" THEN shardReady ELSE {}]
<1>2. ssHandlers[i] \in ShardCalls
  BY <1>1
<1>3. g \in ShardCalls /\ g.seen \subseteq once
  BY <1>1, <1>2 DEF ShardCalls
<1>4. Ss!Becomes(i, pc) = [ssHandlers EXCEPT ![i] = g]
  BY <1>1, <1>2 DEF Ss!Becomes, ShardCalls
<1> HIDE DEF g
<1>5. [ssHandlers EXCEPT ![i] = g] \in Seq(ShardCalls)
  BY <1>1, <1>3
<1> QED
  BY <1>3, <1>4, <1>5 DEF ShardInv

\* A call of _on_websocket_ready that begins has seen no more shards than were ever ready.
LEMMA ShardCallBegins ==
    ASSUME ShardInv, NEW s \in Shards, NEW pc \in {"asleep", "woken", "all"}
    PROVE  /\ Append(ssHandlers, Ss!Called(s, pc)) \in Seq(ShardCalls)
           /\ \A j \in DOMAIN Append(ssHandlers, Ss!Called(s, pc)) :
                 Append(ssHandlers, Ss!Called(s, pc))[j].seen \subseteq once
<1> DEFINE g == Ss!Called(s, pc)
<1>1. ssHandlers \in Seq(ShardCalls) /\ \A i \in DOMAIN ssHandlers : ssHandlers[i].seen \subseteq once
  BY DEF ShardInv
<1>2. g \in ShardCalls /\ g.seen \subseteq once
  BY DEF Ss!Called, ShardCalls, ShardInv
<1> HIDE DEF g
<1>3. Append(ssHandlers, g) \in Seq(ShardCalls) /\ Len(Append(ssHandlers, g)) = Len(ssHandlers) + 1
  BY <1>1, <1>2
<1>4. ASSUME NEW j \in 1 .. Len(ssHandlers) + 1
      PROVE  Append(ssHandlers, g)[j].seen \subseteq once
  BY <1>1, <1>2, <1>4
<1> QED
  BY <1>3, <1>4 DEF g

\* A step of the launcher, of a shard or of a call keeps ShardInv.
LEMMA ShardStartKept == ShardInv /\ [Ss!Next]_ssVars => ShardInv'
<1> SUFFICES ASSUME ShardInv, [Ss!Next]_ssVars
             PROVE  ShardInv'
  OBVIOUS
<1>1. /\ ssHandlers \in Seq(ShardCalls) /\ \A i \in DOMAIN ssHandlers : ssHandlers[i] \in ShardCalls
      /\ \A i \in DOMAIN ssHandlers : ssHandlers[i].seen \subseteq once
  BY DEF ShardInv
<1>2. CASE Ss!StartsShard
  <2>1. UNCHANGED <<shardReady, once, ssHandlers, ssStartup>>
    BY <1>2 DEF Ss!StartsShard, Ss!shards, Ss!flags
  <2>2. shard' \in [Shards -> {"off", "connecting", "up", "down", "failed"}]
    BY <1>2 DEF Ss!StartsShard, Ss!Connecting, ShardInv
  <2> QED
    BY <2>1, <2>2 DEF ShardInv, Ss!StartupAfterAll
<1>3. CASE Ss!ShardSeen \/ Ss!BucketSeen \/ UNCHANGED ssVars
  <2>1. UNCHANGED <<shard, shardReady, once, ssHandlers, ssStartup>>
    BY <1>3 DEF Ss!ShardSeen, Ss!BucketSeen, Ss!shards, Ss!flags, ssVars
  <2> QED
    BY <2>1 DEF ShardInv, Ss!StartupAfterAll
<1>4. ASSUME NEW s \in Shards, Ss!WebsocketReady(s)
      PROVE  ShardInv'
  <2>1. shard' \in [Shards -> {"off", "connecting", "up", "down", "failed"}] /\ ssStartup' = ssStartup
    BY <1>4 DEF Ss!WebsocketReady, Ss!flags, ShardInv
  <2>2. CASE Ss!Sets({s}, Append(ssHandlers, Ss!Called(s, "all")))
    <3> DEFINE hs == Append(ssHandlers, Ss!Called(s, "all"))
    <3>1. hs \in Seq(ShardCalls) /\ \A i \in DOMAIN hs : hs[i].seen \subseteq once
      BY ShardCallBegins
    <3>2. Ss!Sets({s}, hs)
      BY <2>2
    <3> HIDE DEF hs
    <3> QED
      BY <2>1, <3>1, <3>2, ShardsSet
  <2>3. ASSUME NEW pc \in {"asleep", "woken", "all"}, ssHandlers' = Append(ssHandlers, Ss!Called(s, pc)),
               UNCHANGED <<shardReady, once>>
        PROVE  ShardInv'
    <3>1. ssHandlers' \in Seq(ShardCalls) /\ \A i \in DOMAIN ssHandlers' : ssHandlers'[i].seen \subseteq once
      BY <2>3, ShardCallBegins
    <3> QED
      BY <2>1, <2>3, <3>1 DEF ShardInv, Ss!StartupAfterAll
  <2> QED
    BY <1>4, <2>2, <2>3 DEF Ss!WebsocketReady, Ss!shards
<1>5. ASSUME NEW s \in Shards, Ss!ConnectionLost(s) \/ Ss!StartFails(s)
      PROVE  ShardInv'
  <2>1. shardReady' \subseteq shardReady /\ UNCHANGED <<once, ssHandlers, ssStartup>>
    BY <1>5 DEF Ss!ConnectionLost, Ss!StartFails, Ss!shards, Ss!flags
  <2>2. shard' \in [Shards -> {"off", "connecting", "up", "down", "failed"}]
    BY <1>5 DEF Ss!ConnectionLost, Ss!StartFails, ShardInv
  <2> QED
    BY <2>1, <2>2 DEF ShardInv, Ss!StartupAfterAll
<1>6. ASSUME NEW s \in Shards, Ss!Resumed(s)
      PROVE  ShardInv'
  <2>1. /\ shard' \in [Shards -> {"off", "connecting", "up", "down", "failed"}] /\ ssStartup' = ssStartup
        /\ Ss!Sets({s}, ssHandlers)
    BY <1>6 DEF Ss!Resumed, ShardInv
  <2> QED
    BY <1>1, <2>1, ShardsSet
<1>7. ASSUME NEW g \in Guilds, Ss!GuildCreate(g)
      PROVE  ShardInv'
  <2>1. UNCHANGED <<shard, shardReady, once, ssStartup>>
    BY <1>7 DEF Ss!GuildCreate, Ss!shards, Ss!flags
  <2> DEFINE woken(h) == IF h.pc = "asleep" THEN [h EXCEPT !.pc = "woken"] ELSE h
  <2>2. \A h \in ShardCalls : woken(h) \in ShardCalls /\ woken(h).seen = h.seen
    BY DEF ShardCalls
  <2>3. ssHandlers' = [i \in DOMAIN ssHandlers |-> woken(ssHandlers[i])]
    BY <1>7 DEF Ss!GuildCreate
  <2> HIDE DEF woken
  <2>4. DOMAIN ssHandlers = 1 .. Len(ssHandlers) /\ Len(ssHandlers) \in Nat
    BY <1>1
  <2>5. ssHandlers' \in [1 .. Len(ssHandlers) -> ShardCalls]
    BY <1>1, <2>2, <2>3, <2>4
  <2>6. ASSUME NEW n \in Nat, NEW f \in [1 .. n -> ShardCalls]
        PROVE  f \in Seq(ShardCalls)
    OBVIOUS
  <2>7. ssHandlers' \in Seq(ShardCalls)
    BY <2>4, <2>5, <2>6
  <2>8. \A i \in DOMAIN ssHandlers' : ssHandlers'[i].seen \subseteq once
    BY <1>1, <2>2, <2>3
  <2> QED
    BY <2>1, <2>7, <2>8 DEF ShardInv, Ss!StartupAfterAll
<1>8. ASSUME NEW i, Ss!Wakes(i) \/ Ss!TimesOut(i)
      PROVE  ShardInv'
  <2>1. i \in DOMAIN ssHandlers /\ UNCHANGED <<shard, ssStartup>>
    BY <1>8 DEF Ss!Wakes, Ss!TimesOut, Ss!At, Ss!flags
  <2>2. CASE Ss!Sets({ssHandlers[i].shard}, Ss!Becomes(i, "all"))
    <3>1. ssHandlers[i].shard \in Shards
      BY <1>1, <2>1 DEF ShardCalls
    <3>2. /\ Ss!Becomes(i, "all") \in Seq(ShardCalls)
          /\ \A j \in DOMAIN Ss!Becomes(i, "all") : Ss!Becomes(i, "all")[j].seen \subseteq once
      BY <2>1, ShardCallGoes
    <3>3. shard' \in [Shards -> {"off", "connecting", "up", "down", "failed"}]
      BY <2>1 DEF ShardInv
    <3> QED
      BY <2>1, <2>2, <3>1, <3>2, <3>3, ShardsSet
  <2>3. CASE ssHandlers' = Ss!Becomes(i, "asleep") /\ UNCHANGED <<shardReady, once>>
    <3>1. ssHandlers' \in Seq(ShardCalls) /\ \A j \in DOMAIN ssHandlers' : ssHandlers'[j].seen \subseteq once
      BY <2>1, <2>3, ShardCallGoes
    <3> QED
      BY <2>1, <2>3, <3>1 DEF ShardInv, Ss!StartupAfterAll
  <2> QED
    BY <1>8, <2>2, <2>3 DEF Ss!Wakes, Ss!TimesOut, Ss!shards
<1>9. ASSUME NEW i, Ss!AllReady(i)
      PROVE  ShardInv'
  <2>1. /\ i \in DOMAIN ssHandlers /\ ssHandlers[i].seen = Shards /\ ssHandlers' = Ss!Becomes(i, "over")
        /\ UNCHANGED <<shard, shardReady, once>>
    BY <1>9 DEF Ss!AllReady, Ss!At, Ss!shards
  <2>2. ssHandlers' \in Seq(ShardCalls) /\ \A j \in DOMAIN ssHandlers' : ssHandlers'[j].seen \subseteq once
    BY <2>1, ShardCallGoes
  <2>3. once = Shards
    BY <1>1, <2>1 DEF ShardInv
  <2> QED
    BY <2>1, <2>2, <2>3 DEF ShardInv, Ss!StartupAfterAll
<1> QED
  BY <1>2, <1>3, <1>4, <1>5, <1>6, <1>7, <1>8, <1>9
     DEF Ss!Next, Ss!Launcher, Ss!Handler, Ss!vars, ssVars, Ss!launch, Ss!flags, Ss!shards

\* Before the first shard is started there are no calls.
LEMMA ShardStartInit == Ss!Init => ShardInv
<1> SUFFICES ASSUME Ss!Init
             PROVE  ShardInv
  OBVIOUS
<1>1. ssHandlers = <<>> /\ DOMAIN ssHandlers = {} /\ ssHandlers \in Seq(ShardCalls)
  <2>1. ssHandlers = <<>>
    BY DEF Ss!Init
  <2> QED
    BY <2>1
<1>2. shard = [s \in Shards |-> "off"] /\ shardReady = {} /\ once = {} /\ ssStartup = FALSE
  BY DEF Ss!Init
<1> QED
  BY <1>1, <1>2 DEF ShardInv, Ss!StartupAfterAll
-----------------------------------------------------------------------------
(* VoiceLink *)

Places == {"enter", "waitOpen", "read", "discover", "deaf", "exit", "off", "sleep", "send", "over"}
Remaking == {"lock", "update", "connect", "hello"}     \* in reconnect()
InLock == {"update", "connect", "hello"}              \* and in the arms of _race_lock

VoiceTypes ==
    /\ vlPc \in [Vl!Tasks -> Places \cup Remaking]
    /\ resume \in [Vl!Tasks -> BOOLEAN]
    /\ vlReady \in BOOLEAN
    /\ owner \in Vl!Tasks \cup {None}

\* A session is only begun with ready cleared: by the receiving task, which cleared it on its way
\* into reconnect() and cannot set it there, and never by the heartbeater, which resumes unless
\* it waits for the lock that it holds itself.
VoiceInv ==
    /\ VoiceTypes
    /\ Vl!KeyIsCurrent
    /\ inbox = "DESCRIPTION" => session \in {"described", "lost"}
    /\ \A t \in Vl!Tasks : vlPc[t] \in InLock => owner = t
    /\ vlPc["rx"] = "enter" => ~vlReady
    /\ vlPc["rx"] \in Remaking /\ ~resume["rx"] => ~vlReady
    /\ vlPc["hb"] \in Remaking => resume["hb"] \/ (vlPc["hb"] = "lock" /\ owner = "hb")

\* A step of the parts is one of the voice connection, or leaves it alone.
LEMMA VoiceLinkStep == [Next]_vars => [Vl!Next]_vlVars
BY DEF Next, vars, vlVars

\* A step of the receiver, of the heartbeater or of the server keeps VoiceInv.
LEMMA VoiceLinkKept == VoiceInv /\ [Vl!Next]_vlVars => VoiceInv'
<1> SUFFICES ASSUME VoiceInv, [Vl!Next]_vlVars
             PROVE  VoiceInv'
  OBVIOUS
<1> USE DEF VoiceInv, VoiceTypes, Vl!KeyIsCurrent, Vl!Tasks, Places, Remaking, InLock
<1>1. None \notin {"rx", "hb", "NEW", "RESUME", "CLOSED", "FATAL", "HELLO", "READY", "DESCRIPTION", "ACK"}
  BY ReadinessConstants DEF Vl!NoneAssumption, Vl!Messages, Vl!Closes
<1>2. ASSUME NEW t \in Vl!Tasks, Vl!TakesLock(t)
      PROVE  VoiceInv'
  BY <1>1, <1>2 DEF Vl!TakesLock, Vl!At, Vl!Goes, Vl!flags
<1>3. ASSUME NEW t \in Vl!Tasks, Vl!Updated(t)
      PROVE  VoiceInv'
  BY <1>1, <1>3 DEF Vl!Updated, Vl!At, Vl!Goes, Vl!wire
<1>4. ASSUME NEW t \in Vl!Tasks, Vl!UpdateTimesOut(t)
      PROVE  VoiceInv'
  BY <1>1, <1>4 DEF Vl!UpdateTimesOut, Vl!At, Vl!Goes, Vl!Freed, Vl!wire
<1>5. ASSUME NEW t \in Vl!Tasks, Vl!Connects(t)
      PROVE  VoiceInv'
  BY <1>1, <1>5 DEF Vl!Connects, Vl!At, Vl!Goes, Vl!Raises, Vl!Freed
<1>6. ASSUME NEW t \in Vl!Tasks, Vl!Greeted(t)
      PROVE  VoiceInv'
  BY <1>1, <1>6 DEF Vl!Greeted, Vl!At, Vl!Goes
<1>7. ASSUME NEW t \in Vl!Tasks, Vl!NotGreeted(t)
      PROVE  VoiceInv'
  <2>1. /\ vlPc[t] = "hello" /\ owner = t /\ inbox' = None /\ session' = session
        /\ inbox \in {"NEW", "RESUME", "CLOSED", "FATAL"}
    BY <1>7 DEF Vl!NotGreeted, Vl!At, Vl!Closes
  <2>2. CASE inbox = "FATAL"
    BY <1>1, <1>7, <2>1, <2>2 DEF Vl!NotGreeted, Vl!Goes, Vl!Raises, Vl!Freed
  <2>3. CASE inbox # "FATAL"
    <3>1. /\ vlPc' = [vlPc EXCEPT ![t] = "lock"] /\ owner' = owner
          /\ resume' = (IF inbox = "CLOSED" THEN resume ELSE [resume EXCEPT ![t] = inbox = "RESUME"])
          /\ vlReady' = (vlReady /\ inbox = "CLOSED")
      BY <1>7, <2>3 DEF Vl!NotGreeted, Vl!Goes
    <3>2. CASE inbox = "CLOSED"
      BY <1>1, <2>1, <3>1, <3>2
    <3>3. CASE inbox # "CLOSED"
      BY <1>1, <2>1, <3>1, <3>3
    <3> QED
      BY <3>2, <3>3
  <2> QED
    BY <2>2, <2>3
<1>8. CASE Vl!Enter
  BY <1>1, <1>8 DEF Vl!Enter, Vl!At, Vl!Goes, Vl!flags
<1>9. CASE Vl!Looks
  BY <1>1, <1>9 DEF Vl!Looks, Vl!At, Vl!Goes, Vl!flags, Vl!wire
<1>10. CASE Vl!receive
  <2>1. vlPc["rx"] = "read" /\ inbox' = None /\ session' = session
    BY <1>10 DEF Vl!receive, Vl!At
  <2>2. CASE inbox \in {"NEW", "RESUME", "CLOSED"} /\ Vl!Closed(inbox)
    <3>1. /\ resume' = [resume EXCEPT !["rx"] = inbox # "NEW"] /\ vlPc' = [vlPc EXCEPT !["rx"] = "lock"]
          /\ vlReady' = (vlReady /\ inbox \notin {"NEW", "RESUME"}) /\ owner' = owner
      BY <2>2 DEF Vl!Closed, Vl!Goes, Vl!Closes
    <3> QED
      BY <1>1, <2>1, <2>2, <3>1
  <2>3. CASE inbox = "FATAL" /\ Vl!Raises("rx") /\ UNCHANGED <<resume, vlReady, acked>>
    BY <1>1, <2>1, <2>3 DEF Vl!Raises, Vl!Goes, Vl!Freed
  <2>4. CASE inbox \in {"READY", "DESCRIPTION", "ACK"} /\ Vl!Dispatched(inbox)
    BY <1>1, <2>1, <2>4 DEF Vl!Dispatched, Vl!Goes
  <2> QED
    BY <1>10, <2>2, <2>3, <2>4 DEF Vl!receive, Vl!Closes
<1>11. CASE Vl!establish_voice_socket
  BY <1>1, <1>11 DEF Vl!establish_voice_socket, Vl!At, Vl!Goes, Vl!flags
<1>12. CASE Vl!Stops
  BY <1>1, <1>12 DEF Vl!Stops, Vl!At, Vl!Goes, Vl!Raises, Vl!Freed, Vl!wire
<1>13. CASE Vl!Exits
  BY <1>1, <1>13 DEF Vl!Exits, Vl!At, Vl!Goes, Vl!flags
<1>14. CASE Vl!Beats
  BY <1>1, <1>14 DEF Vl!Beats, Vl!At, Vl!Goes, Vl!wire
<1>15. CASE Vl!send_heartbeat
  BY <1>1, <1>15 DEF Vl!send_heartbeat, Vl!At, Vl!Goes, Vl!Raises, Vl!Freed
<1>16. CASE Vl!Greets \/ Vl!Answers \/ Vl!Refuses \/ Vl!Breaks
  BY <1>1, <1>16 DEF Vl!Greets, Vl!Answers, Vl!Refuses, Vl!Breaks, Vl!Sends, Vl!Closes, Vl!control, Vl!flags
<1>17. CASE Vl!Changes \/ Vl!voice_connect \/ Vl!Events
  <2>1. UNCHANGED <<vlPc, resume, owner, vlReady, inbox>>
    BY <1>17 DEF Vl!Changes, Vl!voice_connect, Vl!Events, Vl!StateArrives, Vl!LeftArrives, Vl!ServerArrives,
         Vl!CopyDies, Vl!control, Vl!flags, Vl!wire
  <2>2. session' = session \/ session' = "lost"
    BY <1>17 DEF Vl!Changes, Vl!voice_connect, Vl!Events, Vl!StateArrives, Vl!LeftArrives, Vl!ServerArrives,
         Vl!CopyDies, Vl!wire
  <2> QED
    BY <2>1, <2>2
<1>18. CASE UNCHANGED vlVars
  BY <1>18 DEF vlVars
<1> QED
  BY <1>2, <1>3, <1>4, <1>5, <1>6, <1>7, <1>8, <1>9, <1>10, <1>11, <1>12, <1>13, <1>14, <1>15, <1>16, <1>17, <1>18
     DEF Vl!Next, Vl!Rx, Vl!Hb, Vl!reconnect, Vl!vars, vlVars, Vl!control, Vl!flags, Vl!wire, Vl!voice

\* Before the connection is entered nobody holds the lock and nothing has come.
LEMMA VoiceLinkInit == Vl!Init => VoiceInv
<1> SUFFICES ASSUME Vl!Init
             PROVE  VoiceInv
  OBVIOUS
<1>1. /\ vlPc = [rx |-> "enter", hb |-> "off"] /\ resume = [t \in {"rx", "hb"} |-> FALSE]
      /\ owner = None /\ vlReady = FALSE /\ inbox = None /\ None # "DESCRIPTION"
  BY ReadinessConstants DEF Vl!Init, Vl!Tasks, Vl!NoneAssumption, Vl!Messages
<1>2. vlPc \in [Vl!Tasks -> Places \cup Remaking] /\ vlPc["rx"] = "enter" /\ vlPc["hb"] = "off"
  <2>1. \A f : f = [rx |-> "enter", hb |-> "off"] =>
           /\ f = [t \in {"rx", "hb"} |-> IF t = "rx" THEN "enter" ELSE "off"]
    OBVIOUS
  <2> QED
    BY <1>1, <2>1 DEF Vl!Tasks, Places
<1> QED
  BY <1>1, <1>2 DEF VoiceInv, VoiceTypes, Vl!KeyIsCurrent, Vl!Tasks, Places, Remaking, InLock

-----------------------------------------------------------------------------
\* Whichever connections are lost, resumed and made anew meanwhile, of a client, its shards or its
\* voice connection, and however they use each other's events: Startup finds every guild of the
\* READY in the cache (_on_websocket_ready), it is not dispatched before every shard was ready
\* (AutoShardedClient._on_websocket_ready), and a voice gateway is ready with the key of the
\* session it has (VoiceGateway.dispatch_opcode and reconnect).
THEOREM NoneReadyTooEarly == Spec => ReadyIsEarned
<1> DEFINE Inv == StartUpInv /\ ShardInv /\ VoiceInv
<1>1. Init => Inv
  BY StartUpInit, ShardStartInit, VoiceLinkInit DEF Init
<1>2. Inv /\ [Next]_vars => Inv'
  BY StartUpStep, ShardStartStep, VoiceLinkStep, StartUpKept, ShardStartKept, VoiceLinkKept
<1>3. Inv /\ Inv' /\ [Next]_vars => [Su!GuildsAreThere /\ Ss!StartupAfterAll' /\ Vl!KeyIsCurrent']_vars
  BY StartUpStep, StartUpKept DEF ShardInv, VoiceInv
<1> HIDE DEF Inv
<1> QED
  BY <1>1, <1>2, <1>3, PTL DEF Spec, ReadyIsEarned
-----------------------------------------------------------------------------
(* Types *)

\* What the invariants above do not need to know.
StartUpRest == chunking \cap chunked = {}
ShardRest == /\ left \subseteq Shards /\ buckets \subseteq Shards /\ ssCached \subseteq Guilds
             /\ launcher \in {"next", "shard", "bucket", "over"}
VoiceRest == /\ session \in {"none", "fresh", "offered", "selected", "described", "lost"}
             /\ pending \subseteq {"state", "server", "left"}

\* A guild whose members have come is not asked for them again.
LEMMA StartUpRestKept == StartUpRest /\ [Su!Next]_suVars => StartUpRest'
<1> SUFFICES ASSUME StartUpRest, [Su!Next]_suVars
             PROVE  StartUpRest'
  OBVIOUS
<1>1. ASSUME NEW g \in Guilds, Su!GuildCreate(g) \/ Su!ChunkEnds(g)
      PROVE  StartUpRest'
  BY <1>1 DEF Su!GuildCreate, Su!ChunkEnds, StartUpRest
<1>2. ASSUME NEW g \in Guilds, Su!Joins(g) \/ Su!GuildDelete(g)
      PROVE  StartUpRest'
  BY <1>2 DEF Su!Joins, Su!GuildDelete, Su!members, StartUpRest
<1>3. ASSUME NEW i, Su!Handler(i)
      PROVE  StartUpRest'
  BY <1>3 DEF Su!Handler, Su!Wakes, Su!TimesOut, Su!Chunked, Su!members, StartUpRest
<1>4. CASE Su!WebsocketReady \/ Su!Resumed \/ Su!ConnectionLost \/ UNCHANGED suVars
  BY <1>4 DEF Su!WebsocketReady, Su!Resumed, Su!ConnectionLost, Su!members, suVars, StartUpRest
<1> QED
  BY <1>1, <1>2, <1>3, <1>4 DEF Su!Next

\* astart goes through the shards it has, and only their guilds come.
LEMMA ShardRestKept == ShardRest /\ [Ss!Next]_ssVars => ShardRest'
<1> SUFFICES ASSUME ShardRest, [Ss!Next]_ssVars
             PROVE  ShardRest'
  OBVIOUS
<1> USE DEF ShardRest
<1>1. CASE Ss!StartsShard
  BY <1>1 DEF Ss!StartsShard
<1>2. CASE Ss!ShardSeen
  BY <1>2 DEF Ss!ShardSeen
<1>3. CASE Ss!BucketSeen
  BY <1>3 DEF Ss!BucketSeen, Ss!Bucket
<1>4. ASSUME NEW s \in Shards, Ss!WebsocketReady(s) \/ Ss!ConnectionLost(s) \/ Ss!Resumed(s) \/ Ss!StartFails(s)
      PROVE  ShardRest'
  BY <1>4 DEF Ss!WebsocketReady, Ss!ConnectionLost, Ss!Resumed, Ss!StartFails, Ss!launch
<1>5. ASSUME NEW g \in Guilds, Ss!GuildCreate(g)
      PROVE  ShardRest'
  BY <1>5 DEF Ss!GuildCreate, Ss!launch
<1>6. ASSUME NEW i, Ss!Handler(i)
      PROVE  ShardRest'
  BY <1>6 DEF Ss!Handler, Ss!Wakes, Ss!TimesOut, Ss!AllReady, Ss!launch
<1>7. CASE UNCHANGED ssVars
  BY <1>7 DEF ssVars
<1> QED
  BY <1>1, <1>2, <1>3, <1>4, <1>5, <1>6, <1>7
     DEF Ss!Next, Ss!Launcher, Ss!vars, ssVars, Ss!launch, Ss!flags, Ss!shards

\* What the voice server and the events of the bot's voice state may be.
LEMMA VoiceRestKept == VoiceRest /\ [Vl!Next]_vlVars => VoiceRest'
<1> SUFFICES ASSUME VoiceRest, [Vl!Next]_vlVars
             PROVE  VoiceRest'
  OBVIOUS
<1> USE DEF VoiceRest
<1>1. ASSUME NEW t \in Vl!Tasks, Vl!reconnect(t)
      PROVE  VoiceRest'
  BY <1>1 DEF Vl!reconnect, Vl!TakesLock, Vl!Updated, Vl!UpdateTimesOut, Vl!Connects, Vl!Greeted, Vl!NotGreeted,
     Vl!voice, Vl!wire
<1>2. CASE Vl!Enter \/ Vl!Looks \/ Vl!receive \/ Vl!establish_voice_socket \/ Vl!Stops \/ Vl!Exits
  BY <1>2 DEF Vl!Enter, Vl!Looks, Vl!receive, Vl!establish_voice_socket, Vl!Stops, Vl!Exits, Vl!voice, Vl!wire
<1>3. CASE Vl!Beats \/ Vl!send_heartbeat
  BY <1>3 DEF Vl!Beats, Vl!send_heartbeat, Vl!voice, Vl!wire
<1>4. CASE Vl!Greets \/ Vl!Answers \/ Vl!Refuses \/ Vl!Breaks
  BY <1>4 DEF Vl!Greets, Vl!Answers, Vl!Refuses, Vl!Breaks, Vl!voice
<1>5. CASE Vl!Changes \/ Vl!voice_connect \/ Vl!Events
  BY <1>5 DEF Vl!Changes, Vl!voice_connect, Vl!Events, Vl!StateArrives, Vl!LeftArrives, Vl!ServerArrives,
     Vl!CopyDies, Vl!wire
<1>6. CASE UNCHANGED vlVars
  BY <1>6 DEF vlVars
<1> QED
  BY <1>1, <1>2, <1>3, <1>4, <1>5, <1>6
     DEF Vl!Next, Vl!Rx, Vl!Hb, Vl!vars, vlVars, Vl!control, Vl!flags, Vl!wire, Vl!voice, Vl!Tasks

\* The types of the models of a client's start, of the shards' start and of a voice connection.
THEOREM ReadinessTypes == Spec => [](Su!TypeOK /\ Ss!TypeOK /\ Vl!TypeOK)
<1> DEFINE Inv == StartUpInv /\ ShardInv /\ VoiceInv /\ StartUpRest /\ ShardRest /\ VoiceRest
<1>1. Init => Inv
  <2>1. Su!Init => StartUpRest
    BY DEF Su!Init, StartUpRest
  <2>2. Ss!Init => ShardRest
    BY DEF Ss!Init, Ss!Bucket, ShardRest
  <2>3. Vl!Init => VoiceRest
    BY DEF Vl!Init, VoiceRest
  <2> QED
    BY <2>1, <2>2, <2>3, StartUpInit, ShardStartInit, VoiceLinkInit DEF Init
<1>2. Inv /\ [Next]_vars => Inv'
  BY StartUpStep, ShardStartStep, VoiceLinkStep, StartUpKept, ShardStartKept, VoiceLinkKept,
     StartUpRestKept, ShardRestKept, VoiceRestKept
<1>3. Inv => Su!TypeOK /\ Ss!TypeOK /\ Vl!TypeOK
  <2> SUFFICES ASSUME Inv
               PROVE  Su!TypeOK /\ Ss!TypeOK /\ Vl!TypeOK
    OBVIOUS
  <2>1. Su!TypeOK
    <3>1. \A i \in DOMAIN suHandlers : suHandlers[i] \in Calls
      BY DEF StartUpInv, StartUpTypes
    <3> QED
      BY <3>1 DEF StartUpInv, StartUpTypes, StartUpRest, Calls, Su!TypeOK
  <2>2. Ss!TypeOK
    BY DEF ShardInv, ShardRest, Ss!TypeOK
  <2>3. Vl!TypeOK
    BY DEF VoiceInv, VoiceTypes, VoiceRest, Vl!TypeOK
  <2> QED
    BY <2>1, <2>2, <2>3
<1> HIDE DEF Inv
<1> QED
  BY <1>1, <1>2, <1>3, PTL DEF Spec
-----------------------------------------------------------------------------
(* Nobody waits in vain *)

\* Whose members are to be waited for are the guilds in the cache, and of those the members are
\* asked for or there: of the objects the cache has now.
Asked == ~failed /\ fetchMembers => Su!Objects(suCached) \subseteq chunking \cup chunked
AskedInv == StartUpInv /\ Asked /\ Su!MembersAreAsked

\* Nothing that was asked for is dropped, unless a member list fails to come.
LEMMA AskedStays ==
    ASSUME [Su!Next]_suVars
    PROVE  /\ ~failed' => ~failed /\ chunking \cup chunked \subseteq chunking' \cup chunked'
           /\ fetchMembers' = fetchMembers
<1>1. ASSUME NEW g, Su!ChunkEnds(g)
      PROVE  /\ ~failed' => ~failed /\ chunking \cup chunked \subseteq chunking' \cup chunked'
             /\ fetchMembers' = fetchMembers
  BY <1>1 DEF Su!ChunkEnds
<1>2. ASSUME NEW g, Su!GuildCreate(g)
      PROVE  UNCHANGED <<failed, fetchMembers, chunked>> /\ chunking \subseteq chunking'
  BY <1>2 DEF Su!GuildCreate
<1>3. ASSUME NEW g, Su!Joins(g) \/ Su!GuildDelete(g)
      PROVE  UNCHANGED <<failed, fetchMembers, chunked, chunking>>
  BY <1>3 DEF Su!Joins, Su!GuildDelete, Su!members
<1>4. ASSUME NEW i, Su!Handler(i)
      PROVE  UNCHANGED <<failed, fetchMembers, chunked, chunking>>
  BY <1>4 DEF Su!Handler, Su!Wakes, Su!TimesOut, Su!Chunked, Su!members
<1>5. Su!WebsocketReady \/ Su!Resumed \/ Su!ConnectionLost \/ UNCHANGED suVars =>
          UNCHANGED <<failed, fetchMembers, chunked, chunking>>
  BY DEF Su!WebsocketReady, Su!Resumed, Su!ConnectionLost, Su!members, suVars
<1> QED
  BY <1>1, <1>2, <1>3, <1>4, <1>5 DEF Su!Next

\* The cache only grows by a guild whose members are asked for.
LEMMA AskedKept == StartUpTypes /\ Asked /\ [Su!Next]_suVars => Asked'
<1> SUFFICES ASSUME StartUpTypes, Asked, [Su!Next]_suVars
             PROVE  Asked'
  OBVIOUS
<1>1. ASSUME suCached' \subseteq suCached, \A g \in suCached' : object'[g] = object[g]
      PROVE  Asked'
  <2>1. Su!Objects(suCached)' \subseteq Su!Objects(suCached)
    BY <1>1 DEF Su!Objects
  <2> QED
    BY <2>1, AskedStays DEF Asked
<1>2. ASSUME NEW g, Su!GuildCreate(g)
      PROVE  Asked'
  <2>1. /\ suCached' = suCached \cup {g} /\ UNCHANGED <<object, chunked, failed, fetchMembers>>
        /\ fetchMembers => chunking' = chunking \cup (Su!Objects({g}) \ chunked)
    BY <1>2 DEF Su!GuildCreate
  <2>2. Su!Objects(suCached)' = Su!Objects(suCached) \cup Su!Objects({g})
    BY <2>1 DEF Su!Objects
  <2> QED
    BY <2>1, <2>2 DEF Asked
<1>3. ASSUME NEW g, Su!ChunkEnds(g) \/ Su!Joins(g)
      PROVE  UNCHANGED <<suCached, object>>
  BY <1>3 DEF Su!ChunkEnds, Su!Joins, Su!members
<1>4. ASSUME NEW g, Su!GuildDelete(g)
      PROVE  suCached' = suCached \ {g} /\ object' = [object EXCEPT ![g] = @ + 1]
  BY <1>4 DEF Su!GuildDelete
<1>5. ASSUME NEW i, Su!Handler(i)
      PROVE  UNCHANGED <<suCached, object>>
  BY <1>5 DEF Su!Handler, Su!Wakes, Su!TimesOut, Su!Chunked, Su!members
<1>6. Su!WebsocketReady \/ Su!Resumed \/ Su!ConnectionLost \/ UNCHANGED suVars => UNCHANGED <<suCached, object>>
  BY DEF Su!WebsocketReady, Su!Resumed, Su!ConnectionLost, Su!members, suVars
<1>7. ASSUME NEW g, Su!GuildDelete(g)
      PROVE  Asked'
  <2>1. \A x \in suCached' : object'[x] = object[x]
    BY <1>4, <1>7 DEF StartUpTypes
  <2> QED
    BY <1>1, <1>4, <1>7, <2>1
<1> QED
  BY <1>1, <1>2, <1>3, <1>5, <1>6, <1>7 DEF Su!Next

\* A call that comes to wait for members waits for those of guilds in the cache.
LEMMA MembersReached ==
    ASSUME AskedInv, [Su!Next]_suVars, NEW i \in 1 .. Len(suHandlers) + 1, NEW h \in Calls, NEW pc \in Stages,
           NEW known \in SUBSET Guilds, Su!Reaches(i, h, pc, known),
           pc = "chunk" => fetchMembers /\ known \subseteq suCached
    PROVE  Su!MembersAreAsked'
<1>1. StartUpTypes
  BY DEF AskedInv, StartUpInv
<1>2. /\ suHandlers' \in Seq(Calls) /\ DOMAIN suHandlers' = DOMAIN suHandlers \cup {i}
      /\ suHandlers'[i] = [h EXCEPT !.pc = pc, !.todo = Su!Objects(known)]
      /\ \A j \in DOMAIN suHandlers \ {i} : suHandlers'[j] = suHandlers[j]
      /\ suStartup' \in BOOLEAN
  BY <1>1, CallReaches
<1>3. suHandlers'[i].pc = pc /\ suHandlers'[i].todo = Su!Objects(known)
  BY <1>2 DEF Calls
<1>4. ASSUME ~failed', NEW j \in DOMAIN suHandlers', suHandlers'[j].pc = "chunk"
      PROVE  suHandlers'[j].todo \subseteq chunking' \cup chunked'
  <2>1. ~failed /\ chunking \cup chunked \subseteq chunking' \cup chunked'
    BY <1>4, AskedStays
  <2>2. CASE j = i
    <3>1. known \subseteq suCached => Su!Objects(known) \subseteq Su!Objects(suCached)
      BY DEF Su!Objects
    <3> QED
      BY <1>3, <1>4, <2>1, <2>2, <3>1 DEF AskedInv, Asked
  <2>3. CASE j # i
    BY <1>2, <1>4, <2>1, <2>3 DEF AskedInv, Su!MembersAreAsked
  <2> QED
    BY <2>2, <2>3
<1> QED
  BY <1>4 DEF Su!MembersAreAsked

\* A call that stays where it was, or is woken, waits for the members it waited for.
LEMMA MembersStay ==
    ASSUME AskedInv, [Su!Next]_suVars, DOMAIN suHandlers' = DOMAIN suHandlers,
           \A i \in DOMAIN suHandlers : suHandlers'[i].pc = "chunk" =>
               suHandlers[i].pc = "chunk" /\ suHandlers'[i].todo = suHandlers[i].todo
    PROVE  Su!MembersAreAsked'
<1>1. ASSUME ~failed', NEW j \in DOMAIN suHandlers', suHandlers'[j].pc = "chunk"
      PROVE  suHandlers'[j].todo \subseteq chunking' \cup chunked'
  <2>1. ~failed /\ chunking \cup chunked \subseteq chunking' \cup chunked'
    BY <1>1, AskedStays
  <2> QED
    BY <1>1, <2>1 DEF AskedInv, Su!MembersAreAsked
<1> QED
  BY <1>1 DEF Su!MembersAreAsked

\* What a stage says of the members.
LEMMA ChunkStage ==
    ASSUME NEW h, NEW known, NEW event, Su!Stage(h, known, event) = "chunk" \/ Su!AfterLoop(h, known) = "chunk"
    PROVE  fetchMembers
BY DEF Su!Stage, Su!AfterLoop

\* Every step keeps it so.
LEMMA AskedInvKept == AskedInv /\ [Su!Next]_suVars => AskedInv'
<1> SUFFICES ASSUME AskedInv, [Su!Next]_suVars
             PROVE  Su!MembersAreAsked'
  BY StartUpKept, AskedKept DEF AskedInv, StartUpInv
<1>1. StartUpTypes
  BY DEF AskedInv, StartUpInv
<1>2. /\ DOMAIN suHandlers = 1 .. Len(suHandlers) /\ Len(suHandlers) \in Nat
      /\ \A i \in DOMAIN suHandlers : suHandlers[i] \in Calls
  BY <1>1 DEF StartUpTypes
<1>3. Su!Known \in SUBSET Guilds /\ Su!Known \subseteq suCached
  BY <1>1 DEF StartUpTypes, Su!Known
<1>4. CASE Su!WebsocketReady
  <2> DEFINE h == [pc |-> "asleep", first |-> ~suStartup, expected |-> member, seen |-> {}, todo |-> {}]
             known == mine' \cap suCached
  <2>1. Su!Reaches(Len(suHandlers) + 1, h, Su!Stage(h, known, suEvent), known)
    BY <1>4 DEF Su!WebsocketReady
  <2>2. h \in Calls /\ known \in SUBSET Guilds /\ known \subseteq suCached
    BY <1>1 DEF StartUpTypes, Calls, Stages
  <2> HIDE DEF h, known
  <2>3. Su!Stage(h, known, suEvent) \in Stages
    BY <2>2, StageReached
  <2>4. Su!Stage(h, known, suEvent) = "chunk" => fetchMembers
    BY ChunkStage
  <2>5. Len(suHandlers) + 1 \in 1 .. Len(suHandlers) + 1
    BY <1>2
  <2> QED
    BY <2>1, <2>2, <2>3, <2>4, <2>5, MembersReached
<1>5. ASSUME NEW i, Su!Wakes(i)
      PROVE  Su!MembersAreAsked'
  <2>1. /\ i \in DOMAIN suHandlers
        /\ Su!Reaches(i, suHandlers[i], Su!Stage(suHandlers[i], Su!Known, FALSE), Su!Known)
    BY <1>5 DEF Su!Wakes, Su!At
  <2>2. suHandlers[i] \in Calls /\ i \in 1 .. Len(suHandlers) + 1
    BY <1>2, <2>1
  <2>3. Su!Stage(suHandlers[i], Su!Known, FALSE) \in Stages
    BY <1>3, <2>2, StageReached
  <2>4. Su!Stage(suHandlers[i], Su!Known, FALSE) = "chunk" => fetchMembers
    BY ChunkStage
  <2> QED
    BY <1>3, <2>1, <2>2, <2>3, <2>4, MembersReached
<1>6. ASSUME NEW i, Su!TimesOut(i)
      PROVE  Su!MembersAreAsked'
  <2>1. /\ i \in DOMAIN suHandlers
        /\ Su!Reaches(i, suHandlers[i], Su!AfterLoop(suHandlers[i], Su!Known), Su!Known)
    BY <1>6 DEF Su!TimesOut, Su!At
  <2>2. suHandlers[i] \in Calls /\ i \in 1 .. Len(suHandlers) + 1
    BY <1>2, <2>1
  <2>3. Su!AfterLoop(suHandlers[i], Su!Known) \in Stages
    BY <2>2, AfterLoopIsStage
  <2>4. Su!AfterLoop(suHandlers[i], Su!Known) = "chunk" => fetchMembers
    BY ChunkStage
  <2> QED
    BY <1>3, <2>1, <2>2, <2>3, <2>4, MembersReached
<1>7. ASSUME NEW i, Su!Chunked(i)
      PROVE  Su!MembersAreAsked'
  <2>1. i \in DOMAIN suHandlers /\ Su!Reaches(i, suHandlers[i], "over", {})
    BY <1>7 DEF Su!Chunked, Su!At
  <2>2. suHandlers[i] \in Calls /\ i \in 1 .. Len(suHandlers) + 1 /\ "over" \in Stages /\ {} \in SUBSET Guilds
    BY <1>2, <2>1 DEF Stages
  <2> QED
    BY <2>1, <2>2, MembersReached
<1>8. ASSUME NEW g, Su!GuildCreate(g)
      PROVE  Su!MembersAreAsked'
  <2> DEFINE Seen(h) == IF h.first \/ h.pc = "over" THEN h ELSE [h EXCEPT !.seen = @ \cup {g}]
             Up(h) == IF h.pc = "asleep" THEN [h EXCEPT !.pc = "woken"] ELSE h
  <2>1. suHandlers' = [i \in DOMAIN suHandlers |-> Up(Seen(suHandlers[i]))]
    <3>1. suHandlers' = Su!Woken([i \in DOMAIN suHandlers |-> Seen(suHandlers[i])])
      BY <1>8 DEF Su!GuildCreate
    <3> HIDE DEF Seen
    <3> QED
      BY <3>1 DEF Su!Woken
  <2>2. ASSUME NEW h \in Calls
        PROVE  Up(Seen(h)).pc = "chunk" => h.pc = "chunk" /\ Up(Seen(h)).todo = h.todo
    BY DEF Calls, Stages
  <2> HIDE DEF Up, Seen
  <2> QED
    BY <1>2, <2>1, <2>2, MembersStay
<1>9. ASSUME NEW g, Su!Joins(g) \/ Su!GuildDelete(g) \/ Su!ChunkEnds(g)
      PROVE  UNCHANGED suHandlers
  BY <1>9 DEF Su!Joins, Su!GuildDelete, Su!ChunkEnds
<1>10. Su!Resumed \/ Su!ConnectionLost \/ UNCHANGED suVars => UNCHANGED suHandlers
  BY DEF Su!Resumed, Su!ConnectionLost, suVars
<1> QED
  BY <1>4, <1>5, <1>6, <1>7, <1>8, <1>9, <1>10, MembersStay DEF Su!Next, Su!Handler

-----------------------------------------------------------------------------
\* The calls hs that wait for all shards have seen those that are ready; and a call is to say that
\* shard s is.
Told(hs, set) == \A i \in DOMAIN hs : hs[i].pc = "all" => set \subseteq hs[i].seen
Owes(hs, s) == \E i \in DOMAIN hs : hs[i].shard = s /\ hs[i].pc \in {"asleep", "woken"}

SeenInv ==
    /\ ShardInv
    /\ shardReady \subseteq seen /\ Told(ssHandlers, shardReady)
    /\ \A s \in Shards : shard[s] = "up" => s \in shardReady \/ Owes(ssHandlers, s)

\* Calls that are told of a shard owe what they owed.
LEMMA SetsTell ==
    ASSUME NEW s \in Shards, NEW hs \in Seq(ShardCalls), Told(hs, shardReady), Ss!Sets({s}, hs)
    PROVE  /\ Told(ssHandlers', shardReady') /\ shardReady' = shardReady \cup {s}
           /\ \A r : Owes(hs, r) => Owes(ssHandlers', r)
<1> DEFINE g(h) == IF h.pc = "all" THEN [h EXCEPT !.seen = @ \cup {s}] ELSE h
<1>1. ssHandlers' = [i \in DOMAIN hs |-> g(hs[i])] /\ shardReady' = shardReady \cup {s}
  BY DEF Ss!Sets
<1>2. \A i \in DOMAIN hs : hs[i] \in ShardCalls
  OBVIOUS
<1>3. \A h \in ShardCalls : /\ g(h).shard = h.shard /\ g(h).pc = h.pc
                            /\ h.pc = "all" => g(h).seen = h.seen \cup {s}
  BY DEF ShardCalls
<1> HIDE DEF g
<1>4. Told(ssHandlers', shardReady')
  BY <1>1, <1>2, <1>3 DEF Told
<1>5. \A r : Owes(hs, r) => Owes(ssHandlers', r)
  BY <1>1, <1>2, <1>3 DEF Owes
<1> QED
  BY <1>1, <1>4, <1>5

\* So do those that stay when one goes on.
LEMMA BecomesTell ==
    ASSUME ShardInv, Told(ssHandlers, shardReady), NEW i \in DOMAIN ssHandlers,
           NEW pc \in {"asleep", "woken", "all", "over"}
    PROVE  /\ Told(Ss!Becomes(i, pc), shardReady)
           /\ \A r : Owes(ssHandlers, r) /\ (r # ssHandlers[i].shard \/ pc \in {"asleep", "woken"})
                         => Owes(Ss!Becomes(i, pc), r)
           /\ \A r : Owes(ssHandlers, r) /\ ssHandlers[i].pc = "all" => Owes(Ss!Becomes(i, pc), r)
<1> DEFINE g == [ssHandlers[i] EXCEPT !.pc = pc, !.seen = IF pc = "all" THEN shardReady ELSE {}]
<1>1. ssHandlers \in Seq(ShardCalls) /\ ssHandlers[i] \in ShardCalls
  BY DEF ShardInv
<1>2. g.pc = pc /\ g.shard = ssHandlers[i].shard /\ (pc = "all" => g.seen = shardReady)
  BY <1>1 DEF ShardCalls
<1>3. Ss!Becomes(i, pc) = [ssHandlers EXCEPT ![i] = g]
  BY <1>1 DEF Ss!Becomes, ShardCalls
<1> HIDE DEF g
<1>4. /\ DOMAIN Ss!Becomes(i, pc) = DOMAIN ssHandlers /\ Ss!Becomes(i, pc)[i] = g
      /\ \A j \in DOMAIN ssHandlers \ {i} : Ss!Becomes(i, pc)[j] = ssHandlers[j]
  BY <1>1, <1>3
<1>5. Told(Ss!Becomes(i, pc), shardReady)
  BY <1>2, <1>4 DEF Told
<1>6. ASSUME NEW r, Owes(ssHandlers, r),
             r # ssHandlers[i].shard \/ pc \in {"asleep", "woken"} \/ ssHandlers[i].pc = "all"
      PROVE  Owes(Ss!Becomes(i, pc), r)
  BY <1>2, <1>4, <1>6 DEF Owes
<1> QED
  BY <1>5, <1>6

\* And one that begins.
LEMMA BeginsTell ==
    ASSUME ShardInv, Told(ssHandlers, shardReady), NEW s \in Shards, NEW pc \in {"asleep", "woken", "all"}
    PROVE  /\ Told(Append(ssHandlers, Ss!Called(s, pc)), shardReady)
           /\ \A r : Owes(ssHandlers, r) \/ (r = s /\ pc # "all") => Owes(Append(ssHandlers, Ss!Called(s, pc)), r)
<1> DEFINE g == Ss!Called(s, pc)
           hs == Append(ssHandlers, g)
<1>1. ssHandlers \in Seq(ShardCalls) /\ DOMAIN ssHandlers = 1 .. Len(ssHandlers) /\ Len(ssHandlers) \in Nat
  BY DEF ShardInv
<1>2. g.pc = pc /\ g.shard = s /\ (pc = "all" => g.seen = shardReady)
  BY DEF Ss!Called
<1> HIDE DEF g
<1>3. /\ DOMAIN hs = DOMAIN ssHandlers \cup {Len(ssHandlers) + 1} /\ hs[Len(ssHandlers) + 1] = g
      /\ \A j \in DOMAIN ssHandlers : hs[j] = ssHandlers[j]
  BY <1>1
<1> HIDE DEF hs
<1>4. Told(hs, shardReady)
  BY <1>2, <1>3 DEF Told
<1>5. \A r : Owes(ssHandlers, r) \/ (r = s /\ pc # "all") => Owes(hs, r)
  BY <1>2, <1>3 DEF Owes
<1> QED
  BY <1>4, <1>5 DEF hs, g

\* Whichever shards are lost and come back, and whichever handler they belong to: every step keeps it so.
LEMMA SeenInvKept == SeenInv /\ [Ss!Next]_ssVars => SeenInv'
<1> SUFFICES ASSUME SeenInv, [Ss!Next]_ssVars
             PROVE  SeenInv'
  OBVIOUS
<1>1. /\ ShardInv /\ ShardInv' /\ shardReady \subseteq seen /\ Told(ssHandlers, shardReady)
      /\ \A s \in Shards : shard[s] = "up" => s \in shardReady \/ Owes(ssHandlers, s)
  BY ShardStartKept DEF SeenInv
<1>2. /\ ssHandlers \in Seq(ShardCalls) /\ \A i \in DOMAIN ssHandlers : ssHandlers[i] \in ShardCalls
      /\ shard \in [Shards -> {"off", "connecting", "up", "down", "failed"}]
  BY <1>1 DEF ShardInv
<1>3. CASE Ss!Launcher
  <2>1. UNCHANGED <<shardReady, ssHandlers>> /\ shardReady \subseteq seen'
    BY <1>1, <1>3 DEF Ss!Launcher, Ss!StartsShard, Ss!ShardSeen, Ss!BucketSeen, Ss!shards
  <2>2. \A s \in Shards : shard'[s] = "up" => shard[s] = "up"
    BY <1>2, <1>3 DEF Ss!Launcher, Ss!StartsShard, Ss!ShardSeen, Ss!BucketSeen, Ss!Connecting
  <2> QED
    BY <1>1, <2>1, <2>2 DEF SeenInv
<1>4. ASSUME NEW s \in Shards, Ss!WebsocketReady(s)
      PROVE  SeenInv'
  <2>1. shard' = [shard EXCEPT ![s] = "up"]
    BY <1>4 DEF Ss!WebsocketReady
  <2>2. CASE Ss!Sets({s}, Append(ssHandlers, Ss!Called(s, "all")))
    <3> DEFINE hs == Append(ssHandlers, Ss!Called(s, "all"))
    <3>1. hs \in Seq(ShardCalls)
      BY <1>1, ShardCallBegins
    <3>2. Told(hs, shardReady) /\ \A r : Owes(ssHandlers, r) => Owes(hs, r)
      BY <1>1, BeginsTell
    <3>3. /\ Told(ssHandlers', shardReady') /\ shardReady' = shardReady \cup {s}
          /\ \A r : Owes(hs, r) => Owes(ssHandlers', r)
      BY <2>2, <3>1, <3>2, SetsTell
    <3>4. seen' = seen \cup {s}
      BY <2>2 DEF Ss!Sets
    <3> HIDE DEF hs
    <3> QED
      BY <1>1, <1>2, <2>1, <3>2, <3>3, <3>4 DEF SeenInv
  <2>3. ASSUME NEW pc \in {"asleep", "woken"}, ssHandlers' = Append(ssHandlers, Ss!Called(s, pc)),
               UNCHANGED <<shardReady, seen>>
        PROVE  SeenInv'
    <3>1. /\ Told(ssHandlers', shardReady)
          /\ \A r : Owes(ssHandlers, r) \/ r = s => Owes(ssHandlers', r)
      BY <1>1, <2>3, BeginsTell
    <3> QED
      BY <1>1, <1>2, <2>1, <2>3, <3>1 DEF SeenInv
  <2> QED
    BY <1>4, <2>2, <2>3 DEF Ss!WebsocketReady, Ss!shards
<1>5. ASSUME NEW s \in Shards, Ss!ConnectionLost(s)
      PROVE  SeenInv'
  <2>1. /\ shard' = [shard EXCEPT ![s] = "down"] /\ shardReady' = shardReady \ {s}
        /\ UNCHANGED <<seen, ssHandlers>>
    BY <1>5 DEF Ss!ConnectionLost
  <2>2. Told(ssHandlers, shardReady')
    BY <1>1, <2>1 DEF Told
  <2> QED
    BY <1>1, <1>2, <2>1, <2>2 DEF SeenInv
<1>6. ASSUME NEW s \in Shards, Ss!Resumed(s)
      PROVE  SeenInv'
  <2>1. shard' = [shard EXCEPT ![s] = "up"] /\ Ss!Sets({s}, ssHandlers)
    BY <1>6 DEF Ss!Resumed
  <2>2. /\ Told(ssHandlers', shardReady') /\ shardReady' = shardReady \cup {s}
        /\ \A r : Owes(ssHandlers, r) => Owes(ssHandlers', r)
    BY <1>1, <1>2, <2>1, SetsTell
  <2>3. seen' = seen \cup {s}
    BY <2>1 DEF Ss!Sets
  <2> QED
    BY <1>1, <1>2, <2>1, <2>2, <2>3 DEF SeenInv
<1>7. ASSUME NEW s \in Shards, Ss!StartFails(s)
      PROVE  SeenInv'
  <2>1. shard' = [shard EXCEPT ![s] = "failed"] /\ UNCHANGED <<seen, shardReady, ssHandlers>>
    BY <1>7 DEF Ss!StartFails, Ss!shards
  <2> QED
    BY <1>1, <1>2, <2>1 DEF SeenInv
<1>8. ASSUME NEW g, Ss!GuildCreate(g)
      PROVE  SeenInv'
  <2> DEFINE Up(h) == IF h.pc = "asleep" THEN [h EXCEPT !.pc = "woken"] ELSE h
  <2>1. ssHandlers' = [i \in DOMAIN ssHandlers |-> Up(ssHandlers[i])] /\ UNCHANGED <<seen, shard, shardReady>>
    BY <1>8 DEF Ss!GuildCreate, Ss!shards
  <2>2. \A h \in ShardCalls : /\ Up(h).shard = h.shard /\ Up(h).seen = h.seen
                              /\ Up(h).pc = IF h.pc = "asleep" THEN "woken" ELSE h.pc
    BY DEF ShardCalls
  <2> HIDE DEF Up
  <2>3. Told(ssHandlers', shardReady)
    BY <1>1, <1>2, <2>1, <2>2 DEF Told
  <2>4. \A r : Owes(ssHandlers, r) => Owes(ssHandlers', r)
    BY <1>2, <2>1, <2>2 DEF Owes
  <2> QED
    BY <1>1, <2>1, <2>3, <2>4 DEF SeenInv
<1>9. ASSUME NEW i, Ss!Wakes(i) \/ Ss!TimesOut(i)
      PROVE  SeenInv'
  <2>1. i \in DOMAIN ssHandlers /\ UNCHANGED shard /\ ssHandlers[i].shard \in Shards
    BY <1>2, <1>9 DEF Ss!Wakes, Ss!TimesOut, Ss!At, ShardCalls
  <2>2. CASE Ss!Sets({ssHandlers[i].shard}, Ss!Becomes(i, "all"))
    <3> DEFINE hs == Ss!Becomes(i, "all")
    <3>1. hs \in Seq(ShardCalls)
      BY <1>1, <2>1, ShardCallGoes
    <3>2. Told(hs, shardReady) /\ \A r : Owes(ssHandlers, r) /\ r # ssHandlers[i].shard => Owes(hs, r)
      BY <1>1, <2>1, BecomesTell
    <3>3. /\ Told(ssHandlers', shardReady') /\ shardReady' = shardReady \cup {ssHandlers[i].shard}
          /\ \A r : Owes(hs, r) => Owes(ssHandlers', r)
      BY <2>1, <2>2, <3>1, <3>2, SetsTell
    <3>4. seen' = seen \cup {ssHandlers[i].shard}
      BY <2>2 DEF Ss!Sets
    <3> HIDE DEF hs
    <3> QED
      BY <1>1, <2>1, <3>2, <3>3, <3>4 DEF SeenInv
  <2>3. CASE ssHandlers' = Ss!Becomes(i, "asleep") /\ UNCHANGED <<shardReady, seen>>
    <3>1. Told(ssHandlers', shardReady) /\ \A r : Owes(ssHandlers, r) => Owes(ssHandlers', r)
      BY <1>1, <2>1, <2>3, BecomesTell
    <3> QED
      BY <1>1, <2>1, <2>3, <3>1 DEF SeenInv
  <2> QED
    BY <1>9, <2>2, <2>3 DEF Ss!Wakes, Ss!TimesOut, Ss!shards
<1>10. ASSUME NEW i, Ss!AllReady(i)
       PROVE  SeenInv'
  <2>1. /\ i \in DOMAIN ssHandlers /\ ssHandlers[i].pc = "all" /\ ssHandlers' = Ss!Becomes(i, "over")
        /\ UNCHANGED <<seen, shard, shardReady>>
    BY <1>10 DEF Ss!AllReady, Ss!At, Ss!shards
  <2>2. Told(ssHandlers', shardReady) /\ \A r : Owes(ssHandlers, r) => Owes(ssHandlers', r)
    BY <1>1, <2>1, BecomesTell
  <2> QED
    BY <1>1, <2>1, <2>2 DEF SeenInv
<1>11. CASE UNCHANGED ssVars
  BY <1>1, <1>11 DEF ssVars, SeenInv
<1> QED
  BY <1>3, <1>4, <1>5, <1>6, <1>7, <1>8, <1>9, <1>10, <1>11
     DEF Ss!Next, Ss!Handler, Ss!vars, ssVars, Ss!launch, Ss!flags, Ss!shards

\* So a shard that is up is seen by astart and by every call that waits for all.
LEMMA SeenByAll == SeenInv => Ss!UpIsSeen
BY DEF SeenInv, Told, Owes, Ss!UpIsSeen, Ss!Announced

-----------------------------------------------------------------------------
\* The receiver reads a connection that is there; one that waits for it, or will, has a heartbeater
\* that makes it anew, or is stopped.
LinkInv ==
    /\ VoiceTypes /\ Vl!LinkIsAwaited
    /\ vlPc["rx"] = "enter" => vlPc["hb"] = "off"
    /\ vlPc["rx"] = "read" => open
    /\ vlPc["rx"] = "discover" /\ ~open => closing \/ owner = "hb"

\* Every step of receiver and heartbeater keeps that.
LEMMA LinkInvKept == VoiceInv /\ LinkInv /\ [Vl!Next]_vlVars => LinkInv'
<1> SUFFICES ASSUME VoiceInv, VoiceInv', LinkInv, [Vl!Next]_vlVars
             PROVE  LinkInv'
  BY VoiceLinkKept
<1> USE DEF LinkInv, VoiceTypes, Vl!LinkIsAwaited, Vl!Tasks, Vl!At, Places, Remaking, InLock
<1>1. None \notin {"rx", "hb", "NEW", "RESUME", "CLOSED", "FATAL", "HELLO", "READY", "DESCRIPTION", "ACK"}
  BY ReadinessConstants DEF Vl!NoneAssumption, Vl!Messages, Vl!Closes
<1>2. VoiceTypes' /\ \A t \in Vl!Tasks : vlPc[t] \in InLock => owner = t
  BY DEF VoiceInv
<1>3. ASSUME NEW t \in Vl!Tasks, Vl!TakesLock(t)
      PROVE  LinkInv'
  BY <1>1, <1>2, <1>3 DEF Vl!TakesLock, Vl!flags
<1>4. ASSUME NEW t \in Vl!Tasks, Vl!Updated(t)
      PROVE  LinkInv'
  BY <1>1, <1>2, <1>4 DEF Vl!Updated, Vl!Goes, Vl!wire
<1>5. ASSUME NEW t \in Vl!Tasks, Vl!UpdateTimesOut(t)
      PROVE  LinkInv'
  BY <1>1, <1>2, <1>5 DEF Vl!UpdateTimesOut, Vl!Goes, Vl!Freed, Vl!wire
<1>6. ASSUME NEW t \in Vl!Tasks, Vl!Connects(t)
      PROVE  LinkInv'
  BY <1>1, <1>2, <1>6 DEF Vl!Connects, Vl!Goes, Vl!Raises, Vl!Freed
<1>7. ASSUME NEW t \in Vl!Tasks, Vl!Greeted(t)
      PROVE  LinkInv'
  BY <1>1, <1>2, <1>7 DEF Vl!Greeted, Vl!Goes
<1>8. ASSUME NEW t \in Vl!Tasks, Vl!NotGreeted(t)
      PROVE  LinkInv'
  BY <1>1, <1>2, <1>8 DEF Vl!NotGreeted, Vl!Goes, Vl!Raises, Vl!Freed
<1>9. CASE Vl!Enter
  BY <1>1, <1>2, <1>9 DEF Vl!Enter, Vl!Goes, Vl!flags
<1>10. CASE Vl!Looks
  BY <1>1, <1>2, <1>10 DEF Vl!Looks, Vl!Goes, Vl!flags, Vl!wire
<1>11. CASE Vl!receive
  BY <1>1, <1>2, <1>11 DEF Vl!receive, Vl!Closed, Vl!Raises, Vl!Dispatched, Vl!Goes, Vl!Freed
<1>12. CASE Vl!establish_voice_socket
  BY <1>1, <1>2, <1>12 DEF Vl!establish_voice_socket, Vl!Goes, Vl!flags
<1>13. CASE Vl!Stops
  BY <1>1, <1>2, <1>13 DEF Vl!Stops, Vl!Goes, Vl!Raises, Vl!Freed, Vl!wire
<1>14. CASE Vl!Exits
  BY <1>1, <1>2, <1>14 DEF Vl!Exits, Vl!Goes, Vl!flags
<1>15. CASE Vl!Beats
  BY <1>1, <1>2, <1>15 DEF Vl!Beats, Vl!Goes, Vl!wire
<1>16. CASE Vl!send_heartbeat
  BY <1>1, <1>2, <1>16 DEF Vl!send_heartbeat, Vl!Goes, Vl!Raises, Vl!Freed
<1>17. CASE Vl!Greets \/ Vl!Answers \/ Vl!Refuses \/ Vl!Breaks
  BY <1>2, <1>17 DEF Vl!Greets, Vl!Answers, Vl!Refuses, Vl!Breaks, Vl!control, Vl!flags
<1>18. CASE Vl!Changes \/ Vl!voice_connect \/ Vl!Events
  <2>1. UNCHANGED <<vlPc, owner, open, hurt>>
    BY <1>18 DEF Vl!Changes, Vl!voice_connect, Vl!Events, Vl!StateArrives, Vl!LeftArrives, Vl!ServerArrives,
         Vl!CopyDies, Vl!control
  <2>2. closing' = closing \/ closing' = (closing \/ open)
    BY <1>18 DEF Vl!Changes, Vl!voice_connect, Vl!Events, Vl!StateArrives, Vl!LeftArrives, Vl!ServerArrives,
         Vl!CopyDies, Vl!ClosesIfOpen, Vl!flags
  <2>3. closing => closing'
    BY <2>2, Zenon
  <2> QED
    BY <1>2, <2>1, <2>3
<1>19. CASE UNCHANGED vlVars
  BY <1>2, <1>19 DEF vlVars
<1> QED
  BY <1>3, <1>4, <1>5, <1>6, <1>7, <1>8, <1>9, <1>10, <1>11, <1>12, <1>13, <1>14, <1>15, <1>16, <1>17, <1>18, <1>19
     DEF Vl!Next, Vl!Rx, Vl!Hb, Vl!reconnect, Vl!vars, vlVars, Vl!control, Vl!flags, Vl!wire, Vl!voice

\* Whoever waits for a client, its shards or its voice connection to become ready waits for something
\* that is on its way.
LEMMA NobodyWaitsInVain == Spec => [](Su!MembersAreAsked /\ Ss!UpIsSeen /\ Vl!LinkIsAwaited)
<1> DEFINE Inv == AskedInv /\ SeenInv /\ VoiceInv /\ LinkInv
<1>1. Init => Inv
  <2> SUFFICES ASSUME Init
               PROVE  Inv
    OBVIOUS
  <2>1. StartUpInv /\ ShardInv /\ VoiceInv
    BY StartUpInit, ShardStartInit, VoiceLinkInit DEF Init
  <2>2. suHandlers = <<>> /\ ssHandlers = <<>> /\ suCached = {} /\ shardReady = {}
        /\ shard = [s \in Shards |-> "off"]
    BY DEF Init, Su!Init, Ss!Init
  <2>3. DOMAIN suHandlers = {} /\ DOMAIN ssHandlers = {}
    BY <2>2
  <2>4. AskedInv
    BY <2>1, <2>2, <2>3 DEF AskedInv, Asked, Su!MembersAreAsked, Su!Objects
  <2>5. SeenInv
    BY <2>1, <2>2, <2>3 DEF SeenInv, Told
  <2>6. vlPc = [rx |-> "enter", hb |-> "off"] /\ owner = None
    BY DEF Init, Vl!Init
  <2>7. LinkInv
    BY <2>1, <2>6 DEF VoiceInv, LinkInv, Vl!LinkIsAwaited, Vl!At
  <2> QED
    BY <2>1, <2>4, <2>5, <2>7
<1>2. Inv /\ [Next]_vars => Inv'
  BY StartUpStep, ShardStartStep, VoiceLinkStep, AskedInvKept, SeenInvKept, VoiceLinkKept, LinkInvKept
<1>3. Inv => Su!MembersAreAsked /\ Ss!UpIsSeen /\ Vl!LinkIsAwaited
  BY SeenByAll DEF AskedInv, LinkInv
<1> HIDE DEF Inv
<1> QED
  BY <1>1, <1>2, <1>3, PTL DEF Spec
=============================================================================

--------------------------- MODULE PlaybackProofs ---------------------------
(***************************************************************************)
(* Proofs about Playback and Recording, as LiveParts composes them.  The   *)
(* player with its read-ahead thread implements AudioStream, and a paused  *)
(* player sends at most the packet it had in its hands.  What a recording  *)
(* encodes is what was written, whatever its three threads do: of a file,  *)
(* its place and its buffer one of three relations holds (Steady, Closed,  *)
(* Alone), which of the threads has cleaned up says when files are         *)
(* rewound, and the two together what is read.                             *)
(***************************************************************************)
EXTENDS LiveParts, FiniteSetTheorems, SequenceTheorems, TLAPS

\* The frames that were taken out of the buffer.
Out == Len(played) + (IF got = None THEN 0 ELSE 1)

\* What was sent, the frame in the player's hands, the buffer and the frame in the reader's
\* hands follow each other without a gap, and end with the last frame taken out of the pipe.
Consecutive ==
    /\ played \in Seq(Nat) /\ \A i \in 1..Len(played) : played[i] = i
    /\ got \in {None, Len(played) + 1} /\ (got # None => player = "decide")
    /\ buffer \in Seq(Nat) /\ \A i \in 1..Len(buffer) : buffer[i] = Out + i
    /\ ffmpeg = "none" => reader = "off"
    /\ taken = Out + Len(buffer) + (IF reader = "holds" THEN 1 ELSE 0)

\* The numbers of the frames that ffmpeg wrote and the reader took.
Numbers == /\ written \in Nat /\ taken \in Nat
           /\ taken <= written /\ written <= Frames /\ written - taken <= PipeSize

StreamInv == Numbers /\ Consecutive

\* A paused player that has sent a packet is not between Player._resume and the next one: it
\* comes to look at it, or waits for it.
PauseInv ==
    /\ sincePause \in Nat
    /\ ~resumed /\ player # "new" =>
        \/ sincePause = 0
        \/ /\ sincePause = 1
           /\ \/ player \in {"loop", "ending", "over"}
              \/ player \in {"wait", "asleep"} /\ "resumed" \in waitFor

-----------------------------------------------------------------------------
\* A step of the parts is one of the player, or leaves it alone.
LEMMA PlaybackStep == [Next]_vars => [Pb!Next]_pbVars
BY DEF Next, vars, pbVars

\* Nothing has been read, buffered or played at first.
LEMMA StreamAtFirst == Pb!Init => StreamInv
BY PlaybackConstants
DEF Pb!NumbersAssumption, Pb!Init, StreamInv, Numbers, Consecutive, Out

\* A step of either thread moves frames on without losing, doubling or swapping any.
LEMMA StreamStep == StreamInv /\ [Pb!Next]_pbVars => StreamInv'
<1> SUFFICES ASSUME StreamInv, [Pb!Next]_pbVars
             PROVE  StreamInv'
  OBVIOUS
<1> USE PlaybackConstants
    DEF Pb!NumbersAssumption, Pb!NoneAssumption, StreamInv, Numbers, Consecutive,
        Pb!source, Pb!ahead, Pb!control, Pb!thread
<1>1. ASSUME UNCHANGED <<played, got, buffer, taken>>, reader' = "holds" <=> reader = "holds",
             got # None => player' = "decide", ffmpeg' = "none" => reader' = "off"
      PROVE  Consecutive'
  BY <1>1 DEF Out
<1>2. CASE Pb!Writes
  <2>1. Numbers'
    BY <1>2 DEF Pb!Writes
  <2> QED
    BY <1>1, <1>2, <2>1 DEF Pb!Writes
<1>3. CASE Pb!Exits \/ Pb!ReaderChecks
  <2>1. Numbers'
    BY <1>3 DEF Pb!Exits, Pb!ReaderChecks
  <2> QED
    BY <1>1, <1>3, <2>1 DEF Pb!Exits, Pb!ReaderChecks
<1>4. CASE Pb!ReaderReads
  <2>1. Numbers'
    BY <1>4 DEF Pb!ReaderReads
  <2>2. UNCHANGED <<played, got, buffer, player, ffmpeg>> /\ Out' = Out /\ reader = "read"
    BY <1>4 DEF Pb!ReaderReads, Out
  <2>3. Out \in Nat /\ Len(buffer) \in Nat
    BY DEF Out
  <2>4. /\ taken' = taken + (IF reader' = "holds" THEN 1 ELSE 0) /\ reader' # "off"
        /\ ffmpeg = "none" => FALSE
    BY <1>4 DEF Pb!ReaderReads
  <2> QED
    BY <2>1, <2>2, <2>3, <2>4
<1>5. CASE Pb!extend
  <2>1. buffer' = Append(buffer, taken) /\ UNCHANGED <<played, got, player, taken, written, ffmpeg>>
        /\ reader = "holds" /\ reader' = "check"
    BY <1>5 DEF Pb!extend
  <2>2. taken = Out + Len(buffer) + 1 /\ taken \in Nat /\ Out' = Out /\ Out \in Nat
    BY <2>1 DEF Out
  <2>3. /\ buffer' \in Seq(Nat) /\ Len(buffer') = Len(buffer) + 1
        /\ \A i \in 1..Len(buffer') : buffer'[i] = IF i = Len(buffer) + 1 THEN taken ELSE buffer[i]
    BY <2>1, <2>2
  <2>4. Len(buffer) \in Nat /\ \A i \in 1..Len(buffer) : buffer[i] = Out + i
    OBVIOUS
  <2>5. \A i \in 1..Len(buffer') : buffer'[i] = Out' + i
    <3> SUFFICES ASSUME NEW i \in 1..Len(buffer')
                 PROVE  buffer'[i] = Out + i
      BY <2>2
    <3>1. CASE i = Len(buffer) + 1
      BY <2>2, <2>3, <2>4, <3>1
    <3>2. CASE i # Len(buffer) + 1
      <4>1. i \in 1..Len(buffer)
        BY <2>3, <2>4, <3>2
      <4> QED
        BY <2>3, <2>4, <3>2, <4>1
    <3> QED
      BY <3>1, <3>2
  <2>6. taken' = Out' + Len(buffer') /\ Len(buffer') \in Nat
    BY <2>1, <2>2, <2>3, <2>4
  <2>7. Consecutive'
    BY <2>1, <2>3, <2>5, <2>6
  <2> QED
    BY <2>1, <2>7
<1>6. CASE Pb!Loop \/ Pb!Waits \/ Pb!StartsFfmpeg \/ Pb!Ends
  <2>1. /\ UNCHANGED <<played, got, buffer, taken, written>> /\ player # "decide"
        /\ reader' = "holds" <=> reader = "holds"
        /\ ffmpeg' = "none" => reader' = "off"
    BY <1>6 DEF Pb!Loop, Pb!Waits, Pb!StartsFfmpeg, Pb!Ends
  <2> QED
    BY <1>1, <2>1
<1>7. CASE Pb!Reads
  <2>1. CASE buffer = <<>>
    BY <1>1, <1>7, <2>1 DEF Pb!Reads
  <2>2. CASE buffer # <<>>
    <3>1. got = None /\ Out = Len(played) /\ Len(buffer) \in Nat \ {0}
      BY <1>7, <2>2 DEF Pb!Reads, Out
    <3>2. Head(buffer) = Len(played) + 1 /\ Len(played) + 1 \in 1..Frames
      BY <3>1
    <3>3. got' = Len(played) + 1 /\ got' # None /\ player' = "decide" /\ played' = played
      BY <1>7, <2>2, <3>2 DEF Pb!Reads
    <3>4. /\ buffer' \in Seq(Nat) /\ Len(buffer') = Len(buffer) - 1
          /\ \A i \in 1..Len(buffer') : buffer'[i] = buffer[i + 1]
      BY <1>7, <2>2, <3>1 DEF Pb!Reads
    <3>5. Out' = Len(played) + 1
      BY <3>3 DEF Out
    <3>6. UNCHANGED <<taken, reader, written, ffmpeg>>
      BY <1>7 DEF Pb!Reads
    <3>7. \A i \in 1..Len(buffer') : buffer'[i] = Out' + i
      BY <3>1, <3>4, <3>5
    <3>8. taken' = Out' + Len(buffer') + (IF reader' = "holds" THEN 1 ELSE 0)
      <4>1. Len(played) \in Nat /\ Len(buffer) \in Nat /\ taken' = taken /\ reader' = reader
        BY <3>6
      <4>2. Len(buffer') = Len(buffer) - 1
        BY <3>4
      <4>3. taken = Len(played) + Len(buffer) + (IF reader = "holds" THEN 1 ELSE 0)
        BY <3>1
      <4>4. Out' + Len(buffer') = Len(played) + Len(buffer)
        BY <3>5, <4>1, <4>2
      <4> HIDE DEF Consecutive, Numbers, StreamInv
      <4> QED
        BY <4>1, <4>3, <4>4
    <3> QED
      BY <3>3, <3>4, <3>6, <3>7, <3>8
  <2> QED
    BY <2>1, <2>2
<1>8. CASE Pb!Decides
  <2>1. UNCHANGED <<taken, reader, written, ffmpeg, buffer>> /\ got' = None
    BY <1>8 DEF Pb!Decides
  <2>2. CASE got = None
    <3>1. played' = played
      BY <1>8, <2>2 DEF Pb!Decides
    <3> QED
      BY <2>1, <2>2, <3>1 DEF Out
  <2>3. CASE got # None
    <3>1. played' = Append(played, got) /\ got = Len(played) + 1
      BY <1>8, <2>3 DEF Pb!Decides
    <3>2. played' \in Seq(Nat) /\ Len(played') = Len(played) + 1
      BY <3>1
    <3>3. \A i \in 1..Len(played') : played'[i] = i
      BY <3>1, <3>2
    <3>4. Out' = Out
      BY <2>1, <2>3, <3>2 DEF Out
    <3> QED
      BY <2>1, <3>2, <3>3, <3>4
  <2> QED
    BY <2>2, <2>3
<1>9. CASE \/ Pb!Notified \/ Pb!play \/ Pb!pause \/ Pb!resume \/ Pb!stop
           \/ Pb!ReadyCleared \/ Pb!ReadySet
  <2>1. UNCHANGED <<played, got, buffer, taken, written, reader, ffmpeg>>
        /\ (player = "decide" => player' = "decide")
    BY <1>9 DEF Pb!Notified, Pb!Woken, Pb!play, Pb!pause, Pb!resume, Pb!stop, Pb!ReadyCleared, Pb!ReadySet
  <2> QED
    BY <1>1, <2>1
<1>10. CASE UNCHANGED pbVars
  BY <1>1, <1>10 DEF pbVars
<1> QED
  BY <1>1, <1>2, <1>3, <1>4, <1>5, <1>6, <1>7, <1>8, <1>9, <1>10
  DEF Pb!Next, Pb!Reader, Pb!Player

-----------------------------------------------------------------------------
\* No frame is counted that ffmpeg did not write, none is in two places, and the pipe holds what
\* it can: the types of the player's data.
THEOREM PlaybackTypes == Spec => [](StreamInv /\ Pb!TypeOK)
<1>1. Init => StreamInv
  BY StreamAtFirst DEF Init
<1>2. StreamInv /\ [Next]_vars => StreamInv'
  BY PlaybackStep, StreamStep
<1>3. StreamInv => Pb!TypeOK
  <2> SUFFICES ASSUME StreamInv
               PROVE  Pb!TypeOK
    OBVIOUS
  <2>1. Len(buffer) \in Nat /\ Out \in Nat /\ Frames \in Nat
    BY PlaybackConstants DEF StreamInv, Consecutive, Out, Pb!NumbersAssumption
  <2>2. ASSUME NEW i \in 1..Len(buffer)
        PROVE  buffer[i] \in 1..Frames
    <3>1. buffer[i] = Out + i /\ Out + Len(buffer) <= Frames
      BY <2>1, <2>2 DEF StreamInv, Consecutive, Numbers
    <3> QED
      BY <2>1, <2>2, <3>1
  <2>3. DOMAIN buffer = 1..Len(buffer)
    BY DEF StreamInv, Consecutive
  <2> QED
    BY <2>2, <2>3 DEF StreamInv, Numbers, Pb!TypeOK
<1> QED
  BY <1>1, <1>2, <1>3, PTL DEF Spec

\* The player implements AudioStream: through pipe, read-ahead thread, buffer and player the
\* frames are sent in their order, none twice, none left out between two, and none after the
\* end - for any length of the source and any size of the pipe and of the buffer.
THEOREM PlayerStreams == Spec => StreamKept
<1>1. Init => Pb!Stream!Init
  BY DEF Init, Pb!Init, Pb!Stream!Init
<1>2. StreamInv /\ [Next]_vars => [Pb!Stream!Next]_<<played, player = "over">>
  <2> SUFFICES ASSUME StreamInv, [Pb!Next]_pbVars
               PROVE  Pb!Stream!Next \/ UNCHANGED <<played, player = "over">>
    BY PlaybackStep
  <2> USE DEF Pb!source, Pb!ahead, Pb!control, Pb!thread
  <2>1. CASE Pb!Decides /\ got # None
    <3>1. played' = Append(played, got) /\ player = "decide" /\ player' = "loop"
      BY <2>1 DEF Pb!Decides
    <3>2. got = Len(played) + 1 /\ Len(played) \in Nat /\ Len(played) < Frames
      BY <2>1, PlaybackConstants DEF StreamInv, Consecutive, Numbers, Out, Pb!NumbersAssumption
    <3> QED
      BY <3>1, <3>2 DEF Pb!Stream!Next, Pb!Stream!Send
  <2>2. CASE Pb!Decides /\ got = None
    BY <2>2 DEF Pb!Decides
  <2>3. CASE Pb!Ends
    BY <2>3 DEF Pb!Ends, Pb!Stream!Next, Pb!Stream!End
  <2>4. CASE Pb!Loop \/ Pb!Waits \/ Pb!StartsFfmpeg \/ Pb!Reads
    BY <2>4 DEF Pb!Loop, Pb!Waits, Pb!StartsFfmpeg, Pb!Reads
  <2>5. CASE Pb!Writes \/ Pb!Exits \/ Pb!Reader
    BY <2>5 DEF Pb!Writes, Pb!Exits, Pb!Reader, Pb!ReaderChecks, Pb!ReaderReads, Pb!extend
  <2>6. CASE \/ Pb!Notified \/ Pb!play \/ Pb!pause \/ Pb!resume \/ Pb!stop
             \/ Pb!ReadyCleared \/ Pb!ReadySet
    BY <2>6 DEF Pb!Notified, Pb!Woken, Pb!play, Pb!pause, Pb!resume, Pb!stop, Pb!ReadyCleared, Pb!ReadySet
  <2>7. CASE UNCHANGED pbVars
    BY <2>7 DEF pbVars
  <2> QED
    BY <2>1, <2>2, <2>3, <2>4, <2>5, <2>6, <2>7 DEF Pb!Next, Pb!Player
<1>3. Spec => []StreamInv
  BY PlaybackTypes, PTL
<1> QED
  BY <1>1, <1>2, <1>3, PTL DEF Spec, StreamKept, Pb!StreamKept, Pb!Stream!Spec

\* Player.run looks at _resume before every packet, and waits for all that it found cleared: in
\* whatever order pause, resume, stop and the voice gateway's ready come, a paused player sends
\* one packet at most.
THEOREM PlayerPauses == Spec => []PauseHolds
<1>1. Init => PauseInv
  BY DEF Init, Pb!Init, PauseInv
<1>2. PauseInv /\ [Next]_vars => PauseInv'
  <2> SUFFICES ASSUME PauseInv, [Pb!Next]_pbVars
               PROVE  PauseInv'
    BY PlaybackStep
  <2> USE DEF PauseInv, Pb!source, Pb!ahead, Pb!control, Pb!thread
  <2>1. CASE Pb!Loop
    BY <2>1 DEF Pb!Loop
  <2>2. CASE Pb!Waits
    BY <2>2 DEF Pb!Waits, Pb!IsSet
  <2>3. CASE Pb!StartsFfmpeg \/ Pb!Reads \/ Pb!Ends
    BY <2>3 DEF Pb!StartsFfmpeg, Pb!Reads, Pb!Ends
  <2>4. CASE Pb!Decides
    BY <2>4 DEF Pb!Decides, Pb!Sent
  <2>5. CASE Pb!Writes \/ Pb!Exits \/ Pb!Reader
    BY <2>5 DEF Pb!Writes, Pb!Exits, Pb!Reader, Pb!ReaderChecks, Pb!ReaderReads, Pb!extend
  <2>6. CASE Pb!Notified \/ Pb!play \/ Pb!pause \/ Pb!resume
    BY <2>6 DEF Pb!Notified, Pb!Woken, Pb!play, Pb!pause, Pb!resume
  <2>7. CASE Pb!stop \/ Pb!ReadyCleared \/ Pb!ReadySet
    BY <2>7 DEF Pb!stop, Pb!ReadyCleared, Pb!ReadySet
  <2>8. CASE UNCHANGED pbVars
    BY <2>8 DEF pbVars
  <2> QED
    BY <2>1, <2>2, <2>3, <2>4, <2>5, <2>6, <2>7, <2>8 DEF Pb!Next, Pb!Player
<1>3. PauseInv => PauseHolds
  BY DEF PauseInv, PauseHolds, Pb!PauseHolds
<1> QED
  BY <1>1, <1>2, <1>3, PTL DEF Spec

-----------------------------------------------------------------------------
(* Recording *)

RecPlaces == {"top", "select", "check", "open", "start", "store", "cleanup", "wait", "seek", "over"}
StopPlaces == {"off", "cleanup", "wait", "seek", "encode", "encodes", "read", "over", "failed"}

\* What is in the file of a user, and in the buffer.
Filed(u) == Rc!Of(files, u)
Buffered(u) == Rc!Of(buffers, u)

ThreadTypes ==
    /\ rcPc \in [{"rec", "stop"} -> RecPlaces \cup StopPlaces]
    /\ rcPc["rec"] \in RecPlaces /\ rcPc["stop"] \in StopPlaces
    /\ rcPc["rec"] \in {"check", "open", "start", "store"} => who \in Users
    /\ received \in Nat /\ writer \in {"new", "top", "turn", "flush", "over", "dead"}
    /\ rcLeft \subseteq DOMAIN buffers
    /\ rcPc["rec"] \in {"start", "store"} /\ dir => who \in DOMAIN files

StoredTypes ==
    /\ rcWritten \in [Users -> Seq(Nat)] /\ pos \in [Users -> Nat]
    /\ DOMAIN files \subseteq Users /\ DOMAIN buffers \subseteq DOMAIN files
    /\ \A u \in Users : Filed(u) \in Seq(Nat) /\ Buffered(u) \in Seq(Nat) /\ pos[u] <= Len(Filed(u))
    /\ IsFiniteSet(Rc!Speakers)

RecordingTypes == ThreadTypes /\ StoredTypes

-----------------------------------------------------------------------------
\* A step of the parts is one of the recording, or leaves it alone.
LEMMA RecordingStep == [Next]_vars => [Rc!Next]_rcVars
BY DEF Next, vars, rcVars

\* An entry is put into a dictionary.
LEMMA PutIn ==
    ASSUME NEW f, NEW u, NEW x
    PROVE  /\ DOMAIN Rc!Put(f, u, x) = DOMAIN f \cup {u}
           /\ Rc!Of(Rc!Put(f, u, x), u) = x
           /\ \A v : v # u => Rc!Of(Rc!Put(f, u, x), v) = Rc!Of(f, v)
BY DEF Rc!Put, Rc!Of

\* A packet is written into a file.
LEMMA FileWritten ==
    ASSUME RecordingTypes, NEW u \in Users, NEW p \in Nat, Rc!WriteAt(u, p)
    PROVE  /\ DOMAIN files' = DOMAIN files \cup {u}
           /\ \A v : v # u => Filed(v)' = Filed(v)
           /\ pos' \in [Users -> Nat] /\ pos'[u] = pos[u] + 1 /\ \A v \in Users : v # u => pos'[v] = pos[v]
           /\ Filed(u)' \in Seq(Nat) /\ pos'[u] <= Len(Filed(u)')
           /\ pos[u] = Len(Filed(u)) => Filed(u)' = Append(Filed(u), p)
<1>1. /\ pos \in [Users -> Nat] /\ Filed(u) \in Seq(Nat) /\ pos[u] <= Len(Filed(u)) /\ pos[u] \in Nat
      /\ Len(Filed(u)) \in Nat
  BY DEF RecordingTypes, StoredTypes
<1>2. pos' = [pos EXCEPT ![u] = @ + 1]
  BY DEF Rc!WriteAt
<1>3. pos' \in [Users -> Nat] /\ pos'[u] = pos[u] + 1 /\ \A v \in Users : v # u => pos'[v] = pos[v]
  BY <1>1, <1>2
<1>4. PICK x : /\ files' = Rc!Put(files, u, x)
               /\ x = IF pos[u] = Len(Filed(u)) THEN Append(Filed(u), p) ELSE [files[u] EXCEPT ![pos[u] + 1] = p]
  BY DEF Rc!WriteAt, Filed
<1>5. /\ DOMAIN files' = DOMAIN files \cup {u} /\ Filed(u)' = x /\ \A v : v # u => Filed(v)' = Filed(v)
  <2>1. /\ DOMAIN Rc!Put(files, u, x) = DOMAIN files \cup {u} /\ Rc!Of(Rc!Put(files, u, x), u) = x
        /\ \A v : v # u => Rc!Of(Rc!Put(files, u, x), v) = Rc!Of(files, v)
    BY DEF Rc!Put, Rc!Of
  <2>2. files' = Rc!Put(files, u, x)
    BY <1>4
  <2>3. Filed(u)' = Rc!Of(files', u) /\ \A v : Filed(v)' = Rc!Of(files', v) /\ Filed(v) = Rc!Of(files, v)
    BY DEF Filed, Rc!Of
  <2> QED
    BY <2>1, <2>2, <2>3
<1>6. x \in Seq(Nat) /\ pos[u] + 1 <= Len(x)
  <2>1. CASE pos[u] = Len(Filed(u))
    BY <1>1, <1>4, <2>1
  <2>2. CASE pos[u] # Len(Filed(u))
    <3>1. Filed(u) = files[u] /\ pos[u] + 1 \in 1 .. Len(Filed(u))
      <4>1. Len(Filed(u)) # 0
        BY <1>1, <2>2
      <4>2. u \in DOMAIN files
        BY <4>1 DEF Filed, Rc!Of
      <4> QED
        BY <1>1, <2>2, <4>2 DEF Filed, Rc!Of
    <3>2. x = [Filed(u) EXCEPT ![pos[u] + 1] = p]
      BY <1>4, <2>2, <3>1
    <3> QED
      BY <1>1, <3>1, <3>2
  <2> QED
    BY <2>1, <2>2
<1> QED
  BY <1>3, <1>4, <1>5, <1>6

\* All files are rewound.
LEMMA FilesRewound ==
    ASSUME Rc!Rewound
    PROVE  pos' \in [Users -> Nat] /\ \A u \in Users : pos'[u] = 0
BY DEF Rc!Rewound

\* A thread goes on.
LEMMA ThreadGoes ==
    ASSUME RecordingTypes, NEW t \in {"rec", "stop"}, NEW p, Rc!Goes(t, p)
    PROVE  /\ rcPc'[t] = p /\ \A o \in {"rec", "stop"} : o # t => rcPc'[o] = rcPc[o]
           /\ p \in RecPlaces \cup StopPlaces => rcPc' \in [{"rec", "stop"} -> RecPlaces \cup StopPlaces]
BY DEF RecordingTypes, ThreadTypes, Rc!Goes

\* The steps of the three threads.
LEMMA RecordingSteps ==
    ASSUME [Rc!Next]_rcVars
    PROVE  \/ Rc!Looks \/ Rc!Receives \/ Rc!Checks \/ Rc!Opens \/ Rc!Starts \/ Rc!Stores
           \/ Rc!Turn \/ Rc!Moves \/ Rc!Flushes \/ Rc!stop_recording \/ Rc!encode_audio \/ Rc!Encodes
           \/ \E t \in {"rec", "stop"} : Rc!Cleans(t) \/ Rc!Waits(t) \/ Rc!Seeks(t)
           \/ UNCHANGED rcVars
BY DEF Rc!Next, Rc!Rec, Rc!_buffer_writer, Rc!Stop, Rc!cleanup

\* What is stored has its types still when a step leaves it alone.
LEMMA NothingStored ==
    ASSUME RecordingTypes, UNCHANGED <<rcWritten, files, buffers, pos>>
    PROVE  StoredTypes' /\ Rc!Speakers' = Rc!Speakers
           /\ \A u : Buffered(u)' = Buffered(u) /\ Filed(u)' = Filed(u)
<1>1. Rc!Speakers' = Rc!Speakers
  BY DEF Rc!Speakers
<1>2. \A u : Buffered(u)' = Buffered(u) /\ Filed(u)' = Filed(u)
  BY DEF Buffered, Filed, Rc!Of
<1> QED
  BY <1>1, <1>2 DEF RecordingTypes, StoredTypes

\* So it has when files are only rewound.
LEMMA RewoundTypes ==
    ASSUME RecordingTypes, UNCHANGED <<rcWritten, files, buffers>>, Rc!Rewound
    PROVE  StoredTypes' /\ Rc!Speakers' = Rc!Speakers
           /\ \A u : Buffered(u)' = Buffered(u) /\ Filed(u)' = Filed(u)
<1>1. Rc!Speakers' = Rc!Speakers
  BY DEF Rc!Speakers
<1>2. \A u : Buffered(u)' = Buffered(u) /\ Filed(u)' = Filed(u)
  BY DEF Buffered, Filed, Rc!Of
<1>3. pos' \in [Users -> Nat] /\ \A u \in Users : pos'[u] = 0
  BY FilesRewound
<1>4. \A u \in Users : Len(Filed(u)) \in Nat
  BY DEF RecordingTypes, StoredTypes
<1> QED
  BY <1>1, <1>2, <1>3, <1>4 DEF RecordingTypes, StoredTypes

\* A packet that is stored makes its user one of those who spoke.
LEMMA StoredWritten ==
    ASSUME RecordingTypes, NEW u \in Users, NEW p \in Nat, rcWritten' = [rcWritten EXCEPT ![u] = Append(@, p)]
    PROVE  /\ rcWritten' \in [Users -> Seq(Nat)] /\ rcWritten'[u] = Append(rcWritten[u], p) /\ rcWritten'[u] # << >>
           /\ \A v \in Users : v # u => rcWritten'[v] = rcWritten[v]
           /\ Rc!Speakers' = Rc!Speakers \cup {u} /\ IsFiniteSet(Rc!Speakers')
<1>1. rcWritten \in [Users -> Seq(Nat)] /\ IsFiniteSet(Rc!Speakers)
  BY DEF RecordingTypes, StoredTypes
<1>2. PICK q : q = Append(rcWritten[u], p) /\ q \in Seq(Nat) /\ q # << >>
  <2>1. rcWritten[u] \in Seq(Nat)
    BY <1>1
  <2>2. Append(rcWritten[u], p) \in Seq(Nat) /\ Len(Append(rcWritten[u], p)) = Len(rcWritten[u]) + 1
    BY <2>1, AppendProperties
  <2>3. Append(rcWritten[u], p) # << >>
    BY <2>1, <2>2
  <2> QED
    BY <2>2, <2>3
<1>3. /\ rcWritten' \in [Users -> Seq(Nat)] /\ rcWritten'[u] = q
      /\ \A v \in Users : v # u => rcWritten'[v] = rcWritten[v]
  BY <1>1, <1>2
<1>4. Rc!Speakers' = Rc!Speakers \cup {u}
  BY <1>2, <1>3 DEF Rc!Speakers
<1>5. IsFiniteSet(Rc!Speakers \cup {u})
  BY <1>1, FS_AddElement
<1> QED
  BY <1>2, <1>3, <1>4, <1>5

\* A packet is put into a buffer.
LEMMA Buffering ==
    ASSUME RecordingTypes, NEW u \in Users, NEW p \in Nat,
           buffers' = Rc!Put(buffers, u, Append(Rc!Of(buffers, u), p))
    PROVE  /\ DOMAIN buffers' = DOMAIN buffers \cup {u}
           /\ Buffered(u)' = Append(Buffered(u), p) /\ Buffered(u)' \in Seq(Nat)
           /\ \A v : v # u => Buffered(v)' = Buffered(v)
<1>1. PICK q : q = Append(Buffered(u), p) /\ q \in Seq(Nat)
  BY AppendProperties DEF RecordingTypes, StoredTypes
<1>2. buffers' = Rc!Put(buffers, u, q)
  BY <1>1 DEF Buffered
<1>3. /\ DOMAIN Rc!Put(buffers, u, q) = DOMAIN buffers \cup {u} /\ Rc!Of(Rc!Put(buffers, u, q), u) = q
      /\ \A v : v # u => Rc!Of(Rc!Put(buffers, u, q), v) = Rc!Of(buffers, v)
  BY DEF Rc!Put, Rc!Of
<1>4. Buffered(u)' = Rc!Of(buffers', u) /\ \A v : Buffered(v)' = Rc!Of(buffers', v) /\ Buffered(v) = Rc!Of(buffers, v)
  BY DEF Buffered, Rc!Of
<1> QED
  BY <1>1, <1>2, <1>3, <1>4

\* What one turn of the buffer's writer takes, if anything.
LEMMA Moving ==
    ASSUME RecordingTypes, Rc!Moves
    PROVE  \/ /\ UNCHANGED <<buffers, files, pos>> /\ writer' \in {"turn", "dead", "top"}
           \/ \E u \in Users :
                /\ u \in rcLeft /\ u \in DOMAIN buffers /\ Buffered(u) # << >> /\ writer' = "turn"
                /\ Rc!WriteAt(u, Head(Buffered(u))) /\ Head(Buffered(u)) \in Nat
                /\ DOMAIN buffers' = DOMAIN buffers /\ Buffered(u)' = Tail(Buffered(u))
                /\ Buffered(u)' \in Seq(Nat) /\ \A v : v # u => Buffered(v)' = Buffered(v)
<1>1. CASE UNCHANGED <<buffers, files, pos>>
  BY <1>1 DEF Rc!Moves
<1>2. CASE ~UNCHANGED <<buffers, files, pos>>
  <2>1. PICK u \in rcLeft : /\ writer' = writer /\ writer = "turn" /\ Rc!WriteAt(u, Head(buffers[u]))
                            /\ buffers[u] # << >> /\ buffers' = [buffers EXCEPT ![u] = Tail(@)]
    BY <1>2 DEF Rc!Moves, Rc!data
  <2>2. u \in Users /\ u \in DOMAIN buffers /\ Buffered(u) = buffers[u] /\ Buffered(u) \in Seq(Nat)
    <3>1. u \in DOMAIN buffers /\ u \in Users
      BY DEF RecordingTypes, ThreadTypes, StoredTypes
    <3> QED
      BY <3>1 DEF RecordingTypes, StoredTypes, Buffered, Rc!Of
  <2>3. Head(Buffered(u)) \in Nat /\ Tail(Buffered(u)) \in Seq(Nat)
    BY <2>1, <2>2, HeadTailProperties
  <2>4. /\ DOMAIN buffers' = DOMAIN buffers /\ buffers'[u] = Tail(buffers[u])
        /\ \A v \in DOMAIN buffers : v # u => buffers'[v] = buffers[v]
    BY <2>1, <2>2
  <2>5. Buffered(u)' = Tail(Buffered(u)) /\ \A v : v # u => Buffered(v)' = Buffered(v)
    BY <2>2, <2>4 DEF Buffered, Rc!Of
  <2> QED
    BY <2>1, <2>2, <2>3, <2>4, <2>5
<1> QED
  BY <1>1, <1>2

-----------------------------------------------------------------------------
(* Beginnings of sequences *)

\* One sequence is the beginning of another.
LEMMA PrefixMeans ==
    ASSUME NEW s \in Seq(Nat), NEW t \in Seq(Nat)
    PROVE  Rc!IsPrefix(s, t) <=> Len(s) <= Len(t) /\ \A i \in 1 .. Len(s) : s[i] = t[i]
<1>1. Len(s) \in Nat /\ Len(t) \in Nat
  OBVIOUS
<1>2. SUFFICES ASSUME Len(s) <= Len(t)
               PROVE  SubSeq(s, 1, Len(s)) = SubSeq(t, 1, Len(s)) <=> \A i \in 1 .. Len(s) : s[i] = t[i]
  BY DEF Rc!IsPrefix
<1>3. SubSeq(s, 1, Len(s)) = s
  BY SubSeqFull
<1>4. /\ SubSeq(t, 1, Len(s)) \in Seq(Nat) /\ Len(SubSeq(t, 1, Len(s))) = Len(s)
      /\ \A i \in 1 .. Len(s) : SubSeq(t, 1, Len(s))[i] = t[i]
  <2>1. \A i \in 1 .. Len(s) : t[i] \in Nat
    BY <1>1, <1>2, ElementOfSeq
  <2>2. /\ SubSeq(t, 1, Len(s)) \in Seq(Nat)
        /\ Len(SubSeq(t, 1, Len(s))) = IF 1 <= Len(s) THEN Len(s) - 1 + 1 ELSE 0
        /\ \A i \in 1 .. Len(s) - 1 + 1 : SubSeq(t, 1, Len(s))[i] = t[1 + i - 1]
    <3>1. 1 \in Int /\ Len(s) \in Int
      BY <1>1
    <3> QED
      BY <2>1, <3>1, SubSeqProperties
  <2> QED
    BY <1>1, <2>2
<1>5. SubSeq(t, 1, Len(s)) = s <=> \A i \in 1 .. Len(s) : s[i] = t[i]
  <2>1. ASSUME \A i \in 1 .. Len(s) : s[i] = t[i]
        PROVE  SubSeq(t, 1, Len(s)) = s
    BY <1>4, <2>1, SeqEqual
  <2>2. ASSUME SubSeq(t, 1, Len(s)) = s
        PROVE  \A i \in 1 .. Len(s) : s[i] = t[i]
    BY <1>4, <2>2
  <2> QED
    BY <2>1, <2>2
<1> QED
  BY <1>3, <1>5

\* A sequence that is put after another, or grows, begins as it did.
LEMMA PrefixGrows ==
    ASSUME NEW s \in Seq(Nat), NEW t \in Seq(Nat), NEW x \in Nat
    PROVE  /\ Rc!IsPrefix(s, s) /\ Rc!IsPrefix(<< >>, t) /\ Rc!IsPrefix(s, s \o t)
           /\ Rc!IsPrefix(s, t) => Rc!IsPrefix(s, Append(t, x))
<1>1. Len(s) \in Nat /\ Len(t) \in Nat /\ << >> \in Seq(Nat) /\ Len(<< >>) = 0
  OBVIOUS
<1>2. Rc!IsPrefix(s, s)
  BY <1>1, PrefixMeans
<1>3. Rc!IsPrefix(<< >>, t)
  <2>1. SubSeq(<< >>, 1, 0) = << >> /\ SubSeq(t, 1, 0) = << >>
    BY SubSeqEmpty
  <2> QED
    BY <1>1, <2>1 DEF Rc!IsPrefix
<1>4. Rc!IsPrefix(s, s \o t)
  <2>1. s \o t \in Seq(Nat) /\ Len(s \o t) = Len(s) + Len(t) /\ \A i \in 1 .. Len(s) : (s \o t)[i] = s[i]
    BY <1>1, ConcatProperties
  <2>2. PICK c \in Seq(Nat) : c = s \o t
    BY <2>1
  <2>3. Len(s) <= Len(c) /\ \A i \in 1 .. Len(s) : s[i] = c[i]
    BY <1>1, <2>1, <2>2
  <2> QED
    BY <2>2, <2>3, PrefixMeans
<1>5. ASSUME Rc!IsPrefix(s, t)
      PROVE  Rc!IsPrefix(s, Append(t, x))
  <2>1. /\ Append(t, x) \in Seq(Nat) /\ Len(Append(t, x)) = Len(t) + 1
        /\ \A i \in 1 .. Len(t) : Append(t, x)[i] = t[i]
    BY AppendProperties
  <2>2. Len(s) <= Len(t) /\ \A i \in 1 .. Len(s) : s[i] = t[i]
    BY <1>5, PrefixMeans
  <2>3. Len(s) <= Len(Append(t, x)) /\ \A i \in 1 .. Len(s) : s[i] = Append(t, x)[i]
    BY <1>1, <2>1, <2>2
  <2> QED
    BY <2>1, <2>3, PrefixMeans
<1> QED
  BY <1>2, <1>3, <1>4, <1>5

\* The first packet of the buffer goes to the end of the file.
LEMMA MovesOver ==
    ASSUME NEW s \in Seq(Nat), NEW t \in Seq(Nat), t # << >>
    PROVE  Append(s, Head(t)) \o Tail(t) = s \o t
<1>1. Head(t) \in Nat /\ Tail(t) \in Seq(Nat) /\ Len(Tail(t)) = Len(t) - 1 /\ Len(t) \in Nat
  BY HeadTailProperties
<1>2. PICK h \in Seq(Nat) : h = << Head(t) >> /\ Len(h) = 1 /\ h[1] = Head(t)
  <2>1. << Head(t) >> \in Seq(Nat) /\ Len(<< Head(t) >>) = 1 /\ << Head(t) >>[1] = Head(t)
    BY <1>1
  <2> QED
    BY <2>1
<1>3. h \o Tail(t) = t
  <2>1. PICK c : c = h \o Tail(t)
    OBVIOUS
  <2>2. /\ c \in Seq(Nat) /\ Len(c) = Len(t)
        /\ \A i \in 1 .. Len(c) : c[i] = IF i <= 1 THEN h[i] ELSE Tail(t)[i - 1]
    BY <1>1, <1>2, <2>1, ConcatProperties
  <2>3. ASSUME NEW i \in 1 .. Len(t)
        PROVE  c[i] = t[i]
    <3>1. CASE i = 1
      BY <1>2, <2>2, <3>1
    <3>2. CASE i # 1
      <4>1. i - 1 \in 1 .. Len(Tail(t)) /\ i - 1 + 1 = i
        BY <1>1, <3>2
      <4>2. Tail(t)[i - 1] = t[i - 1 + 1]
        BY <4>1, HeadTailProperties
      <4> QED
        BY <1>1, <2>2, <3>2, <4>1, <4>2
    <3> QED
      BY <3>1, <3>2
  <2> QED
    BY <2>1, <2>2, <2>3, SeqEqual
<1>4. Append(s, Head(t)) = s \o h
  BY <1>1, <1>2, AppendIsConcat
<1>5. (s \o h) \o Tail(t) = s \o (h \o Tail(t))
  <2>1. PICK r \in Seq(Nat) : r = Tail(t)
    BY <1>1
  <2>2. (s \o h) \o r = s \o (h \o r)
    BY ConcatAssociative
  <2> QED
    BY <2>1, <2>2
<1> QED
  BY <1>3, <1>4, <1>5

\* A packet is put at the end of the buffer.
LEMMA StoredBehind ==
    ASSUME NEW s \in Seq(Nat), NEW t \in Seq(Nat), NEW x \in Nat
    PROVE  s \o Append(t, x) = Append(s \o t, x)
<1>1. << x >> \in Seq(Nat) /\ s \o t \in Seq(Nat)
  BY ConcatProperties
<1>2. Append(t, x) = t \o << x >> /\ Append(s \o t, x) = (s \o t) \o << x >>
  BY <1>1, AppendIsConcat
<1> QED
  BY <1>1, <1>2, ConcatAssociative

-----------------------------------------------------------------------------
\* The dictionaries are empty at first.
LEMMA RecordingTypedAtFirst == Rc!Init => RecordingTypes
<1> SUFFICES ASSUME Rc!Init
             PROVE  RecordingTypes
  OBVIOUS
<1>1. ThreadTypes
  BY DEF Rc!Init, ThreadTypes, RecPlaces, StopPlaces
<1>2. Rc!Speakers = {} /\ IsFiniteSet(Rc!Speakers)
  <2>1. Rc!Speakers = {}
    BY DEF Rc!Init, Rc!Speakers
  <2> QED
    BY <2>1, FS_EmptySet
<1>3. \A u \in Users : Filed(u) = << >> /\ Buffered(u) = << >>
  BY DEF Rc!Init, Filed, Buffered, Rc!Of
<1>4. << >> \in Seq(Nat) /\ Len(<< >>) = 0
  OBVIOUS
<1>5. /\ rcWritten \in [Users -> Seq(Nat)] /\ pos \in [Users -> Nat] /\ \A u \in Users : pos[u] = 0
      /\ DOMAIN files = {} /\ DOMAIN buffers = {}
  BY <1>4 DEF Rc!Init
<1>6. StoredTypes
  <2>1. \A u \in Users : Filed(u) \in Seq(Nat) /\ Buffered(u) \in Seq(Nat) /\ pos[u] <= Len(Filed(u))
    <3>1. PICK e \in Seq(Nat) : e = << >> /\ Len(e) = 0
      BY <1>4
    <3>2. \A u \in Users : Filed(u) = e /\ Buffered(u) = e
      BY <1>3, <3>1
    <3>3. \A u \in Users : pos[u] = 0
      BY <1>5
    <3>4. ASSUME NEW u \in Users
          PROVE  Filed(u) \in Seq(Nat) /\ Buffered(u) \in Seq(Nat) /\ pos[u] <= Len(Filed(u))
      <4>1. Filed(u) = e /\ Buffered(u) = e /\ pos[u] = 0
        BY <3>2, <3>3
      <4>2. Len(Filed(u)) = 0
        BY <3>1, <4>1
      <4> QED
        BY <3>1, <4>1, <4>2
    <3> QED
      BY <3>4
  <2> QED
    BY <1>2, <1>5, <2>1 DEF StoredTypes
<1> QED
  BY <1>1, <1>6 DEF RecordingTypes

\* Every step keeps the types of what is stored.
LEMMA StoredTypesKept == RecordingTypes /\ [Rc!Next]_rcVars => StoredTypes'
<1> SUFFICES ASSUME RecordingTypes, [Rc!Next]_rcVars
             PROVE  StoredTypes'
  OBVIOUS
<1>1. CASE UNCHANGED <<rcWritten, files, buffers, pos>>
  BY <1>1, NothingStored
<1>2. CASE Rc!Opens
  <2>1. who \in Users
    BY <1>2 DEF RecordingTypes, ThreadTypes, Rc!Opens, Rc!At
  <2>2. /\ DOMAIN files' = DOMAIN files \cup {who}
        /\ \A v : Filed(v)' = Filed(v)
    BY <1>2 DEF Rc!Opens, Filed, Rc!Put, Rc!Of
  <2>3. UNCHANGED <<rcWritten, buffers, pos>>
    BY <1>2 DEF Rc!Opens, Rc!packet
  <2>4. Rc!Speakers' = Rc!Speakers /\ \A v : Buffered(v)' = Buffered(v)
    BY <2>3 DEF Rc!Speakers, Buffered, Rc!Of
  <2> QED
    BY <2>1, <2>2, <2>3, <2>4 DEF RecordingTypes, StoredTypes
<1>3. CASE Rc!Stores
  <2>1. PICK u \in Users : u = who /\ (dir => u \in DOMAIN files)
    BY <1>3 DEF RecordingTypes, ThreadTypes, Rc!Stores, Rc!At
  <2>2. PICK p \in Nat : p = received
    BY DEF RecordingTypes, ThreadTypes
  <2>3. rcWritten' \in [Users -> Seq(Nat)] /\ IsFiniteSet(Rc!Speakers')
    <3>1. rcWritten' = [rcWritten EXCEPT ![u] = Append(@, p)]
      BY <1>3, <2>1, <2>2 DEF Rc!Stores
    <3> QED
      BY <3>1, StoredWritten
  <2>4. CASE dir
    <3>1. buffers' = Rc!Put(buffers, u, Append(Rc!Of(buffers, u), p)) /\ UNCHANGED <<files, pos>>
      BY <1>3, <2>1, <2>2, <2>4 DEF Rc!Stores
    <3>2. /\ DOMAIN buffers' = DOMAIN buffers \cup {u}
          /\ Buffered(u)' \in Seq(Nat) /\ \A v : v # u => Buffered(v)' = Buffered(v)
      BY <3>1, Buffering
    <3>3. \A v : Filed(v)' = Filed(v)
      BY <3>1 DEF Filed, Rc!Of
    <3> QED
      BY <2>1, <2>3, <2>4, <3>1, <3>2, <3>3 DEF RecordingTypes, StoredTypes
  <2>5. CASE ~dir
    <3>1. Rc!WriteAt(u, p) /\ UNCHANGED buffers
      BY <1>3, <2>1, <2>2, <2>5 DEF Rc!Stores
    <3>2. /\ DOMAIN files' = DOMAIN files \cup {u}
          /\ \A v : v # u => Filed(v)' = Filed(v)
          /\ pos' \in [Users -> Nat] /\ \A v \in Users : v # u => pos'[v] = pos[v]
          /\ Filed(u)' \in Seq(Nat) /\ pos'[u] <= Len(Filed(u)')
      BY <3>1, FileWritten
    <3>3. \A v : Buffered(v)' = Buffered(v)
      BY <3>1 DEF Buffered, Rc!Of
    <3> QED
      BY <2>3, <3>1, <3>2, <3>3 DEF RecordingTypes, StoredTypes
  <2> QED
    BY <2>4, <2>5
<1>4. CASE Rc!Moves
  <2>1. UNCHANGED rcWritten
    BY <1>4 DEF Rc!Moves, Rc!packet
  <2>2. Rc!Speakers' = Rc!Speakers
    BY <2>1 DEF Rc!Speakers
  <2>3. CASE UNCHANGED <<buffers, files, pos>>
    BY <2>1, <2>3, NothingStored
  <2>4. ASSUME NEW u \in Users, u \in DOMAIN buffers, Rc!WriteAt(u, Head(Buffered(u))), Head(Buffered(u)) \in Nat,
               DOMAIN buffers' = DOMAIN buffers,
               Buffered(u)' \in Seq(Nat), \A v : v # u => Buffered(v)' = Buffered(v)
        PROVE  StoredTypes'
    <3>1. /\ DOMAIN files' = DOMAIN files \cup {u}
          /\ \A v : v # u => Filed(v)' = Filed(v)
          /\ pos' \in [Users -> Nat] /\ \A v \in Users : v # u => pos'[v] = pos[v]
          /\ Filed(u)' \in Seq(Nat) /\ pos'[u] <= Len(Filed(u)')
      BY <2>4, FileWritten
    <3> QED
      BY <2>1, <2>2, <2>4, <3>1 DEF RecordingTypes, StoredTypes
  <2> QED
    BY <1>4, <2>3, <2>4, Moving
<1>5. CASE Rc!Rewound /\ UNCHANGED <<rcWritten, files, buffers>>
  BY <1>5, RewoundTypes
<1>6. Rc!Flushes => UNCHANGED <<rcWritten, files, buffers>> /\ (Rc!Rewound \/ UNCHANGED pos)
  BY DEF Rc!Flushes, Rc!packet
<1>7. \A t \in {"rec", "stop"} : Rc!Seeks(t) => UNCHANGED <<rcWritten, files, buffers>> /\ (Rc!Rewound \/ UNCHANGED pos)
  BY DEF Rc!Seeks, Rc!packet
<1>8. \A t \in {"rec", "stop"} : Rc!Cleans(t) \/ Rc!Waits(t) => UNCHANGED <<rcWritten, files, buffers, pos>>
  BY DEF Rc!Cleans, Rc!Waits, Rc!packet, Rc!data
<1>9. Rc!Looks \/ Rc!Receives \/ Rc!Checks \/ Rc!Starts => UNCHANGED <<rcWritten, files, buffers, pos>>
  BY DEF Rc!Looks, Rc!Receives, Rc!Checks, Rc!Starts, Rc!packet, Rc!data
<1>10. Rc!Turn \/ Rc!stop_recording \/ Rc!encode_audio \/ Rc!Encodes \/ UNCHANGED rcVars =>
           UNCHANGED <<rcWritten, files, buffers, pos>>
  BY DEF Rc!Turn, Rc!stop_recording, Rc!encode_audio, Rc!Encodes, Rc!packet, Rc!data, rcVars
<1> QED
  BY <1>1, <1>2, <1>3, <1>4, <1>5, <1>6, <1>7, <1>8, <1>9, <1>10, RecordingSteps

\* Every step keeps the types of the threads.
LEMMA ThreadTypesKept == RecordingTypes /\ [Rc!Next]_rcVars => ThreadTypes'
<1> SUFFICES ASSUME RecordingTypes, [Rc!Next]_rcVars
             PROVE  ThreadTypes'
  OBVIOUS
<1> USE DEF ThreadTypes, RecPlaces, StopPlaces, Rc!Goes, Rc!At
<1>1. ThreadTypes
  BY DEF RecordingTypes
<1>2. CASE Rc!Looks
  BY <1>1, <1>2 DEF Rc!Looks, Rc!packet, Rc!loop, Rc!data
<1>3. CASE Rc!Receives
  BY <1>1, <1>3 DEF Rc!Receives, Rc!loop, Rc!data
<1>4. CASE Rc!Checks
  BY <1>1, <1>4 DEF Rc!Checks, Rc!packet, Rc!loop, Rc!data
<1>5. CASE Rc!Opens
  <2>1. DOMAIN files' = DOMAIN files \cup {who}
    BY <1>5 DEF Rc!Opens, Rc!Put
  <2> QED
    BY <1>1, <1>5, <2>1 DEF Rc!Opens, Rc!packet, Rc!loop
<1>6. CASE Rc!Starts
  BY <1>1, <1>6 DEF Rc!Starts, Rc!packet, Rc!data
<1>7. CASE Rc!Stores
  <2>1. DOMAIN buffers \subseteq DOMAIN buffers'
    BY <1>7 DEF Rc!Stores, Rc!Put
  <2> QED
    BY <1>1, <1>7, <2>1 DEF Rc!Stores, Rc!loop
<1>8. CASE Rc!Turn
  BY <1>1, <1>8 DEF Rc!Turn, Rc!packet, Rc!data
<1>9. CASE Rc!Moves
  <2>1. /\ UNCHANGED <<dir, rcPc, who, received>> /\ rcLeft' \subseteq rcLeft /\ writer' \in {"turn", "dead", "top"}
    BY <1>9 DEF Rc!Moves, Rc!packet
  <2>2. DOMAIN buffers' = DOMAIN buffers /\ DOMAIN files \subseteq DOMAIN files'
    <3>1. CASE UNCHANGED <<buffers, files, pos>>
      BY <3>1
    <3>2. ASSUME NEW u \in Users, Rc!WriteAt(u, Head(Buffered(u))), Head(Buffered(u)) \in Nat,
                 DOMAIN buffers' = DOMAIN buffers
          PROVE  DOMAIN buffers' = DOMAIN buffers /\ DOMAIN files \subseteq DOMAIN files'
      <4>1. DOMAIN files' = DOMAIN files \cup {u}
        BY <3>2, FileWritten
      <4> QED
        BY <3>2, <4>1
    <3> QED
      BY <1>9, <3>1, <3>2, Moving
  <2> QED
    BY <1>1, <2>1, <2>2
<1>10. CASE Rc!Flushes
  BY <1>1, <1>10 DEF Rc!Flushes, Rc!packet
<1>11. CASE Rc!stop_recording
  BY <1>1, <1>11 DEF Rc!stop_recording, Rc!packet, Rc!loop, Rc!data
<1>12. CASE Rc!encode_audio
  BY <1>1, <1>12 DEF Rc!encode_audio, Rc!packet, Rc!loop, Rc!data
<1>13. CASE Rc!Encodes
  BY <1>1, <1>13 DEF Rc!Encodes, Rc!packet, Rc!loop, Rc!data
<1>14. ASSUME NEW t \in {"rec", "stop"}, Rc!Cleans(t) \/ Rc!Waits(t) \/ Rc!Seeks(t)
       PROVE  ThreadTypes'
  <2>1. /\ UNCHANGED <<dir, who, received, writer, rcLeft, buffers, files>>
        /\ t = "stop" => UNCHANGED rcPc \/ \E p \in StopPlaces : Rc!Goes(t, p)
        /\ t = "rec" => UNCHANGED rcPc \/ \E p \in {"wait", "seek", "over"} : Rc!Goes(t, p)
    <3>1. CASE Rc!Cleans(t)
      BY <3>1 DEF Rc!Cleans, Rc!After, Rc!packet, Rc!loop, Rc!data
    <3>2. CASE Rc!Waits(t)
      BY <1>1, <3>2 DEF Rc!Waits, Rc!packet, Rc!loop, Rc!data
    <3>3. CASE Rc!Seeks(t)
      BY <3>3 DEF Rc!Seeks, Rc!After, Rc!packet, Rc!loop
    <3> QED
      BY <1>14, <3>1, <3>2, <3>3
  <2>2. CASE t = "stop"
    BY <1>1, <2>1, <2>2
  <2>3. CASE t = "rec"
    BY <1>1, <2>1, <2>3
  <2> QED
    BY <2>2, <2>3
<1>15. CASE UNCHANGED rcVars
  BY <1>1, <1>15 DEF rcVars
<1> QED
  BY <1>2, <1>3, <1>4, <1>5, <1>6, <1>7, <1>8, <1>9, <1>10, <1>11, <1>12, <1>13, <1>14, <1>15, RecordingSteps

-----------------------------------------------------------------------------
(* Who cleans up, and when the recording is done *)

\* The stopping thread has cleaned up and goes on; or it has yet to, and the recorder has.
Finished ==
    \/ rcPc["stop"] \in {"seek", "encode", "encodes", "read", "over"}
    \/ rcPc["rec"] = "seek"
    \/ rcPc["rec"] = "over" /\ complete /\ rcPc["stop"] \in {"off", "cleanup"}

Threads ==
    /\ rcPc["stop"] \notin {"off", "cleanup"} \/ rcPc["rec"] \in {"wait", "seek"} => complete
    /\ done \/ writer \in {"flush", "over"} => complete
    /\ rcPc["rec"] = "seek" \/ rcPc["stop"] = "seek" => done
    /\ ~dir => writer = "new" /\ rcPc["rec"] \notin {"open", "start"}

Orderly ==
    ~raced =>
        /\ complete => ~Rc!InWrite
        /\ complete /\ rcPc["stop"] \in {"off", "cleanup"} => rcPc["rec"] \in {"wait", "seek", "over"}
        /\ rcPc["rec"] \in {"wait", "seek"} => rcPc["stop"] \in {"off", "cleanup"}
        /\ Finished => done

\* At first nothing is complete and no thread has gone anywhere.
LEMMA ThreadsAtFirst == Rc!Init => Threads /\ Orderly
BY DEF Rc!Init, Threads, Orderly, Finished, Rc!InWrite

\* Who has cleaned up has set the marks.
LEMMA ThreadsStep == RecordingTypes /\ Threads /\ [Rc!Next]_rcVars => Threads'
<1> SUFFICES ASSUME RecordingTypes, Threads, [Rc!Next]_rcVars
             PROVE  Threads'
  OBVIOUS
<1> USE DEF Threads, Rc!Goes, Rc!At
<1>1. rcPc \in [{"rec", "stop"} -> RecPlaces \cup StopPlaces]
  BY DEF RecordingTypes, ThreadTypes
<1>2. CASE Rc!Looks
  BY <1>1, <1>2 DEF Rc!Looks, Rc!events, Rc!loop
<1>3. CASE Rc!Receives
  BY <1>1, <1>3 DEF Rc!Receives, Rc!events, Rc!loop
<1>4. CASE Rc!Checks
  BY <1>1, <1>4 DEF Rc!Checks, Rc!events, Rc!loop
<1>5. CASE Rc!Opens
  BY <1>1, <1>5 DEF Rc!Opens, Rc!events, Rc!loop
<1>6. CASE Rc!Starts
  BY <1>1, <1>6 DEF Rc!Starts, Rc!events
<1>7. CASE Rc!Stores
  BY <1>1, <1>7 DEF Rc!Stores, Rc!events, Rc!loop
<1>8. CASE Rc!Turn
  BY <1>1, <1>8 DEF Rc!Turn, Rc!GoesOn, Rc!events
<1>9. CASE Rc!Moves
  BY <1>1, <1>9 DEF Rc!Moves, Rc!events
<1>10. CASE Rc!Flushes
  BY <1>1, <1>10 DEF Rc!Flushes
<1>11. CASE Rc!stop_recording
  BY <1>1, <1>11 DEF Rc!stop_recording, Rc!loop
<1>12. CASE Rc!encode_audio
  BY <1>1, <1>12 DEF Rc!encode_audio, Rc!loop
<1>13. CASE Rc!Encodes
  BY <1>1, <1>13 DEF Rc!Encodes, Rc!events, Rc!loop
<1>14. ASSUME NEW t \in {"rec", "stop"}, Rc!Cleans(t) \/ Rc!Waits(t) \/ Rc!Seeks(t)
       PROVE  Threads'
  <2>1. CASE Rc!Cleans(t)
    BY <1>1, <2>1 DEF Rc!Cleans, Rc!After, Rc!loop
  <2>2. CASE Rc!Waits(t)
    BY <1>1, <2>2 DEF Rc!Waits, Rc!events, Rc!loop
  <2>3. CASE Rc!Seeks(t)
    BY <1>1, <2>3 DEF Rc!Seeks, Rc!After, Rc!events, Rc!loop
  <2> QED
    BY <1>14, <2>1, <2>2, <2>3
<1>15. CASE UNCHANGED rcVars
  BY <1>15 DEF rcVars
<1> QED
  BY <1>2, <1>3, <1>4, <1>5, <1>6, <1>7, <1>8, <1>9, <1>10, <1>11, <1>12, <1>13, <1>14, <1>15, RecordingSteps

\* Unless threads came in each other's way, one of them cleans up while the other waits for it or
\* is behind it.
LEMMA OrderlyStep == RecordingTypes /\ Threads /\ Orderly /\ [Rc!Next]_rcVars => Orderly'
<1> SUFFICES ASSUME RecordingTypes, Threads, Orderly, [Rc!Next]_rcVars
             PROVE  Orderly'
  OBVIOUS
<1> USE DEF Threads, Orderly, Finished, Rc!InWrite, Rc!Goes, Rc!At
<1>1. rcPc \in [{"rec", "stop"} -> RecPlaces \cup StopPlaces]
  BY DEF RecordingTypes, ThreadTypes
<1>2. CASE Rc!Looks
  BY <1>1, <1>2 DEF Rc!Looks, Rc!events, Rc!loop
<1>3. CASE Rc!Receives
  BY <1>1, <1>3 DEF Rc!Receives, Rc!events, Rc!loop
<1>4. CASE Rc!Checks
  BY <1>1, <1>4 DEF Rc!Checks, Rc!events, Rc!loop
<1>5. CASE Rc!Opens
  BY <1>1, <1>5 DEF Rc!Opens, Rc!events, Rc!loop
<1>6. CASE Rc!Starts
  BY <1>1, <1>6 DEF Rc!Starts, Rc!events
<1>7. CASE Rc!Stores
  BY <1>1, <1>7 DEF Rc!Stores, Rc!events, Rc!loop
<1>8. CASE Rc!Turn
  BY <1>1, <1>8 DEF Rc!Turn, Rc!GoesOn, Rc!events
<1>9. CASE Rc!Moves
  BY <1>1, <1>9 DEF Rc!Moves, Rc!events
<1>10. CASE Rc!Flushes
  BY <1>1, <1>10 DEF Rc!Flushes
<1>11. CASE Rc!stop_recording
  BY <1>1, <1>11 DEF Rc!stop_recording, Rc!loop
<1>12. CASE Rc!encode_audio
  BY <1>1, <1>12 DEF Rc!encode_audio, Rc!loop
<1>13. CASE Rc!Encodes
  BY <1>1, <1>13 DEF Rc!Encodes, Rc!events, Rc!loop
<1>14. ASSUME NEW t \in {"rec", "stop"}, Rc!Cleans(t) \/ Rc!Waits(t) \/ Rc!Seeks(t)
       PROVE  Orderly'
  <2>1. CASE Rc!Cleans(t)
    BY <1>1, <2>1 DEF Rc!Cleans, Rc!After, Rc!loop
  <2>2. CASE Rc!Waits(t)
    BY <1>1, <2>2 DEF Rc!Waits, Rc!events, Rc!loop
  <2>3. CASE Rc!Seeks(t)
    BY <1>1, <2>3 DEF Rc!Seeks, Rc!After, Rc!events, Rc!loop
  <2> QED
    BY <1>14, <2>1, <2>2, <2>3
<1>15. CASE UNCHANGED rcVars
  BY <1>15 DEF rcVars
<1> QED
  BY <1>2, <1>3, <1>4, <1>5, <1>6, <1>7, <1>8, <1>9, <1>10, <1>11, <1>12, <1>13, <1>14, <1>15, RecordingSteps

-----------------------------------------------------------------------------
(* What is in the files *)

\* Recorders whose cleaning up the writer slept through have stored one packet of a user at most.
Few ==
    /\ complete /\ \A u \in Users : Len(rcWritten[u]) <= 1
    /\ Rc!InWrite => \A u \in Users : rcWritten[u] = << >>

\* The file has what was written but for what is in the buffer, and is written at its end; or it
\* was rewound after the writer had ended; or it has the only packet and there is no other.
Steady(u) == pos[u] = Len(Filed(u)) /\ Filed(u) \o Buffered(u) = rcWritten[u]
Closed(u) == pos[u] = 0 /\ Rc!IsPrefix(Filed(u), rcWritten[u]) /\ writer \in {"over", "dead"}
Alone(u) == pos[u] = 0 /\ Filed(u) = rcWritten[u] /\ Buffered(u) = << >> /\ Few

Started ==
    dir => /\ writer = "new" => \A u \in Users : rcWritten[u] = << >>
           /\ rcPc["rec"] = "store" => writer # "new"
           /\ \A u \in Users : u \in DOMAIN buffers <=> rcWritten[u] # << >>

DoneLate == dir /\ done => writer \in {"over", "dead"} \/ Few

Filing == dir => \A u \in Users : Steady(u) \/ Closed(u) \/ Alone(u)

\* What write() does to the packet in the recorder's hands.
LEMMA Storing ==
    ASSUME RecordingTypes, Rc!Stores
    PROVE  \E u \in Users, p \in Nat :
             /\ rcWritten' \in [Users -> Seq(Nat)] /\ rcWritten'[u] = Append(rcWritten[u], p) /\ rcWritten'[u] # << >>
             /\ \A v \in Users : v # u => rcWritten'[v] = rcWritten[v]
             /\ Rc!Speakers' = Rc!Speakers \cup {u}
             /\ dir => /\ UNCHANGED <<files, pos>> /\ DOMAIN buffers' = DOMAIN buffers \cup {u}
                       /\ Buffered(u)' = Append(Buffered(u), p)
                       /\ \A v : Filed(v)' = Filed(v) /\ (v # u => Buffered(v)' = Buffered(v))
             /\ ~dir => /\ UNCHANGED buffers /\ pos'[u] = pos[u] + 1 /\ \A v \in Users : v # u => pos'[v] = pos[v]
                        /\ \A v : v # u => Filed(v)' = Filed(v)
                        /\ pos[u] = Len(Filed(u)) => Filed(u)' = Append(Filed(u), p)
<1>1. PICK u \in Users : u = who
  BY DEF RecordingTypes, ThreadTypes, Rc!Stores, Rc!At
<1>2. PICK p \in Nat : p = received
  BY DEF RecordingTypes, ThreadTypes
<1>3. /\ rcWritten' \in [Users -> Seq(Nat)] /\ rcWritten'[u] = Append(rcWritten[u], p) /\ rcWritten'[u] # << >>
      /\ \A v \in Users : v # u => rcWritten'[v] = rcWritten[v]
      /\ Rc!Speakers' = Rc!Speakers \cup {u}
  <2>1. rcWritten' = [rcWritten EXCEPT ![u] = Append(@, p)]
    BY <1>1, <1>2 DEF Rc!Stores
  <2> QED
    BY <2>1, StoredWritten
<1>4. ASSUME dir
      PROVE  /\ UNCHANGED <<files, pos>> /\ DOMAIN buffers' = DOMAIN buffers \cup {u}
             /\ Buffered(u)' = Append(Buffered(u), p)
             /\ \A v : Filed(v)' = Filed(v) /\ (v # u => Buffered(v)' = Buffered(v))
  <2>1. buffers' = Rc!Put(buffers, u, Append(Rc!Of(buffers, u), p)) /\ UNCHANGED <<files, pos>>
    BY <1>1, <1>2, <1>4 DEF Rc!Stores
  <2>2. /\ DOMAIN buffers' = DOMAIN buffers \cup {u} /\ Buffered(u)' = Append(Buffered(u), p)
        /\ \A v : v # u => Buffered(v)' = Buffered(v)
    BY <2>1, Buffering
  <2>3. \A v : Filed(v)' = Filed(v)
    BY <2>1 DEF Filed, Rc!Of
  <2> QED
    BY <2>1, <2>2, <2>3
<1>5. ASSUME ~dir
      PROVE  /\ UNCHANGED buffers /\ pos'[u] = pos[u] + 1 /\ \A v \in Users : v # u => pos'[v] = pos[v]
             /\ \A v : v # u => Filed(v)' = Filed(v)
             /\ pos[u] = Len(Filed(u)) => Filed(u)' = Append(Filed(u), p)
  <2>1. Rc!WriteAt(u, p) /\ UNCHANGED buffers
    BY <1>1, <1>2, <1>5 DEF Rc!Stores
  <2> QED
    BY <2>1, FileWritten
<1> QED
  BY <1>3, <1>4, <1>5

\* A step that stores nothing moves a packet, rewinds the files, or leaves them alone.
LEMMA NotStoring ==
    ASSUME RecordingTypes, [Rc!Next]_rcVars, ~Rc!Stores
    PROVE  /\ UNCHANGED rcWritten /\ DOMAIN buffers' = DOMAIN buffers /\ Rc!Speakers' = Rc!Speakers
           /\ \/ UNCHANGED pos /\ \A u : Filed(u)' = Filed(u) /\ Buffered(u)' = Buffered(u)
              \/ /\ Rc!Flushes \/ \E t \in {"rec", "stop"} : Rc!Seeks(t)
                 /\ \A u \in Users : pos'[u] = 0
                 /\ \A u : Filed(u)' = Filed(u) /\ Buffered(u)' = Buffered(u)
              \/ Rc!Moves /\ \E u \in Users :
                   /\ writer' = "turn" /\ Buffered(u) # << >>
                   /\ \A v : v # u => Filed(v)' = Filed(v) /\ Buffered(v)' = Buffered(v)
                   /\ \A v \in Users : v # u => pos'[v] = pos[v]
                   /\ pos'[u] = pos[u] + 1 /\ Buffered(u)' = Tail(Buffered(u)) /\ Filed(u)' \in Seq(Nat)
                   /\ pos[u] = Len(Filed(u)) => Filed(u)' = Append(Filed(u), Head(Buffered(u)))
<1> DEFINE Same == \A u : Filed(u)' = Filed(u) /\ Buffered(u)' = Buffered(u)
<1>1. ASSUME UNCHANGED <<files, buffers>>
      PROVE  Same /\ DOMAIN buffers' = DOMAIN buffers
  BY <1>1 DEF Filed, Buffered, Rc!Of
<1>2. ASSUME UNCHANGED rcWritten
      PROVE  Rc!Speakers' = Rc!Speakers
  BY <1>2 DEF Rc!Speakers
<1>3. ASSUME Rc!Rewound
      PROVE  \A u \in Users : pos'[u] = 0
  BY <1>3 DEF Rc!Rewound
<1>4. CASE Rc!Moves
  <2>1. UNCHANGED rcWritten
    BY <1>4 DEF Rc!Moves, Rc!packet
  <2>2. CASE UNCHANGED <<buffers, files, pos>>
    BY <1>1, <1>2, <2>1, <2>2
  <2>3. ASSUME NEW u \in Users, Buffered(u) # << >>, writer' = "turn",
               Rc!WriteAt(u, Head(Buffered(u))), Head(Buffered(u)) \in Nat,
               DOMAIN buffers' = DOMAIN buffers, Buffered(u)' = Tail(Buffered(u)),
               \A v : v # u => Buffered(v)' = Buffered(v)
        PROVE  /\ \A v : v # u => Filed(v)' = Filed(v) /\ Buffered(v)' = Buffered(v)
               /\ \A v \in Users : v # u => pos'[v] = pos[v]
               /\ pos'[u] = pos[u] + 1 /\ Buffered(u)' = Tail(Buffered(u)) /\ Filed(u)' \in Seq(Nat)
               /\ pos[u] = Len(Filed(u)) => Filed(u)' = Append(Filed(u), Head(Buffered(u)))
    BY <2>3, FileWritten
  <2> QED
    BY <1>2, <1>4, <2>1, <2>2, <2>3, Moving
<1>5. CASE Rc!Opens
  <2>1. Same
    BY <1>5 DEF Rc!Opens, Filed, Buffered, Rc!Put, Rc!Of
  <2>2. UNCHANGED <<rcWritten, buffers, pos>>
    BY <1>5 DEF Rc!Opens, Rc!packet
  <2> QED
    BY <1>2, <2>1, <2>2
<1>6. CASE Rc!Flushes
  <2>1. UNCHANGED <<rcWritten, files, buffers>> /\ (Rc!Rewound \/ UNCHANGED pos)
    BY <1>6 DEF Rc!Flushes, Rc!packet
  <2> QED
    BY <1>1, <1>2, <1>3, <1>6, <2>1
<1>7. ASSUME NEW t \in {"rec", "stop"}, Rc!Seeks(t)
      PROVE  /\ UNCHANGED rcWritten /\ DOMAIN buffers' = DOMAIN buffers /\ Rc!Speakers' = Rc!Speakers /\ Same
             /\ UNCHANGED pos \/ \A u \in Users : pos'[u] = 0
  <2>1. UNCHANGED <<rcWritten, files, buffers>> /\ (Rc!Rewound \/ UNCHANGED pos)
    BY <1>7 DEF Rc!Seeks, Rc!packet
  <2> QED
    BY <1>1, <1>2, <1>3, <2>1
<1>8. \A t \in {"rec", "stop"} : Rc!Cleans(t) \/ Rc!Waits(t) => UNCHANGED <<rcWritten, files, buffers, pos>>
  BY DEF Rc!Cleans, Rc!Waits, Rc!packet, Rc!data
<1>9. Rc!Looks \/ Rc!Receives \/ Rc!Checks \/ Rc!Starts => UNCHANGED <<rcWritten, files, buffers, pos>>
  BY DEF Rc!Looks, Rc!Receives, Rc!Checks, Rc!Starts, Rc!packet, Rc!data
<1>10. Rc!Turn \/ Rc!stop_recording \/ Rc!encode_audio \/ Rc!Encodes \/ UNCHANGED rcVars =>
           UNCHANGED <<rcWritten, files, buffers, pos>>
  BY DEF Rc!Turn, Rc!stop_recording, Rc!encode_audio, Rc!Encodes, Rc!packet, Rc!data, rcVars
<1>11. CASE UNCHANGED <<rcWritten, files, buffers, pos>>
  BY <1>1, <1>2, <1>11
<1>12. CASE \E t \in {"rec", "stop"} : Rc!Seeks(t)
  BY <1>7, <1>12
<1> QED
  BY <1>4, <1>5, <1>6, <1>8, <1>9, <1>10, <1>11, <1>12, RecordingSteps

\* What is complete stays so, and the folder is what it was.
LEMMA CompleteStays ==
    ASSUME [Rc!Next]_rcVars
    PROVE  /\ dir' = dir /\ (complete => complete') /\ (raced => raced')
           /\ ~Rc!Cleans("rec") /\ ~Rc!Cleans("stop") => UNCHANGED <<complete, raced>>
<1>1. Rc!Looks \/ Rc!Receives \/ Rc!Checks \/ Rc!Opens \/ Rc!Starts \/ Rc!Stores => UNCHANGED <<dir, complete, raced>>
  BY DEF Rc!Looks, Rc!Receives, Rc!Checks, Rc!Opens, Rc!Starts, Rc!Stores, Rc!events
<1>2. Rc!Turn \/ Rc!Moves \/ Rc!Flushes \/ Rc!stop_recording \/ Rc!encode_audio \/ Rc!Encodes => UNCHANGED <<dir, complete, raced>>
  BY DEF Rc!Turn, Rc!Moves, Rc!Flushes, Rc!stop_recording, Rc!encode_audio, Rc!Encodes, Rc!events
<1>3. \A t \in {"rec", "stop"} : Rc!Waits(t) \/ Rc!Seeks(t) => UNCHANGED <<dir, complete, raced>>
  BY DEF Rc!Waits, Rc!Seeks, Rc!events
<1>4. \A t \in {"rec", "stop"} : Rc!Cleans(t) => dir' = dir /\ (complete => complete') /\ (raced => raced')
  BY DEF Rc!Cleans
<1>5. UNCHANGED rcVars => UNCHANGED <<dir, complete, raced>>
  BY DEF rcVars
<1>6. CASE UNCHANGED <<dir, complete, raced>>
  BY <1>6
<1> QED
  BY <1>1, <1>2, <1>3, <1>4, <1>5, <1>6, RecordingSteps

\* The writer's thread runs before anything is in a buffer, and only it ends itself.
LEMMA WriterSteps ==
    ASSUME [Rc!Next]_rcVars, dir
    PROVE  /\ writer' # "new" => writer # "new" \/ Rc!Starts
           /\ writer' # "new" \/ writer = "new"
           /\ writer \in {"over", "dead"} => writer' = writer
<1>1. Rc!Looks \/ Rc!Receives \/ Rc!Checks \/ Rc!Opens \/ Rc!Stores => UNCHANGED writer
  BY DEF Rc!Looks, Rc!Receives, Rc!Checks, Rc!Opens, Rc!Stores, Rc!loop
<1>2. Rc!stop_recording \/ Rc!encode_audio \/ Rc!Encodes => UNCHANGED writer
  BY DEF Rc!stop_recording, Rc!encode_audio, Rc!Encodes, Rc!loop
<1>3. \A t \in {"rec", "stop"} : Rc!Cleans(t) \/ Rc!Waits(t) \/ Rc!Seeks(t) => UNCHANGED writer
  BY DEF Rc!Cleans, Rc!Waits, Rc!Seeks, Rc!loop
<1>4. UNCHANGED rcVars => UNCHANGED writer
  BY DEF rcVars
<1>5. CASE UNCHANGED writer
  BY <1>5
<1>6. CASE Rc!Starts
  BY <1>6 DEF Rc!Starts
<1>7. CASE Rc!Turn
  BY <1>7 DEF Rc!Turn
<1>8. CASE Rc!Moves
  BY <1>8 DEF Rc!Moves
<1>9. CASE Rc!Flushes
  BY <1>9 DEF Rc!Flushes
<1> QED
  BY <1>1, <1>2, <1>3, <1>4, <1>5, <1>6, <1>7, <1>8, <1>9, RecordingSteps

\* A user has a buffer from the first packet on that write() took, and the writer's thread runs then.
LEMMA StartedStep == RecordingTypes /\ Started /\ [Rc!Next]_rcVars => Started'
<1> SUFFICES ASSUME RecordingTypes, Started, [Rc!Next]_rcVars, dir
             PROVE  Started'
  <2>1. ASSUME [Rc!Next]_rcVars
        PROVE  dir' = dir
    BY <2>1, CompleteStays
  <2> QED
    BY <2>1 DEF Started
<1>1. /\ writer = "new" => \A u \in Users : rcWritten[u] = << >>
      /\ rcPc["rec"] = "store" => writer # "new"
      /\ \A u \in Users : u \in DOMAIN buffers <=> rcWritten[u] # << >>
  BY DEF Started
<1>2. CASE Rc!Stores
  <2>1. UNCHANGED writer /\ writer # "new" /\ rcPc' = [rcPc EXCEPT !["rec"] = "top"]
    BY <1>1, <1>2 DEF Rc!Stores, Rc!At, Rc!Goes, Rc!loop
  <2>2. rcPc'["rec"] # "store"
    BY <2>1 DEF RecordingTypes, ThreadTypes
  <2>3. \A u \in Users : u \in DOMAIN buffers' <=> rcWritten'[u] # << >>
    <3>1. PICK u \in Users : /\ rcWritten'[u] # << >> /\ \A v \in Users : v # u => rcWritten'[v] = rcWritten[v]
                             /\ DOMAIN buffers' = DOMAIN buffers \cup {u}
      BY <1>2, Storing
    <3> QED
      BY <1>1, <3>1
  <2> QED
    BY <2>1, <2>2, <2>3 DEF Started
<1>3. CASE ~Rc!Stores
  <2>1. UNCHANGED rcWritten /\ DOMAIN buffers' = DOMAIN buffers
    BY <1>3, NotStoring
  <2>2. writer' = "new" => writer = "new"
    BY WriterSteps
  <2>3. rcPc'["rec"] = "store" => writer' # "new"
    <3>1. rcPc \in [{"rec", "stop"} -> RecPlaces \cup StopPlaces] /\ writer \in {"new", "top", "turn", "flush", "over", "dead"}
      BY DEF RecordingTypes, ThreadTypes
    <3>2. CASE Rc!Starts
      BY <3>1, <3>2 DEF Rc!Starts, Rc!Goes, Rc!Alive
    <3>3. CASE rcPc'["rec"] = rcPc["rec"]
      BY <1>1, <2>2, <3>3
    <3>4. Rc!Looks \/ Rc!Receives \/ Rc!Checks \/ Rc!Opens => rcPc'["rec"] # "store"
      BY <3>1 DEF Rc!Looks, Rc!Receives, Rc!Checks, Rc!Opens, Rc!Goes
    <3>5. Rc!Turn \/ Rc!Moves \/ Rc!Flushes => UNCHANGED rcPc
      BY DEF Rc!Turn, Rc!Moves, Rc!Flushes
    <3>6. Rc!stop_recording \/ Rc!encode_audio \/ Rc!Encodes => rcPc'["rec"] = rcPc["rec"]
      BY <3>1 DEF Rc!stop_recording, Rc!encode_audio, Rc!Encodes, Rc!Goes
    <3>7. \A t \in {"rec", "stop"} : Rc!Cleans(t) \/ Rc!Waits(t) \/ Rc!Seeks(t) =>
             rcPc'["rec"] = rcPc["rec"] \/ rcPc'["rec"] # "store"
      <4> SUFFICES ASSUME NEW t \in {"rec", "stop"}, Rc!Cleans(t) \/ Rc!Waits(t) \/ Rc!Seeks(t)
                   PROVE  rcPc'["rec"] = rcPc["rec"] \/ rcPc'["rec"] # "store"
        OBVIOUS
      <4>1. \E p \in {"wait", "seek", "over", "encode", "read", "failed"} : Rc!Goes(t, p)
        BY DEF Rc!Cleans, Rc!Waits, Rc!Seeks, Rc!After
      <4> QED
        BY <3>1, <4>1 DEF Rc!Goes
    <3>8. UNCHANGED rcVars => UNCHANGED rcPc
      BY DEF rcVars
    <3> QED
      BY <1>3, <3>2, <3>3, <3>4, <3>5, <3>6, <3>7, <3>8, RecordingSteps
  <2> QED
    BY <1>1, <2>1, <2>2, <2>3 DEF Started
<1> QED
  BY <1>2, <1>3

\* Recorders that stored next to nothing store nothing more.
LEMMA FewStays == RecordingTypes /\ Few /\ [Rc!Next]_rcVars => Few'
<1> SUFFICES ASSUME RecordingTypes, Few, [Rc!Next]_rcVars
             PROVE  Few'
  OBVIOUS
<1>1. complete /\ complete' /\ rcPc \in [{"rec", "stop"} -> RecPlaces \cup StopPlaces]
  <2>1. complete => complete'
    BY CompleteStays
  <2>2. complete
    BY DEF Few
  <2>3. rcPc \in [{"rec", "stop"} -> RecPlaces \cup StopPlaces]
    BY DEF RecordingTypes, ThreadTypes
  <2> QED
    BY <2>1, <2>2, <2>3
<1>2. CASE Rc!Stores
  <2>1. \A u \in Users : rcWritten[u] = << >>
    BY <1>2 DEF Few, Rc!Stores, Rc!At, Rc!InWrite
  <2>2. ~Rc!InWrite'
    BY <1>1, <1>2 DEF Rc!Stores, Rc!Goes, Rc!InWrite
  <2>3. PICK u \in Users, p \in Nat : /\ rcWritten'[u] = Append(rcWritten[u], p)
                                      /\ \A v \in Users : v # u => rcWritten'[v] = rcWritten[v]
    BY <1>2, Storing
  <2>4. Len(rcWritten'[u]) = 1
    BY <2>1, <2>3
  <2>5. \A v \in Users : Len(rcWritten'[v]) <= 1
    <3>1. Len(<< >>) <= 1
      OBVIOUS
    <3>2. \A v \in Users : v # u => rcWritten'[v] = << >>
      BY <2>1, <2>3
    <3>3. Len(rcWritten'[u]) <= 1
      BY <2>4
    <3> QED
      BY <3>1, <3>2, <3>3
  <2> QED
    BY <1>1, <2>2, <2>5 DEF Few
<1>3. CASE ~Rc!Stores
  <2>1. UNCHANGED rcWritten
    BY <1>3, NotStoring
  <2>2. Rc!InWrite' => Rc!InWrite
    <3> USE DEF Rc!InWrite
    <3>1. Rc!Checks => rcPc'["rec"] = "top"
      BY <1>1 DEF Rc!Checks, Rc!Goes
    <3>2. Rc!Looks \/ Rc!Receives => rcPc'["rec"] \in {"select", "cleanup", "top", "check"}
      BY <1>1 DEF Rc!Looks, Rc!Receives, Rc!Goes
    <3>3. Rc!Opens \/ Rc!Starts => Rc!InWrite
      BY DEF Rc!Opens, Rc!Starts, Rc!At
    <3>4. Rc!Turn \/ Rc!Moves \/ Rc!Flushes \/ UNCHANGED rcVars => UNCHANGED rcPc
      BY DEF Rc!Turn, Rc!Moves, Rc!Flushes, rcVars
    <3>5. Rc!stop_recording \/ Rc!encode_audio \/ Rc!Encodes => rcPc'["rec"] = rcPc["rec"]
      BY <1>1 DEF Rc!stop_recording, Rc!encode_audio, Rc!Encodes, Rc!Goes
    <3>6. ASSUME NEW t \in {"rec", "stop"}, Rc!Cleans(t) \/ Rc!Waits(t) \/ Rc!Seeks(t)
          PROVE  rcPc'["rec"] = rcPc["rec"] \/ rcPc'["rec"] \in {"wait", "seek", "over", "encode", "read", "failed"}
      <4>1. \E p \in {"wait", "seek", "over", "encode", "read", "failed"} : Rc!Goes(t, p)
        BY <3>6 DEF Rc!Cleans, Rc!Waits, Rc!Seeks, Rc!After
      <4> QED
        BY <1>1, <4>1 DEF Rc!Goes
    <3> QED
      BY <1>3, <3>1, <3>2, <3>3, <3>4, <3>5, <3>6, RecordingSteps
  <2> QED
    BY <1>1, <2>1, <2>2 DEF Few
<1> QED
  BY <1>2, <1>3

\* The recording is done when the buffers' writer has flushed, or when a thread cleans up or
\* encodes while there is no such writer.
LEMMA DoneSteps ==
    ASSUME Threads, [Rc!Next]_rcVars, done'
    PROVE  \/ done
           \/ Rc!Flushes /\ writer' = "over"
           \/ UNCHANGED <<writer, rcWritten>> /\ ~(dir /\ Rc!Alive) /\ complete'
<1> USE DEF Threads, Rc!At
<1>1. Rc!Looks \/ Rc!Receives \/ Rc!Checks \/ Rc!Opens \/ Rc!Starts \/ Rc!Stores => UNCHANGED done
  BY DEF Rc!Looks, Rc!Receives, Rc!Checks, Rc!Opens, Rc!Starts, Rc!Stores, Rc!events
<1>2. Rc!Turn \/ Rc!Moves \/ Rc!stop_recording \/ Rc!Encodes => UNCHANGED done
  BY DEF Rc!Turn, Rc!Moves, Rc!stop_recording, Rc!Encodes, Rc!events
<1>3. CASE Rc!Flushes
  BY <1>3 DEF Rc!Flushes
<1>4. CASE Rc!encode_audio
  <2>1. complete /\ complete' = complete /\ UNCHANGED <<writer, rcWritten>>
    BY <1>4 DEF Rc!encode_audio, Rc!loop, Rc!packet
  <2>2. CASE dir /\ Rc!Alive
    BY <1>4, <2>2 DEF Rc!encode_audio
  <2> QED
    BY <2>1, <2>2
<1>5. ASSUME NEW t \in {"rec", "stop"}, Rc!Cleans(t)
      PROVE  done \/ (UNCHANGED <<writer, rcWritten>> /\ ~(dir /\ Rc!Alive) /\ complete')
  <2>1. CASE complete \/ (dir /\ Rc!Alive)
    BY <1>5, <2>1 DEF Rc!Cleans
  <2>2. CASE ~complete /\ ~(dir /\ Rc!Alive)
    BY <1>5, <2>2 DEF Rc!Cleans, Rc!loop, Rc!packet
  <2> QED
    BY <2>1, <2>2
<1>6. \A t \in {"rec", "stop"} : Rc!Waits(t) \/ Rc!Seeks(t) => UNCHANGED done
  BY DEF Rc!Waits, Rc!Seeks, Rc!events
<1>7. UNCHANGED rcVars => UNCHANGED done
  BY DEF rcVars
<1> QED
  BY <1>1, <1>2, <1>3, <1>4, <1>5, <1>6, <1>7, RecordingSteps

\* With a folder, the recording is not done while its writer runs, but for next to no packets.
LEMMA DoneLateStep == RecordingTypes /\ Threads /\ Started /\ DoneLate /\ [Rc!Next]_rcVars => DoneLate'
<1> SUFFICES ASSUME RecordingTypes, Threads, Started, DoneLate, [Rc!Next]_rcVars, dir, done'
             PROVE  writer' \in {"over", "dead"} \/ Few'
  <2>1. ASSUME [Rc!Next]_rcVars
        PROVE  dir' = dir
    BY <2>1, CompleteStays
  <2> QED
    BY <2>1 DEF DoneLate
<1>1. CASE done
  <2>1. writer \in {"over", "dead"} \/ Few
    BY <1>1 DEF DoneLate
  <2> QED
    BY <2>1, WriterSteps, FewStays
<1>2. CASE Rc!Flushes /\ writer' = "over"
  BY <1>2
<1>3. CASE UNCHANGED <<writer, rcWritten>> /\ ~(dir /\ Rc!Alive) /\ complete'
  <2>1. writer \in {"new", "over", "dead"}
    BY <1>3 DEF Rc!Alive, RecordingTypes, ThreadTypes
  <2>2. CASE writer = "new"
    <3>1. \A u \in Users : rcWritten'[u] = << >>
      BY <1>3, <2>2 DEF Started
    <3>2. Len(<< >>) <= 1
      OBVIOUS
    <3>3. \A u \in Users : Len(rcWritten'[u]) <= 1
      BY <3>1, <3>2
    <3> QED
      BY <1>3, <3>1, <3>3 DEF Few
  <2> QED
    BY <1>3, <2>1, <2>2
<1> QED
  BY <1>1, <1>2, <1>3, DoneSteps

\* Files are rewound after their writer has ended, or when they have one packet at most.
LEMMA RewoundLate ==
    ASSUME RecordingTypes, Threads, DoneLate, [Rc!Next]_rcVars, dir,
           Rc!Flushes \/ \E t \in {"rec", "stop"} : Rc!Seeks(t)
    PROVE  writer' \in {"over", "dead"} \/ Few'
<1>1. CASE Rc!Flushes
  BY <1>1 DEF Rc!Flushes
<1>2. ASSUME NEW t \in {"rec", "stop"}, Rc!Seeks(t)
      PROVE  writer' \in {"over", "dead"} \/ Few'
  <2>1. done /\ UNCHANGED writer
    BY <1>2 DEF Rc!Seeks, Rc!At, Rc!loop, Threads
  <2>2. writer \in {"over", "dead"} \/ Few
    BY <2>1 DEF DoneLate
  <2> QED
    BY <2>1, <2>2, FewStays
<1> QED
  BY <1>1, <1>2

\* A file that is rewound has all its packets or is the beginning of what was written.
LEMMA RewoundFiling ==
    ASSUME RecordingTypes, NEW u \in Users, Steady(u) \/ Closed(u) \/ Alone(u),
           UNCHANGED rcWritten, pos'[u] = 0, Filed(u)' = Filed(u), Buffered(u)' = Buffered(u),
           writer' \in {"over", "dead"} \/ Few', writer \in {"over", "dead"} => writer' = writer, Few => Few'
    PROVE  Steady(u)' \/ Closed(u)' \/ Alone(u)'
<1>1. /\ Filed(u) \in Seq(Nat) /\ Buffered(u) \in Seq(Nat) /\ rcWritten[u] \in Seq(Nat)
      /\ Len(Filed(u)) \in Nat /\ Len(Buffered(u)) \in Nat
  BY DEF RecordingTypes, StoredTypes
<1>2. CASE Closed(u)
  BY <1>2 DEF Closed
<1>3. CASE Alone(u)
  BY <1>3 DEF Alone
<1>4. CASE Steady(u) /\ writer' \in {"over", "dead"}
  <2>1. Filed(u) \o Buffered(u) = rcWritten[u]
    BY <1>4 DEF Steady
  <2>2. Rc!IsPrefix(Filed(u), Filed(u) \o Buffered(u))
    BY <1>1, PrefixGrows
  <2>3. Rc!IsPrefix(Filed(u)', rcWritten'[u])
    BY <2>1, <2>2
  <2> QED
    BY <1>4, <2>3 DEF Closed
<1>5. CASE Steady(u) /\ Few'
  <2>1. Filed(u) \o Buffered(u) = rcWritten[u] /\ Len(rcWritten[u]) <= 1
    BY <1>5 DEF Steady, Few
  <2>2. Len(Filed(u)) + Len(Buffered(u)) <= 1
    <3>1. Len(Filed(u) \o Buffered(u)) = Len(Filed(u)) + Len(Buffered(u))
      BY <1>1, ConcatProperties
    <3> QED
      BY <2>1, <3>1
  <2>3. CASE Len(Filed(u)) = 0
    BY <2>1, <2>3 DEF Steady
  <2>4. CASE Len(Filed(u)) # 0
    <3>1. Buffered(u) = << >>
      BY <1>1, <2>2, <2>4
    <3>2. Filed(u) = rcWritten[u]
      BY <1>1, <2>1, <3>1, ConcatEmptySeq
    <3> QED
      BY <1>5, <3>1, <3>2 DEF Alone
  <2> QED
    BY <2>3, <2>4
<1> QED
  BY <1>2, <1>3, <1>4, <1>5

\* A packet that write() puts into the buffer is behind those written before.
LEMMA StoredFiling ==
    ASSUME RecordingTypes, NEW u \in Users, NEW p \in Nat, Steady(u) \/ Closed(u) \/ Alone(u), Rc!Stores,
           rcWritten'[u] = Append(rcWritten[u], p), UNCHANGED pos,
           Filed(u)' = Filed(u), Buffered(u)' = Append(Buffered(u), p)
    PROVE  Steady(u)' \/ Closed(u)' \/ Alone(u)'
<1>1. Filed(u) \in Seq(Nat) /\ Buffered(u) \in Seq(Nat) /\ rcWritten[u] \in Seq(Nat)
  BY DEF RecordingTypes, StoredTypes
<1>2. CASE Steady(u)
  <2>1. Filed(u) \o Append(Buffered(u), p) = Append(Filed(u) \o Buffered(u), p)
    BY <1>1, StoredBehind
  <2> QED
    BY <1>2, <2>1 DEF Steady
<1>3. CASE Closed(u)
  <2>1. UNCHANGED writer
    BY DEF Rc!Stores, Rc!loop
  <2>2. Rc!IsPrefix(Filed(u), Append(rcWritten[u], p))
    BY <1>1, <1>3, PrefixGrows DEF Closed
  <2>3. Rc!IsPrefix(Filed(u)', rcWritten'[u])
    BY <2>2
  <2> QED
    BY <1>3, <2>1, <2>3 DEF Closed
<1>4. CASE Alone(u)
  <2>1. rcWritten[u] = << >>
    BY <1>4 DEF Alone, Few, Rc!Stores, Rc!At, Rc!InWrite
  <2>2. Filed(u) = << >> /\ Buffered(u) = << >> /\ pos[u] = 0
    BY <1>4, <2>1 DEF Alone
  <2>3. Steady(u)
    <3>1. Len(<< >>) = 0 /\ << >> \o << >> = << >>
      OBVIOUS
    <3> QED
      BY <2>1, <2>2, <3>1 DEF Steady
  <2> QED
    BY <1>2, <2>3
<1> QED
  BY <1>2, <1>3, <1>4

\* A packet that the writer's thread moves goes from the front of the buffer to the end of the file.
LEMMA MovedFiling ==
    ASSUME RecordingTypes, NEW u \in Users, Steady(u) \/ Closed(u) \/ Alone(u), Rc!Moves,
           UNCHANGED rcWritten, Buffered(u) # << >>, pos'[u] = pos[u] + 1, Buffered(u)' = Tail(Buffered(u)),
           Filed(u)' \in Seq(Nat),
           pos[u] = Len(Filed(u)) => Filed(u)' = Append(Filed(u), Head(Buffered(u)))
    PROVE  Steady(u)'
<1>1. Filed(u) \in Seq(Nat) /\ Buffered(u) \in Seq(Nat)
  BY DEF RecordingTypes, StoredTypes
<1>2. Steady(u)
  BY DEF Closed, Alone, Rc!Moves
<1>3. Filed(u)' = Append(Filed(u), Head(Buffered(u))) /\ Len(Filed(u)') = Len(Filed(u)) + 1
  <2>1. Head(Buffered(u)) \in Nat
    BY <1>1, HeadTailProperties
  <2>2. Filed(u)' = Append(Filed(u), Head(Buffered(u)))
    BY <1>2 DEF Steady
  <2> QED
    BY <1>1, <2>1, <2>2, AppendProperties
<1>4. Append(Filed(u), Head(Buffered(u))) \o Tail(Buffered(u)) = Filed(u) \o Buffered(u)
  BY <1>1, MovesOver
<1> QED
  BY <1>2, <1>3, <1>4 DEF Steady

\* Every user's file and buffer have what was written, in order.
LEMMA FilingStep ==
    ASSUME RecordingTypes, Threads, Started, DoneLate, Filing, [Rc!Next]_rcVars
    PROVE  Filing'
<1> SUFFICES ASSUME dir, NEW u \in Users
             PROVE  Steady(u)' \/ Closed(u)' \/ Alone(u)'
  <2>1. dir' = dir
    BY CompleteStays
  <2> QED
    BY <2>1 DEF Filing
<1>1. Steady(u) \/ Closed(u) \/ Alone(u)
  BY DEF Filing
<1>2. /\ writer \in {"over", "dead"} => writer' = writer
      /\ Few => Few'
  BY WriterSteps, FewStays
<1>3. ASSUME UNCHANGED pos, rcWritten'[u] = rcWritten[u], Filed(u)' = Filed(u), Buffered(u)' = Buffered(u)
      PROVE  Steady(u)' \/ Closed(u)' \/ Alone(u)'
  <2>1. CASE Steady(u)
    BY <1>3, <2>1 DEF Steady
  <2>2. CASE Closed(u)
    BY <1>2, <1>3, <2>2 DEF Closed
  <2>3. CASE Alone(u)
    BY <1>2, <1>3, <2>3 DEF Alone
  <2> QED
    BY <1>1, <2>1, <2>2, <2>3
<1>4. CASE Rc!Stores
  <2>1. PICK w \in Users, p \in Nat :
          /\ rcWritten'[w] = Append(rcWritten[w], p) /\ \A v \in Users : v # w => rcWritten'[v] = rcWritten[v]
          /\ UNCHANGED pos /\ Buffered(w)' = Append(Buffered(w), p)
          /\ \A v : Filed(v)' = Filed(v) /\ (v # w => Buffered(v)' = Buffered(v))
    BY <1>4, Storing
  <2>2. CASE u = w
    <3>1. rcWritten'[u] = Append(rcWritten[u], p) /\ Buffered(u)' = Append(Buffered(u), p) /\ Filed(u)' = Filed(u)
      BY <2>1, <2>2
    <3> QED
      BY <1>1, <1>4, <2>1, <3>1, StoredFiling
  <2>3. CASE u # w
    <3>1. rcWritten'[u] = rcWritten[u] /\ Buffered(u)' = Buffered(u) /\ Filed(u)' = Filed(u)
      BY <2>1, <2>3
    <3> QED
      BY <1>3, <2>1, <3>1
  <2> QED
    BY <2>2, <2>3
<1>5. CASE ~Rc!Stores
  <2>1. UNCHANGED rcWritten
    BY <1>5, NotStoring
  <2>2. CASE UNCHANGED pos /\ \A v : Filed(v)' = Filed(v) /\ Buffered(v)' = Buffered(v)
    BY <1>3, <2>1, <2>2
  <2>3. CASE /\ Rc!Flushes \/ \E t \in {"rec", "stop"} : Rc!Seeks(t)
             /\ \A v \in Users : pos'[v] = 0
             /\ \A v : Filed(v)' = Filed(v) /\ Buffered(v)' = Buffered(v)
    <3>1. writer' \in {"over", "dead"} \/ Few'
      BY <2>3, RewoundLate
    <3> QED
      BY <1>1, <1>2, <2>1, <2>3, <3>1, RewoundFiling
  <2>4. ASSUME Rc!Moves, NEW w \in Users, Buffered(w) # << >>,
               \A v : v # w => Filed(v)' = Filed(v) /\ Buffered(v)' = Buffered(v),
               \A v \in Users : v # w => pos'[v] = pos[v],
               pos'[w] = pos[w] + 1, Buffered(w)' = Tail(Buffered(w)), Filed(w)' \in Seq(Nat),
               pos[w] = Len(Filed(w)) => Filed(w)' = Append(Filed(w), Head(Buffered(w)))
        PROVE  Steady(u)' \/ Closed(u)' \/ Alone(u)'
    <3>1. CASE u = w
      <4>1. Steady(w)'
        BY <1>1, <2>1, <2>4, <3>1, MovedFiling
      <4> QED
        BY <3>1, <4>1
    <3>2. CASE u # w
      <4>1. Filed(u)' = Filed(u) /\ Buffered(u)' = Buffered(u) /\ pos'[u] = pos[u] /\ rcWritten'[u] = rcWritten[u]
        BY <2>1, <2>4, <3>2
      <4>2. CASE Steady(u)
        BY <4>1, <4>2 DEF Steady
      <4>3. CASE Closed(u)
        BY <1>2, <4>1, <4>3 DEF Closed
      <4>4. CASE Alone(u)
        BY <1>2, <4>1, <4>4 DEF Alone
      <4> QED
        BY <1>1, <4>2, <4>3, <4>4
    <3> QED
      BY <3>1, <3>2
  <2> QED
    BY <1>5, <2>2, <2>3, <2>4, NotStoring
<1> QED
  BY <1>4, <1>5

-----------------------------------------------------------------------------
(* When the threads do not come in each other's way *)

OneSpeaker == Cardinality(Rc!Speakers) < 2

\* The files stand where they begin: the stopping thread has rewound them, or the recorder has
\* before it.
Ready ==
    \/ rcPc["stop"] \in {"encode", "encodes", "read", "over"}
    \/ rcPc["rec"] = "over" /\ complete /\ rcPc["stop"] \in {"off", "cleanup"}

Quiet == dir /\ ~raced /\ done => writer \in {"new", "over", "dead"}

Flushed ==
    dir /\ ~raced /\ OneSpeaker /\ writer \in {"flush", "over"} => \A u \in Users : Filed(u) = rcWritten[u]

InMemory ==
    ~dir /\ ~raced => \A u \in Users : Filed(u) = rcWritten[u] /\ (~complete => pos[u] = Len(Filed(u)))

AtBeginning == ~raced /\ Ready => \A u \in Users : pos[u] = 0

\* Recording counts as this module does.
LEMMA SameCount == \A S : Rc!Cardinality(S) = Cardinality(S)
BY DEF Rc!Cardinality, Cardinality

\* Of two speakers there cannot be one.
LEMMA OnlySpeaker ==
    ASSUME RecordingTypes, OneSpeaker, NEW v \in Rc!Speakers
    PROVE  Rc!Speakers = {v}
<1> SUFFICES ASSUME NEW w \in Rc!Speakers, w # v
             PROVE  FALSE
  OBVIOUS
<1>1. IsFiniteSet({v}) /\ Cardinality({v}) = 1
  BY FS_Singleton
<1>2. IsFiniteSet({v} \cup {w}) /\ Cardinality({v} \cup {w}) = 2
  BY <1>1, FS_AddElement
<1>3. IsFiniteSet(Rc!Speakers) /\ {v} \cup {w} \subseteq Rc!Speakers
  BY DEF RecordingTypes, StoredTypes
<1>4. Cardinality({v} \cup {w}) <= Cardinality(Rc!Speakers)
  BY <1>3, FS_Subset
<1>5. Cardinality(Rc!Speakers) \in Nat
  BY <1>3, FS_CardinalityType
<1> QED
  BY <1>2, <1>4, <1>5 DEF OneSpeaker

\* The recorder that is about to write is stopped by none that looks first.
LEMMA WritesBefore ==
    ASSUME Threads, Orderly, ~raced, Rc!InWrite
    PROVE  ~complete /\ ~done /\ writer \notin {"flush", "over"} /\ ~Ready
BY DEF Threads, Orderly, Ready

\* Threads that have come in each other's way have done so for good.
LEMMA RacedStays ==
    ASSUME [Rc!Next]_rcVars, ~raced'
    PROVE  ~raced
BY CompleteStays

\* The writer does not run any more once the recording is done.
LEMMA QuietStep == RecordingTypes /\ Threads /\ Orderly /\ Quiet /\ [Rc!Next]_rcVars => Quiet'
<1> SUFFICES ASSUME RecordingTypes, Threads, Orderly, Quiet, [Rc!Next]_rcVars, dir, ~raced', done'
             PROVE  writer' \in {"new", "over", "dead"}
  <2>1. ASSUME [Rc!Next]_rcVars
        PROVE  dir' = dir
    BY <2>1, CompleteStays
  <2> QED
    BY <2>1 DEF Quiet
<1>1. ~raced
  BY RacedStays
<1>2. CASE done
  <2>1. writer \in {"new", "over", "dead"}
    BY <1>1, <1>2 DEF Quiet
  <2>2. ~Rc!Starts
    BY <1>1, <1>2, WritesBefore DEF Rc!Starts, Rc!At, Rc!InWrite
  <2> QED
    BY <2>1, <2>2, WriterSteps
<1>3. CASE Rc!Flushes /\ writer' = "over"
  BY <1>3
<1>4. CASE UNCHANGED <<writer, rcWritten>> /\ ~(dir /\ Rc!Alive)
  BY <1>4 DEF Rc!Alive, RecordingTypes, ThreadTypes
<1> QED
  BY <1>2, <1>3, <1>4, DoneSteps

\* The writer leaves its loop from the top of it, when nothing is left of somebody.
LEMMA LoopLeft ==
    ASSUME [Rc!Next]_rcVars, writer \notin {"flush", "over"}, writer' \in {"flush", "over"}
    PROVE  writer = "top" /\ \E v \in DOMAIN buffers : buffers[v] = << >>
<1>1. Rc!Looks \/ Rc!Receives \/ Rc!Checks \/ Rc!Opens \/ Rc!Stores => UNCHANGED writer
  BY DEF Rc!Looks, Rc!Receives, Rc!Checks, Rc!Opens, Rc!Stores, Rc!loop
<1>2. Rc!stop_recording \/ Rc!encode_audio \/ Rc!Encodes => UNCHANGED writer
  BY DEF Rc!stop_recording, Rc!encode_audio, Rc!Encodes, Rc!loop
<1>3. \A t \in {"rec", "stop"} : Rc!Cleans(t) \/ Rc!Waits(t) \/ Rc!Seeks(t) => UNCHANGED writer
  BY DEF Rc!Cleans, Rc!Waits, Rc!Seeks, Rc!loop
<1>4. UNCHANGED rcVars => UNCHANGED writer
  BY DEF rcVars
<1>5. ~Rc!Starts /\ ~Rc!Moves /\ ~Rc!Flushes
  BY DEF Rc!Starts, Rc!Moves, Rc!Flushes
<1>6. CASE Rc!Turn
  BY <1>6 DEF Rc!Turn, Rc!GoesOn
<1> QED
  BY <1>1, <1>2, <1>3, <1>4, <1>5, <1>6, RecordingSteps

\* With one speaker the buffer is empty when the writer leaves its loop.
LEMMA FlushedStep ==
    ASSUME RecordingTypes, Threads, Orderly, Started, Filing, Flushed, [Rc!Next]_rcVars
    PROVE  Flushed'
<1> SUFFICES ASSUME dir, ~raced', OneSpeaker', writer' \in {"flush", "over"}
             PROVE  \A u \in Users : Filed(u)' = rcWritten'[u]
  <2>1. dir' = dir
    BY CompleteStays
  <2> QED
    BY <2>1 DEF Flushed
<1>1. ~raced
  BY RacedStays
<1>2. ~Rc!Stores
  <2> SUFFICES ASSUME Rc!Stores
               PROVE  FALSE
    OBVIOUS
  <2>1. UNCHANGED writer /\ Rc!InWrite
    BY DEF Rc!Stores, Rc!loop, Rc!At, Rc!InWrite
  <2> QED
    BY <1>1, <2>1, WritesBefore
<1>3. UNCHANGED rcWritten /\ Rc!Speakers' = Rc!Speakers /\ \A u \in Users : Filed(u)' = Filed(u)
  BY <1>2, NotStoring
<1>4. OneSpeaker
  BY <1>3 DEF OneSpeaker
<1>5. CASE writer \in {"flush", "over"}
  BY <1>1, <1>3, <1>4, <1>5 DEF Flushed
<1>6. CASE writer \notin {"flush", "over"}
  <2>1. PICK v \in DOMAIN buffers : writer = "top" /\ buffers[v] = << >>
    BY <1>6, LoopLeft
  <2>2. v \in Users
    BY DEF RecordingTypes, StoredTypes
  <2>3. v \in Rc!Speakers
    BY <2>2 DEF Started, Rc!Speakers
  <2>4. Rc!Speakers = {v}
    BY <1>4, <2>3, OnlySpeaker
  <2>5. ASSUME NEW u \in Users
        PROVE  Filed(u) = rcWritten[u]
    <3>1. Buffered(u) = << >>
      <4>1. CASE u = v
        BY <2>1, <4>1 DEF Buffered, Rc!Of
      <4>2. CASE u # v
        BY <2>4, <4>2 DEF Started, Rc!Speakers, Buffered, Rc!Of
      <4> QED
        BY <4>1, <4>2
    <3>2. Filed(u) \in Seq(Nat)
      BY DEF RecordingTypes, StoredTypes
    <3>3. Steady(u) \/ Alone(u)
      BY <2>1 DEF Filing, Closed
    <3>4. CASE Steady(u)
      BY <3>1, <3>2, <3>4, ConcatEmptySeq DEF Steady
    <3>5. CASE Alone(u)
      BY <3>5 DEF Alone
    <3> QED
      BY <3>3, <3>4, <3>5
  <2> QED
    BY <1>3, <2>5
<1> QED
  BY <1>5, <1>6

\* In memory every packet that write() takes is in its file, which is written at its end.
LEMMA InMemoryStep ==
    ASSUME RecordingTypes, Threads, Orderly, InMemory, [Rc!Next]_rcVars
    PROVE  InMemory'
<1> SUFFICES ASSUME ~dir, ~raced', NEW u \in Users
             PROVE  Filed(u)' = rcWritten'[u] /\ (~complete' => pos'[u] = Len(Filed(u)'))
  <2>1. dir' = dir
    BY CompleteStays
  <2> QED
    BY <2>1 DEF InMemory
<1>1. ~raced
  BY RacedStays
<1>2. Filed(u) = rcWritten[u] /\ (~complete => pos[u] = Len(Filed(u))) /\ Filed(u) \in Seq(Nat)
  BY <1>1 DEF InMemory, RecordingTypes, StoredTypes
<1>3. ~complete' => ~complete
  BY CompleteStays
<1>4. CASE Rc!Stores
  <2>1. PICK w \in Users, p \in Nat :
          /\ rcWritten'[w] = Append(rcWritten[w], p) /\ \A v \in Users : v # w => rcWritten'[v] = rcWritten[v]
          /\ pos'[w] = pos[w] + 1 /\ \A v \in Users : v # w => pos'[v] = pos[v]
          /\ \A v : v # w => Filed(v)' = Filed(v)
          /\ pos[w] = Len(Filed(w)) => Filed(w)' = Append(Filed(w), p)
    BY <1>4, Storing
  <2>2. ~complete
    <3>1. Rc!InWrite
      BY <1>4 DEF Rc!Stores, Rc!At, Rc!InWrite
    <3> QED
      BY <1>1, <3>1, WritesBefore
  <2>3. CASE u = w
    <3>1. pos[u] = Len(Filed(u)) /\ Filed(u)' = Append(Filed(u), p)
      BY <1>2, <2>1, <2>2, <2>3
    <3>2. Len(Append(Filed(u), p)) = Len(Filed(u)) + 1
      BY <1>2, AppendProperties
    <3> QED
      BY <1>2, <2>1, <2>3, <3>1, <3>2
  <2>4. CASE u # w
    <3>1. Filed(u)' = Filed(u) /\ rcWritten'[u] = rcWritten[u] /\ pos'[u] = pos[u]
      BY <2>1, <2>4
    <3> QED
      BY <1>2, <2>2, <3>1
  <2> QED
    BY <2>3, <2>4
<1>5. CASE ~Rc!Stores
  <2>1. UNCHANGED rcWritten
    BY <1>5, NotStoring
  <2>2. ~Rc!Moves /\ ~Rc!Flushes
    BY DEF Threads, Rc!Moves, Rc!Flushes
  <2>3. CASE UNCHANGED pos /\ \A v : Filed(v)' = Filed(v) /\ Buffered(v)' = Buffered(v)
    BY <1>2, <1>3, <2>1, <2>3
  <2>4. ASSUME NEW t \in {"rec", "stop"}, Rc!Seeks(t), \A v : Filed(v)' = Filed(v)
        PROVE  Filed(u)' = rcWritten'[u] /\ (~complete' => pos'[u] = Len(Filed(u)'))
    <3>1. complete
      BY <2>4 DEF Rc!Seeks, Rc!At, Threads
    <3> QED
      BY <1>2, <1>3, <2>1, <2>4, <3>1
  <2> QED
    BY <1>5, <2>2, <2>3, <2>4, NotStoring
<1> QED
  BY <1>4, <1>5

\* The files come to stand at their beginning by being rewound.
LEMMA ReadySteps ==
    ASSUME RecordingTypes, Threads, Orderly, [Rc!Next]_rcVars, ~raced', Ready'
    PROVE  Ready \/ \A u \in Users : pos'[u] = 0
<1> USE DEF Ready, Rc!Goes, Rc!At
<1>1. rcPc \in [{"rec", "stop"} -> RecPlaces \cup StopPlaces] /\ ~raced
  BY RacedStays DEF RecordingTypes, ThreadTypes
<1>2. CASE Rc!Looks \/ Rc!Receives \/ Rc!Checks
  BY <1>1, <1>2 DEF Rc!Looks, Rc!Receives, Rc!Checks, Rc!events
<1>3. CASE Rc!Opens \/ Rc!Starts \/ Rc!Stores
  BY <1>1, <1>3 DEF Rc!Opens, Rc!Starts, Rc!Stores, Rc!events
<1>4. CASE Rc!Turn \/ Rc!Moves \/ Rc!Flushes
  BY <1>1, <1>4 DEF Rc!Turn, Rc!Moves, Rc!Flushes, Rc!events
<1>5. CASE Rc!stop_recording \/ Rc!encode_audio
  BY <1>1, <1>5 DEF Rc!stop_recording, Rc!encode_audio
<1>6. CASE Rc!Encodes
  BY <1>1, <1>6 DEF Rc!Encodes, Rc!events
<1>7. ASSUME NEW t \in {"rec", "stop"}, Rc!Cleans(t)
      PROVE  Ready
  BY <1>1, <1>7 DEF Rc!Cleans, Rc!After, Threads, Orderly
<1>8. ASSUME NEW t \in {"rec", "stop"}, Rc!Waits(t)
      PROVE  Ready
  BY <1>1, <1>8 DEF Rc!Waits, Rc!events
<1>9. ASSUME NEW t \in {"rec", "stop"}, Rc!Seeks(t)
      PROVE  Ready \/ \A u \in Users : pos'[u] = 0
  <2>1. CASE Rc!Rewound
    BY <2>1 DEF Rc!Rewound
  <2>2. CASE ~Rc!Rewound
    BY <1>1, <1>9, <2>2 DEF Rc!Seeks, Rc!events
  <2> QED
    BY <2>1, <2>2
<1>10. CASE UNCHANGED rcVars
  BY <1>10 DEF rcVars
<1> QED
  BY <1>2, <1>3, <1>4, <1>5, <1>6, <1>7, <1>8, <1>9, <1>10, RecordingSteps

\* Once they do, nothing writes them any more.
LEMMA AtBeginningStep ==
    ASSUME RecordingTypes, Threads, Orderly, Quiet, AtBeginning, [Rc!Next]_rcVars
    PROVE  AtBeginning'
<1> SUFFICES ASSUME ~raced', Ready', Ready, NEW u \in Users
             PROVE  pos'[u] = 0
  <2>1. ASSUME ~raced', Ready'
        PROVE  Ready \/ \A u \in Users : pos'[u] = 0
    BY <2>1, ReadySteps
  <2> QED
    BY <2>1 DEF AtBeginning
<1>1. ~raced /\ pos[u] = 0
  <2>1. ~raced
    BY RacedStays
  <2> QED
    BY <2>1 DEF AtBeginning
<1>2. ~Rc!Stores
  BY <1>1, WritesBefore DEF Rc!Stores, Rc!At, Rc!InWrite
<1>3. ~Rc!Moves
  <2>1. done
    BY <1>1 DEF Orderly, Finished, Ready
  <2>2. CASE dir
    BY <1>1, <2>1, <2>2 DEF Quiet, Rc!Moves
  <2>3. CASE ~dir
    BY <2>3 DEF Threads, Rc!Moves
  <2> QED
    BY <2>2, <2>3
<1> QED
  BY <1>1, <1>2, <1>3, NotStoring

-----------------------------------------------------------------------------
(* What is encoded *)

Begins ==
    dir => \A u \in DOMAIN output :
             u \in Users /\ output[u] \in Seq(Nat) /\ Rc!IsPrefix(output[u], rcWritten[u])

Whole ==
    rcPc["stop"] = "over" /\ ~raced /\ writer # "dead" /\ (dir => OneSpeaker) =>
        \A u \in Rc!Speakers : u \in DOMAIN output /\ output[u] = rcWritten[u]

\* A step that encodes nothing leaves what was encoded alone, and the stopping thread before its end.
LEMMA NotEncoding ==
    ASSUME RecordingTypes, [Rc!Next]_rcVars, ~Rc!Encodes
    PROVE  UNCHANGED output /\ (rcPc'["stop"] = "over" => rcPc["stop"] = "over")
<1> USE DEF Rc!Goes, Rc!At
<1>1. rcPc \in [{"rec", "stop"} -> RecPlaces \cup StopPlaces]
  BY DEF RecordingTypes, ThreadTypes
<1>2. CASE Rc!Looks \/ Rc!Receives \/ Rc!Checks
  BY <1>1, <1>2 DEF Rc!Looks, Rc!Receives, Rc!Checks
<1>3. CASE Rc!Opens \/ Rc!Starts \/ Rc!Stores
  BY <1>1, <1>3 DEF Rc!Opens, Rc!Starts, Rc!Stores
<1>4. CASE Rc!Turn \/ Rc!Moves \/ Rc!Flushes
  BY <1>1, <1>4 DEF Rc!Turn, Rc!Moves, Rc!Flushes
<1>5. CASE Rc!stop_recording \/ Rc!encode_audio
  BY <1>1, <1>5 DEF Rc!stop_recording, Rc!encode_audio
<1>6. ASSUME NEW t \in {"rec", "stop"}, Rc!Cleans(t) \/ Rc!Waits(t) \/ Rc!Seeks(t)
      PROVE  UNCHANGED output /\ (rcPc'["stop"] = "over" => rcPc["stop"] = "over")
  <2>1. UNCHANGED output
    BY <1>6 DEF Rc!Cleans, Rc!Waits, Rc!Seeks
  <2>2. t = "stop" => rcPc'["stop"] # "over"
    BY <1>1, <1>6 DEF Rc!Cleans, Rc!Waits, Rc!Seeks, Rc!After
  <2>3. t = "rec" => rcPc'["stop"] = rcPc["stop"]
    BY <1>1, <1>6 DEF Rc!Cleans, Rc!Waits, Rc!Seeks
  <2> QED
    BY <2>1, <2>2, <2>3
<1>7. CASE UNCHANGED rcVars
  BY <1>7 DEF rcVars
<1> QED
  BY <1>2, <1>3, <1>4, <1>5, <1>6, <1>7, RecordingSteps

\* What is read of a file from where it stands, as the encoding thread does.
LEMMA Encoding ==
    ASSUME RecordingTypes, NEW u \in DOMAIN files
    PROVE  /\ u \in Users /\ Filed(u) = files[u]
           /\ SubSeq(files[u], pos[u] + 1, Len(files[u])) \in Seq(Nat)
           /\ pos[u] = Len(Filed(u)) => SubSeq(files[u], pos[u] + 1, Len(files[u])) = << >>
           /\ pos[u] = 0 => SubSeq(files[u], pos[u] + 1, Len(files[u])) = Filed(u)
<1>1. u \in Users /\ Filed(u) = files[u]
  BY DEF RecordingTypes, StoredTypes, Filed, Rc!Of
<1>2. PICK s \in Seq(Nat) : s = files[u]
  BY <1>1 DEF RecordingTypes, StoredTypes
<1>3. PICK n \in Nat : n = pos[u]
  BY <1>1 DEF RecordingTypes, StoredTypes
<1>4. PICK m \in Nat : m = Len(s)
  BY <1>2
<1>5. SubSeq(s, n + 1, m) \in Seq(Nat)
  <2>1. \A i \in n + 1 .. m : s[i] \in Nat
    BY <1>4, ElementOfSeq
  <2>2. n + 1 \in Int /\ m \in Int
    OBVIOUS
  <2> QED
    BY <2>1, <2>2, SubSeqProperties
<1>6. n = m => SubSeq(s, n + 1, m) = << >>
  <2>1. n = m => m < n + 1
    OBVIOUS
  <2>2. n + 1 \in Int /\ m \in Int
    OBVIOUS
  <2> QED
    BY <2>1, <2>2, SubSeqEmpty
<1>7. n = 0 => SubSeq(s, n + 1, m) = s
  BY <1>4, SubSeqFull
<1> QED
  BY <1>1, <1>2, <1>3, <1>4, <1>5, <1>6, <1>7

\* With a folder, what is encoded of a user is the beginning of what was written.
LEMMA BeginsStep ==
    ASSUME RecordingTypes, Filing, Begins, [Rc!Next]_rcVars
    PROVE  Begins'
<1> SUFFICES ASSUME dir, NEW u \in DOMAIN output'
             PROVE  u \in Users /\ output'[u] \in Seq(Nat) /\ Rc!IsPrefix(output'[u], rcWritten'[u])
  <2>1. dir' = dir
    BY CompleteStays
  <2> QED
    BY <2>1 DEF Begins
<1>1. rcWritten \in [Users -> Seq(Nat)]
  BY DEF RecordingTypes, StoredTypes
<1>2. CASE output' = output
  <2>1. u \in Users /\ output[u] \in Seq(Nat) /\ Rc!IsPrefix(output[u], rcWritten[u])
    BY <1>2 DEF Begins
  <2>2. CASE rcWritten'[u] = rcWritten[u]
    BY <1>2, <2>1, <2>2
  <2>3. CASE rcWritten'[u] # rcWritten[u]
    <3>1. Rc!Stores
      BY <2>3, NotStoring
    <3>2. PICK p \in Nat : rcWritten'[u] = Append(rcWritten[u], p)
      BY <2>1, <2>3, <3>1, Storing
    <3>3. Rc!IsPrefix(output[u], Append(rcWritten[u], p))
      BY <1>1, <2>1, PrefixGrows
    <3> QED
      BY <1>2, <2>1, <3>2, <3>3
  <2> QED
    BY <2>2, <2>3
<1>3. CASE output' # output
  <2>1. Rc!Encodes
    BY <1>3, NotEncoding
  <2>2. /\ output' = [v \in DOMAIN files |-> SubSeq(files[v], pos[v] + 1, Len(files[v]))]
        /\ UNCHANGED rcWritten
    BY <1>3, <2>1 DEF Rc!Encodes, Rc!packet
  <2>3. u \in DOMAIN files /\ output'[u] = SubSeq(files[u], pos[u] + 1, Len(files[u]))
    BY <2>2
  <2>4. /\ u \in Users /\ output'[u] \in Seq(Nat)
        /\ pos[u] = Len(Filed(u)) => output'[u] = << >>
        /\ pos[u] = 0 => output'[u] = Filed(u)
    BY <2>3, Encoding
  <2>5. Rc!IsPrefix(output'[u], rcWritten[u])
    <3>1. Steady(u) \/ Closed(u) \/ Alone(u)
      BY <2>4 DEF Filing
    <3>2. PICK w \in Seq(Nat) : w = rcWritten[u]
      BY <1>1, <2>4
    <3>3. CASE Steady(u)
      <4>1. output'[u] = << >>
        BY <2>4, <3>3 DEF Steady
      <4>2. Rc!IsPrefix(<< >>, w)
        BY PrefixGrows
      <4> QED
        BY <3>2, <4>1, <4>2
    <3>4. CASE Closed(u)
      BY <2>4, <3>4 DEF Closed
    <3>5. CASE Alone(u)
      <4>1. output'[u] = w
        BY <2>4, <3>2, <3>5 DEF Alone
      <4>2. Rc!IsPrefix(w, w)
        BY PrefixGrows
      <4> QED
        BY <3>2, <4>1, <4>2
    <3> QED
      BY <3>1, <3>3, <3>4, <3>5
  <2> QED
    BY <2>2, <2>4, <2>5
<1> QED
  BY <1>2, <1>3

\* All that was written is encoded, unless threads came in each other's way.
LEMMA WholeStep ==
    ASSUME RecordingTypes, Threads, Orderly, Started, Quiet, Flushed, InMemory, AtBeginning, Whole, [Rc!Next]_rcVars
    PROVE  Whole'
<1> SUFFICES ASSUME rcPc'["stop"] = "over", ~raced', writer' # "dead", dir => OneSpeaker', NEW u \in Rc!Speakers'
             PROVE  u \in DOMAIN output' /\ output'[u] = rcWritten'[u]
  <2>1. dir' = dir
    BY CompleteStays
  <2> QED
    BY <2>1 DEF Whole
<1>1. ~raced
  BY RacedStays
<1>2. (complete /\ Ready) \/ rcPc["stop"] = "read"
  <2>1. CASE Rc!Encodes
    BY <2>1 DEF Rc!Encodes, Rc!At
  <2>2. CASE ~Rc!Encodes
    <3>1. rcPc["stop"] = "over"
      BY <2>2, NotEncoding
    <3> QED
      BY <3>1 DEF Ready, Threads
  <2> QED
    BY <2>1, <2>2
<1>3. Ready /\ complete /\ done
  BY <1>1, <1>2 DEF Ready, Threads, Orderly, Finished
<1>4. ~Rc!Stores
  BY <1>1, <1>3, WritesBefore DEF Rc!Stores, Rc!At, Rc!InWrite
<1>5. UNCHANGED rcWritten /\ Rc!Speakers' = Rc!Speakers
  BY <1>4, NotStoring
<1>6. dir => OneSpeaker
  BY <1>5 DEF OneSpeaker
<1>7. writer # "dead"
  <2>1. CASE dir
    BY <2>1, WriterSteps
  <2>2. CASE ~dir
    BY <2>2 DEF Threads
  <2> QED
    BY <2>1, <2>2
<1>8. CASE Rc!Encodes
  <2>1. output' = [v \in DOMAIN files |-> SubSeq(files[v], pos[v] + 1, Len(files[v]))]
    <3>1. rcPc \in [{"rec", "stop"} -> RecPlaces \cup StopPlaces]
      BY DEF RecordingTypes, ThreadTypes
    <3>2. ~Rc!Goes("stop", "failed")
      BY <3>1 DEF Rc!Goes
    <3> QED
      BY <1>8, <3>2 DEF Rc!Encodes
  <2>2. u \in Users /\ rcWritten[u] # << >> /\ pos[u] = 0
    <3>1. u \in Users /\ rcWritten[u] # << >>
      BY <1>5 DEF Rc!Speakers
    <3> QED
      BY <1>1, <1>3, <3>1 DEF AtBeginning
  <2>3. Filed(u) = rcWritten[u]
    <3>1. CASE dir
      <4>1. writer \in {"new", "over"}
        BY <1>1, <1>3, <1>7, <3>1 DEF Quiet
      <4>2. writer # "new"
        BY <2>2, <3>1 DEF Started
      <4> QED
        BY <1>1, <1>6, <2>2, <3>1, <4>1, <4>2 DEF Flushed
    <3>2. CASE ~dir
      BY <1>1, <2>2, <3>2 DEF InMemory
    <3> QED
      BY <3>1, <3>2
  <2>4. u \in DOMAIN files
    BY <2>2, <2>3 DEF Filed, Rc!Of
  <2>5. SubSeq(files[u], pos[u] + 1, Len(files[u])) = Filed(u)
    BY <2>2, <2>4, Encoding
  <2> QED
    BY <1>5, <2>1, <2>3, <2>4, <2>5
<1>9. CASE ~Rc!Encodes
  <2>1. UNCHANGED output /\ rcPc["stop"] = "over"
    BY <1>9, NotEncoding
  <2>2. u \in DOMAIN output /\ output[u] = rcWritten[u]
    BY <1>1, <1>5, <1>6, <1>7, <2>1 DEF Whole
  <2> QED
    BY <1>5, <2>1, <2>2
<1> QED
  BY <1>8, <1>9

-----------------------------------------------------------------------------
RecordingInv ==
    /\ RecordingTypes /\ Threads /\ Orderly
    /\ Started /\ DoneLate /\ Filing
    /\ Quiet /\ Flushed /\ InMemory /\ AtBeginning
    /\ Begins /\ Whole

\* Nothing is stored at first.
LEMMA RecordingAtFirst == Rc!Init => RecordingInv
<1> SUFFICES ASSUME Rc!Init
             PROVE  RecordingInv
  OBVIOUS
<1>1. RecordingTypes /\ Threads /\ Orderly
  BY RecordingTypedAtFirst, ThreadsAtFirst
<1>2. \A u \in Users : /\ Filed(u) = << >> /\ Buffered(u) = << >> /\ rcWritten[u] = << >> /\ pos[u] = 0
  BY DEF Rc!Init, Filed, Buffered, Rc!Of
<1>3. Len(<< >>) = 0 /\ << >> \o << >> = << >>
  OBVIOUS
<1>4. Started
  BY <1>2 DEF Rc!Init, Started
<1>5. DoneLate /\ Quiet
  BY DEF Rc!Init, DoneLate, Quiet
<1>6. Filing
  BY <1>2, <1>3 DEF Filing, Steady
<1>7. Flushed /\ InMemory
  BY <1>2, <1>3 DEF Flushed, InMemory
<1>8. AtBeginning
  BY <1>2 DEF AtBeginning
<1>9. Begins /\ Whole
  BY DEF Rc!Init, Begins, Whole
<1> QED
  BY <1>1, <1>4, <1>5, <1>6, <1>7, <1>8, <1>9 DEF RecordingInv

\* A step of any of the three threads keeps the invariant.
LEMMA RecordingInvStep == RecordingInv /\ [Rc!Next]_rcVars => RecordingInv'
<1> SUFFICES ASSUME RecordingInv, [Rc!Next]_rcVars
             PROVE  RecordingInv'
  OBVIOUS
<1>1. /\ RecordingTypes /\ Threads /\ Orderly /\ Started /\ DoneLate /\ Filing
      /\ Quiet /\ Flushed /\ InMemory /\ AtBeginning /\ Begins /\ Whole
  BY DEF RecordingInv
<1>2. RecordingTypes'
  BY <1>1, StoredTypesKept, ThreadTypesKept DEF RecordingTypes
<1>3. Threads' /\ Orderly'
  BY <1>1, ThreadsStep, OrderlyStep
<1>4. Started' /\ DoneLate' /\ Filing'
  BY <1>1, StartedStep, DoneLateStep, FilingStep
<1>5. Quiet' /\ Flushed' /\ InMemory' /\ AtBeginning'
  BY <1>1, QuietStep, FlushedStep, InMemoryStep, AtBeginningStep
<1>6. Begins' /\ Whole'
  BY <1>1, BeginsStep, WholeStep
<1> QED
  BY <1>2, <1>3, <1>4, <1>5, <1>6 DEF RecordingInv

\* The recording's variables keep their first values while another part runs.
LEMMA RecordingHolds == Spec => []RecordingInv
<1>1. Init => RecordingInv
  BY RecordingAtFirst DEF Init
<1>2. RecordingInv /\ [Next]_vars => RecordingInv'
  BY RecordingInvStep, RecordingStep
<1> QED
  BY <1>1, <1>2, PTL DEF Spec

\* TypeOK of Recording: who has a buffer has a file, and no file stands behind its end.
THEOREM RecordingTypesKept == Spec => []Rc!TypeOK
<1>1. RecordingInv => Rc!TypeOK
  BY DEF RecordingInv, RecordingTypes, StoredTypes, Filed, Rc!TypeOK
<1> QED
  BY <1>1, RecordingHolds, PTL

\* With an output directory what is encoded of a user is the beginning of what write() took, and
\* all of it unless threads came in each other's way.
THEOREM RecordingIsKept == Spec => []RecordingKept
<1>1. RecordingInv => RecordingKept
  <2> SUFFICES ASSUME RecordingInv
               PROVE  Rc!RecordingKept
    BY DEF RecordingKept
  <2>1. dir => \A u \in DOMAIN output : Rc!IsPrefix(output[u], rcWritten[u])
    BY DEF RecordingInv, Begins
  <2>2. Rc!At("stop", "over") /\ ~raced /\ writer # "dead" /\ (dir => Cardinality(Rc!Speakers) < 2) =>
            \A u \in Rc!Speakers : u \in DOMAIN output /\ output[u] = rcWritten[u]
    BY DEF RecordingInv, Whole, OneSpeaker, Rc!At
  <2> QED
    BY <2>1, <2>2, SameCount DEF Rc!RecordingKept
<1> QED
  BY <1>1, RecordingHolds, PTL
-----------------------------------------------------------------------------
(* Nobody waits in vain *)

\* The read-ahead thread is on its way from the first read on until it has said so.
WakeInv ==
    /\ Pb!WakesUp
    /\ reader = "off" => ffmpeg = "none"
    /\ reader = "done" => initialised

\* Whatever sets an event that a sleeping player waits for goes on to notify.
LEMMA WakeInvKept == WakeInv /\ [Pb!Next]_pbVars => WakeInv'
<1> SUFFICES ASSUME WakeInv, [Pb!Next]_pbVars
             PROVE  WakeInv'
  OBVIOUS
<1> USE DEF WakeInv, Pb!WakesUp, Pb!IsSet, Pb!source, Pb!ahead, Pb!control, Pb!thread
<1>1. CASE Pb!Loop \/ Pb!Decides
  BY <1>1 DEF Pb!Loop, Pb!Decides
<1>2. CASE Pb!Waits
  BY <1>2 DEF Pb!Waits
<1>3. CASE Pb!StartsFfmpeg
  BY <1>3 DEF Pb!StartsFfmpeg
<1>4. CASE Pb!Reads \/ Pb!Ends
  BY <1>4 DEF Pb!Reads, Pb!Ends
<1>5. CASE Pb!Writes \/ Pb!Exits
  BY <1>5 DEF Pb!Writes, Pb!Exits
<1>6. CASE Pb!Reader
  BY <1>6 DEF Pb!Reader, Pb!ReaderChecks, Pb!ReaderReads, Pb!extend
<1>7. CASE Pb!Notified \/ Pb!play
  BY <1>7 DEF Pb!Notified, Pb!Woken, Pb!play
<1>8. CASE Pb!pause \/ Pb!resume \/ Pb!stop
  BY <1>8 DEF Pb!pause, Pb!resume, Pb!stop
<1>9. CASE Pb!ReadyCleared \/ Pb!ReadySet
  BY <1>9 DEF Pb!ReadyCleared, Pb!ReadySet
<1>10. CASE UNCHANGED pbVars
  BY <1>10 DEF pbVars
<1> QED
  BY <1>1, <1>2, <1>3, <1>4, <1>5, <1>6, <1>7, <1>8, <1>9, <1>10 DEF Pb!Next, Pb!Player

\* Player.run looks and goes to sleep in one step of the condition's lock: no wake-up is lost.
LEMMA PlayerWakes == Spec => []Pb!WakesUp
<1>1. Init => WakeInv
  BY DEF Init, Pb!Init, WakeInv, Pb!WakesUp
<1>2. WakeInv /\ [Next]_vars => WakeInv'
  BY PlaybackStep, WakeInvKept
<1>3. WakeInv => Pb!WakesUp
  BY DEF WakeInv
<1> QED
  BY <1>1, <1>2, <1>3, PTL DEF Spec

\* A thread comes to wait only for a writer that lives, which ends with done.
LEMMA WriterAwaited ==
    RecordingTypes /\ Threads /\ Rc!WaitsForWriter /\ [Rc!Next]_rcVars => Rc!WaitsForWriter'
<1> SUFFICES ASSUME RecordingTypes, Threads, Rc!WaitsForWriter, [Rc!Next]_rcVars
             PROVE  Rc!WaitsForWriter'
  OBVIOUS
<1> USE DEF Rc!WaitsForWriter, Rc!Goes, Rc!At
<1>1. /\ rcPc \in [{"rec", "stop"} -> RecPlaces \cup StopPlaces]
      /\ writer \in {"new", "top", "turn", "flush", "over", "dead"}
      /\ rcPc["stop"] \notin {"off", "cleanup"} => complete
  BY DEF RecordingTypes, ThreadTypes, Threads
<1>2. CASE Rc!Looks \/ Rc!Receives \/ Rc!Checks \/ Rc!Opens \/ Rc!Stores
  BY <1>1, <1>2 DEF Rc!Looks, Rc!Receives, Rc!Checks, Rc!Opens, Rc!Stores, Rc!events, Rc!loop
<1>3. CASE Rc!Starts
  BY <1>1, <1>3 DEF Rc!Starts, Rc!events
<1>4. CASE Rc!Turn
  BY <1>1, <1>4 DEF Rc!Turn, Rc!events
<1>5. CASE Rc!Moves
  BY <1>1, <1>5 DEF Rc!Moves, Rc!events
<1>6. CASE Rc!Flushes
  BY <1>1, <1>6 DEF Rc!Flushes
<1>7. CASE Rc!stop_recording \/ Rc!Encodes
  BY <1>1, <1>7 DEF Rc!stop_recording, Rc!Encodes, Rc!events, Rc!loop
<1>8. CASE Rc!encode_audio
  BY <1>1, <1>8 DEF Rc!encode_audio, Rc!Alive, Rc!loop
<1>9. ASSUME NEW t \in {"rec", "stop"}, Rc!Cleans(t) \/ Rc!Waits(t) \/ Rc!Seeks(t)
      PROVE  Rc!WaitsForWriter'
  <2>1. CASE Rc!Cleans(t)
    BY <1>1, <2>1 DEF Rc!Cleans, Rc!After, Rc!Alive, Rc!loop
  <2>2. CASE Rc!Waits(t)
    BY <1>1, <2>2 DEF Rc!Waits, Rc!events, Rc!loop
  <2>3. CASE Rc!Seeks(t)
    BY <1>1, <2>3 DEF Rc!Seeks, Rc!After, Rc!events, Rc!loop
  <2> QED
    BY <1>9, <2>1, <2>2, <2>3
<1>10. CASE UNCHANGED rcVars
  BY <1>10 DEF rcVars
<1> QED
  BY <1>2, <1>3, <1>4, <1>5, <1>6, <1>7, <1>8, <1>9, <1>10, RecordingSteps

\* Whoever waits for done_recording, in cleanup or in encode_audio, is told or the writer has died.
LEMMA WriterTells == Spec => []Rc!WaitsForWriter
<1>1. Init => Rc!WaitsForWriter
  BY DEF Init, Rc!Init, Rc!WaitsForWriter
<1>2. RecordingInv /\ Rc!WaitsForWriter /\ [Next]_vars => Rc!WaitsForWriter'
  BY RecordingStep, WriterAwaited DEF RecordingInv
<1> QED
  BY <1>1, <1>2, RecordingHolds, PTL DEF Spec
=============================================================================

------------------------------ MODULE Playback ------------------------------
(***************************************************************************)
(* One Player thread (Interfluxer/api/voice/player.py) with the Audio it   *)
(* plays (api/voice/audio.py): ffmpeg writes frames into a pipe, the       *)
(* read-ahead thread moves them into the AudioBuffer, the player takes     *)
(* them out and sends them.  The event loop pauses, resumes and stops the  *)
(* player, and the voice gateway clears and sets ready.                    *)
(*                                                                         *)
(* read(3840) of the read-ahead thread is one frame of 20 ms, so the       *)
(* buffer holds whole frames; the padding of a last, short one is left     *)
(* out, and so is the pacing of the player.                                *)
(***************************************************************************)
EXTENDS Naturals, Sequences, FiniteSets

CONSTANTS
    Frames,      \* frames of the source
    PipeSize,    \* frames the pipe of ffmpeg holds
    BufferMax,   \* Audio._max_buffer_size, in frames
    Locked,      \* Audio.locked_stream
    None,
    MaxCalls     \* bound: calls of pause, resume and stop, and losses of the connection

NumbersAssumption == Frames \in Nat /\ PipeSize \in Nat \ {0} /\ BufferMax \in Nat \ {0}
NoneAssumption == None \notin 1..Frames

VARIABLES
    ffmpeg,      \* "none", "running", "exited"
    written,     \* frames ffmpeg wrote into the pipe
    reader,      \* the read-ahead thread: "off", "check", "read", "holds", "done"
    taken,       \* frames it took out of the pipe
    buffer,      \* AudioBuffer
    initialised,
    player,      \* "new", "loop", "wait", "asleep", "read", "decide", "ending", "over"
    waitFor,     \* what the player waits for
    got,         \* the frame in its hands
    played,      \* the frames it sent
    ready, resumed, stopping,   \* VoiceGateway.ready, Player._resume, _stop_event
    notify,      \* a notify of the condition that is still to come
    sincePause,  \* history: packets sent while paused; two are as many as one needs to count
    calls        \* bound: calls so far

source == <<ffmpeg, written>>
ahead == <<reader, taken, initialised>>
control == <<ready, resumed, stopping, notify, calls>>
thread == <<player, waitFor, got, played, sincePause>>
vars == <<source, ahead, buffer, control, thread>>

-----------------------------------------------------------------------------
\* ffmpeg

Writes ==
    /\ ffmpeg = "running" /\ written < Frames /\ written - taken < PipeSize
    /\ written' = written + 1
    /\ UNCHANGED <<ffmpeg, ahead, buffer, control, thread>>

Exits ==
    /\ ffmpeg = "running" /\ written = Frames
    /\ ffmpeg' = "exited"
    /\ UNCHANGED <<written, ahead, buffer, control, thread>>

-----------------------------------------------------------------------------
\* Audio._read_ahead

ReaderChecks ==
    /\ reader = "check"
    /\ \/ ffmpeg = "exited" /\ reader' = "done" /\ initialised' = TRUE
       \/ ffmpeg # "exited" /\ Len(buffer) < BufferMax /\ reader' = "read" /\ UNCHANGED initialised
       \/ ffmpeg # "exited" /\ Len(buffer) >= BufferMax /\ initialised' = TRUE /\ UNCHANGED reader
    /\ UNCHANGED <<taken, source, buffer, control, thread>>

\* process.stdout.read: a frame, or nothing at the end of the pipe.
ReaderReads ==
    /\ reader = "read"
    /\ \/ taken < written /\ taken' = taken + 1 /\ reader' = "holds"
       \/ taken = written /\ ffmpeg = "exited" /\ reader' = "check" /\ UNCHANGED taken
    /\ UNCHANGED <<initialised, source, buffer, control, thread>>

extend ==
    /\ reader = "holds"
    /\ buffer' = Append(buffer, taken)
    /\ reader' = "check"
    /\ UNCHANGED <<taken, initialised, source, control, thread>>

-----------------------------------------------------------------------------
\* Player.run

\* The top of the loop: the events to wait for are chosen here.
Loop ==
    /\ player = "loop"
    /\ \/ stopping /\ player' = "ending" /\ UNCHANGED waitFor
       \/ ~stopping /\ ready /\ resumed /\ player' = "read" /\ UNCHANGED waitFor
       \/ /\ ~stopping /\ ~(ready /\ resumed)
          /\ waitFor' = (IF ready THEN {} ELSE {"ready"}) \cup (IF resumed THEN {} ELSE {"resumed"})
          /\ player' = "wait"
    /\ UNCHANGED <<got, played, sincePause, source, ahead, buffer, control>>

IsSet(x) == IF x = "ready" THEN ready ELSE resumed

\* Mutant: any(), not all().
WaitsForAny ==
    /\ player = "wait"
    /\ player' = IF stopping THEN "loop" ELSE IF \E x \in waitFor : IsSet(x) THEN "read" ELSE "asleep"
    /\ UNCHANGED <<waitFor, got, played, sincePause, source, ahead, buffer, control>>

\* Under the condition's lock: look, and sleep if there is nothing to wake up for.
Waits ==
    /\ player = "wait"
    /\ player' = IF stopping THEN "loop" ELSE IF \A x \in waitFor : IsSet(x) THEN "read" ELSE "asleep"
    /\ UNCHANGED <<waitFor, got, played, sincePause, source, ahead, buffer, control>>

Woken == notify /\ notify' = FALSE /\ player' = IF player = "asleep" THEN "wait" ELSE player

\* Audio.read: the first one starts ffmpeg and the read-ahead thread, every one waits for initialised.
StartsFfmpeg ==
    /\ player = "read" /\ ffmpeg = "none"
    /\ ffmpeg' = "running" /\ reader' = "check"
    /\ UNCHANGED <<written, taken, initialised, buffer, control, thread>>

\* Mutant: what was read stays in the buffer.
ReadsACopy ==
    /\ player = "read" /\ ffmpeg # "none" /\ initialised
    /\ got' = IF buffer = <<>> THEN None ELSE Head(buffer)
    /\ player' = "decide"
    /\ UNCHANGED <<waitFor, played, sincePause, source, ahead, buffer, control>>

\* AudioBuffer.read.
Reads ==
    /\ player = "read" /\ ffmpeg # "none" /\ initialised
    /\ got' = IF buffer = <<>> THEN None ELSE Head(buffer)
    /\ buffer' = IF buffer = <<>> THEN buffer ELSE Tail(buffer)
    /\ player' = "decide"
    /\ UNCHANGED <<waitFor, played, sincePause, source, ahead, control>>

audio_complete == ffmpeg # "running"

Sent == sincePause' = IF ~resumed /\ sincePause < 2 THEN sincePause + 1 ELSE sincePause

\* A frame, silence while more is expected, or the end.
Decides ==
    /\ player = "decide"
    /\ \/ got # None /\ played' = Append(played, got) /\ Sent /\ player' = "loop"
       \/ /\ got = None /\ (Locked \/ ~audio_complete)
          /\ Sent /\ player' = "loop" /\ UNCHANGED played
       \/ got = None /\ ~Locked /\ audio_complete /\ player' = "ending" /\ UNCHANGED <<played, sincePause>>
    /\ got' = None
    /\ UNCHANGED <<waitFor, source, ahead, buffer, control>>

\* Audio.cleanup, and _stopped.set in the event loop.
Ends ==
    /\ player = "ending"
    /\ player' = "over"
    /\ ffmpeg' = IF ffmpeg = "running" THEN "exited" ELSE ffmpeg
    /\ UNCHANGED <<written, waitFor, got, played, sincePause, ahead, buffer, control>>

-----------------------------------------------------------------------------
\* The event loop

Call == calls < MaxCalls /\ calls' = calls + 1

play ==
    /\ player = "new"
    /\ player' = "loop" /\ stopping' = FALSE /\ resumed' = TRUE
    /\ UNCHANGED <<ready, notify, calls, waitFor, got, played, sincePause, source, ahead, buffer>>

pause ==
    /\ player # "new" /\ Call
    /\ resumed' = FALSE
    /\ sincePause' = 0
    /\ UNCHANGED <<ready, stopping, notify, player, waitFor, got, played, source, ahead, buffer>>

resume ==
    /\ player # "new" /\ Call
    /\ resumed' = TRUE /\ notify' = TRUE /\ sincePause' = 0
    /\ UNCHANGED <<ready, stopping, player, waitFor, got, played, source, ahead, buffer>>

\* Mutant: the condition is not notified.
StopsQuietly ==
    /\ player # "new" /\ Call
    /\ stopping' = TRUE
    /\ UNCHANGED <<ready, resumed, notify, thread, source, ahead, buffer>>

stop ==
    /\ player # "new" /\ Call
    /\ stopping' = TRUE /\ notify' = TRUE
    /\ UNCHANGED <<ready, resumed, thread, source, ahead, buffer>>

Notified == Woken /\ UNCHANGED <<ready, resumed, stopping, calls, waitFor, got, played, sincePause, source, ahead, buffer>>

\* The connection is lost, and a session description sets ready and notifies.
ReadyCleared ==
    /\ ready /\ Call
    /\ ready' = FALSE
    /\ UNCHANGED <<resumed, stopping, notify, thread, source, ahead, buffer>>

ReadySet ==
    /\ ~ready
    /\ ready' = TRUE /\ notify' = TRUE
    /\ UNCHANGED <<resumed, stopping, calls, thread, source, ahead, buffer>>

-----------------------------------------------------------------------------

Init ==
    /\ ffmpeg = "none" /\ written = 0
    /\ reader = "off" /\ taken = 0 /\ buffer = <<>> /\ initialised = FALSE
    /\ player = "new" /\ waitFor = {} /\ got = None /\ played = <<>>
    /\ ready = TRUE /\ resumed = FALSE /\ stopping = FALSE /\ notify = FALSE
    /\ sincePause = 0 /\ calls = 0

Reader == ReaderChecks \/ ReaderReads \/ extend
Player == Loop \/ Waits \/ StartsFfmpeg \/ Reads \/ Decides \/ Ends

Next ==
    \/ Writes \/ Exits
    \/ Reader \/ Player \/ Notified
    \/ play \/ pause \/ resume \/ stop
    \/ ReadyCleared \/ ReadySet

Spec == Init /\ [][Next]_vars

\* The threads run, and a call that set an event goes on to notify.
FairSpec == Spec /\ WF_vars(Reader) /\ WF_vars(Player) /\ WF_vars(Notified)

-----------------------------------------------------------------------------

TypeOK ==
    /\ taken <= written /\ written <= Frames /\ written - taken <= PipeSize
    /\ \A i \in DOMAIN buffer : buffer[i] \in 1..Frames

\* What is sent are the frames of the source in their order, through pipe, read-ahead thread,
\* buffer and player.
Stream == INSTANCE AudioStream WITH over <- player = "over"
StreamKept == Stream!Spec

\* After pause() the player sends at most the packet it had in its hands: Player.run looks at
\* _resume once a packet, and not at all when it was woken by ready.
PauseHolds == ~resumed /\ player # "new" => sincePause <= 1

\* A player that was stopped ends, whatever it is waiting for, once its buffer was initialised;
\* before that it waits for ffmpeg, which may never say a word.
Stopped == stopping /\ initialised
StopEnds == Stopped ~> player = "over"

\* No wake-up of the player is lost: a sleeping one has something to wait for, or a notify is on its
\* way; and the read-ahead thread of one that waits for the first frames is there to get them.
WakesUp ==
    /\ player = "asleep" /\ (stopping \/ \A x \in waitFor : IsSet(x)) => notify
    /\ player = "read" /\ ffmpeg # "none" /\ ~initialised => reader \notin {"off", "done"}

\* audio_complete tells the player "if more audio is expected": a player that ends by itself has
\* played everything.
AllPlayed == player = "over" /\ ~stopping => Len(played) = Frames
=============================================================================

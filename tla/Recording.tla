----------------------------- MODULE Recording -----------------------------
(***************************************************************************)
(* One recording: Recorder (Interfluxer/api/voice/recorder.py) with its    *)
(* AudioWriter (api/voice/audio_writer.py), after start_recording.  The    *)
(* recorder's thread takes packets from the socket and writes them, into   *)
(* memory or, with an output directory, into a buffer per user that        *)
(* _buffer_writer, a thread of its own, moves into files; stop_recording   *)
(* cleans up and encodes in a third thread.                                *)
(*                                                                         *)
(* A packet is its number, and what one read of the buffer takes.  Packets *)
(* of unknown users, silence and codecs are left out.  A recording is      *)
(* stopped once.  Of the two threads that clean up, the first that looks   *)
(* does; that both look first only repeats what it did.  What becomes of a *)
(* file after it was encoded is left out.                                  *)
(***************************************************************************)
EXTENDS Naturals, Sequences, FiniteSets, SequencesExt

CONSTANTS
    Users,         \* users who speak
    None,
    MaxPackets     \* bound: packets that come

VARIABLES
    dir,           \* is there an output directory?
    recording,     \* Recorder.recording
    complete, done,    \* _recording_complete, done_recording
    pc,            \* of the threads "rec" and "stop"
    who,           \* whose packet the recorder has in its hands
    received,      \* packets so far
    writer,        \* buffer_task: "new", "top" of its loop, "turn", "flush", "over", "dead"
    left, size,    \* in a turn: users still to come, and how many there were
    buffers,       \* user -> packets, of those who have a buffer
    files,         \* user -> packets, of those who have a file
    pos,           \* where each file is read or written next
    output,        \* user -> what was encoded
    written,       \* history: user -> packets that write() has taken
    raced          \* history: did the recorder write while, or after, the other thread cleaned up,
                   \* or that one read before the recorder had?

packet == <<who, received, written>>
events == <<recording, complete, done>>
loop == <<writer, left, size>>
data == <<buffers, files, pos>>
vars == <<dir, events, pc, packet, loop, data, output, raced>>

At(t, p) == pc[t] = p
Goes(t, p) == pc' = [pc EXCEPT ![t] = p]
Alive == writer \notin {"new", "over", "dead"}

\* A dictionary's entry for u, or an empty one.
Of(f, u) == IF u \in DOMAIN f THEN f[u] ELSE << >>
Put(f, u, x) == [v \in DOMAIN f \cup {u} |-> IF v = u THEN x ELSE f[v]]

\* A file is written where it stands.
WriteAt(u, p) ==
    /\ files' = Put(files, u, IF pos[u] = Len(Of(files, u)) THEN Append(Of(files, u), p)
                                                           ELSE [files[u] EXCEPT ![pos[u] + 1] = p])
    /\ pos' = [pos EXCEPT ![u] = @ + 1]
Rewound == pos' = [u \in Users |-> 0]

-----------------------------------------------------------------------------
\* The recorder's thread: run, process_data and AudioWriter.write.

Looks ==
    /\ At("rec", "top")
    /\ Goes("rec", IF recording THEN "select" ELSE "cleanup")
    /\ UNCHANGED <<dir, events, packet, loop, data, output, raced>>

Receives ==
    /\ At("rec", "select")
    /\ \/ Goes("rec", "top") /\ UNCHANGED <<who, received>>
       \/ /\ received < MaxPackets
          /\ received' = received + 1 /\ who' \in Users
          /\ Goes("rec", "check")
    /\ UNCHANGED <<dir, events, written, loop, data, output, raced>>

\* The top of write().  What it raises is logged.
Checks ==
    /\ At("rec", "check")
    /\ Goes("rec", IF complete THEN "top" ELSE IF dir THEN "open" ELSE "store")
    /\ UNCHANGED <<dir, events, packet, loop, data, output, raced>>

Opens ==
    /\ At("rec", "open")
    /\ files' = Put(files, who, Of(files, who))
    /\ Goes("rec", "start")
    /\ UNCHANGED <<dir, events, packet, loop, buffers, pos, output, raced>>

\* A thread that has ended cannot be started again, which raises.
Starts ==
    /\ At("rec", "start")
    /\ Goes("rec", IF Alive \/ writer = "new" THEN "store" ELSE "top")
    /\ writer' = IF writer = "new" THEN "top" ELSE writer
    /\ UNCHANGED <<dir, events, packet, left, size, data, output, raced>>

Stores ==
    /\ At("rec", "store")
    /\ written' = [written EXCEPT ![who] = Append(@, received)]
    /\ IF dir THEN buffers' = Put(buffers, who, Append(Of(buffers, who), received)) /\ UNCHANGED <<files, pos>>
              ELSE WriteAt(who, received) /\ UNCHANGED buffers
    /\ Goes("rec", "top")
    /\ UNCHANGED <<dir, events, who, received, loop, output, raced>>

InWrite == pc["rec"] \in {"open", "start", "store"}

\* The dictionary of files may grow while another thread goes through it, which raises there.
Grows == (At("rec", "open") \/ (At("rec", "store") /\ ~dir)) /\ who \notin DOMAIN files

-----------------------------------------------------------------------------
\* _buffer_writer

\* Mutant: what is still in the buffers is left there.
Stays == ~complete

GoesOn == ~complete \/ \A u \in DOMAIN buffers : buffers[u] # << >>

Turn ==
    /\ writer = "top"
    /\ IF GoesOn THEN writer' = "turn" /\ left' = DOMAIN buffers /\ size' = Cardinality(DOMAIN buffers)
                 ELSE writer' = "flush" /\ UNCHANGED <<left, size>>
    /\ UNCHANGED <<dir, events, pc, packet, data, output, raced>>

\* The next user of the turn; a dictionary that has grown meanwhile raises.
Moves ==
    /\ writer = "turn"
    /\ IF size # Cardinality(DOMAIN buffers)
       THEN writer' = "dead" /\ UNCHANGED <<left, data>>
       ELSE \/ left = {} /\ writer' = "top" /\ UNCHANGED <<left, data>>
            \/ \E u \in left :
                /\ left' = left \ {u}
                /\ IF buffers[u] = << >> THEN UNCHANGED data
                   ELSE WriteAt(u, Head(buffers[u])) /\ buffers' = [buffers EXCEPT ![u] = Tail(@)]
                /\ UNCHANGED writer
    /\ UNCHANGED <<dir, events, pc, packet, size, output, raced>>

Flushes ==
    /\ writer = "flush"
    /\ \/ writer' = "over" /\ done' = TRUE /\ Rewound
       \/ Grows /\ writer' = "dead" /\ UNCHANGED <<done, pos>>
    /\ UNCHANGED <<dir, recording, complete, pc, packet, left, size, buffers, files, output, raced>>

_buffer_writer == Turn \/ Moves \/ Flushes

-----------------------------------------------------------------------------
\* cleanup(), which the recorder's thread leaves its loop with and stop_recording begins with.

After(t) == IF t = "rec" THEN "over" ELSE "encode"

Cleans(t) ==
    /\ At(t, "cleanup")
    /\ IF complete
       THEN /\ Goes(t, After(t))
            /\ raced' = (raced \/ (t = "stop" /\ ~At("rec", "over")))
            /\ UNCHANGED <<complete, done>>
       ELSE /\ complete' = TRUE
            /\ raced' = (raced \/ InWrite)
            /\ IF dir /\ Alive THEN Goes(t, "wait") /\ UNCHANGED done
                               ELSE Goes(t, "seek") /\ done' = TRUE
    /\ UNCHANGED <<dir, recording, packet, loop, data, output>>

Waits(t) ==
    /\ pc[t] \in {"wait", "encodes"} /\ done
    /\ Goes(t, IF At(t, "wait") THEN "seek" ELSE "read")
    /\ UNCHANGED <<dir, events, packet, loop, data, output, raced>>

Seeks(t) ==
    /\ At(t, "seek")
    /\ \/ Goes(t, After(t)) /\ Rewound
       \/ t = "stop" /\ Grows /\ Goes(t, "failed") /\ UNCHANGED pos
    /\ UNCHANGED <<dir, events, packet, loop, buffers, files, output, raced>>

cleanup(t) == Cleans(t) \/ Waits(t) \/ Seeks(t)

Rec == Looks \/ Receives \/ Checks \/ Opens \/ Starts \/ Stores \/ cleanup("rec")

-----------------------------------------------------------------------------
\* stop_recording

stop_recording ==
    /\ At("stop", "off")
    /\ recording' = FALSE
    /\ Goes("stop", "cleanup")
    /\ UNCHANGED <<dir, complete, done, packet, loop, data, output, raced>>

encode_audio ==
    /\ At("stop", "encode")
    /\ IF dir /\ Alive THEN Goes("stop", "encodes") /\ UNCHANGED done
                       ELSE Goes("stop", "read") /\ done' = TRUE
    /\ UNCHANGED <<dir, recording, complete, packet, loop, data, output, raced>>

\* Each file is read from where it stands, encoded and replaced.
Encodes ==
    /\ At("stop", "read")
    /\ \/ /\ Goes("stop", "over")
          /\ output' = [u \in DOMAIN files |-> SubSeq(files[u], pos[u] + 1, Len(files[u]))]
       \/ Grows /\ Goes("stop", "failed") /\ UNCHANGED output
    /\ UNCHANGED <<dir, events, packet, loop, data, raced>>

Stop == cleanup("stop") \/ encode_audio \/ Encodes

-----------------------------------------------------------------------------

Init ==
    /\ dir \in BOOLEAN
    /\ recording = TRUE /\ complete = FALSE /\ done = FALSE
    /\ pc = [t \in {"rec", "stop"} |-> IF t = "rec" THEN "top" ELSE "off"]
    /\ who = None /\ received = 0
    /\ writer = "new" /\ left = {} /\ size = 0
    /\ buffers = << >> /\ files = << >> /\ pos = [u \in Users |-> 0] /\ output = << >>
    /\ written = [u \in Users |-> << >>] /\ raced = FALSE

Next == Rec \/ _buffer_writer \/ stop_recording \/ Stop

Spec == Init /\ [][Next]_vars

\* The threads run.
FairSpec == Spec /\ WF_vars(Rec) /\ WF_vars(_buffer_writer) /\ WF_vars(Stop)

-----------------------------------------------------------------------------

TypeOK ==
    /\ DOMAIN files \subseteq Users /\ DOMAIN buffers \subseteq DOMAIN files
    /\ \A u \in Users : pos[u] \in 0 .. Len(Of(files, u))

Speakers == {u \in Users : written[u] # << >>}

\* With an output directory what is encoded of a user is the beginning of what write() took of
\* that user, in its order, whatever the three threads do to each other.  And all of it is
\* encoded, unless threads came in each other's way: the cleaning thread a recorder that was
\* about to write, the encoding one a recorder that had still to rewind, or the recorder a
\* writer whose dictionary it made grow.  (With two users there is no such promise: the
\* writer goes on only while no buffer is empty.)
RecordingKept ==
    /\ dir => \A u \in DOMAIN output : IsPrefix(output[u], written[u])
    /\ At("stop", "over") /\ ~raced /\ writer # "dead" /\ (dir => Cardinality(Speakers) < 2) =>
           \A u \in Speakers : u \in DOMAIN output /\ output[u] = written[u]

\* A thread that waits for done_recording has told the writer to stop, and the writer has still to
\* say that it did, or has died.
WaitsForWriter == \A t \in {"rec", "stop"} :
    pc[t] \in {"wait", "encodes"} /\ ~done => complete /\ writer \notin {"new", "over"}

Stopping == pc["stop"] \notin {"off", "over", "failed"}

\* stop_recording comes back, whichever of the threads cleans up, unless the writer has died.
Back == ~Stopping \/ writer = "dead"

\* audio_writer.py:47 says of done_recording: "set when the recording is done, and all buffers
\* are empty".  Not so with two users, one of whom had nothing left to be written.
DoneMeansEmpty == writer = "over" => \A u \in DOMAIN buffers : buffers[u] = << >>
=============================================================================

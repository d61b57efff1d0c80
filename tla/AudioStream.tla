---------------------------- MODULE AudioStream ----------------------------
(***************************************************************************)
(* What a player promises of an audio: its frames are sent in the order of *)
(* the source, none twice and none left out between two that are sent, and *)
(* none once the player is over.  Playback implements this.                *)
(***************************************************************************)
EXTENDS Naturals, Sequences

CONSTANT Frames     \* frames of the source

VARIABLES
    played,    \* the frames that were sent
    over       \* whether the player has ended

Init == played = <<>> /\ over = FALSE

Send ==
    /\ ~over /\ Len(played) < Frames
    /\ played' = Append(played, Len(played) + 1)
    /\ UNCHANGED over

End == over' = TRUE /\ UNCHANGED played

Next == Send \/ End

Spec == Init /\ [][Next]_<<played, over>>
=============================================================================

---------------------------- MODULE MCLiveParts ----------------------------
(* The instance of LiveParts that is checked: what its cfg files cannot say. *)
EXTENDS LiveParts, Samples

HomeOf == [g \in {"g0", "g1"} |-> IF g = "g0" THEN 0 ELSE 1]
=============================================================================

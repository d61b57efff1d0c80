---------------------------- MODULE MCRateLimit ----------------------------
(* Instances of RateLimit for TLC: what the server of each run answers. *)
EXTENDS RateLimit

All == AllStatuses
Retried == {"ok", "server"}
=============================================================================

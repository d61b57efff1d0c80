----------------------------- MODULE MCGateway -----------------------------
(* Instances of Gateway for TLC. *)
EXTENDS Gateway

\* Everything about a connection that can go wrong, for the sockets.
Troubles == {"HEARTBEAT", "RECONNECT", "ZOMBIE", "DROP", "CLOSE", "CLOSE_FATAL", "FAIL", "H500"}
\* Sessions end and are resumed, and messages come in parts.
Sessions == {"PART", "INVALIDATE", "CLOSE", "CLOSE_NEW", "DROP"}
\* What a stop() and a heartbeater have to cope with.
Stopping == {"ZOMBIE", "RECONNECT", "H500"}
\* The network and the server are well.
Quiet == {}
=============================================================================

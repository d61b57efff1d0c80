---------------------------- MODULE GuildChunks ----------------------------
(***************************************************************************)
(* The members of one guild that come in chunks: Guild.gateway_chunk,      *)
(* process_member_chunk and http_chunk (models/external/guild.py), with    *)
(* GatewayClient.request_member_chunks.                                    *)
(*                                                                         *)
(* A request asks for all members; its answers come one after the other    *)
(* until the connection is lost, and those of several requests in any      *)
(* order among each other.  The last chunk is worked off member by member, *)
(* and the handler yields whenever that has taken 50 ms.                   *)
(***************************************************************************)
EXTENDS Naturals, Sequences, SequencesExt

CONSTANTS
    Chunks,       \* the members of the guild, chunk by chunk
    None,
    MaxRequests   \* bound: requests

VARIABLES
    next,       \* request -> the chunk that comes next, None when no more do
    buffer,     \* Guild._chunk_cache
    handlers,   \* the calls of process_member_chunk that have yielded: the members left to place
    listing,    \* http_chunk: the chunk of the list that comes next, None when it is not running
    placed,     \* the members in the cache
    chunked     \* Guild.chunked

vars == <<next, buffer, handlers, listing, placed, chunked>>

Members == UNION {ToSet(Chunks[i]) : i \in DOMAIN Chunks}

ChunksAssumption == Chunks \in Seq(Seq(Members)) \ {<<>>} /\ None \notin Nat

-----------------------------------------------------------------------------

gateway_chunk ==
    /\ Len(next) < MaxRequests
    /\ next' = Append(next, 1)
    /\ UNCHANGED <<buffer, handlers, listing, placed, chunked>>

\* The members left are placed: up to one after which the handler yields, or all of them.
Places(members, others) ==
    \/ \E n \in DOMAIN members :
        /\ placed' = placed \cup ToSet(SubSeq(members, 1, n))
        /\ handlers' = Append(others, SubSeq(members, n + 1, Len(members)))
    \/ placed' = placed \cup ToSet(members) /\ handlers' = others

\* Mutant: only the last chunk is kept.
KeepsLast(chunk) == chunk

Collected(chunk) == buffer \o chunk

\* A chunk that is not the last is put into the buffer; the last one has its members placed, the
\* buffer emptied and whoever waits woken.
process_member_chunk(r) ==
    /\ next[r] # None
    /\ LET members == Collected(Chunks[next[r]])
           last == next[r] = Len(Chunks)
       IN  /\ next' = [next EXCEPT ![r] = IF last THEN None ELSE @ + 1]
           /\ \/ ~last /\ buffer' = members /\ chunked' = FALSE /\ UNCHANGED <<handlers, placed>>
              \/ last /\ Places(members, handlers)
                 /\ chunked' = (Len(handlers') = Len(handlers))
                 /\ buffer' = IF chunked' THEN <<>> ELSE members
    /\ UNCHANGED listing

\* A handler that yielded goes on.
GoesOn(i) ==
    /\ Places(handlers[i], RemoveAt(handlers, i))
    /\ chunked' = (chunked \/ Len(handlers') < Len(handlers))
    /\ buffer' = IF Len(handlers') < Len(handlers) THEN <<>> ELSE buffer
    /\ UNCHANGED <<next, listing>>

\* http_chunk: a list of members after the other is fetched and placed.
http_chunk ==
    /\ listing = None
    /\ listing' = 1
    /\ UNCHANGED <<next, buffer, handlers, placed, chunked>>

Listed ==
    /\ listing # None
    /\ \/ /\ placed' = placed \cup ToSet(Chunks[listing])
          /\ listing' = IF listing = Len(Chunks) THEN None ELSE listing + 1
          /\ chunked' = (chunked \/ listing = Len(Chunks))
       \/ listing' = None /\ UNCHANGED <<placed, chunked>>
    /\ UNCHANGED <<next, buffer, handlers>>

\* The session is lost, and with it the chunks that have not come.
SessionLost ==
    /\ \E r \in DOMAIN next : next[r] # None
    /\ next' = [r \in DOMAIN next |-> None]
    /\ UNCHANGED <<buffer, handlers, listing, placed, chunked>>

Init ==
    /\ next = <<>> /\ buffer = <<>> /\ handlers = <<>> /\ listing = None
    /\ placed = {} /\ chunked = FALSE

Next ==
    \/ gateway_chunk \/ http_chunk \/ Listed \/ SessionLost
    \/ \E r \in DOMAIN next : process_member_chunk(r)
    \/ \E i \in DOMAIN handlers : GoesOn(i)

Spec == Init /\ [][Next]_vars

-----------------------------------------------------------------------------

TypeOK ==
    /\ next \in Seq(DOMAIN Chunks \cup {None}) /\ listing \in DOMAIN Chunks \cup {None}
    /\ buffer \in Seq(Members) /\ handlers \in Seq(Seq(Members))
    /\ placed \subseteq Members /\ chunked \in BOOLEAN

\* A guild that says it is chunked has all its members in the cache: whichever requests mix their
\* chunks in the one buffer, empty it under each other or break off, and however often the
\* handlers yield.
ChunkedMeansAll == chunked => placed = Members
=============================================================================

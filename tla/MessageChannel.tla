--------------------------- MODULE MessageChannel ---------------------------
(***************************************************************************)
(* What a chunk connection promises to the two applications at its ends:   *)
(* every chunk stream is a queue of whole messages.  Chunks, headers,      *)
(* buffers and chunk sizes are not seen here.                              *)
(***************************************************************************)
EXTENDS Sequences

CONSTANTS
    ChunkStream,    \* the chunk streams of the applications
    Message         \* what an application can send on one

VARIABLES
    queue,          \* per chunk stream: accepted and not yet delivered
    delivered       \* per chunk stream: delivered, in this order

vars == <<queue, delivered>>

Init ==
    /\ queue = [cs \in ChunkStream |-> <<>>]
    /\ delivered = [cs \in ChunkStream |-> <<>>]

\* rtmp_chunk_conn_send_message has taken all of a message.
Accept(cs) ==
    /\ \E m \in Message : queue' = [queue EXCEPT ![cs] = Append(@, m)]
    /\ UNCHANGED delivered

\* The chunk callback has been given the last byte of a message.
Hand(cs) ==
    /\ queue[cs] # <<>>
    /\ queue' = [queue EXCEPT ![cs] = Tail(@)]
    /\ delivered' = [delivered EXCEPT ![cs] = Append(@, Head(queue[cs]))]

Next == \E cs \in ChunkStream : Accept(cs) \/ Hand(cs)

Spec == Init /\ [][Next]_vars /\ \A cs \in ChunkStream : WF_vars(Hand(cs))
=============================================================================

----------------------------- MODULE Reception ------------------------------
(***************************************************************************)
(* From chunks to messages: the header cache that remembers the message in *)
(* progress on each chunk stream (rtmp_chunk_cache), the part of the       *)
(* service loop that counts what is still to come, and the assembler that  *)
(* collects the chunks of a message and hands it to the stream in one      *)
(* piece where its buffer is large enough.                                 *)
(*                                                                         *)
(* The peer interleaves the chunks of messages on several chunk streams    *)
(* and may abort one between two chunks.  The first chunk of a message     *)
(* carries length and message stream, the others carry neither             *)
(* (ChunkTransfer has the compression and the bytes of headers).           *)
(***************************************************************************)
EXTENDS Integers, Sequences, FiniteSets, FiniteSetsExt, SequencesExt

CONSTANTS
    Ids,          \* chunk streams in use
    StaticSize,   \* RTMP_STREAM_STATIC_CACHE_SIZE
    DynamicMax,   \* RTMP_STREAM_CACHE_MAX
    Residue,      \* what memory fresh from realloc may hold
    Sids,         \* message streams
    Lengths,      \* bound: lengths of messages
    ChunkSize,    \* the peer's chunk size
    BufferSize,   \* RTMP_MAX_CHUNK_CACHE, the size of an assembly buffer
    Hard,         \* RTMP_MAX_ASM_HARD_BUFFER
    Soft,         \* RTMP_MAX_ASM_SOFT_BUFFER
    MaxMessages,  \* bound: messages the peer begins
    Verdicts      \* what the stream's callback may return

ASSUME ReceptionAssumption ==
    /\ Ids \subseteq Nat \ {0, 1} /\ Sids \subseteq Nat
    /\ Lengths \subseteq Nat \ {0}
    /\ {ChunkSize, BufferSize} \subseteq Nat \ {0}
    /\ {StaticSize, DynamicMax, Hard, Soft, MaxMessages} \subseteq Nat
    /\ "continue" \in Verdicts /\ Verdicts \subseteq {"continue", "error", "abort"}

VARIABLES
    peer,       \* per chunk stream: the message the peer sends, and how much of it
                \* has been received
    begun,      \* how many messages the peer began
    static,     \* static_cache
    dynamic,    \* dynamic_cache
    partial,    \* partial_chunk and partial_msg: a chunk that has not all arrived
    buffers,    \* the assembler's buffers
    aligned,    \* the next byte is what the service loop takes it for
    open,       \* not given up
    heard       \* history, per chunk stream: what the stream's callback was given
                \* of the peer's message

vars == <<peer, begun, static, dynamic, partial, buffers, aligned, open, heard>>

Entry(id) == [id |-> id, len |-> 0, sid |-> 0, processed |-> 0]
NoMessage == [odd |-> FALSE, sid |-> 0, len |-> 0, at |-> 0]
NoChunk == [id |-> 0, left |-> 0]
Underway(c) == peer[c].at < peer[c].len

Init ==
    /\ peer = [c \in Ids |-> NoMessage] /\ begun = 0
    /\ static = [i \in 0..(StaticSize - 1) |-> Entry(i)]
    /\ dynamic = <<>>
    /\ partial = NoChunk /\ buffers = <<>>
    /\ aligned = TRUE /\ open = TRUE
    /\ heard = [c \in Ids |-> <<>>]
-----------------------------------------------------------------------------
(* The cache. *)

\* alg_search_bin: the index, from 0, that was looked at last.
Search(entries, id) ==
    LET look[b \in (0..Len(entries)) \X (0..Len(entries)) \X (0..Len(entries))] ==
          LET lower == b[1]
              upper == b[2]
              mid == lower + (upper - lower) \div 2
          IN  IF lower >= upper THEN b[3]
              ELSE IF id < entries[mid + 1].id THEN look[<<lower, mid, mid>>]
              ELSE IF id > entries[mid + 1].id THEN look[<<mid + 1, upper, mid>>]
              ELSE mid
    IN  look[<<0, Len(entries), 0>>]

\* rtmp_cache_insert where something lies behind the new element: memmove is
\* given a count of elements for a count of bytes, so that no more than the id
\* of one element moves and the last element is whatever the memory held.
Squeezed(entries, i, id, junk) ==
    LET grown == Append(entries, junk)
    IN  [grown EXCEPT ![i + 1] = Entry(id), ![i + 2].id = entries[i + 1].id]

Inserted(entries, i, id) ==
    IF i = Len(entries) THEN {Append(entries, Entry(id))}
    ELSE {Squeezed(entries, i, id, junk) : junk \in Residue}

\* rtmp_cache_get: the dynamic part afterwards and where in it the entry lies that
\* the returned pointer is to (0: in the static part); no value when there is no
\* room.  The pointer is kept by the caller, who does not search again with it.
Get(entries, id) ==
    LET i == Search(entries, id)
    IN  IF id < StaticSize THEN {[entries |-> entries, at |-> 0]}
        ELSE IF i < Len(entries) /\ entries[i + 1].id = id
        THEN {[entries |-> entries, at |-> i + 1]}
        ELSE IF Len(entries) >= DynamicMax THEN {}
        ELSE {[entries |-> grown, at |-> i + 1] : grown \in Inserted(entries, i, id)}

\* The entry a pointer that was got for chunk stream c is to.
Found(g, c) == IF c < StaticSize THEN static[c] ELSE g.entries[g.at]

\* Mutant: what is still to come is not counted down.
StoredWhole(g, c, e) ==
    LET whole == [e EXCEPT !.processed = e.len]
    IN  IF c < StaticSize
        THEN static' = [static EXCEPT ![c] = whole] /\ dynamic' = g.entries
        ELSE static' = static /\ dynamic' = [g.entries EXCEPT ![g.at] = whole]

\* The cache once that entry is changed.
Stored(g, c, e) ==
    IF c < StaticSize
    THEN static' = [static EXCEPT ![c] = e] /\ dynamic' = g.entries
    ELSE static' = static /\ dynamic' = [g.entries EXCEPT ![g.at] = e]
-----------------------------------------------------------------------------
(* The assembler. *)

Fresh(c, s) == [chunk |-> c, msg |-> s, held |-> <<>>]

\* rtmp_chunk_assembler_get_buffer: the buffer of the message, or a released one
\* (never the first, whose index means "none"), or a new one; at = 0 if refused.
GetBuffer(c, s) ==
    LET same == {i \in DOMAIN buffers : buffers[i].chunk = c /\ buffers[i].msg = s}
        free == {i \in DOMAIN buffers \ {1} : buffers[i].chunk = 0}
    IN  IF same # {} THEN [all |-> buffers, at |-> Min(same)]
        ELSE IF free # {} THEN [all |-> [buffers EXCEPT ![Min(free)] = Fresh(c, s)],
                                at |-> Min(free)]
        ELSE IF Len(buffers) > Hard THEN [all |-> buffers, at |-> 0]
        ELSE [all |-> Append(buffers, Fresh(c, s)), at |-> Len(buffers) + 1]

\* Mutant: a released buffer keeps its owner.
RmBufferKeepingOwner(all, at) ==
    IF Len(all) > Soft THEN RemoveAt(all, at)
    ELSE [all EXCEPT ![at].held = <<>>]

RmBuffer(all, at) ==
    IF Len(all) > Soft THEN RemoveAt(all, at)
    ELSE [all EXCEPT ![at].held = <<>>, ![at].chunk = 0]

Call(data, remaining) == [data |-> data, remaining |-> remaining]

\* Mutant: what does not fit the buffer is not counted as still to come.
HandedShort(held, bytes, remaining) ==
    LET all == held \o bytes
        rest == SubSeq(all, BufferSize + 1, Len(all))
    IN  IF bytes = <<>> /\ remaining = 0 THEN <<Call(<<>>, 0)>>
        ELSE IF Len(all) <= BufferSize /\ remaining > 0 THEN <<>>
        ELSE IF rest = <<>> THEN <<Call(all, remaining)>>
        ELSE <<Call(SubSeq(all, 1, BufferSize), remaining), Call(rest, remaining)>>

\* Mutant: every piece is handed over as it comes.
HandedAtOnce(held, bytes, remaining) ==
    IF bytes = <<>> /\ remaining > 0 THEN <<>> ELSE <<Call(bytes, remaining)>>

\* rtmp_chunk_assembler_cb: nothing is handed over while the buffer holds all
\* there is, then what it holds, and then what it could not take.
Handed(held, bytes, remaining) ==
    LET all == held \o bytes
        first == SubSeq(all, 1, BufferSize)
        rest == SubSeq(all, BufferSize + 1, Len(all))
    IN  IF bytes = <<>> /\ remaining = 0 THEN <<Call(<<>>, 0)>>
        ELSE IF Len(all) <= BufferSize /\ remaining > 0 THEN <<>>
        ELSE IF rest = <<>> THEN <<Call(all, remaining)>>
        ELSE <<Call(first, remaining + Len(rest)), Call(rest, remaining)>>

\* Mutant: a buffer that was handed over keeps its bytes.
LeftFull(g, bytes, remaining, handed, failed) ==
    IF remaining = 0 \/ failed = 1 THEN RmBuffer(g.all, g.at)
    ELSE [g.all EXCEPT ![g.at].held = @ \o bytes]

\* The buffers afterwards, when the callback named by failed (0: none) does not
\* return CONTINUE.
Left(g, bytes, remaining, handed, failed) ==
    IF handed = <<>> THEN [g.all EXCEPT ![g.at].held = @ \o bytes]
    ELSE IF remaining = 0 \/ failed = 1 THEN RmBuffer(g.all, g.at)
    ELSE [g.all EXCEPT ![g.at].held = <<>>]
-----------------------------------------------------------------------------
(* The service loop. *)

\* A byte is known by its chunk stream, its message and its place in it.
Bytes(c, n) == [k \in 1..n |-> <<c, peer[c].odd, peer[c].at + k>>]

Give(c, calls) == heard' = [heard EXCEPT ![c] = @ \o calls]

\* rtmp_chunk_conn_service_recv_issue: n bytes of message m, which has its rest
\* counted by entry e at g.  When the callback fails the input is put back while
\* the counts stay reduced; only a chunk that was read from its header on can be
\* read again.
Issue(c, m, g, e, n, rest, again) ==
    LET b == GetBuffer(c, m.sid)
        left == e.processed - n
        calls == Handed(b.all[b.at].held, Bytes(c, n), left)
    IN  /\ Stored(g, c, [e EXCEPT !.processed = left])
        /\ partial' = rest
        /\ IF b.at = 0
           THEN /\ open' = FALSE
                /\ UNCHANGED <<peer, buffers, heard, aligned>>
           ELSE \E failed \in 0..Len(calls), v \in Verdicts :
                /\ (v = "continue") <=> (failed = 0)
                /\ buffers' = Left(b, Bytes(c, n), left, calls, failed)
                /\ Give(c, IF failed = 0 THEN calls ELSE SubSeq(calls, 1, failed - 1))
                /\ open' = (v # "abort")
                /\ peer' = IF v = "continue" THEN [peer EXCEPT ![c].at = @ + n] ELSE peer
                /\ aligned' = (v # "error" \/ (again /\ rest = NoChunk))

\* There is no room for an entry.
Refuse(entries) ==
    /\ open' = FALSE /\ dynamic' = entries
    /\ UNCHANGED <<peer, static, partial, buffers, aligned, heard>>

\* As much of the payload as has arrived, m being the message that the header was
\* written to and h what the second search for it gives.  Where that has inserted
\* an entry again, m lies in memory that was given to realloc, and nothing is
\* known of what the loop takes the input for.
Payload(c, m, h, grown) ==
    LET known == IF c < StaticSize THEN m ELSE h.entries[h.at]
        e == IF known.processed = 0 THEN [known EXCEPT !.processed = m.len] ELSE known
        size == Min({e.processed, ChunkSize})
        there == Min({peer[c].len - peer[c].at, ChunkSize})
    IN  IF grown \/ size # there
        THEN /\ aligned' = FALSE /\ dynamic' = h.entries
             /\ UNCHANGED <<peer, static, partial, buffers, open, heard>>
        ELSE \E n \in 0..size :
             Issue(c, m, h, e, n,
                   IF n < size THEN [id |-> c, left |-> size - n] ELSE NoChunk, TRUE)

\* rtmp_chunk_conn_service_recv: rtmp_chunk_read_hdr searches the cache and writes
\* the header through the pointer, then the loop searches once more for the count.
Chunk(c) ==
    /\ open /\ aligned /\ partial.left = 0 /\ Underway(c)
    /\ IF Get(dynamic, c) = {} THEN Refuse(dynamic)
       ELSE \E g \in Get(dynamic, c) :
            LET old == Found(g, c)
                m == IF peer[c].at = 0
                     THEN [old EXCEPT !.len = peer[c].len, !.sid = peer[c].sid] ELSE old
                told == IF c < StaticSize THEN g.entries ELSE [g.entries EXCEPT ![g.at] = m]
            IN  IF Get(told, c) = {} THEN Refuse(told)
                ELSE \E h \in Get(told, c) : Payload(c, m, h, h.entries # told)
    /\ UNCHANGED begun

\* rtmp_chunk_conn_service_recv_partial: more of the chunk.
RestOfChunk ==
    /\ open /\ aligned /\ partial.left > 0
    /\ \E g \in Get(dynamic, partial.id), n \in 1..partial.left :
         Issue(partial.id, Found(g, partial.id), g, Found(g, partial.id), n,
               IF n < partial.left THEN [partial EXCEPT !.left = @ - n] ELSE NoChunk, FALSE)
    /\ UNCHANGED begun
-----------------------------------------------------------------------------
(* The peer. *)

\* It begins a message on a chunk stream that is idle.
Begin(c) ==
    /\ open /\ aligned /\ begun < MaxMessages /\ ~Underway(c)
    /\ \E s \in Sids, n \in Lengths :
         peer' = [peer EXCEPT ![c] = [odd |-> ~@.odd, sid |-> s, len |-> n, at |-> 0]]
    /\ begun' = begun + 1
    /\ heard' = [heard EXCEPT ![c] = <<>>]
    /\ UNCHANGED <<static, dynamic, partial, buffers, aligned, open>>

\* It aborts a message it has begun, and rtmp_chunk_conn_service_recv_abort
\* has the assembler drop it; the verdict of the callback is not looked at.
Abort(c) ==
    /\ open /\ aligned /\ partial.left = 0 /\ Underway(c) /\ peer[c].at > 0
    /\ \E g \in Get(dynamic, c) :
         LET e == Found(g, c)
             b == GetBuffer(c, e.sid)
         IN  /\ Stored(g, c, [e EXCEPT !.processed = 0])
             /\ buffers' = IF b.at = 0 THEN b.all ELSE RmBuffer(b.all, b.at)
    /\ peer' = [peer EXCEPT ![c].len = 0, ![c].at = 0]
    /\ heard' = [heard EXCEPT ![c] = <<>>]
    /\ UNCHANGED <<begun, partial, aligned, open>>

Next == RestOfChunk \/ \E c \in Ids : Chunk(c) \/ Begin(c) \/ Abort(c)

Spec == Init /\ [][Next]_vars
-----------------------------------------------------------------------------
(* Properties. *)

\* Every variable keeps its type, and buffers and cache their capacity.
TypeOK ==
    /\ \A c \in Ids : /\ peer[c] \in [odd : BOOLEAN, sid : Sids \cup {0},
                                      len : Lengths \cup {0}, at : Nat]
                       /\ peer[c].at <= peer[c].len
    /\ begun \in 0..MaxMessages
    /\ DOMAIN static = 0..(StaticSize - 1) /\ Len(dynamic) <= DynamicMax
    /\ partial.left \in 0..ChunkSize
    /\ Len(buffers) <= Hard + 1
    /\ \A i \in DOMAIN buffers : Len(buffers[i].held) <= BufferSize
    /\ {aligned, open} \subseteq BOOLEAN

\* Messages the receiver has seen a header of, and not the end.
InProgress == {c \in Ids : Underway(c) /\ (peer[c].at > 0 \/ partial.id = c)}

\* How much of the peer's message the callback was given by its first j calls.
Given(c, j) == IF j = 0 THEN 0 ELSE peer[c].len - heard[c][j].remaining

\* However chunks of several messages alternate and are split, the callback is
\* given the bytes of each message in order, every byte once, with the right
\* count of what is still to come, and all of them once the last has arrived;
\* the service loop takes no byte of payload for a header or the reverse.
HandedInOrder ==
    /\ aligned
    /\ \A c \in Ids :
         /\ \A j \in DOMAIN heard[c] :
              /\ Given(c, j) = Given(c, j - 1) + Len(heard[c][j].data)
              /\ heard[c][j].data = [k \in DOMAIN heard[c][j].data |->
                                       <<c, peer[c].odd, Given(c, j - 1) + k>>]
         /\ peer[c].at = peer[c].len => Given(c, Len(heard[c])) = peer[c].len

\* A message no longer than an assembly buffer is handed over in one piece: the
\* stream gives up the connection over a command that is not.
WholeIfItFits ==
    \A c \in Ids : peer[c].len <= BufferSize => Len(heard[c]) <= 1

\* What rtmp_cache_get gives for a message in progress is how long it is, where it
\* belongs and how much of it is still to come; no other message is remembered.
CacheRemembers ==
    open => \A c \in Ids :
        IF c \in InProgress
        THEN /\ Get(dynamic, c) # {}
             /\ \A g \in Get(dynamic, c) :
                  LET e == Found(g, c)
                  IN  <<e.id, e.len, e.sid, e.processed>>
                        = <<c, peer[c].len, peer[c].sid, peer[c].len - peer[c].at>>
        ELSE c < StaticSize => static[c].processed = 0

\* The chunk streams in use fit the cache: then none is refused, where callbacks
\* do not abort and buffers suffice.  Not so: alg_search_bin returns the index it
\* looked at last, so that an id beyond a smaller one is inserted before it, is not
\* found there by the next search and is inserted again (ReceptionSearch.cfg).
NoneRefused == Cardinality({c \in Ids : c >= StaticSize}) <= DynamicMax => open

\* Buffers are held by the messages in progress and by nothing else, one each:
\* none is lost to a message that ended or was aborted.
BuffersInUse ==
    LET used == {i \in DOMAIN buffers : buffers[i].chunk # 0}
    IN  open => /\ {<<buffers[i].chunk, buffers[i].msg>> : i \in used}
                     = {<<c, peer[c].sid>> : c \in InProgress}
                /\ Cardinality(used) = Cardinality(InProgress)
=============================================================================

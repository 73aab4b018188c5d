--------------------------- MODULE ChunkTransfer ----------------------------
(***************************************************************************)
(* Messages on their way through a chunk connection after the handshake:   *)
(* rtmp_chunk_conn_send_message cuts them into chunks whose headers are    *)
(* compressed against stream_cache_out, the socket loops carry the bytes,  *)
(* and the service loop of the peer parses them against its own            *)
(* stream_cache_in, resuming in the middle of a header or of a chunk, and  *)
(* hands the pieces to the chunk callback.                                 *)
(*                                                                         *)
(* One direction of a connection.  A unit is a header field or a byte of   *)
(* payload.  The chunk size (SET_CHUNK_SIZE) and aborts (ABORT) travel as  *)
(* messages of the control chunk stream, in chunks themselves.  A message  *)
(* is sent whole or not at all (written == NULL) or resumably, on a chunk  *)
(* stream the application names or, with chunk stream 0, on the one that   *)
(* rtmp_cache_find picks for it.  An empty out buffer has room for a       *)
(* header and a chunk: send_message enlarges it when it has not (OutSize   *)
(* in ChunkAssumption).                                                    *)
(***************************************************************************)
EXTENDS Integers, Sequences

CONSTANTS
    ChunkStream,    \* the chunk streams of the application
    Control,        \* RTMP_CONTROL_CHUNK_STREAM
    Fourth,         \* chunk stream 4: what rtmp_cache_find picks
    Sids,           \* message streams the application uses (1, 2, ...)
    Types,          \* message types the application uses
    Lengths,        \* bound: lengths of the application's messages
    Times,          \* bound: timestamps of the application's messages
    ControlLength,  \* units of payload of a control message
    Sizes,          \* bound: the chunk sizes asked for
    DefaultSize,    \* RTMP_DEFAULT_CHUNK_SIZE
    Mark,           \* 0xFFFFFF: what announces an extended timestamp
    WireMod,        \* 2^32: the range of an extended timestamp
    OutSize,        \* units the out buffer holds
    InSize,         \* units the in buffer holds
    MaxMessages,    \* bound: how many messages the application begins
    MaxControl,     \* bound: how many control messages it sends
    Careful,        \* a message is begun only if its first write has room
    Orderly,        \* chunk stream 0 is not used over an unfinished message
    SplitControl,   \* the input may end right behind a control chunk's header
    Verdicts        \* what the chunk callback may return

ASSUME ChunkAssumption ==
    /\ Control \notin ChunkStream
    /\ Sids \subseteq Nat \ {0}
    /\ Times \subseteq Nat
    /\ Types \cap {"none", "chunk_size", "abort"} = {}
    /\ Lengths \subseteq Nat \ {0} /\ ControlLength \in Nat \ {0}
    /\ Sizes \subseteq Nat \ {0} /\ DefaultSize \in Nat \ {0}
    /\ Mark \in Nat /\ WireMod \in Nat /\ Mark < WireMod
    /\ InSize \in Nat /\ OutSize \in Nat
    /\ \A n \in Sizes \cup {DefaultSize} : OutSize >= n + 5
    /\ MaxMessages \in Nat /\ MaxControl \in Nat
    /\ Careful \in BOOLEAN /\ Orderly \in BOOLEAN /\ SplitControl \in BOOLEAN
    /\ "continue" \in Verdicts /\ Verdicts \subseteq {"continue", "error", "pause"}

Streams == ChunkStream \cup {Control}
\* The messages of the application; a free one is sent with chunk stream 0 (the
\* calls of rtmp_client_publish, unpublish and setdataframe_amf).
Message ==
    {m \in [id : 1..MaxMessages, cs : ChunkStream, free : BOOLEAN, sid : Sids,
            type : Types, len : Lengths, time : Times, arg : {0}] :
        m.free => m.cs = Fourth}
ControlMessage ==
    [id : {0}, cs : {Control}, free : {FALSE}, sid : {0}, len : {ControlLength},
     time : {0}, type : {"chunk_size"}, arg : Sizes]
    \cup
    [id : {0}, cs : {Control}, free : {FALSE}, sid : {0}, len : {ControlLength},
     time : {0}, type : {"abort"}, arg : ChunkStream]

NoMessage == [id |-> 0, cs |-> Control, free |-> FALSE, sid |-> 0, type |-> "none",
              len |-> 0, time |-> 0, arg |-> 0]
Progress(m, k) == [msg |-> m, written |-> k]
NoSend == Progress(NoMessage, 0)

VARIABLES
    cacheOut,       \* stream_cache_out: the last header emitted per chunk stream
    selfChunkSize,
    call,           \* the send_message in progress: its message, written, ...
    whole,          \* ... whether it was called with written == NULL, ...
    search,         \* ... and whether its next header still has chunk stream 0
    staged,         \* what it wrote to the frozen out buffer
    pending,        \* per chunk stream: the message to be resumed
    out,            \* committed output the socket has not taken
    in,             \* what the socket delivered and the peer has not consumed
    cacheIn,        \* stream_cache_in, with the bytes still to be processed
    peerChunkSize,
    partialChunk,   \* payload of the current chunk not yet buffered
    partialMsg,     \* and its chunk stream
    controlMessage, \* control_message_buffer
    paused,         \* "never", "yes", "over": the application pauses once
    got,            \* history: payload of a message handed over so far
    delivered,      \* history: messages handed over completely
    accepted,       \* history: messages send_message took completely
    begun,          \* how many messages the application began
    controls        \* how many control messages it sent

sender == <<cacheOut, selfChunkSize, call, whole, search, staged, pending,
            accepted, begun, controls>>
receiver == <<cacheIn, peerChunkSize, partialChunk, partialMsg, controlMessage,
              paused, got, delivered>>
vars == <<sender, receiver, out, in>>

Lesser(a, b) == IF a < b THEN a ELSE b
Rest(s, n) == SubSeq(s, n + 1, Len(s))
When(condition, s) == IF condition THEN s ELSE <<>>

Payload(m) == [k \in 1..m.len |-> [kind |-> "data", msg |-> m, part |-> k]]

\* An entry of stream_cache_out before its first header.
Blank == [known |-> FALSE, time |-> 0, delta |-> 0, len |-> 0, type |-> "none", sid |-> 0]

Init ==
    /\ cacheOut = [cs \in Streams |-> Blank]
    /\ cacheIn = [cs \in Streams |->
         [time |-> 0, len |-> 0, type |-> "none", sid |-> 0, processed |-> 0]]
    /\ selfChunkSize = DefaultSize /\ peerChunkSize = DefaultSize
    /\ call = NoSend /\ whole = FALSE /\ search = FALSE /\ staged = <<>>
    /\ pending = [cs \in ChunkStream |-> NoSend]
    /\ out = <<>> /\ in = <<>>
    /\ partialChunk = 0 /\ partialMsg = Control
    /\ controlMessage = <<>>
    /\ paused = "never"
    /\ got = [cs \in ChunkStream |-> <<>>]
    /\ delivered = [cs \in ChunkStream |-> <<>>]
    /\ accepted = [cs \in ChunkStream |-> <<>>]
    /\ begun = 0 /\ controls = 0
-----------------------------------------------------------------------------
(* The sender. *)

\* Mutant: a header is compressed although the message stream differs.
FormatForgettingStream(previous, m, delta) ==
    IF ~previous.known THEN 0
    ELSE IF previous.type # m.type \/ previous.len # m.len THEN 1
    ELSE IF previous.delta # delta THEN 2 ELSE 3

\* The compression of rtmp_chunk_emit_hdr: 0 is a full header, 1 leaves out the
\* message stream, 2 also length and type, 3 also the time.
Format(previous, m, delta) ==
    IF ~previous.known \/ previous.sid # m.sid THEN 0
    ELSE IF previous.type # m.type \/ previous.len # m.len THEN 1
    ELSE IF previous.delta # delta THEN 2 ELSE 3

\* The cache entry of a header once it is emitted, or tried to be.
Remembered(previous, m, delta) ==
    [known |-> TRUE, time |-> m.time, delta |-> delta, len |-> m.len,
     type |-> m.type, sid |-> m.sid]

\* The entry a header is compressed against: that of its chunk stream
\* (rtmp_cache_get), or with chunk stream 0 entry 4, which rtmp_cache_find clears
\* and returns.
Previous(m, find) == IF find THEN Blank ELSE cacheOut[m.cs]

\* rtmp_chunk_emit_hdr: the fields, and the cache entry it leaves behind.
EmitHdr(m, find) ==
    LET previous == Previous(m, find)
        keepTime == previous.known /\ m.time = 0
        delta    == IF keepTime THEN 0 ELSE m.time - previous.time
        fmt      == Format(previous, m, delta)
        stamp    == IF fmt > 0 THEN delta
                    ELSE IF keepTime THEN previous.time ELSE m.time
        extended == stamp < 0 \/ stamp >= Mark
    IN  [fields |->
           <<[kind |-> "basic", fmt |-> fmt, cs |-> m.cs]>>
           \o When(fmt <= 2, <<[kind |-> "time", val |-> IF extended THEN Mark ELSE stamp]>>)
           \o When(fmt <= 1, <<[kind |-> "shape", len |-> m.len, type |-> m.type]>>)
           \o When(fmt = 0, <<[kind |-> "sid", val |-> m.sid]>>)
           \o When(extended, <<[kind |-> "ext", val |-> stamp % WireMod]>>),
         entry |-> Remembered(previous, m, delta)]

Room == OutSize - Len(out) - Len(staged)

\* Room for the first chunk, and for all of a message sent whole (a header that
\* continues a message has at most two fields).
Fits(m, all) ==
    LET chunks == (m.len + selfChunkSize - 1) \div selfChunkSize
        first  == Len(EmitHdr(m, m.free).fields)
    IN  Room >= IF all THEN first + 2 * (chunks - 1) + m.len
                ELSE first + Lesser(m.len, selfChunkSize)

\* A call of rtmp_chunk_conn_send_message for a new message, or for the rest of
\* one that did not fit.
Call(m, written, all) ==
    /\ call = NoSend
    /\ Careful => Fits(m, all)
    /\ call' = Progress(m, written)
    /\ whole' = all
    /\ search' = m.free
    /\ UNCHANGED <<cacheOut, selfChunkSize, staged, accepted, out, in, receiver>>

\* The application: one unfinished message per chunk stream, of which chunk
\* stream 0 is not one unless it is Orderly, and time does not run backwards on a
\* chunk stream the message names.
Send(m, all) ==
    /\ begun < MaxMessages /\ m.id = begun + 1
    /\ pending[m.cs] = NoSend \/ (~Orderly /\ m.free /\ all)
    /\ m.free \/ m.time = 0 \/ m.time >= cacheOut[m.cs].time
    /\ Call(m, 0, all)
    /\ begun' = begun + 1
    /\ UNCHANGED <<pending, controls>>

Resume(cs) ==
    /\ pending[cs] # NoSend
    /\ call = NoSend
    /\ call' = pending[cs]
    /\ whole' = FALSE
    /\ search' = pending[cs].msg.free
    /\ pending' = [pending EXCEPT ![cs] = NoSend]
    /\ UNCHANGED <<cacheOut, selfChunkSize, staged, accepted, begun, controls,
                   out, in, receiver>>

\* rtmp_chunk_conn_set_chunk_size, and rtmp_chunk_conn_abort of a message only
\* part of which was sent.
SendControl(m) ==
    /\ controls < MaxControl
    /\ m.type = "abort" => pending[m.arg] # NoSend
    /\ Call(m, 0, TRUE)
    /\ controls' = controls + 1
    /\ UNCHANGED <<pending, begun>>

\* What the application can be given, less the time of the message.
Received(type, sid, units) == [type |-> type, sid |-> sid, units |-> units]

\* Mutant: the chunk size is announced and not adopted.
AcceptedKeepingSize(m) ==
    /\ pending' = IF m.type = "abort" THEN [pending EXCEPT ![m.arg] = NoSend] ELSE pending
    /\ accepted' = IF m.cs = Control THEN accepted
                   ELSE [accepted EXCEPT ![m.cs] =
                            Append(@, [what |-> Received(m.type, m.sid, Payload(m)),
                                       time |-> m.time])]
    /\ UNCHANGED selfChunkSize

\* The last chunk is in: set_chunk_size and the application act on success.
Accepted(m) ==
    /\ selfChunkSize' = IF m.type = "chunk_size" THEN m.arg ELSE selfChunkSize
    /\ pending' = IF m.type = "abort" THEN [pending EXCEPT ![m.arg] = NoSend] ELSE pending
    /\ accepted' = IF m.cs = Control THEN accepted
                   ELSE [accepted EXCEPT ![m.cs] =
                            Append(@, [what |-> Received(m.type, m.sid, Payload(m)),
                                       time |-> m.time])]

Chunk ==
    LET n == Lesser(call.msg.len - call.written, selfChunkSize)
    IN  EmitHdr(call.msg, search).fields
        \o SubSeq(Payload(call.msg), call.written + 1, call.written + n)

\* One turn of the loop in rtmp_chunk_conn_send_message: a chunk is written.
WriteChunk ==
    LET m == call.msg
        n == Lesser(m.len - call.written, selfChunkSize)
        done == call.written + n = m.len
    IN  /\ call # NoSend
        /\ Len(Chunk) <= Room
        /\ cacheOut' = [cacheOut EXCEPT ![m.cs] = EmitHdr(m, search).entry]
        /\ IF whole /\ ~done
           THEN staged' = staged \o Chunk /\ UNCHANGED out
           ELSE staged' = <<>> /\ out' = out \o staged \o Chunk
        /\ call' = IF done THEN NoSend ELSE Progress(m, call.written + n)
        /\ search' = FALSE  \* the call has the number of entry 4 now
        /\ IF done THEN Accepted(m) ELSE UNCHANGED <<selfChunkSize, pending, accepted>>
        /\ UNCHANGED <<whole, begun, controls, in, receiver>>

\* RTMP_ERR_AGAIN: the chunk does not fit, the out buffer is rolled back and the
\* call returns.  A resumable message is kept by its sender, the others are not.
NoRoom ==
    LET m == call.msg
    IN  /\ call # NoSend
        /\ Len(Chunk) > Room
        /\ cacheOut' = [cacheOut EXCEPT ![m.cs] = EmitHdr(m, search).entry]
        /\ staged' = <<>>
        /\ pending' = IF whole THEN pending ELSE [pending EXCEPT ![m.cs] = call]
        /\ call' = NoSend
        /\ search' = FALSE
        /\ UNCHANGED <<selfChunkSize, whole, accepted, begun, controls, out, in, receiver>>

\* The two socket loops and the network between them, a unit at a time.
Carry ==
    /\ out # <<>>
    /\ Len(in) < InSize
    /\ in' = Append(in, Head(out))
    /\ out' = Tail(out)
    /\ UNCHANGED <<sender, receiver>>
-----------------------------------------------------------------------------
(* The receiver.  These speak of the header at the front of in. *)

Fmt == in[1].fmt
Cs == in[1].cs
Stamp == IF Fmt <= 2 THEN in[2].val ELSE 0
\* Mutant: a header without a time is always taken to have an extended one.
ExtendedWithoutTime == Fmt = 3 \/ Stamp = Mark

Extended == (Fmt = 3 /\ cacheIn[Cs].time = Mark) \/ Stamp = Mark

\* The kinds of field rtmp_chunk_read_hdr looks for, as far as it can tell.
HeaderKinds ==
    SubSeq(<<"basic", "time", "shape", "sid">>, 1, 4 - Fmt)
    \o When((Fmt <= 2 => Len(in) >= 2) /\ Extended, <<"ext">>)

\* The cache entry after the fields that have arrived were read into it.
Fields ==
    LET entry == cacheIn[Cs]
        shaped == IF Fmt <= 1 /\ Len(in) >= 3
                  THEN [entry EXCEPT !.len = in[3].len, !.type = in[3].type] ELSE entry
    IN  IF Fmt = 0 /\ Len(in) >= 4 THEN [shaped EXCEPT !.sid = in[4].val] ELSE shaped

\* The entry after all of them were: the time is absolute or an increment.
Header ==
    LET time == IF Extended THEN in[Len(HeaderKinds)].val ELSE Stamp
    IN  [Fields EXCEPT !.time = IF Fmt = 0 THEN time ELSE @ + time]

\* Mutant: the chunk callback is not told of an abort.
ObeyKeepingPieces(entry, message, cs) ==
    LET arg == message[1].msg.arg
        kept == [cacheIn EXCEPT ![cs] = entry]
    IN  /\ UNCHANGED got
        /\ IF entry.type = "chunk_size"
           THEN peerChunkSize' = arg /\ cacheIn' = kept
           ELSE cacheIn' = [kept EXCEPT ![arg].processed = 0] /\ UNCHANGED peerChunkSize

\* rtmp_chunk_conn_service_recv_cmd once all of a control message is there.
Obey(entry, message, cs) ==
    LET arg == message[1].msg.arg
        kept == [cacheIn EXCEPT ![cs] = entry]
    IN  IF entry.type = "chunk_size"
        THEN /\ peerChunkSize' = arg
             /\ cacheIn' = kept
             /\ UNCHANGED got
        ELSE /\ cacheIn' = [kept EXCEPT ![arg].processed = 0]
             /\ got' = [got EXCEPT ![arg] = <<>>]
             /\ UNCHANGED peerChunkSize

\* rtmp_chunk_conn_service_recv_issue: n units of payload, the first behind skip
\* units of header, for the message whose cache entry is now entry.  When the
\* handler fails the service loop puts the input back; the cache and the
\* bookkeeping of the chunk stay as they are.
Issue(cs, entry, skip, n, verdict) ==
    LET units == SubSeq(in, skip + 1, skip + n)
        last  == entry.processed = 0
        all   == IF cs = Control THEN controlMessage \o units ELSE got[cs] \o units
        fails == IF cs = Control THEN n = 0 ELSE verdict # "continue"
    IN  /\ in' = IF fails THEN in ELSE Rest(in, skip + n)
        /\ paused' = IF cs # Control /\ verdict = "pause" THEN "yes" ELSE paused
        /\ IF cs = Control
           THEN IF last
                THEN /\ Obey(entry, all, cs)
                     /\ controlMessage' = <<>>
                     /\ UNCHANGED delivered
                ELSE /\ cacheIn' = [cacheIn EXCEPT ![cs] = entry]
                     /\ controlMessage' = all
                     /\ UNCHANGED <<peerChunkSize, got, delivered>>
           ELSE /\ cacheIn' = [cacheIn EXCEPT ![cs] = entry]
                /\ got' = IF fails THEN got
                          ELSE [got EXCEPT ![cs] = IF last THEN <<>> ELSE all]
                /\ delivered' = IF fails \/ ~last THEN delivered
                     ELSE [delivered EXCEPT ![cs] =
                             Append(@, [what |-> Received(entry.type, entry.sid, all),
                                        time |-> entry.time])]
                /\ UNCHANGED <<peerChunkSize, controlMessage>>

\* What the receiver takes the units at the front of in for.
HeaderDone == Len(in) >= Len(HeaderKinds)
Remaining == IF Header.processed = 0 THEN Header.len ELSE Header.processed

\* Mutant: the rest of the message is taken for one chunk.
WantedWhole == Remaining

Wanted == Lesser(Remaining, peerChunkSize)

\* rtmp_chunk_conn_service_recv, a chunk from its header on.  What of its
\* payload is not buffered yet is left to RecvPartial.
Recv(verdict) ==
    LET skip == Len(HeaderKinds)
        here == Lesser(Wanted, Len(in) - skip)
    IN  /\ partialChunk = 0
        /\ HeaderDone
        /\ Issue(Cs, [Header EXCEPT !.processed = Remaining - here], skip, here, verdict)
        /\ partialChunk' = Wanted - here
        /\ partialMsg' = IF here < Wanted THEN Cs ELSE partialMsg

\* RTMP_ERR_AGAIN: the header has not arrived in full; it is read anew later.
RecvStarved ==
    /\ partialChunk = 0
    /\ ~HeaderDone
    /\ cacheIn' = [cacheIn EXCEPT ![Cs] = Fields]
    /\ UNCHANGED <<in, peerChunkSize, partialChunk, partialMsg, controlMessage,
                   paused, got, delivered>>

\* rtmp_chunk_conn_service_recv_partial: more of the chunk has arrived.
RecvPartial(verdict) ==
    LET n == Lesser(partialChunk, Len(in))
    IN  /\ partialChunk > 0
        /\ Issue(partialMsg, [cacheIn[partialMsg] EXCEPT !.processed = @ - n], 0, n, verdict)
        /\ partialChunk' = partialChunk - n
        /\ UNCHANGED partialMsg

\* Both ends agree on what the units at the front of in are: the next header is
\* read as the fields it was written as, and what is taken for payload is
\* payload.  rtmp_chunk_flow.h:49 on reading a header: "Message will be filled
\* with a pointer to a message in the cache which contains all the information",
\* and rtmp_chunk_conn.h:72 on the service loop: "This should be called every
\* time the buffers are changed", that is, wherever the input happens to end
\* (but for the one place that SplitControl = FALSE leaves out).
Aligned ==
    in # <<>> =>
        IF partialChunk > 0
        THEN \A k \in 1..Lesser(partialChunk, Len(in)) : in[k].kind = "data"
        ELSE /\ in[1].kind = "basic"
             /\ Fmt <= 2 /\ Len(in) >= 2 => in[2].kind = "time"
             /\ \A k \in 1..Lesser(Len(HeaderKinds), Len(in)) : in[k].kind = HeaderKinds[k]
             /\ HeaderDone =>
                  \A k \in 1..Lesser(Wanted, Len(in) - Len(HeaderKinds)) :
                      in[Len(HeaderKinds) + k].kind = "data"

\* The input ends right behind the header of a control chunk.
ControlSplit ==
    /\ partialChunk = 0 /\ HeaderDone
    /\ Cs = Control /\ Len(in) = Len(HeaderKinds)

\* A turn of the loop in rtmp_chunk_conn_service.  What the receiver makes of
\* bytes it takes for something they are not is not modelled; and unless
\* SplitControl, a restriction of the network and not of the code, it is not
\* called while the input is a ControlSplit.
Service(verdict) ==
    /\ paused # "yes"
    /\ in # <<>>
    /\ Aligned
    /\ SplitControl \/ ~ControlSplit
    /\ Recv(verdict) \/ RecvStarved \/ RecvPartial(verdict)
    /\ UNCHANGED <<sender, out>>

\* rtmp_chunk_conn_pause, called by the application between two services.
Pause ==
    /\ paused = "never" /\ paused' = "yes"
    /\ UNCHANGED <<sender, out, in, cacheIn, peerChunkSize, partialChunk,
                   partialMsg, controlMessage, got, delivered>>
Unpause ==
    /\ paused = "yes" /\ paused' = "over"
    /\ UNCHANGED <<sender, out, in, cacheIn, peerChunkSize, partialChunk,
                   partialMsg, controlMessage, got, delivered>>

Next ==
    \/ \E m \in Message, all \in BOOLEAN : Send(m, all)
    \/ \E m \in ControlMessage : SendControl(m)
    \/ \E cs \in ChunkStream : Resume(cs)
    \/ WriteChunk \/ NoRoom
    \/ Carry
    \/ \E verdict \in Verdicts : Service(verdict)
    \/ Pause \/ Unpause

\* A call returns, sockets move bytes, the event loop comes back to every
\* connection, and who pauses a connection resumes it.
Fairness ==
    /\ WF_vars(WriteChunk) /\ WF_vars(NoRoom)
    /\ WF_vars(Carry)
    /\ WF_vars(Service("continue"))
    /\ WF_vars(Unpause)

Spec == Init /\ [][Next]_vars /\ Fairness
-----------------------------------------------------------------------------
\* Types and limits: neither buffer overflows, no send runs past its message,
\* what is still to come of a message never exceeds its length, and what is
\* still to come of a chunk never exceeds the chunk size in force.  The limit on
\* messages takes Orderly: a message for chunk stream 0 that starts over a longer
\* unfinished one is shorter than what the receiver still waits for.
TypeOK ==
    /\ selfChunkSize \in Sizes \cup {DefaultSize}
    /\ peerChunkSize \in Sizes \cup {DefaultSize}
    /\ \A cs \in Streams :
         /\ cacheOut[cs].type \in Types \cup {"none", "chunk_size", "abort"}
         /\ cacheIn[cs].processed \in 0..cacheIn[cs].len
    /\ call.written \in 0..call.msg.len
    /\ Len(out) + Len(staged) <= OutSize
    /\ Len(in) <= InSize
    /\ partialChunk \in 0..peerChunkSize
    /\ Len(controlMessage) < ControlLength
    /\ paused \in {"never", "yes", "over"}

\* Once everything sent has been consumed both ends have the same chunk size and
\* the same idea of every header the next one is compressed against, and no
\* message is in progress at one end only (the headers of rtmp_chunk_emit_hdr
\* and rtmp_chunk_read_hdr refer to what was sent before).
AgreeWhenQuiet ==
    out = <<>> /\ in = <<>> /\ call = NoSend =>
        /\ peerChunkSize = selfChunkSize
        /\ partialChunk = 0
        /\ controlMessage = <<>>
        /\ \A cs \in Streams : cacheOut[cs].known =>
             /\ cacheIn[cs].len = cacheOut[cs].len
             /\ cacheIn[cs].type = cacheOut[cs].type
             /\ cacheIn[cs].sid = cacheOut[cs].sid
        /\ \A cs \in ChunkStream :
             (cacheIn[cs].processed > 0) = (pending[cs] # NoSend /\ pending[cs].written > 0)

What(messages) == [k \in DOMAIN messages |-> messages[k].what]
TimesOf(messages) == [k \in DOMAIN messages |-> messages[k].time]
IsPrefixOf(s, t) == Len(s) <= Len(t) /\ s = SubSeq(t, 1, Len(s))

\* rtmp_chunk_cache.h:37: "Absolute timestamp of the message" - the time the
\* callback is given is the one the sender gave the message.
TimesArrive ==
    \A cs \in ChunkStream : IsPrefixOf(TimesOf(delivered[cs]), TimesOf(accepted[cs]))

\* What the callback is given on a chunk stream is what was sent on it: whole
\* messages, in order, none twice, none skipped, none that was rolled back or
\* aborted.  rtmp_chunk_conn.c:803: "We need to be able to roll back the whole
\* loop"; callback_semantics.dox:12 on a callback that fails: "The message will
\* remain in the message queue though, and the stream will not continue until the
\* message is successfully processed."
MessagesArriveAsSent ==
    \A cs \in ChunkStream : IsPrefixOf(What(delivered[cs]), What(accepted[cs]))

\* Every chunk stream is a queue of messages: nothing cut, compressed, split,
\* interleaved, paused or resumed shows, and what was accepted arrives.
Channel == INSTANCE MessageChannel WITH
    Message <- {Received(m.type, m.sid, Payload(m)) : m \in Message},
    queue <- [cs \in ChunkStream |->
                Rest(What(accepted[cs]), Len(delivered[cs]))],
    delivered <- [cs \in ChunkStream |-> What(delivered[cs])]
ImplementsChannel == Channel!Spec
=============================================================================

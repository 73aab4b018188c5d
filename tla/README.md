# A TLA+ model of libOpenRTMP

libOpenRTMP is a C library for the Real Time Messaging Protocol. One thread
runs an event loop over all connections. Each connection is a state machine
between two circular buffers; above it sit a stream of messages and calls, and
the client and server sessions built on that.

This directory models the library from the circular buffers up to the sessions:
buffers, handshake, transfer of messages in chunks, header cache and assembler,
remote calls, server and client sessions, the connection manager, and beside
them the objects that commands are made of. It checks the models with TLC on
small instances, and proves with TLAPS, for every value of the constants, that
the buffer implements a queue of bytes and a chunk connection takes only steps of
queues of messages, and nearly all safety properties of the handshake, the
transfer and the reception of chunks, the calls, the sessions, the connection
manager and the objects. Paths below are relative to the repository's root in `src/`, so that the code of the
library is in `src/src/` and its headers in `src/include/`.

Short names used below: `conn.c` is `src/src/rtmp/rtmp_chunk_conn.c`, `flow.c` is
`src/src/rtmp/rtmp_chunk_flow.c`, and `cache.c`, `assembler.c`, `stream.c`,
`server.c`, `client.c`, `epoll.c` are `rtmp_chunk_cache.c`,
`rtmp_chunk_assembler.c`, `rtmp_stream.c`, `rtmp_server.c`, `rtmp_client.c` and
`rtmp_impl_epoll.c` of the same directory.

## Inventory

| Component | State | Operations | Modelled by |
|---|---|---|---|
| Ring buffer, `util/ringbuffer.c` | array, size, start, length, read and write offset, two frozen flags | read, write, in-place segments and their commits, freeze and unfreeze of reads and of writes, resize, clear | `RingBuffer` (abstractly `TxQueue`) |
| Handshake, `conn.c`, `flow.c` | six flags, nonce and time of both ends | emit and ingest of three messages, CONNECT_SUCCESS | `Handshake` |
| Message transfer, `conn.c`, `flow.c` | header cache and chunk size per direction, position inside the current chunk, control message buffer, paused flag | send_message, set_chunk_size, abort, pause, service | `ChunkTransfer` (abstractly `MessageChannel`) |
| Flow control, `conn.c` | windows, bandwidth, byte counts | acknowledge, set_window_ack_size, set_peer_bwidth and what is received of each | `Session` (windows and limits; the byte counts decide nothing) |
| Chunk stream cache, `cache.c`, `util/algorithm.c` | static slots, a sorted array of at most 100 | create, get, insert, find, reset | `Reception`; find in `ChunkTransfer` (not reset) |
| Message assembler, `assembler.c` | assembly buffers, free index | get_buffer, rm_buffer, the chunk callback | `Reception` |
| Stream and remote calls, `stream.c` | callbacks by type, command and message, outstanding calls, sequence number | register, call, send, dispatch, match replies, drop calls past their time limit | `StreamCalls` |
| Server and client session, `server.c`, `client.c` | connected application, stream ids, message size | connect, createStream, publish, play, delete and their answers | `Session` (the client in part) |
| Application registry, `rtmp_app.c` | registered names and their callbacks | register, lookup, the callbacks it forwards to | `Session` (lookup and callbacks) |
| Connection manager, `epoll.c` | the list of connections, what is armed for each, refresh time | accept, connect, send and receive loops, service, refresh, close | `Manager`; the socket loops also as `Transmit`, `Deliver`, `Carry` of the modules below it |
| AMF objects and codecs, `amf/` | an object under construction, nesting depth, references | push, write, read | `AmfObject` |
| URL parser, memory and printing utilities, empty back ends (`poll`, `select`, `wsapoll`) | - | - | no: a parser of strings, pure helpers, empty files |

### How they interact

The event loop (`rtmp_service`) moves bytes between a socket and the two ring
buffers of its connection, then calls `rtmp_chunk_conn_service`, which consumes
input if there is any and produces handshake output otherwise, turn by turn,
each turn inside a transaction of the buffer it works on. Payload leaves the
service loop through the chunk callback to the assembler, which collects a
message and calls the stream; the stream calls the callbacks of the session and
of the application. These call back down, from inside the transaction, into
`rtmp_chunk_conn_send_message`, which opens a transaction on the output buffer
of its own. Events (CONNECT_SUCCESS, EMPTIED, FILLED) take the same way up. The
manager recomputes what to arm in epoll from flags that FILLED and EMPTIED set.

### What is hard, and what makes each component correct

- *Ring buffer*: wrapping, clipping, transactions and growth interact, and only
  particular offsets show a mistake. Correct: offsets never leave the array and
  the buffer is a queue with two transactions.
- *Handshake*: both ends wait for messages of the other, output is serviced only
  when there is no input, emission is retried with new nonces, and a callback
  sends while the last message is still provisional. Correct: both ends complete,
  read the same boundaries, never reject an honest echo, and report success only
  when their three messages are on their way.
- *Message transfer*: compression works against what the peer is assumed to
  remember; sends fail half way and are resumed; input ends anywhere; chunk sizes
  change between the chunks of a message. Correct: each chunk stream is a queue
  of whole messages.
- *Flow control*: both applications set windows and limits at any time, and a
  limit is answered by a window. Correct: when nothing is under way the ends
  agree.
- *Cache, assembler*: chunks of several messages alternate, are aborted, exceed
  limits. Correct: the cache knows the message in progress on each chunk stream,
  every byte is handed over once and in order, a buffer never serves two
  messages and none is lost.
- *Stream and remote calls*: a callback may register, call or send while its own
  list is walked; replies race their time limit; a callback that fails has its
  message handed over again. Correct: a reply reaches the callback of its call
  and no other, and a call waits until it is settled.
- *Sessions*: answers find no room and the request is handled again; the
  application refuses or asks to abort. Correct: a client is served only after
  the application accepted it, stream ids are never given twice, every call is
  answered.
- *Manager*: a callback changes the flags the loop has already read; one failing
  connection ends a round. Correct: pending output is always armed and gets out,
  and what a peer sends is received.
- *AMF*: names and values are pushed by separate calls that can each fail, and
  the bytes of an object arrive in pieces. Correct: the push interface builds
  complete objects, and what is written is read back.

`PROJECT.json` lists the hazards with their lines, those not covered by a
property yet included.

## Modules

    TxQueue          a bounded queue with a read and a write transaction
      RingBuffer     util/ringbuffer.c, implements TxQueue
        RingBufferApi     the same under all calls the header allows
        RingBufferRefinement  its struct stays well formed and implements TxQueue, proved
    Handshake        both ends of a connection up to CONNECT_SUCCESS
      MCHandshake    its settings of buffers and greetings
      HandshakeProofs
    MessageChannel   a queue of messages per chunk stream
      ChunkTransfer  one direction after the handshake, implements MessageChannel
        ChunkTransferProofs
    Reception        cache, service loop and assembler of one receiver
      MCReception    the residue of memory its cache finds
      ReceptionProofs
    StreamCalls      rtmp_stream at both ends: calls, replies, callbacks
      MCStreamCalls  two commands, one a prefix of the other
      StreamCallsProofs
    Session          rtmp_server and rtmp_client with their applications
      MCSession      the windows and limits the applications set
      SessionProofs
    Manager          rtmp_impl_epoll, its connections and their sockets
      MCManager      two connections
      ManagerProofs
    AmfObject        the push interface of an AMF object, its writer and reader
      AmfObjectProofs

Each module takes the one below it as what that one is checked to be:
`ChunkTransfer` has queues with transactions for buffers, `StreamCalls` and
`Session` have queues of whole messages for a connection (`MessageChannel`),
`Manager` counts whole messages.

### RingBuffer, TxQueue, RingBufferApi

`buf` is `struct ringbuffer`, field for field; the operators `GetWriteBuf`,
`CommitRead`, `CopyWrite`, `UnfreezeRead`, `Grow` and so on are the C functions,
from struct to struct, and the actions are their calls. `WriteInPlace` and
`ReadInPlace` are the socket loops' use of a segment followed by a commit.
Memory that was never written holds `Junk`. Bytes past the end of an array that
`realloc` enlarged are `Junk` too.

The guards of `Next` are what the users of the buffer in the library do: nobody
reads a buffer whose writes are frozen, reads are frozen only when there is
something to read (`rtmp_chunk_conn_service` looks at the count first), and a
buffer only grows (`send_message`, the assembler). `RingBufferApi` drops the
last two, which `ringbuffer.h` does not ask for.

`TxQueue` has no array: `committed` bytes, `staged` ones, and how many were
`taken`. The refinement mapping reads the first two off the array modulo its
size, and requires the result of every call to agree as well.

### Handshake

Message *i* of an endpoint is a run of units and the network moves single units,
so every message can arrive in pieces. The nonce and the time of message 1 are a
token. A failed attempt to write it draws a new one, as
`emit_shake_1` does before it knows whether there is room. `status` holds the six flags,
`running` says that the service loop has another turn to make; the socket loops
act only between two runs of it, as there is one thread per endpoint. `Emit`,
`EmitBlocked`, `Ingest` and `IngestBlocked` are the four handlers
`service_shake_{client,server}_{emit,ingest}` with their preconditions
(`MayEmit`, `MayIngest`). The CONNECT_SUCCESS callback may send one message:
fired by an emit it runs inside the service loop's write transaction and shares
its fate. `setting` is how the two ends were set up, per endpoint the size of its
buffers and the length of that greeting, chosen at the start from `Settings`.

### ChunkTransfer, MessageChannel

One direction of a connection that has completed its handshake. A unit is a
header field or a byte of payload. `EmitHdr` and `HeaderKinds`/`Header` are
`rtmp_chunk_emit_hdr` and `rtmp_chunk_read_hdr`, including their caches;
`WriteChunk` and `NoRoom` are the turns of the loop in
`rtmp_chunk_conn_send_message`; `Recv`, `RecvStarved` and `RecvPartial` are a turn of the
receiver's service loop, with `Issue` and `Obey` for the payload and the control
messages. Chunk sizes and aborts travel as messages on the control chunk stream
and are cut into chunks themselves. `accepted` and `delivered` are histories.
The network is FIFO and loses nothing (it is TCP), so what is in the sockets is
part of `out`.

A message with chunk stream 0 (`free`) goes out on the chunk stream that
`rtmp_cache_find` returns, which is always 4 (`Fourth`): the function clears that
entry and returns it, and the search behind it is never reached. `Previous` is
the entry a header is compressed against, `Blank` what is left of it here. The
first header of such a call is therefore a full one, at a resumption as well, and
as `rtmp_chunk_emit_hdr` stores the chunk stream it found in the message, the
other chunks of the call use the entry as those of any message do (`search`).

The user of the sender is held to what the code needs and does not check:
- a chunk stream has at most one unfinished message (the caller keeps `written`),
- `Orderly`: that goes for chunk stream 0 too, which is 4 under another name. The
  library does not keep to it: publish, unpublish and setdataframe of the client
  send for chunk stream 0 (`client.c:257`, `276`, `338`), videos go out on 4
  (`stream.c:481`), and one of them may be half sent. `ChunkZero.cfg` drops the
  restriction and has a message delivered that is mixed of the two,
- times do not run backwards on a chunk stream the message names (0, "keep the
  time", is allowed),
- `Careful`: a message is begun only if its first write has room. Without it the
  header cache is left behind by a rollback (`ChunkAgain.cfg`).

Three more constants select the behaviours that make the code fail, so that each
failure is a run of its own and the passing runs show what holds otherwise:
`SplitControl` lets input end right behind a control header (without it `Service`
waits for more: a restriction of the network, not a guard of the code; `Recv`
itself has none), `Verdicts` lets the chunk callback fail, and `Times` with two different increments or a time above
`Mark` reach the compression of times.
What a receiver makes of bytes it has misread is not modelled: `Service` requires
`Aligned`, and `Aligned` itself is checked as an invariant.

`MessageChannel` is one queue of whole messages per chunk stream with weak
fairness of delivery; under `Channel!Spec` every accepted message is delivered,
in order, once, and nothing else is.

### Reception

The chunks of one peer, from their headers to the stream's callback. `Get` is
`rtmp_cache_get` with the binary search of `alg_search_bin`, which answers with
the index it looked at last, found or not, and `Inserted` the insertion at that
index. Its value is the pointer the code keeps: the dynamic part afterwards and
the place in it, and `Found` and `Stored` read and write at that place. A chunk
is searched for twice, as in the code: `rtmp_chunk_read_hdr` writes the header
through the pointer of the first search (`flow.c:208`), and the service loop
counts through that of a second one (`conn.c:543`), while the message stays the
first. Where the second inserts again, `realloc` may have moved the first:
undefined, `aligned` turns false. `Squeezed` is what the insertion does when
something lies behind it:
`memmove` is told the number of entries where it wants the number of bytes
(`cache.c:76`), so the entry that was at the index keeps nothing but its id, and
the last one holds
`Residue`, what memory fresh from `realloc` may hold. `Chunk` and `RestOfChunk`
are `rtmp_chunk_conn_service_recv` and `_recv_partial` with `Issue` below them,
`GetBuffer`, `RmBuffer`, `Handed` and `Left` the assembler. A byte is known by
its message and its place in it, so that a lost, repeated or misplaced byte
shows. `heard` is the history of what the callback was given. Where the service
loop would take payload for a header or the reverse, `aligned` turns false and
stays false; `HandedInOrder` says it never does.

### StreamCalls

Both ends of a connection with their callback tables. One step of `Serve` is one
callback; `walk` is where an end stands in the tables it goes through for its
first message (`Plan`), so what a callback registers, calls or sends falls
between two steps of the walk over the list it changes. A verdict other than
CONTINUE puts the message back and the walk begins anew when the end is served
again; a pause does so as an error does, once the application resumes. `Complete` is
the part of `rtmp_stream_call_amf` for replies: the entry of a call goes when its callback continues
before the time limit. `Place` and `Posted` are `rtmp_stream_call2_va`, which
puts the call on the list before it is sent. `Handle` is a handler registered
with `reg_amf`, found by the prefix that `strncmp` compares (`NameFits`).

Two things the model keeps out, by constants:
- `Served`: two responding handlers that match one command, whose second answer
  does not fit, make the message come back for ever, each time with a first
  answer more. Only "play" responds; "play2" listens.
- `Callers`: both ends number their calls from 1 and a command of the peer with
  the number of an own call completes that call. `CallsCrossed.cfg` lets both
  ends call and finds `OwnReplyOnly` violated.

### Session

A client and a server after their handshake. `OnConnect`, `OnCreateStream`,
`OnPublish`, `OnFCPublish`, `OnReleaseStream` and `OnMedia` are the handlers
`rtmp_server_on*`, each with all its early returns: they yield the server's new
state, what is sent, and what an answer that does not fit is turned into. `Serve`
sends as much as fits and then does what the status says: take the message, leave
it to be handled again, or drop the input and close when the output is sent.
`Limited`, `ServeWindow` and part of `Receive` are
`rtmp_chunk_conn_service_recv_set_peer_bwidth` and `_ack_size` at either end.
`Call` are the functions of the client; `InOrder` is the order they are meant to
be called in, and `MaxAstray` allows calls out of it.

What the model shows of the code and does not call an error:
- the application of a connection is set before it is asked, and stays set when
  it refuses (`server.c:116`); `AcceptedFirst` holds because the refusal drops the
  input and closes;
- media before connect use an application that is not there (`life = "crashed"`),
- a stream is published whether or not it was created, and `onStatus` goes to
  message stream 1 whichever stream is published;
- with `RTMP_MAX_STREAMS` streams, createStream answers `_error` and fails, so
  that the request stays and is answered so again for ever; `MaxStreams` is above
  what the client asks for;
- a createStream whose `_result` fits and whose stream begin does not is answered
  twice (`SessionAnswers.cfg`, `AnsweredOnce`); the id of the first answer is one
  of the server's all the same.

The answer to the release of a stream does not exist in the code, which is why
`CallsAnswered` leaves it out.

### Manager

`Poll` to `DoneTaking` are a round of `rtmp_service` over the events epoll
reported, connection by connection; `HandleOut`, `HandleIn` and `HandleInput` are
the branches of `handle_stream`. `conn[c].flags` is what the manager believes it
watches and `armed` what the kernel watches; `turn.e` is the copy of the flags
that `handle_stream` makes before it services, which is stale once FILLED or EMPTIED
changed the flags. A unit is a message, answered by one message; a handler fails
or aborts, before it has answered or after. The second is how a server refuses a
client (`rtmp_server.c:152`): the _error is in the output, then the input is
cleared, and `FlushedBeforeClosed` is about that _error too. `Fail` ends the round as a failing
connection does, with the other events dropped. The refresh services every
connection and does not look at results. Sockets are bounded counters, peers
close or reset at any time, and the application connects, disconnects and sends
between rounds.

`ArmedForOutput` names one exception (`Choked`): input is not watched, as the in
buffer is full, or was when a handler that aborted at a refresh had it cleared.
Then a handler that fails after its answer was written has raised an event that
the stale copy undoes. Mostly the next service of that connection repairs it, at
the latest in a refresh. It does not in two cases, and the connection stays
`Deaf`: the stale copy drops EPOLLOUT while the flags keep it, so that FILLED finds
nothing to change; or the abort at a refresh emptied the input without an
EMPTIED event, so that nothing watches for input again. `OutputFlows` and
`InputTaken` hold for all connections but those that stay deaf for good
(`[]Deaf`). It takes several faults to get there: `ManagerFaults.cfg` (`MCManager`)
allows five on one connection and has all properties of the run hold, and in
`ManagerDeaf.cfg` the exception is left out and the property fails.

The listening socket is open from the start, and a callback does not close its own
stream: that frees what the round still uses.

### AmfObject

`Push`, `PushMember`, `PushStart`, `PushReference`, `PushEnd` and `PushAssocEnd` are
the push functions, from object to object with a result; the actions `Add...`,
`Start...` and `End` call them one by one, `List...` as `amf_push_simple` does, which
ends at the first push that fails. `Write` and `Read` are `amf_write` and `amf_read` with the AMF0
coders below them. The tree is flat, in the order of the pushes, and the wire is
a sequence of tokens. `amf_push_assoc_end`, reached through `amf_push_simple`, drops
the last associative member when a name waits, whichever name that is
(`WithoutLast`): behind a waiting ordinal name it takes a value that was given and
leaves the name, undefined. A member dropped this way keeps its place in the flat
tree, in the slot "gone"; it is not written. `GivenStays` and
`OnlyOrdinalsAreLeft` say that this is the only exception, `AmfOrdinals.cfg` that it
happens. Of numbers and strings only the type and the length are
kept; a 16-bit length goes through a signed number (`util/memutil.c:51`), so
`Lengths` is below 32768 or above 65535, where the long form is used
(`AmfStrings.cfg` has what lies between, and `RoundTrip` fails). Values the coder
does not support are written as nothing and are not pushed. A date is read by the
function that reads a double.

## Runs

Bounds are named in the modules (`MaxOp`, `MaxMessages`, ...) and set in the
`.cfg` files.

| Run | Shows |
|---|---|
| `ring_buffer` | `TypeOK`, `IndexInv`, `NoJunkInContent` and the refinement of `TxQueue`. Size 3 growing up to 5, calls of up to 3 bytes, 2 byte values: content wraps at every offset, grows while wrapped and while writes are pending, and every call is clipped. |
| `handshake` | four settings: buffers that a handshake message fills, at both ends or at one, with a greeting from the end that has room, and at neither with greetings of both. Success is never reported before the three messages are committed, boundaries agree, the echo always matches, both ends connect and the greetings arrive. |
| `chunk_transfer` | two chunk streams, two messages of one or three bytes, sent on one of them or for chunk stream 0, one change of the chunk size or one abort, a pause, buffers of 7 and 6 units, input that ends anywhere but right behind a control header: refines `MessageChannel` with its liveness; `Aligned`, `AgreeWhenQuiet`. |
| `chunk_headers` | three messages on one chunk stream, by its name or as chunk stream 0, with differing lengths, message streams and times: each of the four header forms follows each situation that leads to it. |
| `reception` | three chunk streams, one of them in the dynamic part of the cache, four messages that are as long as a buffer or twice that, aborts, and three buffers, the first of which serves only once: order and completeness of what is handed over, the cache and the buffers. |
| `reception_cache` | *violated*: two chunk streams in the dynamic part of the cache. |
| `calls` | a client that calls twice, handlers and reply callbacks with all four verdicts, one callback registered late, one message of another kind, a time limit that can pass: replies reach their calls, a call waits until it is settled, and served calls complete. |
| `manager` | two connections, two messages from the peers, one of the application, one fault, one peer that leaves: output armed and flowing, input taken, output sent before a close, aborts that close. |
| `manager_abort` | *violated*: an abort while the refresh services does not close. |
| `session` | an application and a name that is not registered, four calls of which one may be out of order, a window or limit, a callback that does not continue, an answer that does not fit: acceptance before service, ids, windows, and an answer to every call. |
| `amf_object` | objects of four values and two levels with every push function in every order, failing ones included: names, round trip, resumption between members, and what was given stays, but for what `amf_push_assoc_end` takes when an ordinal name waits. |
| `amf_resume` | *violated*: a read that ends between a name and its value. |

Beside the runs there are configurations that look at one thing that does not
hold each; they are named in the next section and are checked with
`tlc -config <name>.cfg <module>`.

Why the bounds are enough. The ring buffer depends on sizes only through
comparisons and a remainder; size 3 to 5 has each order of start, end, commit
point and limit. The handshake is finite; with two units a message can be
absent, partial or whole. In `chunk_transfer` a message of three bytes takes two
chunks at the default size of 2 and three at size 1, so that control messages,
other messages and blocked writes fall between them, and an out buffer of 7
holds one header of four fields with its chunk and no more. `Mark` and `WireMod`
shrink 0xFFFFFF and 2^32 where `ChunkExtendedTime.cfg` needs them and are out of
reach elsewhere. In `reception` a message is one or two chunks and one or two
buffers, all three chunk streams can be in progress at once, a released first
buffer makes the third of them one too many, and four messages use a released buffer and a cache
entry again. `calls` needs two calls for a reply to meet the wrong one, one
fault for a message to be handed over again, a time limit of one tick for it to
pass before, between and after, and two messages of room so that an answer may
not fit. `manager` needs two connections, as one failing must not harm the other,
an in buffer of one message for it to be full at once and an out buffer of two so
that an answer follows another; more faults are in `ManagerFaults.cfg`. `session` has one of each disturbance,
because each of them is retried and a second one meets the same state; room for
three messages is what the server sends at its start. In `amf_object` four values
with two levels have an empty and a filled container, a container next to
another, and a reference back; names all equal because nothing compares them.

The counts of the environment are bounded, so `Chunk*`, `Reception`, `StreamCalls`,
`Manager`, `Session` and `AmfObject` come to rest and their runs do not check for
deadlock; that what has begun does end is what their liveness says. `Handshake` never
rests: a turn of an idle service loop is a step that changes nothing, so its
deadlock check is void and `BothConnect` and `GreetingsArrive` take its place.

Fairness. Weak fairness of the service loop and of the socket loops: sockets are
watched by a level-triggered epoll loop, and `rtmp_service` services every
connection at the latest when its refresh interval of a second ends. Weak
fairness of the steps inside a send: a C function returns. `Unpause` is fair
because the liveness is promised only to who resumes. In `StreamCalls` and
`Session` it is `Serve`, and there `Receive` and `Close`, that stand for that
loop. In `Manager` the loop itself is modelled, and what is assumed is its caller:
the application calls `rtmp_service` again and again (`Handling`), time passes
(`Elapse`) and a peer reads what its socket has (`PeerReads`). `Poll` and
`BeginRefresh` are strongly fair because a round comes again and again in
which either is possible, and a round in which nothing is due ends at once and
leaves no trace in the model. No fairness is assumed of the application's sending,
calling, connecting or aborting, nor of peers that send or leave. `Reception` and
`AmfObject` state safety only.

## Disagreements between code and documentation

Those with a run are findings of `PROJECT.json`; the others have a configuration
of their own, with the property that it shows violated.

| Run or configuration | Where | What |
|---|---|---|
| `reception_cache` | `cache.c:76` | the insertion before an entry moves too few bytes: length, stream and count of the entry that is there are lost in the middle of its message |
| `manager_abort` | `epoll.c:313` | the refresh ignores an abort: input is dropped and the connection stays open |
| `amf_resume` | `amf/amf_object.c:352` | each call of `amf_read` begins with a name, also when the last one ended behind a name |
| `ReceptionSearch.cfg` (`MCReception`), `NoneRefused` | `util/algorithm.c:69`, `cache.c:101` | the search returns the index it looked at last: an id beyond a smaller one is inserted before it, and not found by the next search, which inserts it again: the cache is full with one chunk stream less |
| `RingBufferResize.cfg` (`RingBufferApi`), `ResizeTrimsOnlyTheStart` | `util/ringbuffer.c:182` | a shrinking resize keeps `start` although the content moved; the library never shrinks |
| `HandshakeRollback.cfg` (`MCHandshake`), `SuccessMeansShakeSent` | `conn.c:833` | nested transaction on the output buffer: a greeting that does not fit discards C2 |
| `ChunkTime.cfg`, `TimesArrive` | `flow.c:152`, `flow.c:218` | a header without a time means "same increment" to the sender and "increment 0" to the receiver |
| `ChunkExtendedTime.cfg`, `Aligned` | `flow.c:238`, `flow.c:190` | one end looks at the absolute time, the other at the increment |
| `ChunkDrift.cfg`, `Aligned` | `flow.c:144`, `flow.c:218` | a message with time 0 sets the sender's cache to 0 and leaves the receiver's as it is: the times added up there reach the mark of an extended time that nobody wrote |
| `ChunkAgain.cfg`, `MessagesArriveAsSent` | `conn.c:833`, `flow.c:161` | the buffer is rolled back, the cache is not |
| `ChunkZero.cfg`, `MessagesArriveAsSent` | `flow.c:129`, `cache.c:132` | a message for chunk stream 0 is sent on 4 while one on 4 is half sent: the receiver takes it for the rest of that one, and what it delivers is mixed of the two |
| `ChunkSplit.cfg`, `Aligned` | `conn.c:471` | `recv_cmd` fails when no payload is there yet |
| `ChunkCallback.cfg`, `MessagesArriveAsSent`; `ReceptionRetry.cfg` (`MCReception`), `HandedInOrder` | `conn.c:487` | the count is reduced before the callback runs and not restored: a message is cut short, or its bytes are taken for headers |
| `ManagerDeaf.cfg` (`MCManager`), `OutputAlwaysFlows` | `epoll.c:230` | handlers that fail behind a full in buffer leave a connection with output that is never sent |
| `CallsCrossed.cfg` (`MCStreamCalls`), `OwnReplyOnly` | `stream.c:72` | a command of the peer completes a call of the same number |
| `SessionAnswers.cfg` (`MCSession`), `AnsweredOnce` | `server.c:284` | createStream answers twice when its second message does not fit |
| `AmfOrdinals.cfg` (`AmfObject`), `GivenNeverTaken` | `amf/amf_object.c:711` | the end of the associative part drops the last associative member, a value that was given, when the name that waits is an ordinal one, and leaves that name |
| `AmfStrings.cfg` (`AmfObject`), `RoundTrip` | `util/memutil.c:51` | a 16-bit length is read as a signed number |

The `Chunk*.cfg` configurations are of `ChunkTransfer`.

## Proofs

Every theorem is about `Spec` of its module and holds for all values of the
constants that satisfy the module's named assumption (`SizesAssumption`,
`HandshakeAssumption`, ...): any sizes, any number of connections, messages, calls
and faults. Nothing else is assumed but the hypotheses that a theorem states
itself; each of these keeps out one thing the code gets wrong, and a
configuration shows that it is needed. The argument is always the same: none of
the properties is inductive, so each module has an `IndInv`, a conjunction of
named parts, with one lemma for each function or handler of the code and one for
each action.

| Module | Theorems | States |
|---|---|---|
| `RingBufferRefinement` | `TypeCorrect`, `IndicesInBounds`, `BufferIsAQueue`, `OnlyWrittenBytes` | `TypeOK`, `IndexInv`, `ImplementsTxQueue`, `NoJunkInContent` |
| `HandshakeProofs` | `TypeCorrect`, `EchoesPass`, `SuccessIsTrue`, `NothingIsMisread` | `TypeOK`, `HonestNeverRejected`, `SuccessMeansShakeSent` if `GreetingsFit`, `NothingMisread` |
| `ChunkTransferProofs` | `TypeCorrect`, `HeadersRead`, `EndsAgree`, `MessagesArrive`, `QueueOfMessages` | `TypeOK`, `Aligned`, `AgreeWhenQuiet`, `MessagesArriveAsSent` and the safety part of `ImplementsChannel`, all if `Undisturbed` |
| `ReceptionProofs` | `TypeCorrect`, `InOrder`, `WholeMessages`, `CacheKnows`, `NoBufferLost` | `TypeOK`, `HandedInOrder`, `WholeIfItFits`, `CacheRemembers`, `BuffersInUse`, all if `OneDynamic` and `NeverFails` |
| `StreamCallsProofs` | `TypeCorrect`, `WaitsUntilSettled`, `OneCallerIsAnswered` | `TypeOK`, `WaitingUntilSettled`, `OwnReplyOnly` if `OneCaller` |
| `SessionProofs` | `TypeCorrect`, `OnlyTheAccepted`, `StreamsAgree`, `NoEndMistaken` | `TypeOK`, `AcceptedFirst`, `IdsAgree`, `WindowsAgree` |
| `ManagerProofs` | `TypeCorrect`, `OutputArmed`, `FlushedFirst` | `TypeOK`, `ArmedForOutput`, `FlushedBeforeClosed` |
| `AmfObjectProofs` | `TypeCorrect`, `NoOtherNameIsLeft`, `NothingElseIsTaken` | `TypeOK`, `OnlyOrdinalsAreLeft`, `GivenStays` |

### Ring buffer

That a commit stays within bounds needs the array to have the length `size`
says, and that an unfreeze does needs pending bytes to exist only inside their
transaction. `IndInv`: the struct is `WellFormed` (fields, array, offsets) and
`Transactional` (pending implies frozen, and never both frozen), and the returned
count is a natural number. There is a lemma for each C function (`ClearOK` to
`GrowOK`). From `IndicesInBounds` every `memcpy` of `ringbuffer.c` stays inside its
array.

The refinement adds to it that what a transaction of reads or writes leaves
behind is accounted for (`Unemptied`) and that every place in use was written
(`Filled`); `OnlyWrittenBytes` is the latter. `Held(b, i)` is the byte *i* behind the
start of the content. A first group of lemmas says for each C function what it
does to the offsets and to `Held`, the only place where the remainder modulo `size`
is met (`Wrap`, `Place`, `Apart`); a second turns that into the sequences `Committed`
and `Staged` of the refinement mapping; and one lemma for each call finds the call
of `TxQueue` with the same result. Growing while wrapped, which moves two pieces of
the array, is one of them.

### Handshake

`StreamOK` is the core: what an end was sent equals, unit by unit, what it
has consumed, has in its buffer, what is on the way and what its peer still has
in the out buffer. `SentOK` gives the shape of that stream, and `FlagsOK` ties the six
flags of an end to how much of it was written and consumed. `TokensOK` says that
message 1 carries the token of its sender, although failed attempts to write it
draw new ones, and message 2 the one it answers, so that an honest echo matches.
`SuccessIsTrue` needs that the message of the callback fits beside the last
message of the handshake (`GreetingsFit`), else the nested transaction discards
both (`HandshakeRollback.cfg`).

### Message transfer

None of the properties looks at more than a few units of input, and none is
inductive: whether the next header will be read as it was written depends on what
the sender remembered when it wrote it, several chunks ago, and on what the
receiver makes of all the chunks in between. The invariant therefore speaks of a
*history* `h` of the direction: the chunks that were ever committed or staged, where
each of them ends on the wire, and the *view* a receiver has behind each of them
(`View`: per chunk stream the message, how much of it came and what is left, the
time; the chunk size; what was handed over). `IndInv` says that there is a history
that explains the state (`Explains`):

- `Traces`: each chunk can be understood with the view in front of it (`Follows`: a
  header leaves out only what that view has), and leads to the next view (`After`).
- `Carries`: the in buffer, the out buffer and what is staged are, in this order,
  the wire from the receiver's place to its end.
- `Sends` and `Calls`: the header cache of the sender and its unfinished messages,
  in a call or to be resumed, are what the last view has.
- `Receives`: the receiver has the view behind some chunk, or one in the middle of a
  chunk. Of the header it is reading its cache may have some fields already
  (`Upcoming`), because a header that has not arrived in full is read anew.

Beside it stand `Typed`, and `Roomy`: the room that `rtmp_chunk_conn_send_message`
looked for is still there for every chunk of a message sent whole. The lemmas
follow the code: what `rtmp_chunk_emit_hdr` writes (`FieldsAre`) fits the last view
(`PieceFollows`), what `rtmp_chunk_read_hdr` reads of any beginning of it is what
was written (`AlignedOK`), and what `Recv`, `RecvStarved` and `RecvPartial` make of
the units at hand is the view behind them. A step of the sender appends a chunk to
the history, one of the receiver goes on in it.

`MessagesArrive` follows because the views hand over more and more of the same
messages. With it each step is one of `MessageChannel` or leaves it alone
(`QueueOfMessages`): `Accept` is the commit of the last chunk of a message, `Hand` the
last call of the chunk callback for it.

The hypothesis `Undisturbed` has one clause for each of the ways in which the code
breaks these properties, and a configuration for each clause that shows it is
needed:

| Clause | Without it |
|---|---|
| `Careful`: a message is begun only if its first write has room | `ChunkAgain.cfg` |
| `Orderly`: chunk stream 0 is not used over an unfinished message on 4 | `ChunkZero.cfg` |
| `~SplitControl`: input does not end right behind a control header | `ChunkSplit.cfg` |
| `NeverFails`: the chunk callback does not fail | `ChunkCallback.cfg` |
| `TimesFit`: no time reaches `Mark`, ... | `ChunkExtendedTime.cfg` |
| ... nor do all times together where 0 ("keep the time") is among them | `ChunkDrift.cfg` |

The runs `chunk_transfer` and `chunk_headers` satisfy it. Its last clause is there
because a message with time 0 makes the sender's cache start anew from 0 while the
receiver's goes on: the latter may then reach `Mark`, at which `rtmp_chunk_read_hdr`
expects an extended time (`Drifts` bounds it by the messages begun, `Span`).

### Reception

`HeardOK`: what the callback was given of the message in progress on a chunk
stream is the beginning of it, in order. As long as the stream is open, `CacheOK`
says that the entry of a chunk stream knows what is left of its message, and
`BufferOK` that a message in progress has exactly one buffer, which holds what
arrived and was not handed over, and that no other has one. `aligned`, that no
payload is taken for a header, is part of `IndInv` because each of the others needs
it and it follows from `CacheOK` one turn earlier. The lemmas are about the binary
search and its insertion (`GetThere`: what is there is found again), about `GetBuffer` and `RmBuffer`, about pieces of messages
and one turn of the service loop (`TurnOK`).

Two hypotheses: `OneDynamic`, at most one chunk stream is in the dynamic part of the
cache, as the insertion before another entry destroys one (`ReceptionCache.cfg`)
and the search misses one that was inserted behind (`ReceptionSearch.cfg`);
and `NeverFails`, the callback does not fail, as the counts are not restored when
it does (`ReceptionRetry.cfg`). It may ask to abort.

### Calls

`NumbersOK` says that the list of calls that wait has each number once and holds
the numbers that were asked and not settled; erasing entries from a list that is
being walked keeps that. `AnswersOK`: where only one end issues calls, what it
receives with a number is a reply and what the other receives is not, which gives
`OwnReplyOnly`. Without `OneCaller` it is false (`CallsCrossed.cfg`). `TablesOK` and `WalkOK`
bound the walk over tables that callbacks extend.

### Sessions

`AcceptedOK`: the application of an open connection is one that accepted, since a
refusal closes. `StreamsOK` and `FirstOK`: the answers under way and those received
that carry a stream id carry different ones, all of streams the server made, and
a `_result` without one answers connect. `WindowsOK` says which window an end will
believe when the last acknowledgement size under way has arrived; with nothing
under way that is `WindowsAgree`.

### Manager

`Watched`: output is noted in the flags, and what is noted is watched, or `Choked`
holds. `Drained` and `Closing`: an aborted connection has no input, and no event still
to be handled and no copy of the flags still to be used brings it back, which is
why the manager does not close it before its output is sent (`FlushedFirst`, an
action property). `RoundOK` says what the events of a round may be.

### AMF objects

`Shape`: at each level up to the depth there is a container behind which everything
lies deeper (`Levels`), only the last entry may wait for its value and only ordinal
ones were left without (`Waits`), and references point to values that were given
(`Refers`). By `Levels` the recursion of
`amf_v_get_object` arrives at the container that is open (`OpenOK`), by a least
counterexample (`Least`), as the prover has no induction over operators. Each push
function is a lemma that says what it `Makes` of an object: the same shape, nothing
that was there changed but a value that was awaited. `amf_push_assoc_end` either
does that or `Leaves` a name, which costs the last associative member
(`WithoutLastOK`). `GivenStays`, an action property, follows.

### Only model-checked

- Liveness under fairness and ENABLED, which the prover cannot express: `BothConnect`,
  `GreetingsArrive`, `CallsComplete`, `CallsAnswered`, `OutputFlows`, `InputTaken`,
  `AbortWhileReadingCloses`, and of `ImplementsChannel` the fairness of
  `MessageChannel`: that what was accepted is delivered in the end.
- `RoundTrip` and `ResumesBetweenMembers` of `AmfObject`: what a recursion over the tokens
  computes needs induction over data.

## Not modelled

- URL parser: a sequential parser without state between calls; unit tests reach
  it better. Printing, names, allocation, `ieee754_double.c`: pure helpers. The
  back ends for `poll`, `select` and `wsapoll` are empty shells.
- Basic headers of two and three bytes: a chunk stream is an identity, its number
  of header bytes is not modelled.
- Callbacks for FILLED and EMPTIED that fail; their status takes the place of the
  handler's (`conn.c:624`). The library's own never fail. The event and log
  callbacks of streams only forward.
- `rtmp_cache_reset`: called when a turn of the handshake could not emit
  (`conn.c:634`); no header was sent before that, so there is nothing to forget.
  `rtmp_cache_match` and the search behind the first return of `rtmp_cache_find`
  (`cache.c:136`) are never reached.
- `acknowledge`: its body is empty (`conn.c:702`) although the header says what it
  sends, and no sender waits for one.
- What a caller does between two attempts of a resumed `rtmp_stream_send`, which
  keeps the encoded form in one scratch per stream (`stream.c:457`);
  `StreamCalls` sends whole messages.
- `deleteStream` and `unpublish` of the client, which no server handler takes; the
  `paused` state of streams; reference counts.
- `rtmp_listen`, `rtmp_destroy`, and system calls that fail for lack of resources.
- Of AMF objects the getters, comparison and printing, the memory (references keep
  pointers that go stale when a vector grows, `amf/amf_object.c:674`; the slot of
  `amf_push_string_alloc`), the bytes of numbers and strings, and AMF3.

## Plan

The modules of the plan are written and the safety properties that the runs check
are theorems, but for the two of `AmfObject` named above. What could follow:
the byte counts and the acknowledgement once `acknowledge` sends one, the scratch of
resumed sends (`stream.c:457`) in `StreamCalls`, and theorems without a hypothesis of
`Undisturbed`, `OneDynamic`, `OneCaller` or `GreetingsFit` as the code behind it is
corrected.
